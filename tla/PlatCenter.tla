----------------------------- MODULE PlatCenter -----------------------------
(***************************************************************************)
(* The management web site (NewPlatCenter): requests against a database    *)
(* whose tables refer to each other without foreign keys.  A handler is a  *)
(* sequence of database round trips, a query or a SaveChanges each, and    *)
(* the round trips of requests of different sessions interleave.           *)
(*                                                                         *)
(* A SaveChanges is one transaction: it writes the rows its context        *)
(* tracks, all columns of each, and fails as a whole when a row it updates *)
(* or deletes is gone.  A request ends early (an exception, a recycled     *)
(* worker process) between any two round trips, and a save that is rolled  *)
(* back still uses up the ids its inserts were given (SQL Server).         *)
(*                                                                         *)
(* Ids come from the pages of the console, which may be old: they have     *)
(* been given out at some time, and no handler looks them up first.        *)
(*                                                                         *)
(* Columns nothing refers to (names, passwords, ports) are left out, and   *)
(* with them the handlers that change nothing else: EditArea,              *)
(* EditAccountGroup, EditAccount.  EditDevice stays: it writes the whole   *)
(* row back.                                                               *)
(***************************************************************************)
EXTENDS Integers, FiniteSets

CONSTANTS
    Requests,   \* sessions; ASP.NET runs one request of a session at a time
    Ops,        \* the handlers the console calls in this instance
    Serials,    \* serial numbers of servers
    HtmlDecode, \* what HttpUtility.HtmlDecode makes of a serial number
    Limit       \* bound: the rows ever inserted into each table

Tables == {"admins", "areas", "groups", "accounts", "links", "devices", "servers"}
Kinds == {"core", "live"}   \* S_Type 0 and 1

Handlers ==
    {"Index", "AddArea", "DeleteArea", "AddDevice", "EditDevice", "EditDeviceArea",
     "DeleteDevice", "AddAccountGroup", "DeleteAccountGroup", "AddAccount", "DeleteAccount",
     "AccountGroupDeviceEdit", "DeleteAccountGroupDevice", "AddServer", "DeleteServer",
     "ServerDeviceEdit", "ServerDeviceDelete"}

ASSUME OpsAssumption == Ops \subseteq Handlers
ASSUME SerialsAssumption == Serials \subseteq Nat \ {0}
ASSUME HtmlDecodeAssumption == HtmlDecode \in [Serials -> Serials]
ASSUME LimitAssumption == Limit \in [Tables -> Nat]

VARIABLES
    db,       \* the tables: id -> row
    issued,   \* the last id each table's identity column gave out
    req,      \* the request each session runs, with what its context tracks
    alone     \* history: has no other session written since this one's call?

vars == <<db, issued, req, alone>>

-----------------------------------------------------------------------------
(* Rows and the requests' local state *)

None == <<>>   \* the empty table: no id has a row

Idle == [op |-> "none", at |-> "start", id |-> 0, to |-> 0, kind |-> "core",
         todo |-> {}, rows |-> None, dels |-> {}]

Row(t) ==
    CASE t = "areas"    -> [parent : 0..Limit["areas"], root : BOOLEAN]
      [] t = "accounts" -> [gid : 1..Limit["groups"]]
      [] t = "links"    -> [gid : 1..Limit["groups"], did : 1..Limit["devices"]]
      [] t = "devices"  -> [area : 1..Limit["areas"],
                            core : 0..Limit["servers"], live : 0..Limit["servers"]]
      [] t = "servers"  -> [kind : Kinds, serial : Serials]
      [] OTHER          -> {"row"}

\* a table with one row added or replaced, and a table without some rows
With(f, id, row) == [x \in DOMAIN f \cup {id} |-> IF x = id THEN row ELSE f[x]]
Without(f, S) == [x \in DOMAIN f \ S |-> f[x]]

Init ==
    /\ db = [t \in Tables |-> None]
    /\ issued = [t \in Tables |-> 0]
    /\ req = [r \in Requests |-> Idle]
    /\ alone = [r \in Requests |-> TRUE]

-----------------------------------------------------------------------------
(* Round trips *)

At(r, op, at) == req[r].op = op /\ req[r].at = at

Return(r) == req' = [req EXCEPT ![r] = Idle]

Reads == UNCHANGED <<db, issued>>   \* a query

Fails(r) == Return(r) /\ Reads      \* the save throws: nothing is written

Insert(t, row) ==
    /\ issued[t] < Limit[t]
    /\ issued' = [issued EXCEPT ![t] = @ + 1]
    /\ db' = [db EXCEPT ![t] = With(@, issued[t] + 1, row)]

\* the tracked devices are written back, and the marked links deleted, if all
\* of them still exist
CanSave(r) ==
    /\ DOMAIN req[r].rows \subseteq DOMAIN db.devices
    /\ req[r].dels \subseteq DOMAIN db.links

Saved(r) ==
    [db EXCEPT !.devices = [d \in DOMAIN @ |-> IF d \in DOMAIN req[r].rows
                                                 THEN req[r].rows[d] ELSE @[d]],
               !.links = Without(@, req[r].dels)]

Save(r) ==
    /\ db' = Saved(r)
    /\ UNCHANGED issued

-----------------------------------------------------------------------------
(* The requests the console sends.  A page shows rows that existed when it *)
(* was made; of a server it also knows the kind.                           *)

Shown(t) == 1..issued[t]

ShownServers ==
    {s \in [id : Shown("servers"), kind : Kinds] :
        s.id \in DOMAIN db.servers => db.servers[s.id].kind = s.kind}

Send(id, to, kind, todo) ==
    [Idle EXCEPT !.id = id, !.to = to, !.kind = kind, !.todo = todo]

Inputs(op) ==
    CASE op \in {"Index", "AddAccountGroup"} -> {Idle}
      [] op \in {"AddArea", "DeleteArea", "AddDevice"} ->
            {Send(a, 0, "core", {}) : a \in Shown("areas")}
      [] op \in {"EditDevice", "DeleteDevice"} ->
            {Send(d, 0, "core", {}) : d \in Shown("devices")}
      [] op = "EditDeviceArea" ->
            {Send(d, a, "core", {}) : d \in Shown("devices"), a \in Shown("areas")}
      [] op \in {"DeleteAccountGroup", "AddAccount"} ->
            {Send(g, 0, "core", {}) : g \in Shown("groups")}
      [] op = "DeleteAccount" -> {Send(a, 0, "core", {}) : a \in Shown("accounts")}
      [] op = "AccountGroupDeviceEdit" ->
            {Send(g, 0, "core", D) : g \in Shown("groups"), D \in SUBSET Shown("devices")}
      [] op = "DeleteAccountGroupDevice" ->
            {Send(g, d, "core", {}) : g \in Shown("groups"), d \in Shown("devices")}
      [] op = "AddServer" -> {Send(n, 0, k, {}) : n \in Serials, k \in Kinds}
      [] op = "DeleteServer" -> {Send(s.id, 0, s.kind, {}) : s \in ShownServers}
      [] op = "ServerDeviceEdit" ->
            {Send(s.id, 0, s.kind, D) : s \in ShownServers, D \in SUBSET Shown("devices")}
      [] op = "ServerDeviceDelete" ->
            {Send(d, 0, k, {}) : d \in Shown("devices"), k \in Kinds}

Call(r) ==
    /\ req[r] = Idle
    /\ \E op \in Ops : \E in \in Inputs(op) :
          /\ op = "Index" \/ db.admins # None   \* the console's pages need a login
          /\ req' = [req EXCEPT ![r] = [in EXCEPT !.op = op]]
    /\ Reads

\* An exception outside the saves: the database is away, the process recycled
Abort(r) ==
    /\ req[r] # Idle
    /\ Fails(r)

\* The tables the next save of a request inserts into
InsertsInto(q) ==
    CASE q.op = "Index" /\ q.at = "save"     -> {"admins", "areas", "groups"}
      [] q.op = "AddArea"                    -> {"areas"}
      [] q.op = "AddDevice"                  -> {"devices"}
      [] q.op = "AddAccountGroup"            -> {"groups"}
      [] q.op = "AddAccount"                 -> {"accounts"}
      [] q.op = "AddServer" /\ q.at = "save" -> {"servers"}
      [] q.op = "AccountGroupDeviceEdit" /\ q.at = "next" /\ q.todo # {} -> {"links"}
      [] OTHER                               -> {}

\* A save fails after some of its inserts: what they wrote is rolled back, the
\* identity columns are not
RollBack(r) ==
    /\ \E T \in (SUBSET InsertsInto(req[r])) \ {{}} :
          /\ \A t \in T : issued[t] < Limit[t]
          /\ issued' = [t \in Tables |-> IF t \in T THEN issued[t] + 1 ELSE issued[t]]
    /\ UNCHANGED db
    /\ Return(r)

-----------------------------------------------------------------------------
(* LoginController *)

IndexCheck(r) ==
    /\ At(r, "Index", "start")
    /\ Reads
    /\ \/ /\ db.admins = None
          /\ req' = [req EXCEPT ![r].at = "save"]
       \/ /\ db.admins # None
          /\ Return(r)

\* one SaveChanges inserts the administrator, the root area, the default group
IndexSave(r) ==
    /\ At(r, "Index", "save")
    /\ \A t \in {"admins", "areas", "groups"} : issued[t] < Limit[t]
    /\ issued' = [issued EXCEPT !.admins = @ + 1, !.areas = @ + 1, !.groups = @ + 1]
    /\ db' = [db EXCEPT
                !.admins = With(@, issued.admins + 1, "row"),
                !.areas  = With(@, issued.areas + 1, [parent |-> 0, root |-> TRUE]),
                !.groups = With(@, issued.groups + 1, "row")]
    /\ Return(r)

-----------------------------------------------------------------------------
(* HomeController: areas *)

AddArea(r) ==
    /\ At(r, "AddArea", "start")
    /\ Insert("areas", [parent |-> req[r].id, root |-> FALSE])
    /\ Return(r)

Children(id) == {a \in DOMAIN db.areas : db.areas[a].parent = id}

DeleteAreaCheck(r) ==
    /\ At(r, "DeleteArea", "start")
    /\ Reads
    /\ \/ /\ req[r].id # 1
          /\ Children(req[r].id) = {}
          /\ req' = [req EXCEPT ![r].at = "devices"]
       \/ /\ req[r].id = 1 \/ Children(req[r].id) # {}
          /\ Return(r)

\* the area's devices, to be moved to area 1
DeleteAreaDevices(r) ==
    /\ At(r, "DeleteArea", "devices")
    /\ LET D == {d \in DOMAIN db.devices : db.devices[d].area = req[r].id}
       IN  req' = [req EXCEPT ![r].at = "links",
                              ![r].todo = D,
                              ![r].rows = [d \in D |-> [db.devices[d] EXCEPT !.area = 1]]]
    /\ Reads

\* one query per moved device: its links to groups are marked for deletion
DeleteAreaLinks(r) ==
    /\ At(r, "DeleteArea", "links")
    /\ \E d \in req[r].todo :
          req' = [req EXCEPT ![r].todo = @ \ {d},
                             ![r].dels = @ \cup {l \in DOMAIN db.links : db.links[l].did = d}]
    /\ Reads

\* Find, Remove and the only SaveChanges
DeleteAreaSave(r) ==
    /\ At(r, "DeleteArea", "links")
    /\ req[r].todo = {}
    /\ IF CanSave(r) /\ req[r].id \in DOMAIN db.areas
       THEN /\ db' = [Saved(r) EXCEPT !.areas = Without(@, {req[r].id})]
            /\ UNCHANGED issued
            /\ Return(r)
       ELSE Fails(r)

-----------------------------------------------------------------------------
(* HomeController: devices *)

\* Variant: the area of the new device is forgotten.
AddDevice_NoArea(r) ==
    /\ At(r, "AddDevice", "start")
    /\ Insert("devices", [area |-> 0, core |-> 0, live |-> 0])
    /\ Return(r)

AddDevice(r) ==
    /\ At(r, "AddDevice", "start")
    /\ Insert("devices", [area |-> req[r].id, core |-> 0, live |-> 0])
    /\ Return(r)

\* A handler that finds one device and will save the row this query returned,
\* with the change it makes
TrackDevice(r, row) ==
    /\ Reads
    /\ IF req[r].id \in DOMAIN db.devices
       THEN req' = [req EXCEPT ![r].at = "save", ![r].rows = [d \in {req[r].id} |-> row]]
       ELSE Return(r)

Found(r) == db.devices[req[r].id]

SaveDevices(r) ==
    IF CanSave(r) THEN Save(r) /\ Return(r) ELSE Fails(r)

EditDeviceFind(r) ==
    /\ At(r, "EditDevice", "start")
    /\ TrackDevice(r, Found(r))

\* Variant: a row that is gone is inserted again.
EditDeviceSave_AddOrUpdate(r) ==
    /\ At(r, "EditDevice", "save")
    /\ db' = [db EXCEPT !.devices = [d \in DOMAIN @ \cup DOMAIN req[r].rows |->
                 IF d \in DOMAIN req[r].rows THEN req[r].rows[d] ELSE @[d]]]
    /\ UNCHANGED issued
    /\ Return(r)

EditDeviceSave(r) ==
    /\ At(r, "EditDevice", "save")
    /\ SaveDevices(r)

EditDeviceAreaFind(r) ==
    /\ At(r, "EditDeviceArea", "start")
    /\ TrackDevice(r, [Found(r) EXCEPT !.area = req[r].to])

EditDeviceAreaSave(r) ==
    /\ At(r, "EditDeviceArea", "save")
    /\ SaveDevices(r)

\* A query for links, to be deleted; an empty result needs no save
MarkLinks(r, L) ==
    /\ Reads
    /\ req' = [req EXCEPT ![r].dels = L, ![r].at = IF L = {} THEN "next" ELSE "unlink"]

\* the SaveChanges that deletes them
Unlink(r) ==
    IF CanSave(r)
    THEN /\ Save(r)
         /\ req' = [req EXCEPT ![r].dels = {}, ![r].at = "next"]
    ELSE Fails(r)

\* Find, Remove, SaveChanges: fails when the row is gone
RemoveRow(r, t) ==
    IF req[r].id \in DOMAIN db[t]
    THEN /\ db' = [db EXCEPT ![t] = Without(@, {req[r].id})]
         /\ UNCHANGED issued
         /\ Return(r)
    ELSE Fails(r)

\* Variant: the links are left to a later step that nobody wrote.
DeleteDeviceLinks_Skip(r) ==
    /\ At(r, "DeleteDevice", "start")
    /\ MarkLinks(r, {})

DeleteDeviceLinks(r) ==
    /\ At(r, "DeleteDevice", "start")
    /\ MarkLinks(r, {l \in DOMAIN db.links : db.links[l].did = req[r].id})

DeleteDeviceUnlink(r) ==
    /\ At(r, "DeleteDevice", "unlink")
    /\ Unlink(r)

DeleteDeviceRemove(r) ==
    /\ At(r, "DeleteDevice", "next")
    /\ RemoveRow(r, "devices")

-----------------------------------------------------------------------------
(* AccountGroupsController *)

AddAccountGroup(r) ==
    /\ At(r, "AddAccountGroup", "start")
    /\ Insert("groups", "row")
    /\ Return(r)

LinksOfGroup(gid) == {l \in DOMAIN db.links : db.links[l].gid = gid}

DeleteAccountGroupLinks(r) ==
    /\ At(r, "DeleteAccountGroup", "start")
    /\ IF req[r].id = 1 THEN Fails(r) ELSE MarkLinks(r, LinksOfGroup(req[r].id))

DeleteAccountGroupUnlink(r) ==
    /\ At(r, "DeleteAccountGroup", "unlink")
    /\ Unlink(r)

DeleteAccountGroupRemove(r) ==
    /\ At(r, "DeleteAccountGroup", "next")
    /\ RemoveRow(r, "groups")

AddAccount(r) ==
    /\ At(r, "AddAccount", "start")
    /\ Insert("accounts", [gid |-> req[r].id])
    /\ Return(r)

DeleteAccount(r) ==
    /\ At(r, "DeleteAccount", "start")
    /\ RemoveRow(r, "accounts")

\* Variant: the group's links are not removed first.
AccountGroupDeviceEditLinks_Skip(r) ==
    /\ At(r, "AccountGroupDeviceEdit", "start")
    /\ MarkLinks(r, {})

\* every link of the group is deleted, then each device linked by its own save
AccountGroupDeviceEditLinks(r) ==
    /\ At(r, "AccountGroupDeviceEdit", "start")
    /\ MarkLinks(r, LinksOfGroup(req[r].id))

AccountGroupDeviceEditUnlink(r) ==
    /\ At(r, "AccountGroupDeviceEdit", "unlink")
    /\ Unlink(r)

AccountGroupDeviceEditAdd(r) ==
    /\ At(r, "AccountGroupDeviceEdit", "next")
    /\ \E d \in req[r].todo :
          /\ Insert("links", [gid |-> req[r].id, did |-> d])
          /\ req' = [req EXCEPT ![r].todo = @ \ {d}]

AccountGroupDeviceEditReturn(r) ==
    /\ At(r, "AccountGroupDeviceEdit", "next")
    /\ req[r].todo = {}
    /\ Return(r)
    /\ Reads

DeleteAccountGroupDeviceLinks(r) ==
    /\ At(r, "DeleteAccountGroupDevice", "start")
    /\ MarkLinks(r, {l \in LinksOfGroup(req[r].id) : db.links[l].did = req[r].to})

DeleteAccountGroupDeviceUnlink(r) ==
    \/ /\ At(r, "DeleteAccountGroupDevice", "unlink")
       /\ Unlink(r)
    \/ /\ At(r, "DeleteAccountGroupDevice", "next")
       /\ Return(r)
       /\ Reads

-----------------------------------------------------------------------------
(* ServersController: core and live servers have handlers of the same shape *)

AddServerCheck(r) ==
    /\ At(r, "AddServer", "start")
    /\ Reads
    /\ IF \E s \in DOMAIN db.servers : db.servers[s] = [kind |-> req[r].kind, serial |-> req[r].id]
       THEN Return(r)
       ELSE req' = [req EXCEPT ![r].at = "save"]

AddServerSave(r) ==
    /\ At(r, "AddServer", "save")
    /\ Insert("servers", [kind |-> req[r].kind, serial |-> HtmlDecode[req[r].id]])
    /\ Return(r)

DeleteServerFind(r) ==
    /\ At(r, "DeleteServer", "start")
    /\ Reads
    /\ IF req[r].id \in DOMAIN db.servers
       THEN req' = [req EXCEPT ![r].at = "devices"]
       ELSE Return(r)

\* Variant: the devices are changed and not saved.
DeleteServerDevices_Unsaved(r) ==
    /\ At(r, "DeleteServer", "devices")
    /\ Reads
    /\ req' = [req EXCEPT ![r].at = "next"]

\* the devices that use the server as one of its kind, to be set to 0
DeleteServerDevices(r) ==
    /\ At(r, "DeleteServer", "devices")
    /\ Reads
    /\ LET k == req[r].kind
           D == {d \in DOMAIN db.devices : db.devices[d][k] = req[r].id}
       IN  req' = [req EXCEPT ![r].rows = [d \in D |-> [db.devices[d] EXCEPT ![k] = 0]],
                              ![r].at = IF D = {} THEN "next" ELSE "save"]

DeleteServerDetach(r) ==
    /\ At(r, "DeleteServer", "save")
    /\ IF CanSave(r)
       THEN /\ Save(r)
            /\ req' = [req EXCEPT ![r].rows = None, ![r].at = "next"]
       ELSE Fails(r)

DeleteServerRemove(r) ==
    /\ At(r, "DeleteServer", "next")
    /\ RemoveRow(r, "servers")

\* Variant: the handler of live servers is a copy that still writes the core server.
ServerDeviceEditFind_Core(r) ==
    /\ At(r, "ServerDeviceEdit", "start")
    /\ Reads
    /\ \E d \in req[r].todo :
          req' = [req EXCEPT ![r].todo = @ \ {d},
                             ![r].rows = IF d \in DOMAIN db.devices
                                         THEN With(@, d, [db.devices[d] EXCEPT !.core = req[r].id])
                                         ELSE @]

\* one query per device; a device that is gone is skipped
ServerDeviceEditFind(r) ==
    /\ At(r, "ServerDeviceEdit", "start")
    /\ Reads
    /\ \E d \in req[r].todo :
          req' = [req EXCEPT ![r].todo = @ \ {d},
                             ![r].rows = IF d \in DOMAIN db.devices
                                         THEN With(@, d, [db.devices[d] EXCEPT ![req[r].kind] = req[r].id])
                                         ELSE @]

ServerDeviceEditSave(r) ==
    /\ At(r, "ServerDeviceEdit", "start")
    /\ req[r].todo = {}
    /\ SaveDevices(r)

ServerDeviceDeleteFind(r) ==
    /\ At(r, "ServerDeviceDelete", "start")
    /\ TrackDevice(r, [Found(r) EXCEPT ![req[r].kind] = 0])

ServerDeviceDeleteSave(r) ==
    /\ At(r, "ServerDeviceDelete", "save")
    /\ SaveDevices(r)

-----------------------------------------------------------------------------
(* Specification *)

Login(r) == IndexCheck(r) \/ IndexSave(r)

Areas(r) ==
    \/ AddArea(r) \/ DeleteAreaCheck(r) \/ DeleteAreaDevices(r) \/ DeleteAreaLinks(r)
    \/ DeleteAreaSave(r)

Devices(r) ==
    \/ AddDevice(r) \/ EditDeviceFind(r) \/ EditDeviceSave(r) \/ EditDeviceAreaFind(r)
    \/ EditDeviceAreaSave(r) \/ DeleteDeviceLinks(r) \/ DeleteDeviceUnlink(r)
    \/ DeleteDeviceRemove(r)

AccountGroups(r) ==
    \/ AddAccountGroup(r) \/ DeleteAccountGroupLinks(r) \/ DeleteAccountGroupUnlink(r)
    \/ DeleteAccountGroupRemove(r) \/ AddAccount(r) \/ DeleteAccount(r)
    \/ AccountGroupDeviceEditLinks(r) \/ AccountGroupDeviceEditUnlink(r)
    \/ AccountGroupDeviceEditAdd(r) \/ AccountGroupDeviceEditReturn(r)
    \/ DeleteAccountGroupDeviceLinks(r) \/ DeleteAccountGroupDeviceUnlink(r)

Servers(r) ==
    \/ AddServerCheck(r) \/ AddServerSave(r) \/ DeleteServerFind(r) \/ DeleteServerDevices(r)
    \/ DeleteServerDetach(r) \/ DeleteServerRemove(r) \/ ServerDeviceEditFind(r)
    \/ ServerDeviceEditSave(r) \/ ServerDeviceDeleteFind(r) \/ ServerDeviceDeleteSave(r)

Step(r) ==
    \/ Call(r) \/ Abort(r) \/ RollBack(r)
    \/ Login(r) \/ Areas(r) \/ Devices(r) \/ AccountGroups(r) \/ Servers(r)

\* A session is alone again when its request ends
Observe(r) ==
    alone' = [s \in Requests |-> req'[s] = Idle \/ (alone[s] /\ (s = r \/ db' = db))]

Next == \E r \in Requests : Step(r) /\ Observe(r)

Spec == Init /\ [][Next]_vars

-----------------------------------------------------------------------------
(* Properties *)

\* The tables hold rows of their columns under ids their identity gave out,
\* and a request tracks rows of the devices table.
TypeOK ==
    /\ issued \in [Tables -> Nat]
    /\ DOMAIN db = Tables
    /\ \A t \in Tables :
          /\ issued[t] <= Limit[t]
          /\ \A i \in DOMAIN db[t] : i \in 1..issued[t] /\ db[t][i] \in Row(t)
    /\ DOMAIN req = Requests
    /\ \A r \in Requests :
          /\ req[r].op \in Ops \cup {"none"}
          /\ req[r].kind \in Kinds
          /\ req[r].dels \subseteq 1..issued.links
          /\ DOMAIN req[r].rows \subseteq 1..issued.devices
          /\ \A d \in DOMAIN req[r].rows : req[r].rows[d] \in Row("devices")

\* "the default area is certainly 1" (HomeController.cs:99): as soon as somebody
\* can log in there is the area 1 that DeleteArea moves devices to.
DefaultArea == db.admins # None => 1 \in DOMAIN db.areas

\* Nothing can close a circle of areas, under which AreasJsonTree would never
\* reach its end or leave the circle out: an area is younger than its parent.
NoCircle == \A a \in DOMAIN db.areas : db.areas[a].parent < a

\* A row that was deleted stays deleted: no save of a row read earlier brings it
\* back, and no id is given out twice, however requests overlap.
DeletedForGood ==
    [][\A t \in Tables : \A i \in 1..issued[t] : i \notin DOMAIN db[t] => i \notin DOMAIN db'[t]]_vars

\* A device may be left with the id of a server that is gone (requests overlap, or
\* a page is old), never with the id of a server of the other kind.
NoWrongKind ==
    \A d \in DOMAIN db.devices, k \in Kinds :
        db.devices[d][k] \in DOMAIN db.servers => db.servers[db.devices[d][k]].kind = k

\* Session r takes a step, and nobody else has written since its call
ActsAlone(r) == alone[r] /\ req'[r] # req[r]

Gone(t) == DOMAIN db[t] \ DOMAIN db'[t]

\* A handler that deletes an area, a device or a group takes along what refers to it
\* (of a group, the links; its accounts stay), in however many saves and whatever
\* was left by handlers that died, unless another session has written meanwhile:
\* the tables have no foreign key.
NothingLeftBehind ==
    [][\A r \in Requests : ActsAlone(r) =>
        /\ \A a \in Gone("areas") :
              /\ \A b \in DOMAIN db'.areas : db'.areas[b].parent # a
              /\ \A d \in DOMAIN db'.devices : db'.devices[d].area # a
        /\ \A d \in Gone("devices") : \A l \in DOMAIN db'.links : db'.links[l].did # d
        /\ \A g \in Gone("groups") : \A l \in DOMAIN db'.links : db'.links[l].gid # g]_vars

\* A server is deleted when no device names it any more, in either column, although the
\* page that named its kind may be old, unless another session has written meanwhile.
ServersDetached ==
    [][\A r \in Requests : ActsAlone(r) =>
        \A s \in Gone("servers") : \A d \in DOMAIN db'.devices, k \in Kinds :
            db'.devices[d][k] # s]_vars

\* The devices a request for the group asked for and has not linked yet, with
\* those it linked, once each, are the group's devices when the handler returns.
EditInstalls(r) ==
    At(r, "AccountGroupDeviceEdit", "next") =>
        /\ \A l, m \in LinksOfGroup(req[r].id) :
              db.links[l].did = db.links[m].did => l = m
        /\ \A l \in LinksOfGroup(req[r].id) : db.links[l].did \notin req[r].todo

\* The groups follow what a handler was asked to do, at every step of it, unless
\* another session has written meanwhile: an edit installs the list it was given, and
\* a device that leaves an area because the area is deleted leaves all groups.
GroupsFollow ==
    [][\A r \in Requests :
        /\ alone'[r] => EditInstalls(r)'
        /\ ActsAlone(r) => \A d \in DOMAIN db.devices \cap DOMAIN db'.devices :
              db'.devices[d].area # db.devices[d].area /\ Gone("areas") # {}
                 => \A l \in DOMAIN db'.links : db'.links[l].did # d]_vars

\* "Created with the administrator, cannot be deleted": an area whose Ar_Admin
\* is 1 stays.
RootStays ==
    [][\A a \in DOMAIN db.areas : db.areas[a].root => a \in DOMAIN db'.areas]_vars

=============================================================================
