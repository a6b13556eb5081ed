------------------------ MODULE PlatCenterAloneProofs ------------------------
(***************************************************************************)
(* Proofs about what the handlers of PlatCenter promise in a database      *)
(* without foreign keys, for any number of sessions, every set of handlers *)
(* and every bound on the tables: a handler that deletes or installs rows  *)
(* in several saves does it completely, whatever died before it and        *)
(* however old its page is, unless another session has written since the   *)
(* request was sent.                                                       *)
(***************************************************************************)
EXTENDS PlatCenterProofs

\* What the round trips of a handler have established in tables d, on which the
\* rest of it relies.

\* DeleteArea: the area has no children, its devices are tracked as area 1's, and
\* the links of those already asked for are marked.
AreaPlan(q, d) ==
    q.op = "DeleteArea" /\ q.at # "start" =>
        /\ q.id # 1 /\ \A a \in DOMAIN d.areas : d.areas[a].parent # q.id
        /\ q.at = "links" =>
              /\ \A i \in DOMAIN q.rows : q.rows[i].area = 1
              /\ \A i \in DOMAIN d.devices : d.devices[i].area = q.id => i \in DOMAIN q.rows
              /\ \A l \in DOMAIN d.links : d.links[l].did \in DOMAIN q.rows \ q.todo => l \in q.dels

\* The links a handler has to delete before it goes on.
Bound(q, d) ==
    CASE q.op = "DeleteDevice" -> {l \in DOMAIN d.links : d.links[l].did = q.id}
      [] q.op \in {"DeleteAccountGroup", "AccountGroupDeviceEdit"} ->
            {l \in DOMAIN d.links : d.links[l].gid = q.id}
      [] OTHER -> {}

\* They are marked when the save comes, and gone when the row is deleted.
LinksPlan(q, d) ==
    q.op # "DeleteArea" =>
        /\ q.at = "unlink" => Bound(q, d) \subseteq q.dels
        /\ q.at = "next" /\ q.op # "AccountGroupDeviceEdit" => Bound(q, d) = {}

\* AccountGroupDeviceEdit: a device is linked once, or still to be.
EditPlan(q, d) ==
    q.op = "AccountGroupDeviceEdit" /\ q.at = "next" =>
        /\ \A l, m \in DOMAIN d.links :
              d.links[l].gid = q.id /\ d.links[m].gid = q.id /\ d.links[l].did = d.links[m].did => l = m
        /\ \A l \in DOMAIN d.links : d.links[l].gid = q.id => d.links[l].did \notin q.todo

\* DeleteServer: the devices that name the server are tracked without it, then none does.
ServerPlan(q, d) ==
    q.op = "DeleteServer" =>
        /\ q.at = "save" =>
              /\ \A i \in DOMAIN d.devices : d.devices[i][q.kind] = q.id => i \in DOMAIN q.rows
              /\ \A i \in DOMAIN q.rows : q.rows[i][q.kind] # q.id
        /\ q.at = "next" => \A i \in DOMAIN d.devices : d.devices[i][q.kind] # q.id

Context(q, d) == AreaPlan(q, d) /\ LinksPlan(q, d) /\ EditPlan(q, d) /\ ServerPlan(q, d)

AloneInv == \A r \in Requests : alone[r] => Context(req[r], db)

-----------------------------------------------------------------------------

Unlinkers == {"DeleteDevice", "DeleteAccountGroup", "AccountGroupDeviceEdit",
              "DeleteAccountGroupDevice"}

\* A request that was just sent, and a handler that establishes nothing.
LEMMA StartContext ==
  ASSUME NEW q, NEW d,
         \/ q.at = "start"
         \/ q.op \notin Unlinkers \cup {"DeleteArea", "DeleteServer"}
  PROVE  Context(q, d)
<1>1. CASE q.at = "start"
  BY <1>1 DEF Context, AreaPlan, LinksPlan, EditPlan, ServerPlan
<1>2. CASE q.op \notin Unlinkers \cup {"DeleteArea", "DeleteServer"}
  <2>1. Bound(q, d) = {}
    BY <1>2 DEF Bound, Unlinkers
  <2>2. QED
    BY <1>2, <2>1 DEF Context, AreaPlan, LinksPlan, EditPlan, ServerPlan, Unlinkers
<1>3. QED
  BY <1>1, <1>2

\* A request that ends.
LEMMA ReturnContext ==
  ASSUME Shape, NEW r \in Requests, Return(r), NEW d
  PROVE  Context(req'[r], d)
<1>1. req'[r] = Idle /\ Idle.at = "start"
  BY IdleShape DEF Return, Shape
<1>2. QED
  BY <1>1, StartContext

\* A handler that only deletes links of one device or group may go on when there
\* are none, and delete them when all are marked.
LEMMA UnlinkerContext ==
  ASSUME NEW q, NEW d, q.op \in Unlinkers,
         \/ q.at = "unlink" /\ Bound(q, d) \subseteq q.dels
         \/ q.at = "next" /\ Bound(q, d) = {}
  PROVE  Context(q, d)
<1>1. AreaPlan(q, d) /\ ServerPlan(q, d)
  BY DEF AreaPlan, ServerPlan, Unlinkers
<1>2. LinksPlan(q, d)
  BY DEF LinksPlan
<1>3. EditPlan(q, d)
  <2>1. CASE q.op = "AccountGroupDeviceEdit"
    <3>1. Bound(q, d) = {l \in DOMAIN d.links : d.links[l].gid = q.id}
      BY <2>1 DEF Bound
    <3>2. QED
      BY <3>1 DEF EditPlan
  <2>2. CASE q.op # "AccountGroupDeviceEdit"
    BY <2>2 DEF EditPlan
  <2>3. QED
    BY <2>1, <2>2
<1>4. QED
  BY <1>1, <1>2, <1>3 DEF Context

\* The query for them.
LEMMA MarkLinksContext ==
  ASSUME Shape, NEW r \in Requests, NEW L, MarkLinks(r, L), req[r].op \in Unlinkers,
         Bound(req[r], db) \subseteq L
  PROVE  Context(req'[r], db')
<1>1. /\ req'[r].op = req[r].op /\ req'[r].id = req[r].id /\ req'[r].dels = L
      /\ req'[r].at = IF L = {} THEN "next" ELSE "unlink"
  BY IdleShape DEF MarkLinks, Shape
<1>2. db' = db /\ Bound(req'[r], db) = Bound(req[r], db)
  BY <1>1 DEF MarkLinks, Reads, Bound
<1>3. Context(req'[r], db)
  BY <1>1, <1>2, UnlinkerContext
<1>4. QED
  BY <1>2, <1>3

\* The save that deletes them.
LEMMA UnlinkContext ==
  ASSUME Shape, NEW r \in Requests, Unlink(r), req[r].op \in Unlinkers, req[r].at = "unlink",
         Context(req[r], db)
  PROVE  Context(req'[r], db')
<1>1. CASE CanSave(r)
  <2>1. db' = Saved(r) /\ req' = [req EXCEPT ![r].dels = {}, ![r].at = "next"]
    BY <1>1 DEF Unlink, Save
  <2>2. req'[r].op = req[r].op /\ req'[r].id = req[r].id /\ req'[r].at = "next"
    BY <2>1, IdleShape DEF Shape
  <2>3. /\ DOMAIN db'.links = DOMAIN db.links \ req[r].dels
        /\ \A l \in DOMAIN db'.links : db'.links[l] = db.links[l]
    BY <2>1, SavedIs DEF SavedTables
  <2>4. Bound(req[r], db) \subseteq req[r].dels
    BY DEF Context, LinksPlan, Unlinkers
  <2>5. Bound(req'[r], db') \subseteq Bound(req[r], db) \ req[r].dels
    BY <2>2, <2>3 DEF Bound, Unlinkers
  <2>6. Bound(req'[r], db') = {}
    BY <2>4, <2>5
  <2>7. QED
    BY <2>2, <2>6, UnlinkerContext
<1>2. CASE ~CanSave(r)
  BY <1>2, ReturnContext DEF Unlink, Fails
<1>3. QED
  BY <1>1, <1>2

-----------------------------------------------------------------------------
(* The handlers *)

LEMMA CallContext ==
  ASSUME Shape, NEW r \in Requests, Call(r)
  PROVE  Context(req'[r], db')
<1>1. PICK op \in Ops : \E in \in Inputs(op) : req' = [req EXCEPT ![r] = [in EXCEPT !.op = op]]
  BY DEF Call
<1>2. PICK in \in Inputs(op) : req' = [req EXCEPT ![r] = [in EXCEPT !.op = op]]
  BY <1>1
<1>3. DOMAIN in = Fields /\ in.at = "start"
  BY InputShape, OpsAssumption DEF OpsAssumption
<1>4. [in EXCEPT !.op = op].at = "start"
  BY <1>3, IdleShape
<1>5. req'[r] = [in EXCEPT !.op = op]
  BY <1>2 DEF Shape
<1>6. QED
  BY <1>4, <1>5, StartContext

LEMMA LoginContext ==
  ASSUME Shape, NEW r \in Requests, Login(r)
  PROVE  Context(req'[r], db')
<1>1. CASE IndexCheck(r) /\ req' = [req EXCEPT ![r].at = "save"]
  <2>1. req'[r].op = "Index"
    BY <1>1, IdleShape DEF IndexCheck, At, Shape
  <2>2. QED
    BY <2>1, StartContext DEF Unlinkers
<1>2. QED
  BY <1>1, ReturnContext DEF Login, IndexCheck, IndexSave

\* DeleteArea: the area stays without children, and its devices are tracked.
LEMMA AreasContext ==
  ASSUME Shape, Typed, NEW r \in Requests, Areas(r), Context(req[r], db)
  PROVE  Context(req'[r], db')
<1> DEFINE q == req[r]
<1>0. AreaPlan(q, db) /\ DOMAIN req = Requests /\ DOMAIN q = Fields
  BY DEF Context, Shape
<1>1. ASSUME req'[r].op = "DeleteArea", AreaPlan(req'[r], db')
      PROVE  Context(req'[r], db')
  BY <1>1 DEF Context, LinksPlan, EditPlan, ServerPlan
<1>2. CASE Return(r)
  BY <1>2, ReturnContext
<1>3. CASE DeleteAreaCheck(r) /\ ~Return(r)
  <2>1. /\ req' = [req EXCEPT ![r].at = "devices"] /\ db' = db /\ q.op = "DeleteArea"
        /\ q.id # 1 /\ Children(q.id) = {}
    BY <1>3 DEF DeleteAreaCheck, Reads, At
  <2>2. req'[r].op = "DeleteArea" /\ req'[r].id = q.id /\ req'[r].at = "devices"
    BY <1>0, <2>1, IdleShape
  <2>3. AreaPlan(req'[r], db')
    BY <2>1, <2>2 DEF AreaPlan, Children
  <2>4. QED
    BY <1>1, <2>2, <2>3
<1>4. CASE DeleteAreaDevices(r)
  <2> DEFINE D == {d \in DOMAIN db.devices : db.devices[d].area = q.id}
             moved == [d \in D |-> [db.devices[d] EXCEPT !.area = 1]]
  <2>1. req' = [req EXCEPT ![r].at = "links", ![r].todo = D, ![r].rows = moved]
    BY <1>4 DEF DeleteAreaDevices
  <2>2. q.op = "DeleteArea" /\ q.at = "devices" /\ db' = db
    BY <1>4 DEF DeleteAreaDevices, At, Reads
  <2>3. \A i \in D : moved[i].area = 1
    BY TypedRows DEF Row
  <2>4. DOMAIN moved = D
    OBVIOUS
  <2>5. \A i \in DOMAIN db.devices : db.devices[i].area = q.id => i \in D
    OBVIOUS
  <2> HIDE DEF D, moved
  <2>6. /\ req'[r].op = q.op /\ req'[r].id = q.id /\ req'[r].at = "links"
        /\ req'[r].todo = D /\ req'[r].rows = moved
    BY <1>0, <2>1, IdleShape
  <2>7. AreaPlan(req'[r], db)
    BY <1>0, <2>2, <2>3, <2>4, <2>5, <2>6 DEF AreaPlan
  <2>8. QED
    BY <1>1, <2>2, <2>6, <2>7
<1>5. CASE DeleteAreaLinks(r)
  <2>1. PICK d \in q.todo :
          req' = [req EXCEPT ![r].todo = @ \ {d},
                             ![r].dels = @ \cup {l \in DOMAIN db.links : db.links[l].did = d}]
    BY <1>5 DEF DeleteAreaLinks
  <2>2. q.op = "DeleteArea" /\ q.at = "links" /\ db' = db
    BY <1>5 DEF DeleteAreaLinks, At, Reads
  <2>3. /\ req'[r].op = q.op /\ req'[r].id = q.id /\ req'[r].at = q.at /\ req'[r].rows = q.rows
        /\ req'[r].dels = q.dels \cup {l \in DOMAIN db.links : db.links[l].did = d}
        /\ req'[r].todo = q.todo \ {d}
    BY <1>0, <2>1, IdleShape
  <2>4. AreaPlan(req'[r], db)
    BY <1>0, <2>2, <2>3 DEF AreaPlan
  <2>5. QED
    BY <1>1, <2>2, <2>3, <2>4
<1>6. QED
  BY <1>2, <1>3, <1>4, <1>5 DEF Areas, AddArea, DeleteAreaSave, Fails

\* A handler that finds one device.
LEMMA TrackContext ==
  ASSUME Shape, NEW r \in Requests, NEW row, TrackDevice(r, row),
         req[r].op \notin Unlinkers \cup {"DeleteArea", "DeleteServer"}
  PROVE  Context(req'[r], db')
<1>1. CASE Return(r)
  BY <1>1, ReturnContext
<1>2. CASE ~Return(r)
  <2>1. req'[r].op = req[r].op
    BY <1>2, IdleShape DEF TrackDevice, Shape
  <2>2. QED
    BY <2>1, StartContext
<1>3. QED
  BY <1>1, <1>2

LEMMA DevicesContext ==
  ASSUME Shape, NEW r \in Requests, Devices(r), Context(req[r], db)
  PROVE  Context(req'[r], db')
<1>1. CASE EditDeviceFind(r)
  BY <1>1, TrackContext DEF EditDeviceFind, At, Unlinkers
<1>2. CASE EditDeviceAreaFind(r)
  <2> DEFINE row == [Found(r) EXCEPT !.area = req[r].to]
  <2>1. TrackDevice(r, row) /\ req[r].op = "EditDeviceArea"
    BY <1>2 DEF EditDeviceAreaFind, At
  <2> HIDE DEF row
  <2>2. QED
    BY <2>1, TrackContext DEF Unlinkers
<1>3. CASE DeleteDeviceLinks(r)
  <2> DEFINE L == {l \in DOMAIN db.links : db.links[l].did = req[r].id}
  <2>1. req[r].op = "DeleteDevice" /\ MarkLinks(r, L)
    BY <1>3 DEF DeleteDeviceLinks, At
  <2>2. Bound(req[r], db) \subseteq L
    BY <2>1 DEF Bound
  <2> HIDE DEF L
  <2>3. QED
    BY <2>1, <2>2, MarkLinksContext DEF Unlinkers
<1>4. CASE DeleteDeviceUnlink(r)
  BY <1>4, UnlinkContext DEF DeleteDeviceUnlink, At, Unlinkers
<1>5. CASE Return(r)
  BY <1>5, ReturnContext
<1>6. QED
  BY <1>1, <1>2, <1>3, <1>4, <1>5
     DEF Devices, AddDevice, EditDeviceSave, EditDeviceAreaSave, SaveDevices,
         DeleteDeviceRemove, RemoveRow, Fails

\* One link for each device asked for.
LEMMA LinkAddedContext ==
  ASSUME Shape, Typed, NEW r \in Requests, AccountGroupDeviceEditAdd(r), Context(req[r], db)
  PROVE  Context(req'[r], db')
<1> DEFINE q == req[r]
<1>1. q.op = "AccountGroupDeviceEdit" /\ q.at = "next" /\ EditPlan(q, db)
  BY DEF AccountGroupDeviceEditAdd, At, Context
<1>2. PICK d \in q.todo : /\ Insert("links", [gid |-> q.id, did |-> d])
                         /\ req' = [req EXCEPT ![r].todo = @ \ {d}]
  BY DEF AccountGroupDeviceEditAdd
<1> DEFINE row == [gid |-> q.id, did |-> d]
           new == issued["links"] + 1
<1>3. row.gid = q.id /\ row.did = d /\ Insert("links", row) /\ "links" \in Tables
  BY <1>2 DEF Tables
<1>4. new \notin DOMAIN db["links"]
  BY <1>3, NewId
<1> HIDE DEF row
<1>5. /\ DOMAIN db'["links"] = DOMAIN db["links"] \cup {new}
      /\ db'["links"][new] = row
      /\ \A l \in DOMAIN db["links"] : db'["links"][l] = db["links"][l]
  BY <1>3, <1>4, InsertIs
<1> HIDE DEF new
<1>6. /\ req'[r].op = q.op /\ req'[r].id = q.id /\ req'[r].at = q.at /\ req'[r].todo = q.todo \ {d}
  BY <1>2, IdleShape DEF Shape
<1>7. \A l \in DOMAIN db.links : db.links[l].gid = q.id => db.links[l].did \notin q.todo
  BY <1>1 DEF EditPlan
<1>8. ASSUME NEW l \in DOMAIN db'.links, NEW m \in DOMAIN db'.links,
             db'.links[l].gid = q.id, db'.links[m].gid = q.id, db'.links[l].did = db'.links[m].did
      PROVE  l = m
  BY <1>1, <1>3, <1>5, <1>7, <1>8 DEF EditPlan
<1>9. \A l \in DOMAIN db'.links : db'.links[l].gid = q.id => db'.links[l].did \notin q.todo \ {d}
  BY <1>3, <1>5, <1>7
<1>10. EditPlan(req'[r], db')
  BY <1>6, <1>8, <1>9 DEF EditPlan
<1>11. QED
  BY <1>1, <1>6, <1>10 DEF Context, AreaPlan, LinksPlan, ServerPlan

LEMMA AccountGroupsContext ==
  ASSUME Shape, Typed, NEW r \in Requests, AccountGroups(r), Context(req[r], db)
  PROVE  Context(req'[r], db')
<1>1. CASE DeleteAccountGroupLinks(r) \/ AccountGroupDeviceEditLinks(r)
  <2> DEFINE L == LinksOfGroup(req[r].id)
  <2>1. /\ req[r].op \in {"DeleteAccountGroup", "AccountGroupDeviceEdit"}
        /\ Fails(r) \/ MarkLinks(r, L)
    BY <1>1 DEF DeleteAccountGroupLinks, AccountGroupDeviceEditLinks, At
  <2>2. Bound(req[r], db) \subseteq L
    BY <2>1 DEF Bound, LinksOfGroup
  <2> HIDE DEF L
  <2>3. QED
    BY <2>1, <2>2, MarkLinksContext, ReturnContext DEF Unlinkers, Fails
<1>2. CASE DeleteAccountGroupDeviceLinks(r)
  <2> DEFINE L == {l \in LinksOfGroup(req[r].id) : db.links[l].did = req[r].to}
  <2>1. req[r].op = "DeleteAccountGroupDevice" /\ MarkLinks(r, L)
    BY <1>2 DEF DeleteAccountGroupDeviceLinks, At
  <2>2. Bound(req[r], db) \subseteq L
    BY <2>1 DEF Bound
  <2> HIDE DEF L
  <2>3. QED
    BY <2>1, <2>2, MarkLinksContext DEF Unlinkers
<1>3. CASE \/ DeleteAccountGroupUnlink(r) \/ AccountGroupDeviceEditUnlink(r)
           \/ DeleteAccountGroupDeviceUnlink(r)
  BY <1>3, UnlinkContext, ReturnContext
     DEF DeleteAccountGroupUnlink, AccountGroupDeviceEditUnlink, DeleteAccountGroupDeviceUnlink,
         At, Unlinkers
<1>4. CASE Return(r)
  BY <1>4, ReturnContext
<1>5. QED
  BY <1>1, <1>2, <1>3, <1>4, LinkAddedContext
     DEF AccountGroups, AddAccountGroup, AddAccount, DeleteAccount, DeleteAccountGroupRemove,
         AccountGroupDeviceEditReturn, RemoveRow, Fails

\* DeleteServer: the devices that name it are tracked without it, then saved.
LEMMA DeleteServerContext ==
  ASSUME Shape, Typed, NEW r \in Requests, Context(req[r], db),
         DeleteServerDevices(r) \/ (DeleteServerDetach(r) /\ CanSave(r))
  PROVE  Context(req'[r], db')
<1> DEFINE q == req[r]
<1>0. DOMAIN req = Requests /\ DOMAIN q = Fields /\ q.kind \in Kinds /\ q.op = "DeleteServer"
  BY DEF Shape, Typed, RequestTyped, DeleteServerDevices, DeleteServerDetach, At
<1>1. ASSUME req'[r].op = "DeleteServer", req'[r].at # "unlink", ServerPlan(req'[r], db')
      PROVE  Context(req'[r], db')
  <2>1. Bound(req'[r], db') = {}
    BY <1>1 DEF Bound
  <2>2. QED
    BY <1>1, <2>1 DEF Context, AreaPlan, LinksPlan, EditPlan
<1>2. CASE DeleteServerDevices(r)
  <2> DEFINE D == {d \in DOMAIN db.devices : db.devices[d][q.kind] = q.id}
             freed == [d \in D |-> [db.devices[d] EXCEPT ![q.kind] = 0]]
             at == IF D = {} THEN "next" ELSE "save"
  <2>1. req' = [req EXCEPT ![r].rows = freed, ![r].at = at] /\ db' = db
    BY <1>2 DEF DeleteServerDevices, Reads
  <2>2. ASSUME NEW i \in D, 0 # q.id
        PROVE  freed[i][q.kind] # q.id
    <3>1. db.devices[i] \in Row("devices")
      BY TypedRows
    <3>2. freed[i] = [db.devices[i] EXCEPT ![q.kind] = 0]
      OBVIOUS
    <3>3. freed[i][q.kind] = 0
      BY <1>0, <3>1, <3>2 DEF Row, Kinds
    <3>4. QED
      BY <2>2, <3>3
  <2>3. DOMAIN freed = D
    OBVIOUS
  <2>4. \A i \in DOMAIN db.devices : db.devices[i][q.kind] = q.id => i \in D
    OBVIOUS
  <2> HIDE DEF D, freed
  <2>5. /\ req'[r].op = q.op /\ req'[r].id = q.id /\ req'[r].kind = q.kind
        /\ req'[r].rows = freed /\ req'[r].at = at
    BY <1>0, <2>1, IdleShape
  <2>6. 0 # q.id
    BY <1>0 DEF Typed, RequestTyped, IdTyped
  <2>7. ServerPlan(req'[r], db)
    BY <2>2, <2>3, <2>4, <2>5, <2>6 DEF ServerPlan
  <2>8. QED
    BY <1>0, <1>1, <2>1, <2>5, <2>7
<1>3. CASE DeleteServerDetach(r) /\ CanSave(r)
  <2>1. db' = Saved(r) /\ req' = [req EXCEPT ![r].rows = None, ![r].at = "next"] /\ q.at = "save"
    BY <1>3 DEF DeleteServerDetach, Save, At
  <2>2. /\ req'[r].op = q.op /\ req'[r].id = q.id /\ req'[r].kind = q.kind
        /\ req'[r].at = "next"
    BY <1>0, <2>1, IdleShape
  <2>3. SavedTables(db', db, q)
    BY <2>1, SavedIs
  <2>4. \A i \in DOMAIN db'.devices : db'.devices[i][q.kind] # q.id
    BY <1>0, <2>1, <2>3 DEF Context, ServerPlan, SavedTables
  <2>5. ServerPlan(req'[r], db')
    BY <2>2, <2>4 DEF ServerPlan
  <2>6. QED
    BY <1>0, <1>1, <2>2, <2>5
<1>4. QED
  BY <1>2, <1>3

LEMMA ServersContext ==
  ASSUME Shape, Typed, NEW r \in Requests, Servers(r), Context(req[r], db)
  PROVE  Context(req'[r], db')
<1>0. DOMAIN req = Requests /\ DOMAIN req[r] = Fields
  BY DEF Shape
<1>1. CASE Return(r)
  BY <1>1, ReturnContext
<1>2. CASE AddServerCheck(r) /\ ~Return(r)
  <2>1. req'[r].op = "AddServer"
    BY <1>0, <1>2, IdleShape DEF AddServerCheck, At
  <2>2. QED
    BY <2>1, StartContext DEF Unlinkers
<1>3. CASE DeleteServerFind(r) /\ ~Return(r)
  <2>1. req'[r].op = "DeleteServer" /\ req'[r].at = "devices"
    BY <1>0, <1>3, IdleShape DEF DeleteServerFind, At
  <2>2. QED
    BY <2>1 DEF Context, AreaPlan, LinksPlan, EditPlan, ServerPlan
<1>4. CASE ServerDeviceEditFind(r)
  <2> DEFINE row(d) == [db.devices[d] EXCEPT ![req[r].kind] = req[r].id]
  <2>1. PICK d \in req[r].todo :
          req' = [req EXCEPT ![r].todo = @ \ {d},
                             ![r].rows = IF d \in DOMAIN db.devices THEN With(@, d, row(d)) ELSE @]
    BY <1>4 DEF ServerDeviceEditFind
  <2> HIDE DEF row
  <2>2. req'[r].op = "ServerDeviceEdit"
    BY <1>0, <1>4, <2>1, IdleShape DEF ServerDeviceEditFind, At
  <2>3. QED
    BY <2>2, StartContext DEF Unlinkers
<1>5. CASE ServerDeviceDeleteFind(r)
  <2> DEFINE row == [Found(r) EXCEPT ![req[r].kind] = 0]
  <2>1. TrackDevice(r, row) /\ req[r].op = "ServerDeviceDelete"
    BY <1>5 DEF ServerDeviceDeleteFind, At
  <2> HIDE DEF row
  <2>2. QED
    BY <2>1, TrackContext DEF Unlinkers
<1>6. CASE DeleteServerDevices(r) \/ (DeleteServerDetach(r) /\ CanSave(r))
  BY <1>6, DeleteServerContext
<1>7. QED
  BY <1>1, <1>2, <1>3, <1>4, <1>5, <1>6
     DEF Servers, AddServerSave, DeleteServerDetach, DeleteServerRemove, ServerDeviceEditSave,
         ServerDeviceDeleteSave, SaveDevices, RemoveRow, Fails

-----------------------------------------------------------------------------
(* The invariant *)

\* A step of session r, with the tables as its earlier round trips left them.
LEMMA StepContext ==
  ASSUME Shape, Typed, NEW r \in Requests, Step(r), Context(req[r], db)
  PROVE  Context(req'[r], db')
<1>1. CASE Abort(r) \/ RollBack(r)
  BY <1>1, ReturnContext DEF Abort, RollBack, Fails
<1>2. QED
  BY <1>1, CallContext, LoginContext, AreasContext, DevicesContext, AccountGroupsContext,
     ServersContext DEF Step

\* It takes no other session's request on.
LEMMA StepOthers ==
  ASSUME Shape, NEW r \in Requests, Step(r)
  PROVE  \A s \in Requests \ {r} : req'[s] = req[s]
  BY CallShape, OthersWait DEF Step

LEMMA InitAlone == Init => AloneInv
<1>1. \A d : Context(Idle, d)
  BY IdleShape, StartContext
<1>2. QED
  BY <1>1 DEF Init, AloneInv

LEMMA NextAlone == Shape /\ Typed /\ AloneInv /\ [Next]_vars => AloneInv'
<1> SUFFICES ASSUME Shape, Typed, AloneInv, [Next]_vars PROVE AloneInv'
  OBVIOUS
<1>1. CASE UNCHANGED vars
  BY <1>1 DEF vars, AloneInv
<1>2. CASE Next
  <2>1. PICK r \in Requests : Step(r) /\ Observe(r)
    BY <1>2 DEF Next
  <2>2. ASSUME NEW s \in Requests, alone'[s]
        PROVE  Context(req'[s], db')
    <3>1. req'[s] = Idle \/ (alone[s] /\ (s = r \/ db' = db))
      BY <2>1, <2>2 DEF Observe
    <3>2. CASE req'[s] = Idle
      BY <3>2, IdleShape, StartContext
    <3>3. CASE alone[s] /\ s = r
      BY <2>1, <3>3, StepContext DEF AloneInv
    <3>4. CASE alone[s] /\ s # r /\ db' = db
      BY <2>1, <3>4, StepOthers DEF AloneInv
    <3>5. QED
      BY <3>1, <3>2, <3>3, <3>4
  <2>3. QED
    BY <2>2 DEF AloneInv
<1>3. QED
  BY <1>1, <1>2

\* As long as nobody else has written, the rest of a handler may rely on what its
\* earlier round trips read.
THEOREM AloneInvAlways == Spec => []AloneInv
<1>1. QED
  BY InitAlone, NextAlone, TypedAlways, PTL DEF Spec

-----------------------------------------------------------------------------
(* Which round trips delete rows *)

\* Tables whose rows something refers to.
Named == {"areas", "devices", "groups", "servers"}

NoneGone == \A t \in Named : Gone(t) = {}

LEMMA ReadsKeep == ASSUME NEW r \in Requests, Reads PROVE NoneGone
  BY DEF Reads, NoneGone, Gone

LEMMA InsertKeeps ==
  ASSUME Shape, NEW r \in Requests, NEW t \in Tables, NEW row, Insert(t, row)
  PROVE  NoneGone
<1>1. \A u \in Tables : DOMAIN db[u] \subseteq DOMAIN db'[u]
  BY InsertIs
<1>2. QED
  BY <1>1 DEF NoneGone, Gone, Named, Tables

LEMMA SaveKeeps ==
  ASSUME Shape, NEW r \in Requests, SaveDevices(r) \/ Unlink(r) \/ Save(r)
  PROVE  NoneGone
<1>1. CASE Reads
  BY <1>1, ReadsKeep
<1>2. CASE db' = Saved(r)
  BY <1>2, SavedIs DEF SavedTables, NoneGone, Gone, Named
<1>3. QED
  BY <1>1, <1>2 DEF SaveDevices, Unlink, Save, Fails

\* Only a row of table t goes, the request's, and the other tables stay.
LEMMA RemoveRowIs ==
  ASSUME Shape, NEW r \in Requests, NEW t \in Tables, RemoveRow(r, t)
  PROVE  /\ \A u \in Tables \ {t} : db'[u] = db[u]
         /\ Gone(t) \subseteq {req[r].id} \cap DOMAIN db[t]
<1>1. CASE req[r].id \in DOMAIN db[t]
  <2>1. db' = [db EXCEPT ![t] = Without(db[t], {req[r].id})]
    BY <1>1 DEF RemoveRow
  <2>2. db'[t] = Without(db[t], {req[r].id}) /\ \A u \in Tables \ {t} : db'[u] = db[u]
    BY <2>1 DEF Shape
  <2>3. QED
    BY <2>2 DEF Without, Gone
<1>2. CASE req[r].id \notin DOMAIN db[t]
  BY <1>2 DEF RemoveRow, Fails, Reads, Gone
<1>3. QED
  BY <1>1, <1>2

Deletes(r) ==
    \/ DeleteAreaSave(r) \/ DeleteDeviceRemove(r) \/ DeleteAccountGroupRemove(r)
    \/ DeleteServerRemove(r)

LEMMA OthersKeep ==
  ASSUME Shape, Typed, NEW r \in Requests, Step(r), ~Deletes(r)
  PROVE  NoneGone
<1>0. {"areas", "devices", "groups", "accounts", "links", "servers"} \subseteq Tables
  BY DEF Tables
<1>1. CASE Call(r) \/ Abort(r) \/ RollBack(r)
  BY <1>1 DEF Call, Abort, RollBack, Fails, Reads, NoneGone, Gone
<1>2. CASE Login(r)
  <2>1. CASE IndexCheck(r)
    BY <2>1, ReadsKeep DEF IndexCheck
  <2>2. CASE IndexSave(r)
    <3> DEFINE root == [parent |-> 0, root |-> TRUE]
    <3>1. db' = [db EXCEPT !.admins = With(@, issued.admins + 1, "row"),
                           !.areas  = With(@, issued.areas + 1, root),
                           !.groups = With(@, issued.groups + 1, "row")]
      BY <2>2 DEF IndexSave
    <3> HIDE DEF root
    <3>2. /\ db'["areas"] = With(db["areas"], issued["areas"] + 1, root)
          /\ db'["groups"] = With(db["groups"], issued["groups"] + 1, "row")
          /\ db'["devices"] = db["devices"] /\ db'["servers"] = db["servers"]
      BY <3>1 DEF Shape, Tables
    <3>3. \A f, i, row : DOMAIN f \subseteq DOMAIN With(f, i, row)
      BY DEF With
    <3>4. QED
      BY <3>2, <3>3 DEF NoneGone, Gone, Named
  <2>3. QED
    BY <1>2, <2>1, <2>2 DEF Login
<1>3. CASE Areas(r)
  <2>1. CASE AddArea(r)
    BY <1>0, <2>1, InsertKeeps DEF AddArea
  <2>2. CASE DeleteAreaCheck(r) \/ DeleteAreaDevices(r) \/ DeleteAreaLinks(r)
    BY <2>2, ReadsKeep DEF DeleteAreaCheck, DeleteAreaDevices, DeleteAreaLinks
  <2>3. QED
    BY <1>3, <2>1, <2>2 DEF Areas, Deletes
<1>4. CASE Devices(r)
  <2>1. CASE AddDevice(r)
    BY <1>0, <2>1, InsertKeeps DEF AddDevice
  <2>2. CASE EditDeviceFind(r) \/ EditDeviceAreaFind(r) \/ DeleteDeviceLinks(r)
    BY <2>2, ReadsKeep DEF EditDeviceFind, EditDeviceAreaFind, DeleteDeviceLinks, TrackDevice, MarkLinks
  <2>3. CASE EditDeviceSave(r) \/ EditDeviceAreaSave(r) \/ DeleteDeviceUnlink(r)
    BY <2>3, SaveKeeps DEF EditDeviceSave, EditDeviceAreaSave, DeleteDeviceUnlink
  <2>4. QED
    BY <1>4, <2>1, <2>2, <2>3 DEF Devices, Deletes
<1>5. CASE AccountGroups(r)
  <2>1. CASE AddAccountGroup(r) \/ AddAccount(r) \/ AccountGroupDeviceEditAdd(r)
    BY <1>0, <2>1, InsertKeeps DEF AddAccountGroup, AddAccount, AccountGroupDeviceEditAdd
  <2>2. CASE DeleteAccount(r)
    <3>1. "accounts" \in Tables /\ Named \subseteq Tables \ {"accounts"}
      BY DEF Tables, Named
    <3>2. \A u \in Tables \ {"accounts"} : db'[u] = db[u]
      BY <2>2, <3>1, RemoveRowIs DEF DeleteAccount
    <3>3. QED
      BY <3>1, <3>2 DEF NoneGone, Gone
  <2>3. CASE \/ DeleteAccountGroupLinks(r) \/ AccountGroupDeviceEditLinks(r)
             \/ DeleteAccountGroupDeviceLinks(r) \/ AccountGroupDeviceEditReturn(r)
    BY <2>3, ReadsKeep DEF DeleteAccountGroupLinks, AccountGroupDeviceEditLinks,
       DeleteAccountGroupDeviceLinks, AccountGroupDeviceEditReturn, MarkLinks, Fails
  <2>4. CASE \/ DeleteAccountGroupUnlink(r) \/ AccountGroupDeviceEditUnlink(r)
             \/ DeleteAccountGroupDeviceUnlink(r)
    BY <2>4, SaveKeeps, ReadsKeep DEF DeleteAccountGroupUnlink, AccountGroupDeviceEditUnlink,
       DeleteAccountGroupDeviceUnlink
  <2>5. QED
    BY <1>5, <2>1, <2>2, <2>3, <2>4 DEF AccountGroups, Deletes
<1>6. CASE Servers(r)
  <2>1. CASE AddServerSave(r)
    BY <1>0, <2>1, InsertKeeps DEF AddServerSave
  <2>2. CASE \/ AddServerCheck(r) \/ DeleteServerFind(r) \/ DeleteServerDevices(r)
             \/ ServerDeviceEditFind(r) \/ ServerDeviceDeleteFind(r)
    BY <2>2, ReadsKeep DEF AddServerCheck, DeleteServerFind, DeleteServerDevices,
       ServerDeviceEditFind, ServerDeviceDeleteFind, TrackDevice
  <2>3. CASE ServerDeviceEditSave(r) \/ ServerDeviceDeleteSave(r) \/ DeleteServerDetach(r)
    BY <2>3, SaveKeeps, ReadsKeep DEF ServerDeviceEditSave, ServerDeviceDeleteSave,
       DeleteServerDetach, Fails
  <2>4. QED
    BY <1>6, <2>1, <2>2, <2>3 DEF Servers, Deletes
<1>7. QED
  BY <1>1, <1>2, <1>3, <1>4, <1>5, <1>6 DEF Step

\* The step somebody took alone is one of the session's own.
LEMMA OwnStep ==
  ASSUME Shape, AloneInv, Next, NEW r \in Requests, ActsAlone(r)
  PROVE  Step(r) /\ Context(req[r], db)
<1>1. PICK s \in Requests : Step(s)
  BY DEF Next
<1>2. s = r
  BY <1>1, StepOthers DEF ActsAlone
<1>3. QED
  BY <1>1, <1>2 DEF ActsAlone, AloneInv

-----------------------------------------------------------------------------
(* What they leave *)

\* The save of DeleteArea: no area and no device names the area that goes, and the
\* devices it moves have left all groups.
LEMMA AreaDeleted ==
  ASSUME Shape, Typed, NEW r \in Requests, DeleteAreaSave(r), Context(req[r], db)
  PROVE  /\ \A a \in Gone("areas") :
              /\ \A b \in DOMAIN db'.areas : db'.areas[b].parent # a
              /\ \A d \in DOMAIN db'.devices : db'.devices[d].area # a
         /\ Gone("devices") = {} /\ Gone("groups") = {} /\ Gone("servers") = {}
         /\ \A d \in DOMAIN db.devices \cap DOMAIN db'.devices :
              db'.devices[d].area # db.devices[d].area =>
                 \A l \in DOMAIN db'.links : db'.links[l].did # d
<1> DEFINE q == req[r]
<1>1. q.op = "DeleteArea" /\ q.at = "links" /\ q.todo = {}
  BY DEF DeleteAreaSave, At
<1>2. /\ q.id # 1 /\ \A a \in DOMAIN db.areas : db.areas[a].parent # q.id
      /\ \A i \in DOMAIN q.rows : q.rows[i].area = 1
      /\ \A i \in DOMAIN db.devices : db.devices[i].area = q.id => i \in DOMAIN q.rows
      /\ \A l \in DOMAIN db.links : db.links[l].did \in DOMAIN q.rows => l \in q.dels
  BY <1>1 DEF Context, AreaPlan
<1>3. CASE Fails(r)
  BY <1>3 DEF Fails, Reads, Gone
<1>4. CASE ~Fails(r)
  <2>1. db' = [Saved(r) EXCEPT !.areas = Without(@, {q.id})]
    BY <1>4 DEF DeleteAreaSave
  <2>2. DOMAIN Saved(r) = Tables /\ SavedTables(Saved(r), db, q)
    BY SavedIs, TypedSaved
  <2>3. /\ db'.areas = Without(db.areas, {q.id})
        /\ db'.devices = Saved(r).devices /\ db'.links = Saved(r).links
        /\ db'.groups = db.groups /\ db'.servers = db.servers
    BY <2>1, <2>2 DEF Tables, SavedTables
  <2>4. /\ DOMAIN db'.areas = DOMAIN db.areas \ {q.id}
        /\ \A a \in DOMAIN db'.areas : db'.areas[a] = db.areas[a]
    BY <2>3 DEF Without
  <2>5. /\ DOMAIN db'.devices = DOMAIN db.devices
        /\ \A i \in DOMAIN db.devices :
              db'.devices[i] = IF i \in DOMAIN q.rows THEN q.rows[i] ELSE db.devices[i]
        /\ DOMAIN db'.links = DOMAIN db.links \ q.dels
        /\ \A l \in DOMAIN db'.links : db'.links[l] = db.links[l]
    BY <2>2, <2>3 DEF SavedTables
  <2>6. Gone("areas") \subseteq {q.id}
    BY <2>4 DEF Gone
  <2>7. \A b \in DOMAIN db'.areas : db'.areas[b].parent # q.id
    BY <1>2, <2>4
  <2>8. \A d \in DOMAIN db'.devices : db'.devices[d].area # q.id
    BY <1>2, <2>5
  <2>9. Gone("devices") = {} /\ Gone("groups") = {} /\ Gone("servers") = {}
    BY <2>3, <2>5 DEF Gone
  <2>10. ASSUME NEW d \in DOMAIN db.devices, db'.devices[d].area # db.devices[d].area,
                NEW l \in DOMAIN db'.links
         PROVE  db'.links[l].did # d
    BY <1>2, <2>5, <2>10
  <2>11. QED
    BY <2>6, <2>7, <2>8, <2>9, <2>10
<1>5. QED
  BY <1>3, <1>4

\* The last round trips of DeleteDevice and DeleteAccountGroup: no link names the row.
LEMMA LinkedDeleted ==
  ASSUME Shape, NEW r \in Requests, DeleteDeviceRemove(r) \/ DeleteAccountGroupRemove(r),
         Context(req[r], db)
  PROVE  /\ Gone("areas") = {} /\ Gone("servers") = {}
         /\ \A d \in Gone("devices") : \A l \in DOMAIN db'.links : db'.links[l].did # d
         /\ \A g \in Gone("groups") : \A l \in DOMAIN db'.links : db'.links[l].gid # g
<1> DEFINE q == req[r]
<1>0. q.at = "next" /\ q.op \in {"DeleteDevice", "DeleteAccountGroup"}
  BY DEF DeleteDeviceRemove, DeleteAccountGroupRemove, At
<1>1. Bound(q, db) = {}
  BY <1>0 DEF Context, LinksPlan
<1>2. CASE DeleteDeviceRemove(r)
  <2>1. \A l \in DOMAIN db.links : db.links[l].did # q.id
    BY <1>1, <1>2 DEF Bound, DeleteDeviceRemove, At
  <2>2. RemoveRow(r, "devices") /\ "devices" \in Tables
    BY <1>2 DEF DeleteDeviceRemove, Tables
  <2>3. (\A u \in Tables \ {"devices"} : db'[u] = db[u]) /\ Gone("devices") \subseteq {q.id}
    BY <2>2, RemoveRowIs
  <2>4. /\ db'["areas"] = db["areas"] /\ db'["groups"] = db["groups"]
        /\ db'["servers"] = db["servers"] /\ db'["links"] = db["links"]
    BY <2>3 DEF Tables
  <2>5. QED
    BY <2>1, <2>3, <2>4 DEF Gone
<1>3. CASE DeleteAccountGroupRemove(r)
  <2>1. \A l \in DOMAIN db.links : db.links[l].gid # q.id
    BY <1>1, <1>3 DEF Bound, DeleteAccountGroupRemove, At
  <2>2. RemoveRow(r, "groups") /\ "groups" \in Tables
    BY <1>3 DEF DeleteAccountGroupRemove, Tables
  <2>3. (\A u \in Tables \ {"groups"} : db'[u] = db[u]) /\ Gone("groups") \subseteq {q.id}
    BY <2>2, RemoveRowIs
  <2>4. /\ db'["areas"] = db["areas"] /\ db'["devices"] = db["devices"]
        /\ db'["servers"] = db["servers"] /\ db'["links"] = db["links"]
    BY <2>3 DEF Tables
  <2>5. QED
    BY <2>1, <2>3, <2>4 DEF Gone
<1>4. QED
  BY <1>2, <1>3

\* The last round trip of DeleteServer: its handler looked at one column of the
\* devices, and the other column only names servers of the other kind.
LEMMA ServerDeleted ==
  ASSUME Shape, Typed, KindInv, NEW r \in Requests, DeleteServerRemove(r), Context(req[r], db)
  PROVE  /\ Gone("areas") = {} /\ Gone("devices") = {} /\ Gone("groups") = {}
         /\ \A s \in Gone("servers") : \A d \in DOMAIN db'.devices, k \in Kinds :
               db'.devices[d][k] # s
<1> DEFINE q == req[r]
<1>1. RemoveRow(r, "servers") /\ "servers" \in Tables /\ q.op = "DeleteServer" /\ q.at = "next"
  BY DEF DeleteServerRemove, Tables, At
<1>2. /\ \A u \in Tables \ {"servers"} : db'[u] = db[u]
      /\ Gone("servers") \subseteq {q.id} \cap DOMAIN db["servers"]
  BY <1>1, RemoveRowIs
<1>3. /\ db'["areas"] = db["areas"] /\ db'["devices"] = db["devices"]
      /\ db'["groups"] = db["groups"]
  BY <1>2 DEF Tables
<1>4. \A i \in DOMAIN db.devices : db.devices[i][q.kind] # q.id
  BY <1>1 DEF Context, ServerPlan
<1>5. ASSUME q.id \in DOMAIN db.servers, NEW d \in DOMAIN db.devices, NEW k \in Kinds,
             db.devices[d][k] = q.id
      PROVE  FALSE
  <2>1. db.servers[q.id].kind = q.kind
    BY <1>1, <1>5 DEF KindInv, TrackedOk, ServerOk
  <2>2. db.servers[q.id].kind = k
    BY <1>5 DEF KindInv, RowOk, ServerOk
  <2>3. QED
    BY <1>4, <1>5, <2>1, <2>2
<1>6. QED
  BY <1>2, <1>3, <1>5 DEF Gone

-----------------------------------------------------------------------------
(* The promises *)

\* A session that deletes an area, a device or a group alone leaves nothing that
\* names it.
THEOREM NothingIsLeftBehind == Spec => NothingLeftBehind
<1>1. ASSUME Shape, Typed, AloneInv, Next, NEW r \in Requests, ActsAlone(r)
      PROVE  /\ \A a \in Gone("areas") :
                  /\ \A b \in DOMAIN db'.areas : db'.areas[b].parent # a
                  /\ \A d \in DOMAIN db'.devices : db'.devices[d].area # a
             /\ \A d \in Gone("devices") : \A l \in DOMAIN db'.links : db'.links[l].did # d
             /\ \A g \in Gone("groups") : \A l \in DOMAIN db'.links : db'.links[l].gid # g
  <2>1. Step(r) /\ Context(req[r], db)
    BY <1>1, OwnStep
  <2>2. CASE ~Deletes(r)
    BY <1>1, <2>1, <2>2, OthersKeep DEF NoneGone, Named
  <2>3. CASE DeleteAreaSave(r)
    BY <1>1, <2>1, <2>3, AreaDeleted
  <2>4. CASE DeleteDeviceRemove(r) \/ DeleteAccountGroupRemove(r)
    BY <1>1, <2>1, <2>4, LinkedDeleted
  <2>5. CASE DeleteServerRemove(r)
    <3>1. RemoveRow(r, "servers") /\ "servers" \in Tables
      BY <2>5 DEF DeleteServerRemove, Tables
    <3>2. \A u \in Tables \ {"servers"} : db'[u] = db[u]
      BY <1>1, <3>1, RemoveRowIs
    <3>3. db'["areas"] = db["areas"] /\ db'["devices"] = db["devices"] /\ db'["groups"] = db["groups"]
      BY <3>2 DEF Tables
    <3>4. QED
      BY <3>3 DEF Gone
  <2>6. QED
    BY <2>2, <2>3, <2>4, <2>5 DEF Deletes
<1>2. Shape /\ Typed /\ AloneInv /\ [Next]_vars =>
        [\A r \in Requests : ActsAlone(r) =>
           /\ \A a \in Gone("areas") :
                 /\ \A b \in DOMAIN db'.areas : db'.areas[b].parent # a
                 /\ \A d \in DOMAIN db'.devices : db'.devices[d].area # a
           /\ \A d \in Gone("devices") : \A l \in DOMAIN db'.links : db'.links[l].did # d
           /\ \A g \in Gone("groups") : \A l \in DOMAIN db'.links : db'.links[l].gid # g]_vars
  BY <1>1
<1>3. QED
  BY <1>2, TypedAlways, AloneInvAlways, PTL DEF Spec, NothingLeftBehind

\* A session that deletes a server alone has taken it off every device, in both
\* columns, although its handler only looked at the column of the kind its page named.
THEOREM ServersAlwaysDetached == Spec => ServersDetached
<1>1. ASSUME Shape, Typed, KindInv, AloneInv, Next, NEW r \in Requests, ActsAlone(r),
             NEW s \in Gone("servers"), NEW d \in DOMAIN db'.devices, NEW k \in Kinds
      PROVE  db'.devices[d][k] # s
  <2>1. Step(r) /\ Context(req[r], db)
    BY <1>1, OwnStep
  <2>2. CASE ~Deletes(r)
    BY <1>1, <2>1, <2>2, OthersKeep DEF NoneGone, Named
  <2>3. CASE DeleteAreaSave(r)
    BY <1>1, <2>1, <2>3, AreaDeleted
  <2>4. CASE DeleteDeviceRemove(r) \/ DeleteAccountGroupRemove(r)
    BY <1>1, <2>1, <2>4, LinkedDeleted
  <2>5. CASE DeleteServerRemove(r)
    BY <1>1, <2>1, <2>5, ServerDeleted
  <2>6. QED
    BY <2>2, <2>3, <2>4, <2>5 DEF Deletes
<1>2. Shape /\ Typed /\ KindInv /\ AloneInv /\ [Next]_vars =>
        [\A r \in Requests : ActsAlone(r) =>
           \A s \in Gone("servers") : \A d \in DOMAIN db'.devices, k \in Kinds :
               db'.devices[d][k] # s]_vars
  BY <1>1
<1>3. QED
  BY <1>2, TypedAlways, KindsAlways, AloneInvAlways, PTL DEF Spec, ServersDetached

\* A session that works alone has the groups at every step as it was asked to make
\* them: an edit installs its list, and a deleted area takes its devices out of them.
THEOREM GroupsAlwaysFollow == Spec => GroupsFollow
<1>1. AloneInv' => \A r \in Requests : alone'[r] => EditInstalls(r)'
  BY DEF AloneInv, Context, EditPlan, EditInstalls, At, LinksOfGroup
<1>2. ASSUME Shape, Typed, AloneInv, Next, NEW r \in Requests, ActsAlone(r), Gone("areas") # {},
             NEW d \in DOMAIN db.devices \cap DOMAIN db'.devices,
             db'.devices[d].area # db.devices[d].area
      PROVE  \A l \in DOMAIN db'.links : db'.links[l].did # d
  <2>1. Step(r) /\ Context(req[r], db)
    BY <1>2, OwnStep
  <2>2. CASE ~Deletes(r)
    BY <1>2, <2>1, <2>2, OthersKeep DEF NoneGone, Named
  <2>3. CASE DeleteAreaSave(r)
    BY <1>2, <2>1, <2>3, AreaDeleted
  <2>4. CASE DeleteDeviceRemove(r) \/ DeleteAccountGroupRemove(r)
    BY <1>2, <2>1, <2>4, LinkedDeleted
  <2>5. CASE DeleteServerRemove(r)
    <3>1. RemoveRow(r, "servers") /\ "servers" \in Tables
      BY <2>5 DEF DeleteServerRemove, Tables
    <3>2. db'["areas"] = db["areas"]
      BY <1>2, <3>1, RemoveRowIs DEF Tables
    <3>3. QED
      BY <1>2, <3>2 DEF Gone
  <2>6. QED
    BY <2>2, <2>3, <2>4, <2>5 DEF Deletes
<1>3. Shape /\ Typed /\ AloneInv /\ AloneInv' /\ [Next]_vars =>
        [\A r \in Requests :
           /\ alone'[r] => EditInstalls(r)'
           /\ ActsAlone(r) => \A d \in DOMAIN db.devices \cap DOMAIN db'.devices :
                 db'.devices[d].area # db.devices[d].area /\ Gone("areas") # {}
                    => \A l \in DOMAIN db'.links : db'.links[l].did # d]_vars
  BY <1>1, <1>2
<1>4. QED
  BY <1>3, TypedAlways, AloneInvAlways, PTL DEF Spec, GroupsFollow
=============================================================================
