-------------------------- MODULE PlatCenterProofs --------------------------
(***************************************************************************)
(* Proofs about PlatCenter, for every number of sessions, every set of     *)
(* handlers in use and every bound on the tables, whatever requests        *)
(* overlap, die or roll back and however old the pages are: every row has  *)
(* the type of its table, the areas form no circle, a deleted row stays    *)
(* deleted, and no device names a server of the wrong kind.                *)
(***************************************************************************)
EXTENDS PlatCenter, TLAPS

Fields == DOMAIN Idle

\* The tables the first visitor's save inserts into.
FirstTables == {"admins", "areas", "groups"}

\* The shape of the state, as far as the proofs need it.
Shape ==
    /\ DOMAIN db = Tables /\ DOMAIN issued = Tables /\ DOMAIN req = Requests
    /\ \A r \in Requests : DOMAIN req[r] = Fields

-----------------------------------------------------------------------------

\* The fields of a request.
LEMMA IdleShape ==
    /\ Idle.op = "none" /\ Idle.at = "start"
    /\ DOMAIN Idle = Fields
    /\ Fields = {"op", "at", "id", "to", "kind", "todo", "rows", "dels"}
  BY DEF Idle, Fields

\* A request about to be sent has them too.
LEMMA SendShape ==
  ASSUME NEW id, NEW to, NEW kind, NEW todo
  PROVE  /\ DOMAIN Send(id, to, kind, todo) = Fields
         /\ Send(id, to, kind, todo).at = "start"
         /\ Send(id, to, kind, todo).id = id
  BY DEF Send, Idle, Fields

\* What the console sends is a fresh request.
LEMMA InputShape ==
  ASSUME NEW op \in Handlers, NEW in \in Inputs(op)
  PROVE  DOMAIN in = Fields /\ in.at = "start"
<1>1. in = Idle \/ \E id, to, kind, todo : in = Send(id, to, kind, todo)
  <2>1. CASE op \in {"Index", "AddAccountGroup"}
    BY <2>1 DEF Inputs
  <2>2. CASE op \in {"AddArea", "DeleteArea", "AddDevice"}
    BY <2>2 DEF Inputs
  <2>3. CASE op \in {"EditDevice", "DeleteDevice"}
    BY <2>3 DEF Inputs
  <2>4. CASE op \in {"EditDeviceArea"}
    BY <2>4 DEF Inputs
  <2>5. CASE op \in {"DeleteAccountGroup", "AddAccount"}
    BY <2>5 DEF Inputs
  <2>6. CASE op \in {"DeleteAccount"}
    BY <2>6 DEF Inputs
  <2>7. CASE op \in {"AccountGroupDeviceEdit"}
    BY <2>7 DEF Inputs
  <2>8. CASE op \in {"DeleteAccountGroupDevice"}
    BY <2>8 DEF Inputs
  <2>9. CASE op \in {"AddServer"}
    BY <2>9 DEF Inputs
  <2>10. CASE op \in {"DeleteServer"}
    BY <2>10 DEF Inputs
  <2>11. CASE op \in {"ServerDeviceEdit"}
    BY <2>11 DEF Inputs
  <2>12. CASE op \in {"ServerDeviceDelete"}
    BY <2>12 DEF Inputs
  <2>13. QED
    BY <2>1, <2>2, <2>3, <2>4, <2>5, <2>6, <2>7, <2>8, <2>9, <2>10, <2>11, <2>12 DEF Handlers
<1>2. QED
  BY <1>1, SendShape, IdleShape

\* An empty table has no ids.
LEMMA NoRows == DOMAIN None = {}
  BY DEF None

\* A step of one session leaves the requests of the others alone.
LEMMA OthersWait ==
  ASSUME Shape, NEW r \in Requests,
         \/ Abort(r) \/ RollBack(r) \/ Login(r) \/ Areas(r) \/ Devices(r) \/ AccountGroups(r)
         \/ Servers(r)
  PROVE  /\ req[r] # Idle
         /\ DOMAIN req' = Requests /\ DOMAIN req'[r] = Fields
         /\ \A s \in Requests \ {r} : req'[s] = req[s]
<1> USE DEF At, Return, Fails
<1>0. /\ Idle.op = "none" /\ DOMAIN Idle = Fields
      /\ DOMAIN req = Requests /\ DOMAIN req[r] = Fields
  BY IdleShape DEF Shape
<1>1. CASE Abort(r) \/ RollBack(r)
  <2>1. CASE Abort(r)
    BY <1>0, <2>1 DEF Abort
  <2>2. CASE RollBack(r)
    <3>1. req[r] # Idle
      <4>1. PICK T \in (SUBSET InsertsInto(req[r])) \ {{}} : TRUE
        BY <2>2 DEF RollBack
      <4>2. InsertsInto(req[r]) # {}
        BY <4>1
      <4>3. InsertsInto(Idle) = {}
        BY <1>0 DEF InsertsInto
      <4>4. QED
        BY <4>2, <4>3
    <3>2. QED
      BY <1>0, <2>2, <3>1 DEF RollBack
  <2>3. QED
    BY <1>1, <2>1, <2>2
<1>2. CASE Login(r)
  BY <1>0, <1>2 DEF Login, IndexCheck, IndexSave
<1>3. CASE Areas(r)
  BY <1>0, <1>3 DEF Areas, AddArea, DeleteAreaCheck, DeleteAreaDevices, DeleteAreaLinks, DeleteAreaSave
<1>4. CASE Devices(r)
  BY <1>0, <1>4
     DEF Devices, AddDevice, EditDeviceFind, EditDeviceSave, EditDeviceAreaFind, EditDeviceAreaSave,
         DeleteDeviceLinks, DeleteDeviceUnlink, DeleteDeviceRemove,
         TrackDevice, SaveDevices, MarkLinks, Unlink, RemoveRow
<1>5. CASE AccountGroups(r)
  BY <1>0, <1>5
     DEF AccountGroups, AddAccountGroup, DeleteAccountGroupLinks, DeleteAccountGroupUnlink,
         DeleteAccountGroupRemove, AddAccount, DeleteAccount, AccountGroupDeviceEditLinks,
         AccountGroupDeviceEditUnlink, AccountGroupDeviceEditAdd, AccountGroupDeviceEditReturn,
         DeleteAccountGroupDeviceLinks, DeleteAccountGroupDeviceUnlink,
         MarkLinks, Unlink, RemoveRow
<1>6. CASE Servers(r)
  BY <1>0, <1>6
     DEF Servers, AddServerCheck, AddServerSave, DeleteServerFind, DeleteServerDevices,
         DeleteServerDetach, DeleteServerRemove, ServerDeviceEditFind, ServerDeviceEditSave,
         ServerDeviceDeleteFind, ServerDeviceDeleteSave, TrackDevice, SaveDevices, RemoveRow
<1>7. QED
  BY <1>1, <1>2, <1>3, <1>4, <1>5, <1>6

-----------------------------------------------------------------------------
(***************************************************************************)
(* Types. A request carries ids it was given or has read; they stay ids    *)
(* that were issued, whatever other sessions delete meanwhile. The tables  *)
(* and counters are arguments, so that one definition serves both sides of *)
(* a step.                                                                 *)
(***************************************************************************)

TableTyped(d, n, t) ==
    /\ n[t] <= Limit[t]
    /\ \A i \in DOMAIN d[t] : i \in 1..n[t] /\ d[t][i] \in Row(t)

TablesTyped(d, n) ==
    /\ n \in [Tables -> Nat]
    /\ DOMAIN d = Tables
    /\ \A t \in Tables : TableTyped(d, n, t)

RowsTyped(rows, n) ==
    \A d \in DOMAIN rows : d \in 1..n.devices /\ rows[d] \in Row("devices")

\* What a handler will write into a row, and the server it will delete.
IdTyped(q, n) ==
    /\ q.op \in {"AddArea", "AddDevice"} => q.id \in 1..n.areas
    /\ q.op = "EditDeviceArea" => q.to \in 1..n.areas
    /\ q.op \in {"AddAccount", "AccountGroupDeviceEdit"} => q.id \in 1..n.groups
    /\ q.op = "AddServer" => q.id \in Serials
    /\ q.op \in {"ServerDeviceEdit", "DeleteServer"} => q.id \in 1..n.servers

RequestTyped(q, n) ==
    /\ q.op \in Ops \cup {"none"}
    /\ q.kind \in Kinds
    /\ q.dels \subseteq 1..n.links
    /\ q.todo \subseteq 1..n.devices
    /\ RowsTyped(q.rows, n)
    /\ IdTyped(q, n)

Typed ==
    /\ TablesTyped(db, issued)
    /\ \A r \in Requests : RequestTyped(req[r], issued)

Grows(n, m) == m \in [Tables -> Nat] /\ \A t \in Tables : n[t] <= m[t]

\* Identity columns only count up, so what was issued stays issued.
LEMMA StillTyped ==
  ASSUME NEW q, NEW n \in [Tables -> Nat], NEW m, Grows(n, m), RequestTyped(q, n)
  PROVE  RequestTyped(q, m)
<1>1. \A t \in Tables : 1..n[t] \subseteq 1..m[t]
  BY DEF Grows
<1>2. /\ 1..n.areas \subseteq 1..m.areas /\ 1..n.groups \subseteq 1..m.groups
      /\ 1..n.servers \subseteq 1..m.servers /\ 1..n.devices \subseteq 1..m.devices
      /\ 1..n.links \subseteq 1..m.links
  BY <1>1 DEF Tables
<1>3. RowsTyped(q.rows, m)
  BY <1>2 DEF RequestTyped, RowsTyped
<1>4. IdTyped(q, m)
  BY <1>2 DEF RequestTyped, IdTyped
<1>5. QED
  BY <1>2, <1>3, <1>4 DEF RequestTyped

\* An idle session tracks nothing.
LEMMA IdleTyped == ASSUME NEW n PROVE RequestTyped(Idle, n)
<1>1. /\ Idle.op = "none" /\ Idle.kind = "core" /\ Idle.dels = {} /\ Idle.todo = {}
      /\ Idle.rows = None
  BY DEF Idle
<1>2. QED
  BY <1>1, NoRows DEF RequestTyped, RowsTyped, IdTyped, Kinds

\* The tracked rows of devices keep their type when a handler changes a column.
LEMMA DeviceRow ==
  ASSUME NEW row \in Row("devices")
  PROVE  /\ 1 \in 1..Limit["areas"]
         /\ \A a \in 1..Limit["areas"] : [row EXCEPT !.area = a] \in Row("devices")
         /\ \A k \in Kinds : \A v \in 0..Limit["servers"] : [row EXCEPT ![k] = v] \in Row("devices")
<1>1. row \in [area : 1..Limit["areas"], core : 0..Limit["servers"], live : 0..Limit["servers"]]
  BY DEF Row
<1>2. Limit["areas"] \in Nat
  BY LimitAssumption DEF LimitAssumption, Tables
<1>3. 1 \in 1..Limit["areas"]
  BY <1>1, <1>2
<1>4. ASSUME NEW v \in 0..Limit["servers"]
      PROVE  [row EXCEPT !.core = v] \in Row("devices") /\ [row EXCEPT !.live = v] \in Row("devices")
  BY <1>1 DEF Row
<1>5. ASSUME NEW a \in 1..Limit["areas"]
      PROVE  [row EXCEPT !.area = a] \in Row("devices")
  BY <1>1 DEF Row
<1>6. QED
  BY <1>3, <1>4, <1>5 DEF Kinds

\* A step of session r: the tables stay typed, the counters grow, and its
\* request is typed by the counters as they were.
LEMMA TypedStep ==
  ASSUME Shape, Typed, NEW r \in Requests,
         TablesTyped(db', issued'), Grows(issued, issued'),
         \A s \in Requests \ {r} : req'[s] = req[s],
         RequestTyped(req'[r], issued)
  PROVE  Typed'
<1>1. issued \in [Tables -> Nat]
  BY DEF Typed, TablesTyped
<1>2. ASSUME NEW s \in Requests
      PROVE  RequestTyped(req'[s], issued')
  <2>1. RequestTyped(req'[s], issued)
    BY DEF Typed
  <2>2. QED
    BY <1>1, <2>1, StillTyped
<1>3. QED
  BY <1>2 DEF Typed

\* Counters that stay have not shrunk.
LEMMA SameGrows == ASSUME Typed PROVE Grows(issued, issued)
  BY DEF Typed, TablesTyped, Grows

\* A query.
LEMMA TypedRead ==
  ASSUME Shape, Typed, NEW r \in Requests, Reads,
         \A s \in Requests \ {r} : req'[s] = req[s], RequestTyped(req'[r], issued)
  PROVE  Typed'
<1>1. db' = db /\ issued' = issued
  BY DEF Reads
<1>2. TablesTyped(db', issued') /\ Grows(issued, issued')
  BY <1>1, SameGrows DEF Typed
<1>3. QED
  BY <1>2, TypedStep

\* What a returning request leaves.
LEMMA TypedReturn ==
  ASSUME Shape, NEW r \in Requests, Return(r)
  PROVE  (\A s \in Requests \ {r} : req'[s] = req[s]) /\ RequestTyped(req'[r], issued)
<1>1. req'[r] = Idle /\ \A s \in Requests \ {r} : req'[s] = req[s]
  BY DEF Return, Shape
<1>2. QED
  BY <1>1, IdleTyped

LEMMA TypedFails == ASSUME Shape, Typed, NEW r \in Requests, Fails(r) PROVE Typed'
  BY TypedReturn, TypedRead DEF Fails

\* Ids may be used up by a save that is rolled back.
LEMMA TypedRollBack == ASSUME Shape, Typed, NEW r \in Requests, RollBack(r) PROVE Typed'
<1>1. PICK T : /\ \A t \in T : issued[t] < Limit[t]
               /\ issued' = [t \in Tables |-> IF t \in T THEN issued[t] + 1 ELSE issued[t]]
               /\ db' = db /\ Return(r)
  BY DEF RollBack
<1>2. /\ issued \in [Tables -> Nat] /\ Limit \in [Tables -> Nat] /\ DOMAIN db = Tables
      /\ \A t \in Tables : TableTyped(db, issued, t)
  BY LimitAssumption DEF LimitAssumption, Typed, TablesTyped
<1>3. ASSUME NEW t \in Tables
      PROVE  /\ issued'[t] \in Nat /\ issued[t] <= issued'[t]
             /\ issued'[t] <= Limit[t]
  <2>1. issued[t] \in Nat /\ Limit[t] \in Nat /\ issued[t] <= Limit[t]
    BY <1>2 DEF TableTyped
  <2>2. QED
    BY <1>1, <2>1
<1>4. issued' \in [Tables -> Nat] /\ Grows(issued, issued')
  BY <1>1, <1>2, <1>3 DEF Grows
<1>5. ASSUME NEW t \in Tables PROVE TableTyped(db', issued', t)
  BY <1>1, <1>2, <1>3 DEF TableTyped
<1>6. TablesTyped(db', issued')
  BY <1>1, <1>2, <1>4, <1>5 DEF TablesTyped
<1>7. QED
  BY <1>1, <1>4, <1>6, TypedReturn, TypedStep

\* A handler goes on with the call it was sent, and what it now tracks is typed.
Continues(q, p, n) ==
    /\ q.op = p.op /\ q.id = p.id /\ q.to = p.to /\ q.kind = p.kind
    /\ q.dels \subseteq 1..n.links
    /\ q.todo \subseteq 1..n.devices
    /\ RowsTyped(q.rows, n)

LEMMA TypedContinues ==
  ASSUME NEW q, NEW p, NEW n, RequestTyped(p, n), Continues(q, p, n)
  PROVE  RequestTyped(q, n)
  BY DEF RequestTyped, Continues, IdTyped

\* A row of the right type is inserted.
LEMMA TypedInsert ==
  ASSUME Shape, Typed, NEW t \in Tables, NEW row \in Row(t), Insert(t, row)
  PROVE  TablesTyped(db', issued') /\ Grows(issued, issued')
<1>1. /\ issued \in [Tables -> Nat] /\ DOMAIN db = Tables
      /\ \A u \in Tables : TableTyped(db, issued, u)
  BY DEF Typed, TablesTyped
<1>2. /\ issued' = [issued EXCEPT ![t] = issued[t] + 1]
      /\ db' = [db EXCEPT ![t] = With(db[t], issued[t] + 1, row)]
      /\ issued[t] < Limit[t] /\ issued[t] \in Nat /\ Limit[t] \in Nat
  BY <1>1, LimitAssumption DEF Insert, LimitAssumption
<1>3. issued' \in [Tables -> Nat] /\ DOMAIN db' = Tables /\ Grows(issued, issued')
  BY <1>1, <1>2 DEF Grows
<1>4. ASSUME NEW u \in Tables
      PROVE  TableTyped(db', issued', u)
  <2>1. CASE u # t
    BY <1>1, <1>2, <2>1 DEF TableTyped
  <2>2. CASE u = t
    <3>1. issued'[t] = issued[t] + 1 /\ db'[t] = With(db[t], issued[t] + 1, row)
      BY <1>1, <1>2
    <3>2. \A i \in DOMAIN db[t] : i \in 1..issued[t] /\ db[t][i] \in Row(t)
      BY <1>1 DEF TableTyped
    <3>3. \A i \in DOMAIN db'[t] : i \in 1..(issued[t] + 1) /\ db'[t][i] \in Row(t)
      BY <1>2, <3>1, <3>2 DEF With
    <3>4. QED
      BY <1>2, <2>2, <3>1, <3>3 DEF TableTyped
  <2>3. QED
    BY <2>1, <2>2
<1>5. QED
  BY <1>3, <1>4 DEF TablesTyped

\* A handler's only or last save inserts a row.
LEMMA TypedInsertReturn ==
  ASSUME Shape, Typed, NEW r \in Requests, NEW t \in Tables, NEW row \in Row(t),
         Insert(t, row), Return(r)
  PROVE  Typed'
  BY TypedInsert, TypedReturn, TypedStep

\* Tables that lost rows, or had rows replaced, stay typed.
LEMMA TypedShrink ==
  ASSUME Typed, issued' = issued, DOMAIN db' = Tables,
         \A u \in Tables : db'[u] = db[u] \/ TableTyped(db', issued, u)
  PROVE  TablesTyped(db', issued') /\ Grows(issued, issued')
<1>1. \A u \in Tables : TableTyped(db, issued, u)
  BY DEF Typed, TablesTyped
<1>2. \A u \in Tables : TableTyped(db', issued, u)
  BY <1>1 DEF TableTyped
<1>3. QED
  BY <1>2, SameGrows DEF Typed, TablesTyped

\* A table without some rows.
LEMMA TypedWithout ==
  ASSUME Typed, NEW t \in Tables, NEW D, db'[t] = Without(db[t], D)
  PROVE  TableTyped(db', issued, t)
<1>1. TableTyped(db, issued, t)
  BY DEF Typed, TablesTyped
<1>2. QED
  BY <1>1 DEF TableTyped, Without

\* Saving tracked devices and marked links.
LEMMA TypedSaved ==
  ASSUME Shape, Typed, NEW r \in Requests
  PROVE  /\ \A i \in DOMAIN Saved(r).devices :
              i \in 1..issued.devices /\ Saved(r).devices[i] \in Row("devices")
         /\ DOMAIN Saved(r) = Tables
         /\ Saved(r).links = Without(db.links, req[r].dels)
         /\ \A u \in Tables \ {"devices", "links"} : Saved(r)[u] = db[u]
<1>1. DOMAIN db = Tables /\ TableTyped(db, issued, "devices")
  BY DEF Typed, TablesTyped, Tables
<1>2. RowsTyped(req[r].rows, issued)
  BY DEF Typed, RequestTyped
<1>3. Saved(r).devices = [d \in DOMAIN db.devices |-> IF d \in DOMAIN req[r].rows
                                                      THEN req[r].rows[d] ELSE db.devices[d]]
  BY <1>1 DEF Saved, Tables
<1>4. QED
  BY <1>1, <1>2, <1>3 DEF Saved, Tables, TableTyped, RowsTyped

LEMMA TypedSave ==
  ASSUME Shape, Typed, NEW r \in Requests, Save(r)
  PROVE  TablesTyped(db', issued') /\ Grows(issued, issued')
<1>1. db' = Saved(r) /\ issued' = issued
  BY DEF Save
<1>2. TableTyped(db', issued, "devices")
  <2>1. issued.devices <= Limit.devices
    BY DEF Typed, TablesTyped, TableTyped, Tables
  <2>2. QED
    BY <1>1, <2>1, TypedSaved DEF TableTyped
<1>3. TableTyped(db', issued, "links")
  BY <1>1, TypedSaved, TypedWithout DEF Tables
<1>4. DOMAIN db' = Tables /\ \A u \in Tables \ {"devices", "links"} : db'[u] = db[u]
  BY <1>1, TypedSaved
<1>5. \A u \in Tables : db'[u] = db[u] \/ TableTyped(db', issued, u)
  BY <1>2, <1>3, <1>4
<1>6. QED
  BY <1>1, <1>4, <1>5, TypedShrink

LEMMA TypedSaveDevices ==
  ASSUME Shape, Typed, NEW r \in Requests, SaveDevices(r) PROVE Typed'
<1>1. CASE CanSave(r)
  BY <1>1, TypedSave, TypedReturn, TypedStep DEF SaveDevices
<1>2. CASE ~CanSave(r)
  BY <1>2, TypedFails DEF SaveDevices
<1>3. QED
  BY <1>1, <1>2

\* A handler finds one device and tracks its row, changed within its type.
LEMMA TypedTrackDevice ==
  ASSUME Shape, Typed, NEW r \in Requests, NEW row, TrackDevice(r, row),
         req[r].id \in DOMAIN db.devices => row \in Row("devices")
  PROVE  Typed'
<1>1. CASE req[r].id \in DOMAIN db.devices
  <2>1. req' = [req EXCEPT ![r].at = "save", ![r].rows = [d \in {req[r].id} |-> row]]
    BY <1>1 DEF TrackDevice
  <2>2. req[r].id \in 1..issued.devices
    BY <1>1 DEF Typed, TablesTyped, TableTyped, Tables
  <2>3. /\ req'[r].op = req[r].op /\ req'[r].id = req[r].id /\ req'[r].to = req[r].to
        /\ req'[r].kind = req[r].kind /\ req'[r].dels = req[r].dels
        /\ req'[r].todo = req[r].todo /\ req'[r].rows = [d \in {req[r].id} |-> row]
        /\ \A s \in Requests \ {r} : req'[s] = req[s]
    BY <2>1, IdleShape DEF Shape
  <2>4. RowsTyped(req'[r].rows, issued)
    BY <1>1, <2>2, <2>3 DEF RowsTyped
  <2>5. Continues(req'[r], req[r], issued)
    BY <2>3, <2>4 DEF Continues, Typed, RequestTyped
  <2>6. QED
    BY <2>3, <2>5, TypedContinues, TypedRead DEF TrackDevice, Typed
<1>2. CASE req[r].id \notin DOMAIN db.devices
  BY <1>2, TypedReturn, TypedRead DEF TrackDevice
<1>3. QED
  BY <1>1, <1>2

\* A query for links.
LEMMA TypedMarkLinks ==
  ASSUME Shape, Typed, NEW r \in Requests, NEW L, L \subseteq DOMAIN db.links, MarkLinks(r, L)
  PROVE  Typed'
<1>1. L \subseteq 1..issued.links
  BY DEF Typed, TablesTyped, TableTyped, Tables
<1>2. /\ req'[r].op = req[r].op /\ req'[r].id = req[r].id /\ req'[r].to = req[r].to
      /\ req'[r].kind = req[r].kind /\ req'[r].dels = L
      /\ req'[r].todo = req[r].todo /\ req'[r].rows = req[r].rows
      /\ \A s \in Requests \ {r} : req'[s] = req[s]
  BY IdleShape DEF MarkLinks, Shape
<1>3. Continues(req'[r], req[r], issued)
  BY <1>1, <1>2 DEF Continues, Typed, RequestTyped
<1>4. QED
  BY <1>2, <1>3, TypedContinues, TypedRead DEF MarkLinks, Typed

\* The save that deletes them.
LEMMA TypedUnlink == ASSUME Shape, Typed, NEW r \in Requests, Unlink(r) PROVE Typed'
<1>1. CASE CanSave(r)
  <2>1. req' = [req EXCEPT ![r].dels = {}, ![r].at = "next"]
    BY <1>1 DEF Unlink
  <2>2. /\ req'[r].op = req[r].op /\ req'[r].id = req[r].id /\ req'[r].to = req[r].to
        /\ req'[r].kind = req[r].kind /\ req'[r].dels = {}
        /\ req'[r].todo = req[r].todo /\ req'[r].rows = req[r].rows
        /\ \A s \in Requests \ {r} : req'[s] = req[s]
    BY <2>1, IdleShape DEF Shape
  <2>3. Continues(req'[r], req[r], issued)
    BY <2>2 DEF Continues, Typed, RequestTyped
  <2>4. RequestTyped(req'[r], issued)
    BY <2>3, TypedContinues DEF Typed
  <2>5. TablesTyped(db', issued') /\ Grows(issued, issued')
    BY <1>1, TypedSave DEF Unlink
  <2>6. QED
    BY <2>2, <2>4, <2>5, TypedStep
<1>2. CASE ~CanSave(r)
  BY <1>2, TypedFails DEF Unlink
<1>3. QED
  BY <1>1, <1>2

\* A row is removed.
LEMMA TypedRemoveRow ==
  ASSUME Shape, Typed, NEW r \in Requests, NEW t \in Tables, RemoveRow(r, t)
  PROVE  Typed'
<1>1. CASE req[r].id \in DOMAIN db[t]
  <2>1. db' = [db EXCEPT ![t] = Without(db[t], {req[r].id})] /\ issued' = issued /\ Return(r)
    BY <1>1 DEF RemoveRow
  <2>2. DOMAIN db' = Tables /\ (\A u \in Tables \ {t} : db'[u] = db[u])
        /\ db'[t] = Without(db[t], {req[r].id})
    BY <2>1 DEF Typed, TablesTyped
  <2>3. TableTyped(db', issued, t)
    BY <2>2, TypedWithout
  <2>4. TablesTyped(db', issued') /\ Grows(issued, issued')
    <3>1. \A u \in Tables : db'[u] = db[u] \/ TableTyped(db', issued, u)
      BY <2>2, <2>3
    <3>2. QED
      BY <2>1, <2>2, <3>1, TypedShrink
  <2>5. QED
    BY <2>1, <2>4, TypedReturn, TypedStep
<1>2. CASE req[r].id \notin DOMAIN db[t]
  BY <1>2, TypedFails DEF RemoveRow
<1>3. QED
  BY <1>1, <1>2

\* The rows a table of devices, areas and servers holds.
LEMMA TypedRows ==
  ASSUME Typed
  PROVE  /\ \A d \in DOMAIN db.devices : d \in 1..issued.devices /\ db.devices[d] \in Row("devices")
         /\ \A a \in DOMAIN db.areas : a \in 1..issued.areas
         /\ \A g \in DOMAIN db.groups : g \in 1..issued.groups
         /\ \A l \in DOMAIN db.links : l \in 1..issued.links /\ db.links[l] \in Row("links")
         /\ \A s \in DOMAIN db.servers : s \in 1..issued.servers /\ db.servers[s] \in Row("servers")
         /\ \A t \in Tables : issued[t] \in Nat /\ Limit[t] \in Nat /\ issued[t] <= Limit[t]
  BY LimitAssumption DEF LimitAssumption, Typed, TablesTyped, TableTyped, Tables

\* All fields of a request about to be sent.
LEMMA SendFields ==
  ASSUME NEW id, NEW to, NEW kind, NEW todo, NEW op
  PROVE  LET q == [Send(id, to, kind, todo) EXCEPT !.op = op]
         IN  /\ q.op = op /\ q.at = "start" /\ q.id = id /\ q.to = to /\ q.kind = kind
             /\ q.todo = todo /\ q.rows = None /\ q.dels = {} /\ DOMAIN q = Fields
  BY DEF Send, Idle, Fields

\* A request is typed when what it was given is.
LEMMA SendTyped ==
  ASSUME NEW id, NEW to, NEW kind \in Kinds, NEW todo, NEW op \in Ops, NEW n,
         todo \subseteq 1..n.devices,
         op \in {"AddArea", "AddDevice"} => id \in 1..n.areas,
         op = "EditDeviceArea" => to \in 1..n.areas,
         op \in {"AddAccount", "AccountGroupDeviceEdit"} => id \in 1..n.groups,
         op = "AddServer" => id \in Serials,
         op = "ServerDeviceEdit" => id \in 1..n.servers,
         op # "DeleteServer"
  PROVE  RequestTyped([Send(id, to, kind, todo) EXCEPT !.op = op], n)
<1> DEFINE q == [Send(id, to, kind, todo) EXCEPT !.op = op]
<1>1. /\ q.op = op /\ q.id = id /\ q.to = to /\ q.kind = kind
      /\ q.todo = todo /\ q.rows = None /\ q.dels = {}
  BY SendFields
<1> HIDE DEF q
<1>2. RequestTyped(q, n)
  BY <1>1, NoRows DEF RequestTyped, RowsTyped, IdTyped
<1>3. QED
  BY <1>2 DEF q

\* What the console sends is typed: a page shows ids that have been given out.
LEMMA InputTyped ==
  ASSUME Typed, NEW op \in Ops, NEW in \in Inputs(op)
  PROVE  RequestTyped([in EXCEPT !.op = op], issued)
<1>0. "core" \in Kinds /\ "live" \in Kinds /\ {} \subseteq 1..issued.devices
  BY DEF Kinds
<1>1. CASE op \in {"Index", "AddAccountGroup"}
  <2>1. in = Idle
    BY <1>1 DEF Inputs
  <2> DEFINE q == [in EXCEPT !.op = op]
  <2>2. /\ q.op = op /\ q.kind = "core" /\ q.dels = {} /\ q.todo = {} /\ q.rows = None
    BY <2>1 DEF Idle
  <2> HIDE DEF q
  <2>3. RequestTyped(q, issued)
    BY <1>0, <1>1, <2>2, NoRows DEF RequestTyped, RowsTyped, IdTyped
  <2>4. QED
    BY <2>3 DEF q
<1>2. CASE op \in {"AddArea", "DeleteArea", "AddDevice"}
  <2>1. PICK a \in Shown("areas") : in = Send(a, 0, "core", {})
    BY <1>2 DEF Inputs
  <2>2. QED
    BY <1>0, <1>2, <2>1, SendTyped DEF Shown
<1>3. CASE op \in {"EditDevice", "DeleteDevice"}
  <2>1. PICK d \in Shown("devices") : in = Send(d, 0, "core", {})
    BY <1>3 DEF Inputs
  <2> DEFINE q == [in EXCEPT !.op = op]
  <2>2. /\ q.op = op /\ q.kind = "core" /\ q.todo = {} /\ q.rows = None /\ q.dels = {}
    BY <2>1, SendFields
  <2> HIDE DEF q
  <2>3. RequestTyped(q, issued)
    BY <1>0, <1>3, <2>2, NoRows DEF RequestTyped, RowsTyped, IdTyped
  <2>4. QED
    BY <2>3 DEF q
<1>4. CASE op = "EditDeviceArea"
  <2>1. PICK d \in Shown("devices"), a \in Shown("areas") : in = Send(d, a, "core", {})
    BY <1>4 DEF Inputs
  <2>2. QED
    BY <1>0, <1>4, <2>1, SendTyped DEF Shown
<1>5. CASE op \in {"DeleteAccountGroup", "AddAccount"}
  <2>1. PICK g \in Shown("groups") : in = Send(g, 0, "core", {})
    BY <1>5 DEF Inputs
  <2>2. g \in 1..issued.groups
    BY <2>1 DEF Shown
  <2>3. QED
    BY <1>0, <1>5, <2>1, <2>2, SendTyped
<1>6. CASE op = "DeleteAccount"
  <2>1. PICK a \in Shown("accounts") : in = Send(a, 0, "core", {})
    BY <1>6 DEF Inputs
  <2>2. QED
    BY <1>0, <1>6, <2>1, SendTyped DEF Shown
<1>7. CASE op = "AccountGroupDeviceEdit"
  <2>1. PICK g \in Shown("groups"), D \in SUBSET Shown("devices") : in = Send(g, 0, "core", D)
    BY <1>7 DEF Inputs
  <2> DEFINE q == [in EXCEPT !.op = op]
  <2>2. /\ q.op = op /\ q.kind \in Kinds /\ q.rows = None /\ q.dels = {}
        /\ q.todo \subseteq 1..issued.devices /\ q.id \in 1..issued.groups
    BY <1>0, <2>1, SendFields DEF Shown
  <2> HIDE DEF q
  <2>3. RequestTyped(q, issued)
    BY <1>0, <1>7, <2>2, NoRows DEF RequestTyped, RowsTyped, IdTyped
  <2>4. QED
    BY <2>3 DEF q
<1>8. CASE op = "DeleteAccountGroupDevice"
  <2>1. PICK g \in Shown("groups"), d \in Shown("devices") : in = Send(g, d, "core", {})
    BY <1>8 DEF Inputs
  <2> DEFINE q == [in EXCEPT !.op = op]
  <2>2. /\ q.op = op /\ q.kind = "core" /\ q.todo = {} /\ q.rows = None /\ q.dels = {}
    BY <2>1, SendFields
  <2> HIDE DEF q
  <2>3. RequestTyped(q, issued)
    BY <1>0, <1>8, <2>2, NoRows DEF RequestTyped, RowsTyped, IdTyped
  <2>4. QED
    BY <2>3 DEF q
<1>9. CASE op = "AddServer"
  <2>1. PICK s \in Serials, k \in Kinds : in = Send(s, 0, k, {})
    BY <1>9 DEF Inputs
  <2> DEFINE q == [in EXCEPT !.op = op]
  <2>2. /\ q.op = op /\ q.kind \in Kinds /\ q.rows = None /\ q.dels = {}
        /\ q.todo = {} /\ q.id \in Serials
    BY <1>0, <2>1, SendFields DEF Shown
  <2> HIDE DEF q
  <2>3. RequestTyped(q, issued)
    BY <1>0, <1>9, <2>2, NoRows DEF RequestTyped, RowsTyped, IdTyped
  <2>4. QED
    BY <2>3 DEF q
<1>10. CASE op = "DeleteServer"
  <2>1. PICK s \in ShownServers : in = Send(s.id, 0, s.kind, {})
    BY <1>10 DEF Inputs
  <2> DEFINE q == [in EXCEPT !.op = op]
  <2>2. /\ q.op = op /\ q.kind \in Kinds /\ q.todo = {} /\ q.rows = None /\ q.dels = {}
        /\ q.id \in 1..issued.servers
    BY <2>1, SendFields DEF ShownServers, Shown
  <2> HIDE DEF q
  <2>3. RequestTyped(q, issued)
    BY <1>0, <1>10, <2>2, NoRows DEF RequestTyped, RowsTyped, IdTyped
  <2>4. QED
    BY <2>3 DEF q
<1>11. CASE op = "ServerDeviceEdit"
  <2>1. PICK s \in ShownServers, D \in SUBSET Shown("devices") :
          in = Send(s.id, 0, s.kind, D)
    BY <1>11 DEF Inputs
  <2>2. s.kind \in Kinds /\ s.id \in 1..issued.servers
    BY DEF ShownServers, Shown
  <2>3. D \subseteq 1..issued.devices
    BY <2>1 DEF Shown
  <2>4. QED
    BY <1>11, <2>1, <2>2, <2>3, SendTyped
<1>12. CASE op = "ServerDeviceDelete"
  <2>1. PICK d \in Shown("devices"), k \in Kinds : in = Send(d, 0, k, {})
    BY <1>12 DEF Inputs
  <2> DEFINE q == [in EXCEPT !.op = op]
  <2>2. /\ q.op = op /\ q.kind \in Kinds /\ q.rows = None /\ q.dels = {}
        /\ q.todo = {}
    BY <1>0, <2>1, SendFields DEF Shown
  <2> HIDE DEF q
  <2>3. RequestTyped(q, issued)
    BY <1>0, <1>12, <2>2, NoRows DEF RequestTyped, RowsTyped, IdTyped
  <2>4. QED
    BY <2>3 DEF q
<1>13. QED
  BY OpsAssumption, <1>1, <1>2, <1>3, <1>4, <1>5, <1>6, <1>7, <1>8, <1>9, <1>10, <1>11, <1>12
     DEF OpsAssumption, Handlers

LEMMA TypedCall == ASSUME Shape, Typed, NEW r \in Requests, Call(r) PROVE Typed'
<1>1. PICK op \in Ops : \E in \in Inputs(op) : req' = [req EXCEPT ![r] = [in EXCEPT !.op = op]]
  BY DEF Call
<1>2. PICK in \in Inputs(op) : req' = [req EXCEPT ![r] = [in EXCEPT !.op = op]]
  BY <1>1
<1>3. req'[r] = [in EXCEPT !.op = op] /\ \A s \in Requests \ {r} : req'[s] = req[s]
  BY <1>2 DEF Shape
<1>4. RequestTyped(req'[r], issued)
  BY <1>3, InputTyped
<1>5. QED
  BY <1>3, <1>4, TypedRead DEF Call

\* A query that moves the handler on and tracks nothing new.
LEMMA TypedMovesOn ==
  ASSUME Shape, Typed, NEW r \in Requests, NEW at, Reads, req' = [req EXCEPT ![r].at = at]
  PROVE  Typed'
<1>1. /\ req'[r].op = req[r].op /\ req'[r].id = req[r].id /\ req'[r].to = req[r].to
      /\ req'[r].kind = req[r].kind /\ req'[r].dels = req[r].dels
      /\ req'[r].todo = req[r].todo /\ req'[r].rows = req[r].rows
      /\ \A s \in Requests \ {r} : req'[s] = req[s]
  BY IdleShape DEF Shape
<1>2. Continues(req'[r], req[r], issued)
  BY <1>1 DEF Continues, Typed, RequestTyped
<1>3. QED
  BY <1>1, <1>2, TypedContinues, TypedRead DEF Typed

LEMMA TypedLogin == ASSUME Shape, Typed, NEW r \in Requests, Login(r) PROVE Typed'
<1>1. CASE IndexCheck(r)
  BY <1>1, TypedMovesOn, TypedReturn, TypedRead DEF IndexCheck
<1>2. CASE IndexSave(r)
  <2>1. /\ issued \in [Tables -> Nat] /\ DOMAIN db = Tables
        /\ \A u \in Tables : TableTyped(db, issued, u)
    BY DEF Typed, TablesTyped
  <2>2. /\ issued' = [issued EXCEPT !.admins = @ + 1, !.areas = @ + 1, !.groups = @ + 1]
        /\ issued.admins < Limit.admins /\ issued.areas < Limit.areas
        /\ issued.groups < Limit.groups
    BY <1>2 DEF IndexSave
  <2>3. issued' \in [Tables -> Nat] /\ Grows(issued, issued')
    <3>1. issued' = [t \in Tables |-> IF t \in FirstTables THEN issued[t] + 1 ELSE issued[t]]
      BY <2>1, <2>2 DEF FirstTables, Tables
    <3>2. QED
      BY <2>1, <3>1 DEF Grows
  <2>4. /\ db'.admins = With(db.admins, issued.admins + 1, "row")
        /\ db'.areas = With(db.areas, issued.areas + 1, [parent |-> 0, root |-> TRUE])
        /\ db'.groups = With(db.groups, issued.groups + 1, "row")
        /\ DOMAIN db' = Tables
        /\ \A u \in Tables \ FirstTables : db'[u] = db[u] /\ issued'[u] = issued[u]
    BY <1>2, <2>1 DEF IndexSave, Tables, FirstTables
  <2>5. /\ issued'.admins = issued.admins + 1 /\ issued'.areas = issued.areas + 1
        /\ issued'.groups = issued.groups + 1
        /\ issued.admins \in Nat /\ issued.areas \in Nat /\ issued.groups \in Nat
        /\ Limit.admins \in Nat /\ Limit.areas \in Nat /\ Limit.groups \in Nat
    BY <2>1, <2>2, LimitAssumption DEF LimitAssumption, Tables
  <2>6. "row" \in Row("admins") /\ "row" \in Row("groups")
        /\ [parent |-> 0, root |-> TRUE] \in Row("areas")
    BY <2>5 DEF Row
  <2>7. TableTyped(db', issued', "admins")
    <3>1. TableTyped(db, issued, "admins")
      BY <2>1 DEF Tables
    <3>2. QED
      BY <2>2, <2>4, <2>5, <2>6, <3>1 DEF TableTyped, With
  <2>8. TableTyped(db', issued', "groups")
    <3>1. TableTyped(db, issued, "groups")
      BY <2>1 DEF Tables
    <3>2. QED
      BY <2>2, <2>4, <2>5, <2>6, <3>1 DEF TableTyped, With
  <2>9. TableTyped(db', issued', "areas")
    <3>1. TableTyped(db, issued, "areas")
      BY <2>1 DEF Tables
    <3> DEFINE row == [parent |-> 0, root |-> TRUE]
    <3>2. db'.areas = With(db.areas, issued.areas + 1, row) /\ row \in Row("areas")
      BY <2>4, <2>6
    <3> HIDE DEF row
    <3>3. QED
      BY <2>2, <2>5, <3>1, <3>2 DEF TableTyped, With
  <2>10. ASSUME NEW u \in Tables
         PROVE  TableTyped(db', issued', u)
    BY <2>1, <2>4, <2>7, <2>8, <2>9 DEF TableTyped, FirstTables
  <2>11. TablesTyped(db', issued')
    BY <2>3, <2>4, <2>10 DEF TablesTyped
  <2>12. QED
    BY <1>2, <2>3, <2>11, TypedReturn, TypedStep DEF IndexSave
<1>3. QED
  BY <1>1, <1>2 DEF Login

LEMMA TypedAreas == ASSUME Shape, Typed, NEW r \in Requests, Areas(r) PROVE Typed'
<1>1. CASE AddArea(r)
  <2> DEFINE row == [parent |-> req[r].id, root |-> FALSE]
  <2>1. req[r].id \in 1..issued.areas
    BY <1>1 DEF AddArea, At, Typed, RequestTyped, IdTyped
  <2>2. row \in Row("areas")
    BY <2>1, TypedRows DEF Row, Tables
  <2>3. Insert("areas", row) /\ Return(r)
    BY <1>1 DEF AddArea
  <2> HIDE DEF row
  <2>4. QED
    BY <2>2, <2>3, TypedInsertReturn DEF Tables
<1>2. CASE DeleteAreaCheck(r)
  BY <1>2, TypedMovesOn, TypedReturn, TypedRead DEF DeleteAreaCheck
<1>3. CASE DeleteAreaDevices(r)
  <2> DEFINE D == {d \in DOMAIN db.devices : db.devices[d].area = req[r].id}
             moved == [d \in D |-> [db.devices[d] EXCEPT !.area = 1]]
  <2>1. req' = [req EXCEPT ![r].at = "links", ![r].todo = D, ![r].rows = moved] /\ Reads
    BY <1>3 DEF DeleteAreaDevices
  <2>2. D \subseteq 1..issued.devices
    BY TypedRows
  <2>3. RowsTyped(moved, issued)
    BY <2>2, TypedRows, DeviceRow DEF RowsTyped
  <2> HIDE DEF D, moved
  <2>4. /\ req'[r].op = req[r].op /\ req'[r].id = req[r].id /\ req'[r].to = req[r].to
        /\ req'[r].kind = req[r].kind /\ req'[r].dels = req[r].dels
        /\ req'[r].todo = D /\ req'[r].rows = moved
        /\ \A s \in Requests \ {r} : req'[s] = req[s]
    BY <2>1, IdleShape DEF Shape
  <2>5. Continues(req'[r], req[r], issued)
    BY <2>2, <2>3, <2>4 DEF Continues, Typed, RequestTyped
  <2>6. QED
    BY <2>1, <2>4, <2>5, TypedContinues, TypedRead DEF Typed
<1>4. CASE DeleteAreaLinks(r)
  <2>1. PICK d \in req[r].todo :
          req' = [req EXCEPT ![r].todo = @ \ {d},
                             ![r].dels = @ \cup {l \in DOMAIN db.links : db.links[l].did = d}]
    BY <1>4 DEF DeleteAreaLinks
  <2>2. /\ req'[r].op = req[r].op /\ req'[r].id = req[r].id /\ req'[r].to = req[r].to
        /\ req'[r].kind = req[r].kind /\ req'[r].rows = req[r].rows
        /\ req'[r].dels = req[r].dels \cup {l \in DOMAIN db.links : db.links[l].did = d}
        /\ req'[r].todo = req[r].todo \ {d}
        /\ \A s \in Requests \ {r} : req'[s] = req[s]
    BY <2>1, IdleShape DEF Shape
  <2>3. Continues(req'[r], req[r], issued)
    BY <2>2, TypedRows DEF Continues, Typed, RequestTyped
  <2>4. QED
    BY <1>4, <2>2, <2>3, TypedContinues, TypedRead DEF Typed, DeleteAreaLinks
<1>5. CASE DeleteAreaSave(r)
  <2>1. CASE ~(CanSave(r) /\ req[r].id \in DOMAIN db.areas)
    BY <1>5, <2>1, TypedFails DEF DeleteAreaSave
  <2>2. CASE CanSave(r) /\ req[r].id \in DOMAIN db.areas
    <3>1. /\ db' = [Saved(r) EXCEPT !.areas = Without(@, {req[r].id})]
          /\ issued' = issued /\ Return(r)
      BY <1>5, <2>2 DEF DeleteAreaSave
    <3>2. /\ DOMAIN db' = Tables
          /\ db'.areas = Without(db.areas, {req[r].id})
          /\ db'.links = Without(db.links, req[r].dels)
          /\ db'.devices = Saved(r).devices
          /\ \A u \in Tables \ {"areas", "devices", "links"} : db'[u] = db[u]
      BY <3>1, TypedSaved DEF Tables
    <3>3. TableTyped(db', issued, "devices")
      <4>1. issued.devices <= Limit.devices
        BY TypedRows DEF Tables
      <4>2. QED
        BY <3>2, <4>1, TypedSaved DEF TableTyped
    <3>4. TableTyped(db', issued, "links") /\ TableTyped(db', issued, "areas")
      BY <3>2, TypedWithout DEF Tables
    <3>5. \A u \in Tables : db'[u] = db[u] \/ TableTyped(db', issued, u)
      BY <3>2, <3>3, <3>4
    <3>6. QED
      BY <3>1, <3>2, <3>5, TypedShrink, TypedReturn, TypedStep
  <2>3. QED
    BY <2>1, <2>2
<1>6. QED
  BY <1>1, <1>2, <1>3, <1>4, <1>5 DEF Areas

LEMMA TypedDevices == ASSUME Shape, Typed, NEW r \in Requests, Devices(r) PROVE Typed'
<1>0. req[r].id \in DOMAIN db.devices => Found(r) \in Row("devices")
  BY TypedRows DEF Found
<1>1. CASE AddDevice(r)
  <2> DEFINE row == [area |-> req[r].id, core |-> 0, live |-> 0]
  <2>1. req[r].id \in 1..issued.areas
    BY <1>1 DEF AddDevice, At, Typed, RequestTyped, IdTyped
  <2>2. row \in Row("devices")
    BY <2>1, TypedRows DEF Row, Tables
  <2>3. Insert("devices", row) /\ Return(r)
    BY <1>1 DEF AddDevice
  <2> HIDE DEF row
  <2>4. QED
    BY <2>2, <2>3, TypedInsertReturn DEF Tables
<1>2. CASE EditDeviceFind(r)
  BY <1>0, <1>2, TypedTrackDevice DEF EditDeviceFind
<1>3. CASE EditDeviceSave(r) \/ EditDeviceAreaSave(r)
  BY <1>3, TypedSaveDevices DEF EditDeviceSave, EditDeviceAreaSave
<1>4. CASE EditDeviceAreaFind(r)
  <2>1. req[r].to \in 1..Limit["areas"]
    <3>1. req[r].to \in 1..issued.areas
      BY <1>4 DEF EditDeviceAreaFind, At, Typed, RequestTyped, IdTyped
    <3>2. QED
      BY <3>1, TypedRows DEF Tables
  <2>2. req[r].id \in DOMAIN db.devices => [Found(r) EXCEPT !.area = req[r].to] \in Row("devices")
    BY <1>0, <2>1, DeviceRow
  <2>3. QED
    BY <1>4, <2>2, TypedTrackDevice DEF EditDeviceAreaFind
<1>5. CASE DeleteDeviceLinks(r)
  BY <1>5, TypedMarkLinks DEF DeleteDeviceLinks
<1>6. CASE DeleteDeviceUnlink(r)
  BY <1>6, TypedUnlink DEF DeleteDeviceUnlink
<1>7. CASE DeleteDeviceRemove(r)
  BY <1>7, TypedRemoveRow DEF DeleteDeviceRemove, Tables
<1>8. QED
  BY <1>1, <1>2, <1>3, <1>4, <1>5, <1>6, <1>7 DEF Devices

LEMMA TypedAccountGroups == ASSUME Shape, Typed, NEW r \in Requests, AccountGroups(r) PROVE Typed'
<1>1. CASE AddAccountGroup(r)
  BY <1>1, TypedInsertReturn DEF AddAccountGroup, Tables, Row
<1>2. CASE DeleteAccountGroupLinks(r)
  BY <1>2, TypedFails, TypedMarkLinks DEF DeleteAccountGroupLinks, LinksOfGroup
<1>3. CASE DeleteAccountGroupUnlink(r) \/ AccountGroupDeviceEditUnlink(r)
  BY <1>3, TypedUnlink DEF DeleteAccountGroupUnlink, AccountGroupDeviceEditUnlink
<1>4. CASE DeleteAccountGroupRemove(r)
  BY <1>4, TypedRemoveRow DEF DeleteAccountGroupRemove, Tables
<1>5. CASE AddAccount(r)
  <2> DEFINE row == [gid |-> req[r].id]
  <2>1. req[r].id \in 1..issued.groups
    BY <1>5 DEF AddAccount, At, Typed, RequestTyped, IdTyped
  <2>2. row \in Row("accounts")
    BY <2>1, TypedRows DEF Row, Tables
  <2>3. Insert("accounts", row) /\ Return(r)
    BY <1>5 DEF AddAccount
  <2> HIDE DEF row
  <2>4. QED
    BY <2>2, <2>3, TypedInsertReturn DEF Tables
<1>6. CASE DeleteAccount(r)
  BY <1>6, TypedRemoveRow DEF DeleteAccount, Tables
<1>7. CASE AccountGroupDeviceEditLinks(r)
  BY <1>7, TypedMarkLinks DEF AccountGroupDeviceEditLinks, LinksOfGroup
<1>8. CASE AccountGroupDeviceEditAdd(r)
  <2>1. PICK d \in req[r].todo :
          /\ Insert("links", [gid |-> req[r].id, did |-> d])
          /\ req' = [req EXCEPT ![r].todo = @ \ {d}]
    BY <1>8 DEF AccountGroupDeviceEditAdd
  <2> DEFINE row == [gid |-> req[r].id, did |-> d]
  <2>2. req[r].id \in 1..issued.groups /\ d \in 1..issued.devices
    BY <1>8 DEF AccountGroupDeviceEditAdd, At, Typed, RequestTyped, IdTyped
  <2>3. row \in Row("links")
    BY <2>2, TypedRows DEF Row, Tables
  <2>4. Insert("links", row)
    BY <2>1
  <2> HIDE DEF row
  <2>5. TablesTyped(db', issued') /\ Grows(issued, issued')
    BY <2>3, <2>4, TypedInsert DEF Tables
  <2>6. /\ req'[r].op = req[r].op /\ req'[r].id = req[r].id /\ req'[r].to = req[r].to
        /\ req'[r].kind = req[r].kind /\ req'[r].dels = req[r].dels
        /\ req'[r].todo = req[r].todo \ {d} /\ req'[r].rows = req[r].rows
        /\ \A s \in Requests \ {r} : req'[s] = req[s]
    BY <2>1, IdleShape DEF Shape
  <2>7. Continues(req'[r], req[r], issued)
    BY <2>6 DEF Continues, Typed, RequestTyped
  <2>8. RequestTyped(req'[r], issued)
    BY <2>7, TypedContinues DEF Typed
  <2>9. QED
    BY <2>5, <2>6, <2>8, TypedStep
<1>9. CASE AccountGroupDeviceEditReturn(r)
  BY <1>9, TypedReturn, TypedRead DEF AccountGroupDeviceEditReturn
<1>10. CASE DeleteAccountGroupDeviceLinks(r)
  BY <1>10, TypedMarkLinks DEF DeleteAccountGroupDeviceLinks, LinksOfGroup
<1>11. CASE DeleteAccountGroupDeviceUnlink(r)
  BY <1>11, TypedUnlink, TypedReturn, TypedRead DEF DeleteAccountGroupDeviceUnlink
<1>12. QED
  BY <1>1, <1>2, <1>3, <1>4, <1>5, <1>6, <1>7, <1>8, <1>9, <1>10, <1>11 DEF AccountGroups

LEMMA TypedServers == ASSUME Shape, Typed, NEW r \in Requests, Servers(r) PROVE Typed'
<1>0. req[r].kind \in Kinds
  BY DEF Typed, RequestTyped
<1>1. CASE AddServerCheck(r)
  BY <1>1, TypedMovesOn, TypedReturn, TypedRead DEF AddServerCheck
<1>2. CASE AddServerSave(r)
  <2> DEFINE row == [kind |-> req[r].kind, serial |-> HtmlDecode[req[r].id]]
  <2>1. req[r].id \in Serials
    BY <1>2 DEF AddServerSave, At, Typed, RequestTyped, IdTyped
  <2>2. row \in Row("servers")
    <3>1. HtmlDecode[req[r].id] \in Serials
      BY <2>1, HtmlDecodeAssumption DEF HtmlDecodeAssumption
    <3>2. QED
      BY <1>0, <3>1 DEF Row
  <2>3. Insert("servers", row) /\ Return(r)
    BY <1>2 DEF AddServerSave
  <2> HIDE DEF row
  <2>4. QED
    BY <2>2, <2>3, TypedInsertReturn DEF Tables
<1>3. CASE DeleteServerFind(r)
  BY <1>3, TypedMovesOn, TypedReturn, TypedRead DEF DeleteServerFind
<1>4. CASE DeleteServerDevices(r)
  <2> DEFINE k == req[r].kind
             D == {d \in DOMAIN db.devices : db.devices[d][k] = req[r].id}
             freed == [d \in D |-> [db.devices[d] EXCEPT ![k] = 0]]
             at == IF D = {} THEN "next" ELSE "save"
  <2>1. req' = [req EXCEPT ![r].rows = freed, ![r].at = at] /\ Reads
    BY <1>4 DEF DeleteServerDevices
  <2>2. D \subseteq 1..issued.devices
    BY TypedRows
  <2>3. RowsTyped(freed, issued)
    <3>1. 0 \in 0..Limit["servers"]
      BY TypedRows DEF Tables
    <3>2. \A d \in D : [db.devices[d] EXCEPT ![k] = 0] \in Row("devices")
      BY <1>0, <3>1, TypedRows, DeviceRow
    <3>3. QED
      BY <2>2, <3>2 DEF RowsTyped
  <2> HIDE DEF D, freed, at
  <2>4. /\ req'[r].op = req[r].op /\ req'[r].id = req[r].id /\ req'[r].to = req[r].to
        /\ req'[r].kind = req[r].kind /\ req'[r].dels = req[r].dels
        /\ req'[r].todo = req[r].todo /\ req'[r].rows = freed
        /\ \A s \in Requests \ {r} : req'[s] = req[s]
    BY <2>1, IdleShape DEF Shape
  <2>5. Continues(req'[r], req[r], issued)
    BY <2>3, <2>4 DEF Continues, Typed, RequestTyped
  <2>6. QED
    BY <2>1, <2>4, <2>5, TypedContinues, TypedRead DEF Typed
<1>5. CASE DeleteServerDetach(r)
  <2>1. CASE CanSave(r)
    <3>1. req' = [req EXCEPT ![r].rows = None, ![r].at = "next"] /\ Save(r)
      BY <1>5, <2>1 DEF DeleteServerDetach
    <3>2. /\ req'[r].op = req[r].op /\ req'[r].id = req[r].id /\ req'[r].to = req[r].to
          /\ req'[r].kind = req[r].kind /\ req'[r].dels = req[r].dels
          /\ req'[r].todo = req[r].todo /\ req'[r].rows = None
          /\ \A s \in Requests \ {r} : req'[s] = req[s]
      BY <3>1, IdleShape DEF Shape
    <3>3. Continues(req'[r], req[r], issued)
      BY <3>2, NoRows DEF Continues, Typed, RequestTyped, RowsTyped
    <3>4. RequestTyped(req'[r], issued)
      BY <3>3, TypedContinues DEF Typed
    <3>5. QED
      BY <3>1, <3>2, <3>4, TypedSave, TypedStep
  <2>2. CASE ~CanSave(r)
    BY <1>5, <2>2, TypedFails DEF DeleteServerDetach
  <2>3. QED
    BY <2>1, <2>2
<1>6. CASE DeleteServerRemove(r)
  BY <1>6, TypedRemoveRow DEF DeleteServerRemove, Tables
<1>7. CASE ServerDeviceEditFind(r)
  <2>1. PICK d \in req[r].todo :
          req' = [req EXCEPT ![r].todo = @ \ {d},
                             ![r].rows = IF d \in DOMAIN db.devices
                                         THEN With(@, d, [db.devices[d] EXCEPT ![req[r].kind] = req[r].id])
                                         ELSE @]
    BY <1>7 DEF ServerDeviceEditFind
  <2> DEFINE row == [db.devices[d] EXCEPT ![req[r].kind] = req[r].id]
  <2>2. /\ req'[r].op = req[r].op /\ req'[r].id = req[r].id /\ req'[r].to = req[r].to
        /\ req'[r].kind = req[r].kind /\ req'[r].dels = req[r].dels
        /\ req'[r].todo = req[r].todo \ {d}
        /\ req'[r].rows = IF d \in DOMAIN db.devices THEN With(req[r].rows, d, row) ELSE req[r].rows
        /\ \A s \in Requests \ {r} : req'[s] = req[s]
    BY <2>1, IdleShape DEF Shape
  <2>3. d \in DOMAIN db.devices => d \in 1..issued.devices /\ row \in Row("devices")
    <3>1. req[r].id \in 0..Limit["servers"]
      <4>1. req[r].id \in 1..issued.servers
        BY <1>7 DEF ServerDeviceEditFind, At, Typed, RequestTyped, IdTyped
      <4>2. QED
        BY <4>1, TypedRows DEF Tables
    <3>2. QED
      BY <1>0, <3>1, TypedRows, DeviceRow
  <2> HIDE DEF row
  <2>4. RowsTyped(req[r].rows, issued)
    BY DEF Typed, RequestTyped
  <2>5. RowsTyped(req'[r].rows, issued)
    BY <2>2, <2>3, <2>4 DEF RowsTyped, With
  <2>6. Continues(req'[r], req[r], issued)
    BY <2>2, <2>5 DEF Continues, Typed, RequestTyped
  <2>7. QED
    BY <1>7, <2>2, <2>6, TypedContinues, TypedRead DEF Typed, ServerDeviceEditFind
<1>8. CASE ServerDeviceEditSave(r) \/ ServerDeviceDeleteSave(r)
  BY <1>8, TypedSaveDevices DEF ServerDeviceEditSave, ServerDeviceDeleteSave
<1>9. CASE ServerDeviceDeleteFind(r)
  <2>1. req[r].id \in DOMAIN db.devices => [Found(r) EXCEPT ![req[r].kind] = 0] \in Row("devices")
    <3>1. 0 \in 0..Limit["servers"]
      BY TypedRows DEF Tables
    <3>2. QED
      BY <1>0, <3>1, TypedRows, DeviceRow DEF Found
  <2>2. QED
    BY <1>9, <2>1, TypedTrackDevice DEF ServerDeviceDeleteFind
<1>10. QED
  BY <1>1, <1>2, <1>3, <1>4, <1>5, <1>6, <1>7, <1>8, <1>9 DEF Servers

LEMMA InitTyped == Init => Typed
<1> SUFFICES ASSUME Init PROVE Typed
  OBVIOUS
<1>1. issued \in [Tables -> Nat] /\ DOMAIN db = Tables
  BY DEF Init
<1>2. ASSUME NEW t \in Tables PROVE TableTyped(db, issued, t)
  <2>1. db[t] = None /\ issued[t] = 0 /\ Limit[t] \in Nat
    BY LimitAssumption DEF Init, LimitAssumption
  <2>2. QED
    BY <2>1, NoRows DEF TableTyped
<1>3. \A r \in Requests : RequestTyped(req[r], issued)
  <2>1. \A r \in Requests : req[r] = Idle
    BY DEF Init
  <2>2. QED
    BY <2>1, IdleTyped
<1>4. QED
  BY <1>1, <1>2, <1>3 DEF Typed, TablesTyped

LEMMA NextTyped == Shape /\ Typed /\ [Next]_vars => Typed'
<1> SUFFICES ASSUME Shape, Typed, [Next]_vars PROVE Typed'
  OBVIOUS
<1>1. ASSUME NEW r \in Requests, Call(r) \/ Login(r) PROVE Typed'
  BY <1>1, TypedCall, TypedLogin
<1>2. ASSUME NEW r \in Requests, Abort(r) \/ RollBack(r) PROVE Typed'
  BY <1>2, TypedFails, TypedRollBack DEF Abort
<1>3. ASSUME NEW r \in Requests, Areas(r) \/ Devices(r) PROVE Typed'
  BY <1>3, TypedAreas, TypedDevices
<1>4. ASSUME NEW r \in Requests, AccountGroups(r) \/ Servers(r) PROVE Typed'
  BY <1>4, TypedAccountGroups, TypedServers
<1>5. CASE UNCHANGED vars
  BY <1>5 DEF vars, Typed
<1>6. QED
  BY <1>1, <1>2, <1>3, <1>4, <1>5 DEF Next, Step

LEMMA InitShape == Init => Shape
<1> SUFFICES ASSUME Init PROVE Shape
  OBVIOUS
<1>1. \A r \in Requests : req[r] = Idle
  BY DEF Init
<1>2. QED
  BY <1>1, IdleShape DEF Init, Shape

\* A call makes a request of the same fields.
LEMMA CallShape ==
  ASSUME Shape, NEW r \in Requests, Call(r)
  PROVE  /\ DOMAIN req' = Requests /\ DOMAIN req'[r] = Fields
         /\ \A s \in Requests \ {r} : req'[s] = req[s]
<1>1. PICK op \in Ops : \E in \in Inputs(op) : req' = [req EXCEPT ![r] = [in EXCEPT !.op = op]]
  BY DEF Call
<1>2. PICK in \in Inputs(op) : req' = [req EXCEPT ![r] = [in EXCEPT !.op = op]]
  BY <1>1
<1>3. DOMAIN in = Fields
  BY InputShape, OpsAssumption DEF OpsAssumption
<1>4. DOMAIN [in EXCEPT !.op = op] = Fields
  BY <1>3
<1>5. QED
  BY <1>2, <1>4 DEF Shape

LEMMA NextShape == Shape /\ Typed' /\ [Next]_vars => Shape'
<1> SUFFICES ASSUME Shape, Typed', [Next]_vars PROVE Shape'
  OBVIOUS
<1>1. DOMAIN db' = Tables /\ DOMAIN issued' = Tables
  BY DEF Typed, TablesTyped
<1>2. CASE UNCHANGED vars
  BY <1>2 DEF vars, Shape
<1>3. CASE Next
  <2>1. PICK r \in Requests : Step(r)
    BY <1>3 DEF Next
  <2>2. /\ DOMAIN req' = Requests /\ DOMAIN req'[r] = Fields
        /\ \A s \in Requests \ {r} : req'[s] = req[s]
    BY <2>1, CallShape, OthersWait DEF Step
  <2>3. QED
    BY <1>1, <2>2 DEF Shape
<1>4. QED
  BY <1>2, <1>3

\* What the sessions track stays what the tables can hold, whatever other
\* sessions insert, change and delete meanwhile.
THEOREM TypedAlways == Spec => [](Shape /\ Typed)
<1>1. Init => Shape /\ Typed
  BY InitShape, InitTyped
<1>2. Shape /\ Typed /\ [Next]_vars => (Shape /\ Typed)'
  BY NextShape, NextTyped
<1>3. QED
  BY <1>1, <1>2, PTL DEF Spec

\* Every table holds rows of its columns under ids its identity column gave
\* out, and every request tracks such rows.
THEOREM TypeCorrect == Spec => []TypeOK
<1>1. Shape /\ Typed => TypeOK
  <2> SUFFICES ASSUME Shape, Typed PROVE TypeOK
    OBVIOUS
  <2>1. ASSUME NEW r \in Requests
        PROVE  /\ req[r].op \in Ops \cup {"none"}
               /\ req[r].kind \in Kinds
               /\ req[r].dels \subseteq 1..issued.links
               /\ DOMAIN req[r].rows \subseteq 1..issued.devices
               /\ \A d \in DOMAIN req[r].rows : req[r].rows[d] \in Row("devices")
    BY DEF Typed, RequestTyped, RowsTyped
  <2>2. DOMAIN req = Requests
    BY DEF Shape
  <2>3. \A t \in Tables : /\ issued[t] <= Limit[t]
                          /\ \A i \in DOMAIN db[t] : i \in 1..issued[t] /\ db[t][i] \in Row(t)
    BY DEF Typed, TablesTyped, TableTyped
  <2>4. issued \in [Tables -> Nat] /\ DOMAIN db = Tables
    BY DEF Typed, TablesTyped
  <2>5. QED
    BY <2>1, <2>2, <2>3, <2>4 DEF TypeOK
<1>2. QED
  BY <1>1, TypedAlways, PTL

-----------------------------------------------------------------------------
(* What a step does to the tables, for any number of sessions whose        *)
(* requests overlap                                                        *)

\* What a save leaves: the tracked devices replaced, the marked links gone.
SavedTables(e, d, q) ==
    /\ e.areas = d.areas /\ e.groups = d.groups /\ e.servers = d.servers
    /\ DOMAIN e.devices = DOMAIN d.devices
    /\ \A i \in DOMAIN d.devices :
          e.devices[i] = IF i \in DOMAIN q.rows THEN q.rows[i] ELSE d.devices[i]
    /\ DOMAIN e.links = DOMAIN d.links \ q.dels
    /\ \A l \in DOMAIN e.links : e.links[l] = d.links[l]

LEMMA SavedIs ==
  ASSUME Shape, NEW r \in Requests
  PROVE  SavedTables(Saved(r), db, req[r]) /\ Saved(r).admins = db.admins
<1>1. DOMAIN db = Tables
  BY DEF Shape
<1>2. /\ Saved(r).devices = [d \in DOMAIN db.devices |-> IF d \in DOMAIN req[r].rows
                                                        THEN req[r].rows[d] ELSE db.devices[d]]
      /\ Saved(r).links = Without(db.links, req[r].dels)
      /\ Saved(r).areas = db.areas /\ Saved(r).groups = db.groups
      /\ Saved(r).servers = db.servers /\ Saved(r).admins = db.admins
  BY <1>1 DEF Saved, Tables
<1>3. QED
  BY <1>2 DEF SavedTables, Without

\* What an insert leaves.
LEMMA InsertIs ==
  ASSUME Shape, NEW t \in Tables, NEW row, Insert(t, row)
  PROVE  /\ \A u \in Tables \ {t} : db'[u] = db[u]
         /\ DOMAIN db'[t] = DOMAIN db[t] \cup {issued[t] + 1}
         /\ db'[t][issued[t] + 1] = row
         /\ \A i \in DOMAIN db[t] : i # issued[t] + 1 => db'[t][i] = db[t][i]
<1>1. db'[t] = With(db[t], issued[t] + 1, row) /\ \A u \in Tables \ {t} : db'[u] = db[u]
  BY DEF Insert, Shape
<1>2. QED
  BY <1>1 DEF With

\* The id an insert gets is new.
LEMMA NewId ==
  ASSUME Typed, NEW t \in Tables
  PROVE  issued[t] \in Nat /\ issued[t] + 1 \notin DOMAIN db[t]
<1>1. issued[t] \in Nat /\ \A i \in DOMAIN db[t] : i \in 1..issued[t]
  BY DEF Typed, TablesTyped, TableTyped
<1>2. QED
  BY <1>1

\* A step of session r: ids are new, only devices are written over, and with what
\* r tracks, and a new area hangs below an id that was given out.
StepTables(r) ==
    /\ \A t \in Tables : issued[t] <= issued'[t]
    /\ \A t \in Tables : \A i \in DOMAIN db'[t] :
          \/ i \in DOMAIN db[t] /\ (t # "devices" => db'[t][i] = db[t][i])
          \/ i > issued[t]
    /\ \A i \in DOMAIN db'.devices :
          \/ i \in DOMAIN db.devices /\ db'.devices[i] = db.devices[i]
          \/ i \in DOMAIN req[r].rows /\ db'.devices[i] = req[r].rows[i]
          \/ db'.devices[i].core = 0 /\ db'.devices[i].live = 0
    /\ \A a \in DOMAIN db'.areas : a \in DOMAIN db.areas \/ db'.areas[a].parent \in 0..issued.areas

\* Used-up ids.
LEMMA RollBackTables ==
  ASSUME Typed, NEW r \in Requests, RollBack(r) PROVE StepTables(r)
<1>1. db' = db /\ \E T : issued' = [t \in Tables |-> IF t \in T THEN issued[t] + 1 ELSE issued[t]]
  BY DEF RollBack
<1>2. ASSUME NEW t \in Tables PROVE issued[t] <= issued'[t]
  <2>1. issued[t] \in Nat
    BY DEF Typed, TablesTyped
  <2>2. QED
    BY <1>1, <2>1
<1>3. QED
  BY <1>1, <1>2 DEF StepTables

\* A query, or a save that failed.
LEMMA ReadsTables == ASSUME Typed, NEW r \in Requests, Reads PROVE StepTables(r)
<1>1. db' = db /\ issued' = issued /\ \A t \in Tables : issued[t] \in Nat
  BY DEF Reads, Typed, TablesTyped
<1>2. QED
  BY <1>1 DEF StepTables

\* Rows are taken out of a table.
LEMMA WithoutTables ==
  ASSUME Shape, Typed, NEW r \in Requests, NEW t \in Tables, NEW D,
         db' = [db EXCEPT ![t] = Without(db[t], D)], issued' = issued
  PROVE  StepTables(r)
<1>1. db'[t] = Without(db[t], D) /\ \A u \in Tables \ {t} : db'[u] = db[u]
  BY DEF Shape
<1>2. DOMAIN db'[t] \subseteq DOMAIN db[t] /\ \A i \in DOMAIN db'[t] : db'[t][i] = db[t][i]
  BY <1>1 DEF Without
<1>3. \A u \in Tables : \A i \in DOMAIN db'[u] : i \in DOMAIN db[u] /\ db'[u][i] = db[u][i]
  BY <1>1, <1>2
<1>4. "devices" \in Tables /\ \A u \in Tables : issued'[u] = issued[u] /\ issued[u] \in Nat
  BY DEF Tables, Typed, TablesTyped
<1>5. QED
  BY <1>3, <1>4 DEF StepTables

\* A new row; a new device names no server.
LEMMA InsertTables ==
  ASSUME Shape, Typed, NEW r \in Requests, NEW t \in Tables, NEW row, Insert(t, row),
         t = "devices" => row.core = 0 /\ row.live = 0,
         t = "areas" => row.parent \in 0..issued.areas
  PROVE  StepTables(r)
<1>1. \A u \in Tables : issued[u] \in Nat
  BY DEF Typed, TablesTyped
<1>2. \A u \in Tables : issued[u] <= issued'[u]
  BY <1>1 DEF Insert, Shape
<1>3. /\ \A u \in Tables \ {t} : db'[u] = db[u]
      /\ DOMAIN db'[t] = DOMAIN db[t] \cup {issued[t] + 1}
      /\ db'[t][issued[t] + 1] = row
      /\ \A i \in DOMAIN db[t] : i # issued[t] + 1 => db'[t][i] = db[t][i]
  BY InsertIs
<1>4. issued[t] + 1 > issued[t] /\ issued[t] + 1 \notin DOMAIN db[t]
  BY <1>1, NewId
<1> DEFINE new == issued[t] + 1
<1> HIDE DEF new
<1>5. \A u \in Tables : \A i \in DOMAIN db'[u] :
        \/ i \in DOMAIN db[u] /\ db'[u][i] = db[u][i]
        \/ u = t /\ i = new /\ db'[u][i] = row
  BY <1>3, <1>4 DEF new
<1>6. \A u \in Tables : \A i \in DOMAIN db'[u] :
        \/ i \in DOMAIN db[u] /\ db'[u][i] = db[u][i]
        \/ i > issued[u]
  BY <1>4, <1>5 DEF new
<1>7. \A i \in DOMAIN db'["devices"] :
        \/ i \in DOMAIN db["devices"] /\ db'["devices"][i] = db["devices"][i]
        \/ db'["devices"][i].core = 0 /\ db'["devices"][i].live = 0
  BY <1>5 DEF Tables
<1>8. \A a \in DOMAIN db'["areas"] : a \in DOMAIN db["areas"] \/ db'["areas"][a].parent \in 0..issued["areas"]
  BY <1>5 DEF Tables
<1>9. QED
  BY <1>2, <1>6, <1>7, <1>8 DEF StepTables

\* The tracked devices and marked links are saved.
LEMMA SaveTables ==
  ASSUME Shape, Typed, NEW r \in Requests, Save(r)
  PROVE  StepTables(r)
<1>1. db' = Saved(r) /\ issued' = issued /\ \A t \in Tables : issued[t] \in Nat
  BY DEF Save, Typed, TablesTyped
<1>2. SavedTables(db', db, req[r]) /\ \A t \in Tables \ {"devices", "links"} : db'[t] = db[t]
  BY <1>1, SavedIs, TypedSaved
<1>3. /\ \A i \in DOMAIN db'["links"] : i \in DOMAIN db["links"] /\ db'["links"][i] = db["links"][i]
      /\ DOMAIN db'["areas"] = DOMAIN db["areas"]
  BY <1>2 DEF SavedTables
<1>4. DOMAIN db'["devices"] = DOMAIN db["devices"]
  BY <1>2 DEF SavedTables
<1>5. \A i \in DOMAIN db'.devices :
        \/ i \in DOMAIN db.devices /\ db'.devices[i] = db.devices[i]
        \/ i \in DOMAIN req[r].rows /\ db'.devices[i] = req[r].rows[i]
  BY <1>2 DEF SavedTables
<1>6. \A t \in Tables : \A i \in DOMAIN db'[t] :
        i \in DOMAIN db[t] /\ (t # "devices" => db'[t][i] = db[t][i])
  BY <1>2, <1>3, <1>4
<1>7. QED
  BY <1>1, <1>3, <1>5, <1>6 DEF StepTables

\* Round trips that several handlers share.
LEMMA RemoveRowTables ==
  ASSUME Shape, Typed, NEW r \in Requests, NEW t \in Tables, RemoveRow(r, t)
  PROVE  StepTables(r)
<1>1. CASE req[r].id \in DOMAIN db[t]
  <2>1. db' = [db EXCEPT ![t] = Without(db[t], {req[r].id})] /\ issued' = issued
    BY <1>1 DEF RemoveRow
  <2>2. QED
    BY <2>1, WithoutTables
<1>2. CASE req[r].id \notin DOMAIN db[t]
  BY <1>2, ReadsTables DEF RemoveRow, Fails
<1>3. QED
  BY <1>1, <1>2

LEMMA SaveOrFailTables ==
  ASSUME Shape, Typed, NEW r \in Requests, SaveDevices(r) \/ Unlink(r)
  PROVE  StepTables(r)
  BY SaveTables, ReadsTables DEF SaveDevices, Unlink, Fails

\* The save that makes the administrator inserts into three tables.
LEMMA IndexTables ==
  ASSUME Shape, Typed, NEW r \in Requests, IndexSave(r)
  PROVE  StepTables(r)
<1> DEFINE root == [parent |-> 0, root |-> TRUE]
<1>1. /\ db' = [db EXCEPT !.admins = With(@, issued.admins + 1, "row"),
                         !.areas  = With(@, issued.areas + 1, root),
                         !.groups = With(@, issued.groups + 1, "row")]
      /\ issued' = [issued EXCEPT !.admins = @ + 1, !.areas = @ + 1, !.groups = @ + 1]
  BY DEF IndexSave
<1> HIDE DEF root
<1>2. /\ \A t \in Tables \ FirstTables : db'[t] = db[t] /\ issued'[t] = issued[t]
      /\ \A t \in FirstTables : \E row : db'[t] = With(db[t], issued[t] + 1, row)
      /\ \A t \in FirstTables : issued'[t] = issued[t] + 1
      /\ db'["areas"] = With(db["areas"], issued["areas"] + 1, root)
  BY <1>1 DEF Shape, Tables, FirstTables
<1>3. \A t \in Tables : issued[t] \in Nat
  BY DEF Typed, TablesTyped
<1>4. ASSUME NEW t \in FirstTables, NEW i \in DOMAIN db'[t]
      PROVE  (i \in DOMAIN db[t] /\ db'[t][i] = db[t][i]) \/ i > issued[t]
  <2>1. PICK row : db'[t] = With(db[t], issued[t] + 1, row)
    BY <1>2
  <2>2. issued[t] + 1 > issued[t]
    BY <1>3 DEF FirstTables, Tables
  <2>3. QED
    BY <2>1, <2>2 DEF With
<1>5. \A t \in Tables : issued[t] <= issued'[t]
  BY <1>2, <1>3
<1>6. "devices" \in Tables \ FirstTables /\ FirstTables \subseteq Tables
  BY DEF Tables, FirstTables
<1>7. \A t \in Tables : \A i \in DOMAIN db'[t] :
        (i \in DOMAIN db[t] /\ db'[t][i] = db[t][i]) \/ i > issued[t]
  BY <1>2, <1>4
<1>8. db'.devices = db.devices
  BY <1>2, <1>6
<1>9. \A a \in DOMAIN db'["areas"] : a \in DOMAIN db["areas"] \/ db'["areas"][a].parent \in 0..issued["areas"]
  <2>1. root.parent = 0 /\ 0 \in 0..issued["areas"]
    BY <1>3 DEF root, Tables
  <2>2. \A a \in DOMAIN db'["areas"] : a \in DOMAIN db["areas"] \/ db'["areas"][a] = root
    BY <1>2 DEF With
  <2>3. QED
    BY <2>1, <2>2
<1>10. QED
  BY <1>5, <1>7, <1>8, <1>9 DEF StepTables

\* The save that ends DeleteArea takes the area out as well.
LEMMA DeleteAreaTables ==
  ASSUME Shape, Typed, NEW r \in Requests, DeleteAreaSave(r)
  PROVE  StepTables(r)
<1>1. CASE Fails(r)
  BY <1>1, ReadsTables DEF Fails
<1>2. CASE ~Fails(r)
  <2>1. db' = [Saved(r) EXCEPT !.areas = Without(@, {req[r].id})] /\ issued' = issued
    BY <1>2 DEF DeleteAreaSave
  <2>2. /\ DOMAIN Saved(r) = Tables /\ SavedTables(Saved(r), db, req[r])
        /\ \A t \in Tables \ {"devices", "links"} : Saved(r)[t] = db[t]
    BY SavedIs, TypedSaved
  <2>3. /\ \A t \in Tables \ {"areas"} : db'[t] = Saved(r)[t]
        /\ db'["areas"] = Without(db["areas"], {req[r].id})
    BY <2>1, <2>2 DEF Tables
  <2>4. \A i \in DOMAIN db'["areas"] : i \in DOMAIN db["areas"] /\ db'["areas"][i] = db["areas"][i]
    BY <2>3 DEF Without
  <2>5. db'["links"] = Saved(r)["links"] /\ db'["devices"] = Saved(r)["devices"]
    BY <2>3 DEF Tables
  <2>6. \A i \in DOMAIN db'["links"] : i \in DOMAIN db["links"] /\ db'["links"][i] = db["links"][i]
    BY <2>2, <2>5 DEF SavedTables
  <2>7. DOMAIN db'["devices"] = DOMAIN db["devices"]
    BY <2>2, <2>5 DEF SavedTables
  <2>8. \A t \in Tables : \A i \in DOMAIN db'[t] :
          i \in DOMAIN db[t] /\ (t # "devices" => db'[t][i] = db[t][i])
    BY <2>2, <2>3, <2>4, <2>6, <2>7
  <2>9. \A i \in DOMAIN db'.devices :
          \/ i \in DOMAIN db.devices /\ db'.devices[i] = db.devices[i]
          \/ i \in DOMAIN req[r].rows /\ db'.devices[i] = req[r].rows[i]
    BY <2>2, <2>5 DEF SavedTables
  <2>10. \A t \in Tables : issued[t] <= issued'[t]
    BY <2>1 DEF Typed, TablesTyped
  <2>11. DOMAIN db'["areas"] \subseteq DOMAIN db["areas"]
    BY <2>4
  <2>12. QED
    BY <2>8, <2>9, <2>10, <2>11 DEF StepTables
<1>3. QED
  BY <1>1, <1>2

LEMMA EveryStepTables ==
  ASSUME Shape, Typed, NEW r \in Requests,
         Step(r)
  PROVE  StepTables(r)
<1>0. {"areas", "devices", "groups", "accounts", "links", "servers"} \subseteq Tables
  BY DEF Tables
<1>1. CASE Call(r) \/ Abort(r) \/ RollBack(r)
  BY <1>1, ReadsTables, RollBackTables DEF Call, Abort, Fails
<1>2. CASE Login(r)
  BY <1>2, ReadsTables, IndexTables DEF Login, IndexCheck
<1>3. CASE Areas(r)
  <2>1. CASE AddArea(r)
    <3> DEFINE row == [parent |-> req[r].id, root |-> FALSE]
    <3>1. req[r].id \in 1..issued.areas
      BY <2>1 DEF AddArea, At, Typed, RequestTyped, IdTyped
    <3>2. row.parent \in 0..issued.areas /\ Insert("areas", row)
      BY <2>1, <3>1 DEF AddArea
    <3> HIDE DEF row
    <3>3. QED
      BY <1>0, <3>2, InsertTables
  <2>2. CASE DeleteAreaCheck(r) \/ DeleteAreaDevices(r) \/ DeleteAreaLinks(r)
    BY <2>2, ReadsTables DEF DeleteAreaCheck, DeleteAreaDevices, DeleteAreaLinks
  <2>3. QED
    BY <1>3, <2>1, <2>2, DeleteAreaTables DEF Areas
<1>4. CASE Devices(r)
  <2>1. CASE AddDevice(r)
    BY <1>0, <2>1, InsertTables DEF AddDevice
  <2>2. CASE EditDeviceFind(r) \/ EditDeviceAreaFind(r) \/ DeleteDeviceLinks(r)
    BY <2>2, ReadsTables DEF EditDeviceFind, EditDeviceAreaFind, DeleteDeviceLinks, TrackDevice, MarkLinks
  <2>3. CASE EditDeviceSave(r) \/ EditDeviceAreaSave(r) \/ DeleteDeviceUnlink(r)
    BY <2>3, SaveOrFailTables DEF EditDeviceSave, EditDeviceAreaSave, DeleteDeviceUnlink
  <2>4. CASE DeleteDeviceRemove(r)
    BY <1>0, <2>4, RemoveRowTables DEF DeleteDeviceRemove
  <2>5. QED
    BY <1>4, <2>1, <2>2, <2>3, <2>4 DEF Devices
<1>5. CASE AccountGroups(r)
  <2>1. CASE AddAccountGroup(r) \/ AddAccount(r) \/ AccountGroupDeviceEditAdd(r)
    BY <1>0, <2>1, InsertTables DEF AddAccountGroup, AddAccount, AccountGroupDeviceEditAdd
  <2>2. CASE DeleteAccountGroupRemove(r) \/ DeleteAccount(r)
    BY <1>0, <2>2, RemoveRowTables DEF DeleteAccountGroupRemove, DeleteAccount
  <2>3. CASE \/ DeleteAccountGroupLinks(r) \/ AccountGroupDeviceEditLinks(r)
             \/ DeleteAccountGroupDeviceLinks(r) \/ AccountGroupDeviceEditReturn(r)
    BY <2>3, ReadsTables DEF DeleteAccountGroupLinks, AccountGroupDeviceEditLinks,
       DeleteAccountGroupDeviceLinks, AccountGroupDeviceEditReturn, MarkLinks, Fails
  <2>4. CASE \/ DeleteAccountGroupUnlink(r) \/ AccountGroupDeviceEditUnlink(r)
             \/ DeleteAccountGroupDeviceUnlink(r)
    BY <2>4, SaveOrFailTables, ReadsTables DEF DeleteAccountGroupUnlink,
       AccountGroupDeviceEditUnlink, DeleteAccountGroupDeviceUnlink
  <2>5. QED
    BY <1>5, <2>1, <2>2, <2>3, <2>4 DEF AccountGroups
<1>6. CASE Servers(r)
  <2>1. CASE AddServerSave(r)
    BY <1>0, <2>1, InsertTables DEF AddServerSave
  <2>2. CASE DeleteServerRemove(r)
    BY <1>0, <2>2, RemoveRowTables DEF DeleteServerRemove
  <2>3. CASE \/ AddServerCheck(r) \/ DeleteServerFind(r) \/ DeleteServerDevices(r)
             \/ ServerDeviceEditFind(r) \/ ServerDeviceDeleteFind(r)
    BY <2>3, ReadsTables DEF AddServerCheck, DeleteServerFind, DeleteServerDevices,
       ServerDeviceEditFind, ServerDeviceDeleteFind, TrackDevice
  <2>4. CASE ServerDeviceEditSave(r) \/ ServerDeviceDeleteSave(r)
    BY <2>4, SaveOrFailTables DEF ServerDeviceEditSave, ServerDeviceDeleteSave
  <2>5. CASE DeleteServerDetach(r)
    BY <2>5, SaveTables, ReadsTables DEF DeleteServerDetach, Fails
  <2>6. QED
    BY <1>6, <2>1, <2>2, <2>3, <2>4, <2>5 DEF Servers
<1>7. QED
  BY <1>1, <1>2, <1>3, <1>4, <1>5, <1>6 DEF Step

\* However requests of any number of sessions overlap, a row that was deleted is
\* never written back by a handler that had read it before.
THEOREM DeletedAlwaysForGood == Spec => DeletedForGood
<1>1. Shape /\ Typed /\ [Next]_vars =>
        [\A t \in Tables : \A i \in 1..issued[t] : i \notin DOMAIN db[t] => i \notin DOMAIN db'[t]]_vars
  <2> SUFFICES ASSUME Shape, Typed, Next, NEW t \in Tables, NEW i \in 1..issued[t], i \notin DOMAIN db[t]
               PROVE  i \notin DOMAIN db'[t]
    OBVIOUS
  <2>1. PICK r \in Requests : Step(r)
    BY DEF Next
  <2>2. StepTables(r)
    BY <2>1, EveryStepTables
  <2>3. issued[t] \in Nat
    BY DEF Typed, TablesTyped
  <2>4. ~(i > issued[t])
    BY <2>3
  <2>5. QED
    BY <2>2, <2>4 DEF StepTables
<1>2. QED
  BY <1>1, TypedAlways, PTL DEF Spec, DeletedForGood

\* However requests overlap, no area ever hangs below itself: a page can only show
\* ids given out before the new area's.
THEOREM AreasFormNoCircle == Spec => []NoCircle
<1>1. Init => NoCircle
  BY NoRows DEF Init, NoCircle, Tables
<1>2. Shape /\ Typed /\ NoCircle /\ [Next]_vars => NoCircle'
  <2> SUFFICES ASSUME Shape, Typed, NoCircle, [Next]_vars, NEW a \in DOMAIN db'.areas
               PROVE  db'.areas[a].parent < a
    BY DEF NoCircle
  <2>1. CASE UNCHANGED vars
    BY <2>1 DEF vars, NoCircle
  <2>2. CASE Next
    <3>1. PICK r \in Requests : Step(r)
      BY <2>2 DEF Next
    <3>2. StepTables(r) /\ "areas" \in Tables /\ issued["areas"] \in Nat
      BY <3>1, EveryStepTables DEF Tables, Typed, TablesTyped
    <3>3. CASE a \in DOMAIN db.areas
      <4>1. a \in 1..issued["areas"]
        BY <3>3, TypedRows
      <4>2. db'.areas[a] = db.areas[a]
        BY <3>2, <4>1 DEF StepTables
      <4>3. QED
        BY <3>3, <4>2 DEF NoCircle
    <3>4. CASE a \notin DOMAIN db.areas
      <4>1. a > issued["areas"] /\ db'.areas[a].parent \in 0..issued["areas"]
        BY <3>2, <3>4 DEF StepTables
      <4>2. a \in Nat
        <5>1. Typed'
          BY <2>2, NextTyped
        <5>2. QED
          BY <5>1 DEF Typed, TablesTyped, TableTyped, Tables
      <4>3. QED
        BY <3>2, <4>1, <4>2
    <3>5. QED
      BY <3>3, <3>4
  <2>3. QED
    BY <2>1, <2>2
<1>3. QED
  BY <1>1, <1>2, TypedAlways, PTL DEF Spec

-----------------------------------------------------------------------------
(* A device never names a server of the wrong kind, for any number of      *)
(* sessions.  A row read long ago may name a server that is gone when it   *)
(* is saved.  Its id is never given to another server, so what is carried  *)
(* along is that an id was issued and is of its kind while the server is.  *)

ServerOk(v, k, d, n) ==
    /\ v \in Nat /\ v <= n.servers
    /\ v \in DOMAIN d.servers => d.servers[v].kind = k

RowOk(row, d, n) == \A k \in Kinds : ServerOk(row[k], k, d, n)

\* The rows a request tracks, and the server it was asked to put into them or to delete.
TrackedOk(q, d, n) ==
    /\ \A i \in DOMAIN q.rows : RowOk(q.rows[i], d, n)
    /\ q.op \in {"ServerDeviceEdit", "DeleteServer"} => ServerOk(q.id, q.kind, d, n)

KindInv ==
    /\ \A i \in DOMAIN db.devices : RowOk(db.devices[i], db, issued)
    /\ \A r \in Requests : TrackedOk(req[r], db, issued)

\* No server, and one that a page shows, are fine.
LEMMA NoServerOk ==
  ASSUME Typed, NEW k
  PROVE  ServerOk(0, k, db, issued)
<1>1. issued.servers \in Nat /\ \A s \in DOMAIN db.servers : s \in 1..issued.servers
  BY TypedRows DEF Tables
<1>2. QED
  BY <1>1 DEF ServerOk

LEMMA ShownServerOk ==
  ASSUME Typed, NEW s \in ShownServers
  PROVE  ServerOk(s.id, s.kind, db, issued)
<1>1. issued["servers"] \in Nat
  BY DEF Typed, TablesTyped, Tables
<1>2. s.id \in 1..issued["servers"]
  BY DEF ShownServers, Shown
<1>3. s.id \in DOMAIN db.servers => db.servers[s.id].kind = s.kind
  BY DEF ShownServers
<1>4. QED
  BY <1>1, <1>2, <1>3 DEF ServerOk

\* A row with another area, or with another server that is fine.
LEMMA ChangedRowOk ==
  ASSUME NEW row \in Row("devices"), NEW d, NEW n, RowOk(row, d, n)
  PROVE  /\ \A a : RowOk([row EXCEPT !.area = a], d, n)
         /\ \A k \in Kinds : \A v : ServerOk(v, k, d, n) => RowOk([row EXCEPT ![k] = v], d, n)
<1>1. row \in [area : 1..Limit["areas"], core : 0..Limit["servers"], live : 0..Limit["servers"]]
  BY DEF Row
<1>2. ASSUME NEW a PROVE RowOk([row EXCEPT !.area = a], d, n)
  <2>1. \A k \in Kinds : [row EXCEPT !.area = a][k] = row[k]
    BY <1>1 DEF Kinds
  <2>2. QED
    BY <2>1 DEF RowOk
<1>3. ASSUME NEW k \in Kinds, NEW v, ServerOk(v, k, d, n)
      PROVE  RowOk([row EXCEPT ![k] = v], d, n)
  <2>1. [row EXCEPT ![k] = v][k] = v /\ \A j \in Kinds \ {k} : [row EXCEPT ![k] = v][j] = row[j]
    BY <1>1 DEF Kinds
  <2>2. QED
    BY <1>3, <2>1 DEF RowOk
<1>4. QED
  BY <1>2, <1>3

\* No step gives an id to a server of the other kind.
LEMMA ServerStaysOk ==
  ASSUME Typed, Typed', NEW r \in Requests, StepTables(r), NEW v, NEW k,
         ServerOk(v, k, db, issued)
  PROVE  ServerOk(v, k, db', issued')
<1>1. "servers" \in Tables
  BY DEF Tables
<1>2. /\ issued["servers"] \in Nat /\ issued'["servers"] \in Nat
      /\ issued["servers"] <= issued'["servers"]
  BY <1>1 DEF Typed, TablesTyped, StepTables
<1>3. v \in Nat /\ v <= issued'.servers
  BY <1>2 DEF ServerOk
<1>4. ASSUME v \in DOMAIN db'["servers"] PROVE db'["servers"][v].kind = k
  <2>1. ~(v > issued["servers"])
    BY <1>2 DEF ServerOk
  <2>2. v \in DOMAIN db["servers"] /\ db'["servers"][v] = db["servers"][v]
    BY <1>1, <1>4, <2>1 DEF StepTables
  <2>3. QED
    BY <2>2 DEF ServerOk
<1>5. QED
  BY <1>3, <1>4 DEF ServerOk

\* A step keeps the invariant when what its request tracks afterwards is fine.
LEMMA KindStep ==
  ASSUME Shape, Typed, Typed', KindInv, NEW r \in Requests, StepTables(r),
         \A s \in Requests \ {r} : req'[s] = req[s],
         TrackedOk(req'[r], db, issued)
  PROVE  KindInv'
<1>1. ASSUME NEW row, RowOk(row, db, issued) PROVE RowOk(row, db', issued')
  BY <1>1, ServerStaysOk DEF RowOk
<1>2. ASSUME NEW s \in Requests PROVE TrackedOk(req[s], db, issued)'
  <2>1. TrackedOk(req'[s], db, issued)
    BY DEF KindInv
  <2>2. TrackedOk(req'[s], db', issued')
    BY <1>1, <2>1, ServerStaysOk DEF TrackedOk
  <2>3. QED
    BY <2>2
<1>3. ASSUME NEW i \in DOMAIN db'.devices PROVE RowOk(db'.devices[i], db', issued')
  <2>1. CASE i \in DOMAIN db.devices /\ db'.devices[i] = db.devices[i]
    BY <1>1, <2>1 DEF KindInv
  <2>2. CASE i \in DOMAIN req[r].rows /\ db'.devices[i] = req[r].rows[i]
    BY <1>1, <2>2 DEF KindInv, TrackedOk
  <2>3. CASE db'.devices[i].core = 0 /\ db'.devices[i].live = 0
    <3>1. \A k \in Kinds : db'.devices[i][k] = 0
      BY <2>3 DEF Kinds
    <3>2. \A k \in Kinds : ServerOk(0, k, db', issued')
      BY NoServerOk, ServerStaysOk
    <3>3. QED
      BY <3>1, <3>2 DEF RowOk
  <2>4. QED
    BY <2>1, <2>2, <2>3 DEF StepTables
<1>4. QED
  BY <1>2, <1>3 DEF KindInv

\* A request that returns, or goes on with the rows it had.
SameRows(r) ==
    \/ req'[r] = Idle
    \/ /\ req'[r].op = req[r].op /\ req'[r].id = req[r].id /\ req'[r].kind = req[r].kind
       /\ req'[r].rows = req[r].rows

LEMMA SameRowsOk ==
  ASSUME KindInv, NEW r \in Requests, SameRows(r)
  PROVE  TrackedOk(req'[r], db, issued)
<1>1. CASE req'[r] = Idle
  <2>1. Idle.op = "none" /\ DOMAIN Idle.rows = {}
    BY NoRows DEF Idle
  <2>2. QED
    BY <1>1, <2>1 DEF TrackedOk
<1>2. CASE req'[r] # Idle
  BY <1>2 DEF SameRows, KindInv, TrackedOk
<1>3. QED
  BY <1>1, <1>2

\* A request that goes on with new rows that are fine.
LEMMA NewRowsOk ==
  ASSUME KindInv, NEW r \in Requests, NEW rows,
         req'[r].op = req[r].op, req'[r].id = req[r].id, req'[r].kind = req[r].kind,
         req'[r].rows = rows, \A i \in DOMAIN rows : RowOk(rows[i], db, issued)
  PROVE  TrackedOk(req'[r], db, issued)
  BY DEF KindInv, TrackedOk

\* A device that was just found.
LEMMA FoundOk ==
  ASSUME Shape, Typed, KindInv, NEW r \in Requests, NEW row, TrackDevice(r, row),
         req[r].id \in DOMAIN db.devices => RowOk(row, db, issued)
  PROVE  TrackedOk(req'[r], db, issued)
<1>0. DOMAIN req[r] = Fields /\ DOMAIN req = Requests
  BY DEF Shape
<1>1. CASE req[r].id \in DOMAIN db.devices
  <2> DEFINE rows == [d \in {req[r].id} |-> row]
  <2>1. \A i \in DOMAIN rows : RowOk(rows[i], db, issued)
    BY <1>1
  <2>2. req' = [req EXCEPT ![r].at = "save", ![r].rows = rows]
    BY <1>1 DEF TrackDevice
  <2> HIDE DEF rows
  <2>3. /\ req'[r].op = req[r].op /\ req'[r].id = req[r].id /\ req'[r].kind = req[r].kind
        /\ req'[r].rows = rows
    BY <1>0, <2>2, IdleShape
  <2>4. QED
    BY <2>1, <2>3, NewRowsOk
<1>2. CASE req[r].id \notin DOMAIN db.devices
  BY <1>0, <1>2, SameRowsOk DEF TrackDevice, Return, SameRows
<1>3. QED
  BY <1>1, <1>2

\* What the console sends tracks nothing yet, and the server it names was of the
\* kind shown.
LEMMA InputOk ==
  ASSUME Typed, NEW op \in Ops, NEW in \in Inputs(op)
  PROVE  TrackedOk([in EXCEPT !.op = op], db, issued)
<1>1. op \in {"ServerDeviceEdit", "DeleteServer"} =>
        \E s \in ShownServers : \E D : in = Send(s.id, 0, s.kind, D)
  BY DEF Inputs
<1>2. in = Idle \/ \E id, to, kind, todo : in = Send(id, to, kind, todo)
  BY OpsAssumption DEF OpsAssumption, Handlers, Inputs
<1> DEFINE q == [in EXCEPT !.op = op]
<1>3. q.rows = None /\ q.op = op
  <2>1. CASE in = Idle
    BY <2>1 DEF Idle
  <2>2. CASE in # Idle
    <3>1. PICK id, to, kind, todo : in = Send(id, to, kind, todo)
      BY <1>2, <2>2
    <3>2. QED
      BY <3>1, SendFields
  <2>3. QED
    BY <2>1, <2>2
<1>4. ASSUME op \in {"ServerDeviceEdit", "DeleteServer"} PROVE ServerOk(q.id, q.kind, db, issued)
  <2>1. PICK s \in ShownServers : \E D : in = Send(s.id, 0, s.kind, D)
    BY <1>1, <1>4
  <2>2. PICK D : in = Send(s.id, 0, s.kind, D)
    BY <2>1
  <2>3. q.id = s.id /\ q.kind = s.kind
    BY <2>2, SendFields
  <2>4. QED
    BY <2>3, ShownServerOk
<1> HIDE DEF q
<1>5. TrackedOk(q, db, issued)
  BY <1>3, <1>4, NoRows DEF TrackedOk
<1>6. QED
  BY <1>5 DEF q

LEMMA CallTracks ==
  ASSUME Shape, Typed, NEW r \in Requests, Call(r)
  PROVE  TrackedOk(req'[r], db, issued) /\ \A s \in Requests \ {r} : req'[s] = req[s]
<1>1. PICK op \in Ops : \E in \in Inputs(op) : req' = [req EXCEPT ![r] = [in EXCEPT !.op = op]]
  BY DEF Call
<1>2. PICK in \in Inputs(op) : req' = [req EXCEPT ![r] = [in EXCEPT !.op = op]]
  BY <1>1
<1>3. req'[r] = [in EXCEPT !.op = op] /\ \A s \in Requests \ {r} : req'[s] = req[s]
  BY <1>2 DEF Shape
<1>4. QED
  BY <1>3, InputOk

\* Handlers that find no devices go on with what they track.
LEMMA LoginTracks ==
  ASSUME Shape, NEW r \in Requests, Login(r) \/ Abort(r) \/ RollBack(r)
  PROVE  SameRows(r)
<1>0. DOMAIN req[r] = Fields /\ DOMAIN req = Requests
  BY DEF Shape
<1>1. QED
  BY <1>0, IdleShape DEF Login, IndexCheck, IndexSave, Abort, RollBack, Fails, Return, SameRows

LEMMA GroupsTrack ==
  ASSUME Shape, NEW r \in Requests, AccountGroups(r)
  PROVE  SameRows(r)
<1>0. DOMAIN req[r] = Fields /\ DOMAIN req = Requests
  BY DEF Shape
<1>1. CASE AddAccountGroup(r) \/ AddAccount(r) \/ AccountGroupDeviceEditReturn(r)
  BY <1>0, <1>1 DEF AddAccountGroup, AddAccount, AccountGroupDeviceEditReturn, Return, SameRows
<1>2. CASE AccountGroupDeviceEditAdd(r)
  <2>1. PICK d \in req[r].todo : req' = [req EXCEPT ![r].todo = @ \ {d}]
    BY <1>2 DEF AccountGroupDeviceEditAdd
  <2>2. QED
    BY <1>0, <2>1, IdleShape DEF SameRows
<1>3. CASE DeleteAccountGroupRemove(r) \/ DeleteAccount(r)
  BY <1>0, <1>3 DEF DeleteAccountGroupRemove, DeleteAccount, RemoveRow, Fails, Return, SameRows
<1>4. CASE DeleteAccountGroupLinks(r) \/ AccountGroupDeviceEditLinks(r) \/ DeleteAccountGroupDeviceLinks(r)
  BY <1>0, <1>4, IdleShape
     DEF DeleteAccountGroupLinks, AccountGroupDeviceEditLinks, DeleteAccountGroupDeviceLinks,
         MarkLinks, Fails, Return, SameRows
<1>5. CASE \/ DeleteAccountGroupUnlink(r) \/ AccountGroupDeviceEditUnlink(r)
           \/ DeleteAccountGroupDeviceUnlink(r)
  BY <1>0, <1>5, IdleShape
     DEF DeleteAccountGroupUnlink, AccountGroupDeviceEditUnlink, DeleteAccountGroupDeviceUnlink,
         Unlink, Fails, Return, SameRows
<1>6. QED
  BY <1>1, <1>2, <1>3, <1>4, <1>5 DEF AccountGroups

\* The devices of an area that is deleted are tracked with the area they go to.
LEMMA AreasTrack ==
  ASSUME Shape, Typed, KindInv, NEW r \in Requests, Areas(r)
  PROVE  TrackedOk(req'[r], db, issued)
<1>0. DOMAIN req[r] = Fields /\ DOMAIN req = Requests
  BY DEF Shape
<1>1. CASE AddArea(r) \/ DeleteAreaCheck(r) \/ DeleteAreaSave(r)
  <2>1. SameRows(r)
    BY <1>0, <1>1, IdleShape DEF AddArea, DeleteAreaCheck, DeleteAreaSave, Fails, Return, SameRows
  <2>2. QED
    BY <2>1, SameRowsOk
<1>2. CASE DeleteAreaDevices(r)
  <2> DEFINE D == {d \in DOMAIN db.devices : db.devices[d].area = req[r].id}
             moved == [d \in D |-> [db.devices[d] EXCEPT !.area = 1]]
  <2>1. req' = [req EXCEPT ![r].at = "links", ![r].todo = D, ![r].rows = moved]
    BY <1>2 DEF DeleteAreaDevices
  <2>2. \A i \in DOMAIN moved : RowOk(moved[i], db, issued)
    BY TypedRows, ChangedRowOk DEF KindInv
  <2> HIDE DEF D, moved
  <2>3. /\ req'[r].op = req[r].op /\ req'[r].id = req[r].id /\ req'[r].kind = req[r].kind
        /\ req'[r].rows = moved
    BY <1>0, <2>1, IdleShape
  <2>4. QED
    BY <2>2, <2>3, NewRowsOk
<1>3. CASE DeleteAreaLinks(r)
  <2>1. PICK d \in req[r].todo :
          req' = [req EXCEPT ![r].todo = @ \ {d},
                             ![r].dels = @ \cup {l \in DOMAIN db.links : db.links[l].did = d}]
    BY <1>3 DEF DeleteAreaLinks
  <2>2. SameRows(r)
    BY <1>0, <2>1, IdleShape DEF SameRows
  <2>3. QED
    BY <2>2, SameRowsOk
<1>4. QED
  BY <1>1, <1>2, <1>3 DEF Areas

LEMMA DevicesTrack ==
  ASSUME Shape, Typed, KindInv, NEW r \in Requests, Devices(r)
  PROVE  TrackedOk(req'[r], db, issued)
<1>0. DOMAIN req[r] = Fields /\ DOMAIN req = Requests
  BY DEF Shape
<1>1. CASE EditDeviceFind(r)
  <2>1. req[r].id \in DOMAIN db.devices => RowOk(Found(r), db, issued)
    BY DEF KindInv, Found
  <2>2. QED
    BY <1>1, <2>1, FoundOk DEF EditDeviceFind
<1>2. CASE EditDeviceAreaFind(r)
  <2>1. req[r].id \in DOMAIN db.devices => RowOk([Found(r) EXCEPT !.area = req[r].to], db, issued)
    BY TypedRows, ChangedRowOk DEF KindInv, Found
  <2>2. QED
    BY <1>2, <2>1, FoundOk DEF EditDeviceAreaFind
<1>3. CASE ~(EditDeviceFind(r) \/ EditDeviceAreaFind(r))
  <2>1. SameRows(r)
    BY <1>0, <1>3, IdleShape
       DEF Devices, AddDevice, EditDeviceSave, EditDeviceAreaSave, DeleteDeviceLinks,
           DeleteDeviceUnlink, DeleteDeviceRemove, SaveDevices, MarkLinks, Unlink, RemoveRow,
           Fails, Return, SameRows
  <2>2. QED
    BY <2>1, SameRowsOk
<1>4. QED
  BY <1>1, <1>2, <1>3

\* A server is taken off the devices, or one of its kind put on them.
LEMMA ServersTrack ==
  ASSUME Shape, Typed, KindInv, NEW r \in Requests, Servers(r)
  PROVE  TrackedOk(req'[r], db, issued)
<1>0. DOMAIN req[r] = Fields /\ DOMAIN req = Requests /\ req[r].kind \in Kinds
  BY DEF Shape, Typed, RequestTyped
<1>1. CASE \/ AddServerCheck(r) \/ AddServerSave(r) \/ DeleteServerFind(r)
           \/ DeleteServerRemove(r) \/ ServerDeviceEditSave(r) \/ ServerDeviceDeleteSave(r)
  <2>1. SameRows(r)
    BY <1>0, <1>1, IdleShape
       DEF AddServerCheck, AddServerSave, DeleteServerFind, DeleteServerRemove,
           ServerDeviceEditSave, ServerDeviceDeleteSave, SaveDevices, RemoveRow,
           Fails, Return, SameRows
  <2>2. QED
    BY <2>1, SameRowsOk
<1>2. CASE DeleteServerDevices(r)
  <2> DEFINE k == req[r].kind
             D == {d \in DOMAIN db.devices : db.devices[d][k] = req[r].id}
             freed == [d \in D |-> [db.devices[d] EXCEPT ![k] = 0]]
             at == IF D = {} THEN "next" ELSE "save"
  <2>1. req' = [req EXCEPT ![r].rows = freed, ![r].at = at]
    BY <1>2 DEF DeleteServerDevices
  <2>2. \A i \in DOMAIN freed : RowOk(freed[i], db, issued)
    BY <1>0, TypedRows, ChangedRowOk, NoServerOk DEF KindInv
  <2> HIDE DEF D, freed, at
  <2>3. /\ req'[r].op = req[r].op /\ req'[r].id = req[r].id /\ req'[r].kind = req[r].kind
        /\ req'[r].rows = freed
    BY <1>0, <2>1, IdleShape
  <2>4. QED
    BY <2>2, <2>3, NewRowsOk
<1>3. CASE DeleteServerDetach(r)
  <2>1. CASE CanSave(r)
    <3>1. req' = [req EXCEPT ![r].rows = None, ![r].at = "next"]
      BY <1>3, <2>1 DEF DeleteServerDetach
    <3>2. /\ req'[r].op = req[r].op /\ req'[r].id = req[r].id /\ req'[r].kind = req[r].kind
          /\ req'[r].rows = None
      BY <1>0, <3>1, IdleShape
    <3>3. QED
      BY <3>2, NoRows, NewRowsOk
  <2>2. CASE ~CanSave(r)
    BY <1>0, <1>3, <2>2, SameRowsOk DEF DeleteServerDetach, Fails, Return, SameRows
  <2>3. QED
    BY <2>1, <2>2
<1>4. CASE ServerDeviceEditFind(r)
  <2> DEFINE row(d) == [db.devices[d] EXCEPT ![req[r].kind] = req[r].id]
  <2>1. PICK d \in req[r].todo :
          req' = [req EXCEPT ![r].todo = @ \ {d},
                             ![r].rows = IF d \in DOMAIN db.devices THEN With(@, d, row(d)) ELSE @]
    BY <1>4 DEF ServerDeviceEditFind
  <2>2. ServerOk(req[r].id, req[r].kind, db, issued)
    BY <1>4 DEF ServerDeviceEditFind, At, KindInv, TrackedOk
  <2>3. d \in DOMAIN db.devices => RowOk(row(d), db, issued)
    BY <1>0, <2>2, TypedRows, ChangedRowOk DEF KindInv
  <2> HIDE DEF row
  <2> DEFINE rows == IF d \in DOMAIN db.devices THEN With(req[r].rows, d, row(d)) ELSE req[r].rows
  <2>4. \A i \in DOMAIN rows : RowOk(rows[i], db, issued)
    BY <2>3 DEF With, KindInv, TrackedOk
  <2>5. /\ req'[r].op = req[r].op /\ req'[r].id = req[r].id /\ req'[r].kind = req[r].kind
        /\ req'[r].rows = rows
    BY <1>0, <2>1, IdleShape
  <2> HIDE DEF rows
  <2>6. QED
    BY <2>4, <2>5, NewRowsOk
<1>5. CASE ServerDeviceDeleteFind(r)
  <2>1. req[r].id \in DOMAIN db.devices => RowOk([Found(r) EXCEPT ![req[r].kind] = 0], db, issued)
    BY <1>0, TypedRows, ChangedRowOk, NoServerOk DEF KindInv, Found
  <2>2. QED
    BY <1>5, <2>1, FoundOk DEF ServerDeviceDeleteFind
<1>6. QED
  BY <1>1, <1>2, <1>3, <1>4, <1>5 DEF Servers

LEMMA InitKinds == Init => KindInv
<1> SUFFICES ASSUME Init PROVE KindInv
  OBVIOUS
<1>1. DOMAIN db.devices = {}
  BY NoRows DEF Init, Tables
<1>2. \A r \in Requests : req[r].op = "none" /\ DOMAIN req[r].rows = {}
  BY NoRows DEF Init, Idle
<1>3. QED
  BY <1>1, <1>2 DEF KindInv, TrackedOk

LEMMA NextKinds == Shape /\ Typed /\ Typed' /\ KindInv /\ [Next]_vars => KindInv'
<1> SUFFICES ASSUME Shape, Typed, Typed', KindInv, [Next]_vars PROVE KindInv'
  OBVIOUS
<1>1. CASE UNCHANGED vars
  BY <1>1 DEF vars, KindInv
<1>2. CASE Next
  <2>1. PICK r \in Requests : Step(r)
    BY <1>2 DEF Next
  <2>2. StepTables(r)
    BY <2>1, EveryStepTables
  <2>3. TrackedOk(req'[r], db, issued)
    BY <2>1, CallTracks, LoginTracks, GroupsTrack, AreasTrack, DevicesTrack, ServersTrack, SameRowsOk DEF Step
  <2>4. \A s \in Requests \ {r} : req'[s] = req[s]
    BY <2>1, CallTracks, OthersWait DEF Step
  <2>5. QED
    BY <2>2, <2>3, <2>4, KindStep
<1>3. QED
  BY <1>1, <1>2

\* Every row and every request names servers of the right kind, or none that is there.
THEOREM KindsAlways == Spec => []KindInv
<1>1. QED
  BY InitKinds, NextKinds, TypedAlways, PTL DEF Spec

\* However requests of any number of sessions overlap, a device never names a
\* server of the other kind: what a handler writes back late may be the id of a
\* server that is gone, and that id is not given out again.
THEOREM NeverTheWrongKind == Spec => []NoWrongKind
<1>1. KindInv => NoWrongKind
  BY DEF KindInv, RowOk, ServerOk, NoWrongKind
<1>2. QED
  BY <1>1, KindsAlways, PTL
=============================================================================
