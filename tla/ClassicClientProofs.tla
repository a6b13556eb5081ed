------------------------ MODULE ClassicClientProofs ------------------------
(***************************************************************************)
(* Proofs about ClassicClient, for any numbers of threads, devices and     *)
(* servers.                                                                *)
(***************************************************************************)
EXTENDS ClassicClient, TLAPS

IInv ==
  /\ TypeOK
  /\ HoldersLocked
  /\ ServedUnlessUpdating
  /\ CallsServed

ThreadStep == \E t \in Threads : Running /\ (Begin(t) \/ Thread(t))
Undefined == \E t \in Threads : UseAfterDelete(t)

LEMMA NextCases ==
  ASSUME [Next]_vars
  PROVE  ThreadStep \/ XDelete \/ Undefined \/ UNCHANGED vars
  BY DEF Next, ThreadStep, Undefined, Ended

-----------------------------------------------------------------------------
(* Type correctness *)

LEMMA InitTypeOK == Init => TypeOK
<1> SUFFICES ASSUME Init PROVE TypeOK
  OBVIOUS
<1>1. fault \in BOOLEAN /\ len \in [Threads -> BOOLEAN]
  BY DEF Init
<1>2. QED
  BY <1>1 DEF Init, TypeOK, Lists, Ops

LEMMA ThreadTypeOK ==
  ASSUME TypeOK, NEW t \in Threads, Begin(t) \/ Thread(t)
  PROVE  TypeOK'
<1> USE DEF TypeOK, Goes, Keep
<1>1. CASE Begin(t)
  <2>1. len' \in [Threads -> BOOLEAN]
    BY <1>1 DEF Begin
  <2>2. QED
    BY <1>1, <2>1 DEF Begin
<1>2. CASE Lock(t) \/ Unlock(t) \/ Make(t)
  BY <1>2 DEF Lock, Unlock, Make
<1>3. CASE Ask(t)
  BY <1>3 DEF Ask
<1>4. CASE UpdateSignalingServers(t)
  <2>1. len' \in [Threads -> BOOLEAN]
    BY <1>4 DEF UpdateSignalingServers, threadVars
  <2>2. objects' \subseteq Servers /\ objects \subseteq objects'
    BY <1>4 DEF UpdateSignalingServers, Listed, Lists
  <2>3. tpc' = tpc \/ tpc' = [tpc EXCEPT ![t] = "unlock"]
    BY <1>4 DEF UpdateSignalingServers
  <2>4. UNCHANGED <<fault, dpc, lock, list, deleted, op, dev, srv>>
    BY <1>4 DEF UpdateSignalingServers
  <2>5. QED
    BY <2>1, <2>2, <2>3, <2>4
<1>5. CASE Find(t)
  <2>1. list[dev[t]] \in Servers \cup {Nowhere}
    BY DEF Lists
  <2>2. srv' \in [Threads -> Servers \cup {Nowhere}]
    BY <1>5, <2>1 DEF Find
  <2>3. len' \in [Threads -> BOOLEAN]
    BY <1>5 DEF Find
  <2>4. tpc' \in [Threads -> {"idle", "lock", "ask", "update", "find", "call", "unlock", "make"}]
    BY <1>5 DEF Find
  <2>5. QED
    BY <1>5, <2>2, <2>3, <2>4 DEF Find
<1>6. CASE Call(t)
  <2>1. fault' \in BOOLEAN /\ len' \in [Threads -> BOOLEAN]
    BY <1>6 DEF Call
  <2>2. QED
    BY <1>6, <2>1 DEF Call
<1>7. QED
  BY <1>1, <1>2, <1>3, <1>4, <1>5, <1>6 DEF Thread

LEMMA NextTypeOK ==
  ASSUME TypeOK, [Next]_vars
  PROVE  TypeOK'
<1>1. CASE ThreadStep
  BY <1>1, ThreadTypeOK DEF ThreadStep
<1>2. CASE XDelete
  <2> USE DEF TypeOK, threadVars
  <2>0. MayClash => fault' \in BOOLEAN
    BY DEF MayClash
  <2>1. CASE ClearDeivceInfoList
    BY <2>0, <2>1 DEF ClearDeivceInfoList, Lists
  <2>2. CASE ClearSignalingServers
    <3>1. fault' \in BOOLEAN
      BY <2>0, <2>2 DEF ClearSignalingServers
    <3>2. dpc' \in {"servers", "gone"} /\ objects' \subseteq Servers /\ deleted' \subseteq objects'
      BY <2>2 DEF ClearSignalingServers
    <3>3. UNCHANGED <<lock, list, threadVars>>
      BY <2>2 DEF ClearSignalingServers
    <3>4. QED
      BY <3>1, <3>2, <3>3
  <2>3. QED
    BY <1>2, <2>1, <2>2 DEF XDelete
<1>3. CASE Undefined
  <2>1. fault' \in BOOLEAN
    BY <1>3 DEF Undefined, UseAfterDelete
  <2>2. QED
    BY <1>3, <2>1 DEF Undefined, UseAfterDelete, threadVars, TypeOK
<1>4. CASE UNCHANGED vars
  BY <1>4 DEF vars, threadVars, TypeOK
<1>5. QED
  BY <1>1, <1>2, <1>3, <1>4, NextCases

\* Every variable keeps its type (ClassicClientInstance.cpp's members and calls).
THEOREM TypeCorrect == Spec => []TypeOK
<1>1. QED
  BY InitTypeOK, NextTypeOK, PTL DEF Spec

-----------------------------------------------------------------------------
(* The lock *)

\* What a step of one thread does to the place of every other: nothing.
LEMMA OthersStay ==
  ASSUME TypeOK, NEW t \in Threads, Begin(t) \/ Thread(t), NEW u \in Threads, u # t
  PROVE  tpc'[u] = tpc[u] /\ srv'[u] = srv[u] /\ dev'[u] = dev[u]
<1> USE DEF TypeOK, Goes, Keep
<1>1. CASE Begin(t) \/ Lock(t) \/ Unlock(t) \/ Make(t)
  BY <1>1 DEF Begin, Lock, Unlock, Make
<1>2. CASE Ask(t) \/ UpdateSignalingServers(t)
  BY <1>2 DEF Ask, UpdateSignalingServers
<1>3. CASE Find(t) \/ Call(t)
  BY <1>3 DEF Find, Call
<1>4. QED
  BY <1>1, <1>2, <1>3 DEF Thread

LEMMA HoldersLockedStep ==
  ASSUME TypeOK, HoldersLocked, [Next]_vars
  PROVE  HoldersLocked'
<1>1. ASSUME NEW t \in Threads, Begin(t) \/ Thread(t)
      PROVE  HoldersLocked'
  <2> SUFFICES ASSUME NEW u \in Threads, tpc'[u] \in {"ask", "update", "find", "call", "unlock"}
               PROVE  lock' = u
    BY DEF HoldersLocked
  <2> USE DEF TypeOK, HoldersLocked, Goes, Keep
  <2>1. CASE u = t
    <3>1. CASE Begin(t) \/ Make(t)
      BY <2>1, <3>1 DEF Begin, Make
    <3>2. CASE Lock(t) \/ Unlock(t)
      BY <2>1, <3>2 DEF Lock, Unlock
    <3>3. CASE Ask(t) \/ UpdateSignalingServers(t) \/ Find(t) \/ Call(t)
      BY <2>1, <3>3 DEF Ask, UpdateSignalingServers, Find, Call
    <3>4. QED
      BY <1>1, <3>1, <3>2, <3>3 DEF Thread
  <2>2. CASE u # t
    <3>1. lock = u
      BY <1>1, <2>2, OthersStay
    <3>2. lock' = lock
      <4>1. ~Lock(t)
        BY <3>1, ConstAssumption DEF Lock, ConstAssumption
      <4>2. ~Unlock(t)
        BY <2>2, <3>1 DEF Unlock
      <4>3. CASE Begin(t) \/ Make(t)
        BY <4>3 DEF Begin, Make
      <4>4. CASE Ask(t) \/ UpdateSignalingServers(t) \/ Find(t) \/ Call(t)
        BY <4>4 DEF Ask, UpdateSignalingServers, Find, Call
      <4>5. QED
        BY <1>1, <4>1, <4>2, <4>3, <4>4 DEF Thread
    <3>3. QED
      BY <3>1, <3>2
  <2>3. QED
    BY <2>1, <2>2
<1>2. CASE XDelete \/ Undefined
  BY <1>2 DEF XDelete, ClearDeivceInfoList, ClearSignalingServers, Undefined, UseAfterDelete,
              threadVars, HoldersLocked
<1>3. CASE UNCHANGED vars
  BY <1>3 DEF vars, threadVars, HoldersLocked
<1>4. QED
  BY <1>1, <1>2, <1>3, NextCases DEF ThreadStep

-----------------------------------------------------------------------------
(* The list and the objects *)

\* XDelete never becomes undone.
LEMMA XDeleteStays ==
  ASSUME TypeOK, [Next]_vars, dpc' = "none"
  PROVE  /\ dpc = "none"
         /\ ThreadStep \/ UNCHANGED <<list, objects, lock, threadVars>>
<1>1. ASSUME NEW t \in Threads, Begin(t) \/ Thread(t)
      PROVE  dpc' = dpc
  BY <1>1 DEF Begin, Thread, Lock, Unlock, Ask, UpdateSignalingServers, Find, Call, Make, Keep
<1>2. CASE XDelete
  BY <1>2 DEF XDelete, ClearDeivceInfoList, ClearSignalingServers
<1>3. CASE Undefined
  BY <1>3 DEF Undefined, UseAfterDelete
<1>4. CASE UNCHANGED vars
  BY <1>4 DEF vars
<1>5. QED
  BY <1>1, <1>2, <1>3, <1>4, NextCases DEF ThreadStep

LEMMA ServedStep ==
  ASSUME TypeOK, HoldersLocked, ServedUnlessUpdating, [Next]_vars
  PROVE  ServedUnlessUpdating'
<1> SUFFICES ASSUME dpc' = "none"
             PROVE  Listed' \subseteq objects' \/ \E u \in Threads : lock' = u /\ tpc'[u] = "update"
  BY DEF ServedUnlessUpdating
<1>0. Listed \subseteq objects \/ \E u \in Threads : lock = u /\ tpc[u] = "update"
  BY XDeleteStays DEF ServedUnlessUpdating
<1>1. CASE UNCHANGED <<list, objects, lock, threadVars>>
  BY <1>0, <1>1 DEF threadVars, Listed
<1>2. ASSUME NEW t \in Threads, Begin(t) \/ Thread(t)
      PROVE  Listed' \subseteq objects' \/ \E u \in Threads : lock' = u /\ tpc'[u] = "update"
  <2> USE DEF TypeOK, Goes, Keep
  <2>1. CASE Ask(t)
    <3>1. lock' = t /\ objects' = objects
      BY <2>1 DEF Ask, HoldersLocked
    <3>2. Listed \subseteq objects
      BY <1>0, <2>1 DEF Ask, HoldersLocked
    <3>3. tpc'[t] = "update" \/ list' = list
      BY <2>1 DEF Ask
    <3>4. QED
      BY <3>1, <3>2, <3>3 DEF Listed
  <2>2. CASE UpdateSignalingServers(t)
    <3>1. lock' = t /\ list' = list
      BY <2>2 DEF UpdateSignalingServers, HoldersLocked
    <3>2. tpc'[t] = "update" \/ (Listed \subseteq objects /\ objects' = objects)
      BY <2>2 DEF UpdateSignalingServers
    <3>3. QED
      BY <3>1, <3>2 DEF Listed
  <2>3. CASE Begin(t) \/ Lock(t) \/ Unlock(t) \/ Find(t) \/ Call(t) \/ Make(t)
    <3>1. list' = list /\ objects' = objects
      BY <2>3 DEF Begin, Lock, Unlock, Find, Call, Make
    <3>2. CASE Listed \subseteq objects
      BY <3>1, <3>2 DEF Listed
    <3>3. CASE \E u \in Threads : lock = u /\ tpc[u] = "update"
      <4>1. PICK u \in Threads : lock = u /\ tpc[u] = "update"
        BY <3>3
      <4>2. u # t
        BY <2>3, <4>1 DEF Begin, Lock, Unlock, Find, Call, Make
      <4>3. tpc'[u] = "update"
        BY <1>2, <4>1, <4>2, OthersStay
      <4>4. lock' = u
        BY <4>1, <4>3, HoldersLockedStep DEF HoldersLocked
      <4>5. QED
        BY <4>3, <4>4
    <3>4. QED
      BY <1>0, <3>2, <3>3
  <2>4. QED
    BY <1>2, <2>1, <2>2, <2>3 DEF Thread
<1>3. QED
  BY <1>1, <1>2, XDeleteStays DEF ThreadStep

LEMMA CallsServedStep ==
  ASSUME TypeOK, HoldersLocked, CallsServed, [Next]_vars
  PROVE  CallsServed'
<1> SUFFICES ASSUME dpc' = "none", NEW u \in Threads, tpc'[u] = "call"
             PROVE  srv'[u] = list'[dev'[u]] /\ srv'[u] \in objects'
  BY DEF CallsServed
<1>0. \A v \in Threads : tpc[v] = "call" => srv[v] = list[dev[v]] /\ srv[v] \in objects
  BY XDeleteStays DEF CallsServed
<1>1. CASE UNCHANGED <<list, objects, lock, threadVars>>
  BY <1>0, <1>1 DEF threadVars
<1>2. ASSUME NEW t \in Threads, Begin(t) \/ Thread(t)
      PROVE  srv'[u] = list'[dev'[u]] /\ srv'[u] \in objects'
  <2> USE DEF TypeOK, Goes, Keep
  <2>1. CASE u = t
    <3>1. CASE Find(t)
      BY <2>1, <3>1 DEF Find
    <3>2. CASE Begin(t) \/ Lock(t) \/ Unlock(t) \/ Make(t)
      BY <2>1, <3>2 DEF Begin, Lock, Unlock, Make
    <3>3. CASE Ask(t) \/ UpdateSignalingServers(t) \/ Call(t)
      BY <2>1, <3>3 DEF Ask, UpdateSignalingServers, Call
    <3>4. QED
      BY <1>2, <3>1, <3>2, <3>3 DEF Thread
  <2>2. CASE u # t
    <3>1. tpc[u] = "call" /\ srv'[u] = srv[u] /\ dev'[u] = dev[u]
      BY <1>2, <2>2, OthersStay
    <3>2. lock = u
      BY <3>1 DEF HoldersLocked
    <3>3. ~Ask(t) /\ ~UpdateSignalingServers(t)
      BY <2>2, <3>2 DEF Ask, UpdateSignalingServers, HoldersLocked
    <3>4. list' = list /\ objects' = objects
      BY <1>2, <3>3 DEF Thread, Begin, Lock, Unlock, Find, Call, Make
    <3>5. QED
      BY <1>0, <3>1, <3>4
  <2>3. QED
    BY <2>1, <2>2
<1>3. QED
  BY <1>1, <1>2, XDeleteStays DEF ThreadStep

-----------------------------------------------------------------------------
(* The invariant and the theorem *)

LEMMA InitIInv == Init => IInv
<1> SUFFICES ASSUME Init PROVE IInv
  OBVIOUS
<1>1. Listed = {}
  BY DEF Init, Listed
<1>2. HoldersLocked /\ CallsServed
  BY DEF Init, HoldersLocked, CallsServed
<1>3. QED
  BY <1>1, <1>2, InitTypeOK DEF IInv, ServedUnlessUpdating

LEMMA NextIInv == IInv /\ [Next]_vars => IInv'
  BY NextTypeOK, HoldersLockedStep, ServedStep, CallsServedStep DEF IInv

\* The inductive invariant: who holds m_cs in which part of a call, and what the
\* list and the map have in common then.
THEOREM InvariantHolds == Spec => []IInv
<1>1. QED
  BY InitIInv, NextIInv, PTL DEF Spec

\* Whenever m_cs is free every server of the list has its object, and a request
\* goes to the server its device is listed with now, alone on that object.
THEOREM ListAlwaysServed == Spec => []ListIsServed
<1>1. IInv => ListIsServed
  <2> SUFFICES ASSUME IInv, dpc = "none" PROVE ListIsServed
    BY DEF ListIsServed
  <2>1. lock = NoThread => Listed \subseteq objects
    BY ConstAssumption DEF IInv, ServedUnlessUpdating, ConstAssumption
  <2>2. \A t \in Threads : tpc[t] = "call" => lock = t
    BY DEF IInv, HoldersLocked
  <2>3. QED
    BY <2>1, <2>2 DEF IInv, CallsServed, ListIsServed
<1>2. QED
  BY <1>1, InvariantHolds, PTL

=============================================================================
