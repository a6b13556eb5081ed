---------------------------- MODULE ClassicClient ----------------------------
(***************************************************************************)
(* The classic client (XInternetTest/_IncludeClient/                       *)
(* ClassicClientInstance.cpp): the list of devices the centre sends, one   *)
(* CXClientSignaling object per server of that list, and the application's *)
(* threads, which ask for the list, send a request to a device's server or *)
(* make a stream or download object. One lock, m_cs, is held over the whole *)
(* of a call, the waiting for the network included; XDelete takes it not. *)
(*                                                                         *)
(* An object of ClientSignaling is seen from outside: it exists, it is in  *)
(* use by a call, or Delete has been called.                               *)
(***************************************************************************)
EXTENDS FiniteSets

CONSTANTS
  Threads,   \* the application's threads
  Devices,   \* device ids
  Servers    \* addresses of servers (dev_media_ip)

Nowhere == "nowhere"

NoThread == "no thread"

ASSUME ConstAssumption == Nowhere \notin Servers /\ NoThread \notin Threads

Lists == [Devices -> Servers \cup {Nowhere}]   \* Nowhere: the device is not listed
Ops == {"GetDevices", "SignalingCtrl", "CreateXClientStreamInterface"}

VARIABLES
  fault,    \* a thread has used an object or a list that XDelete has freed
  dpc,      \* XDelete: "none", "list", "servers", "gone"
  lock,     \* the holder of m_cs
  list,     \* m_lisDevice: the server of each device
  objects,  \* m_SignalingMap: the servers with an object
  deleted,  \* those whose Delete XDelete has called
  tpc, op,  \* where each thread is, and in which call
  dev, srv, \* the device it asks about, and the server it found
  len       \* len or nOutLen: the call has something to return

threadVars == <<tpc, op, dev, srv, len>>
vars == <<fault, dpc, lock, list, objects, deleted, threadVars>>

TypeOK ==
  /\ fault \in BOOLEAN
  /\ dpc \in {"none", "list", "servers", "gone"}
  /\ lock \in Threads \cup {NoThread}
  /\ list \in Lists
  /\ objects \subseteq Servers
  /\ deleted \subseteq objects
  /\ tpc \in [Threads -> {"idle", "lock", "ask", "update", "find", "call", "unlock", "make"}]
  /\ op \in [Threads -> Ops]
  /\ dev \in [Threads -> Devices]
  /\ srv \in [Threads -> Servers \cup {Nowhere}]
  /\ len \in [Threads -> BOOLEAN]

Init ==
  /\ fault = FALSE
  /\ dpc = "none"
  /\ lock = NoThread
  /\ list = [d \in Devices |-> Nowhere]
  /\ objects = {}
  /\ deleted = {}
  /\ tpc = [t \in Threads |-> "idle"]
  /\ op \in [Threads -> {"GetDevices"}]
  /\ dev \in {[t \in Threads |-> d] : d \in Devices}
  /\ srv = [t \in Threads |-> Nowhere]
  /\ len = [t \in Threads |-> FALSE]

Listed == {list[d] : d \in Devices} \ {Nowhere}
Goes(t, there) == tpc' = [tpc EXCEPT ![t] = there]
Keep == UNCHANGED <<fault, dpc, objects, deleted>>

-----------------------------------------------------------------------------
(* Every call: take the lock, do the work, give the lock back *)

Begin(t) ==
  /\ tpc[t] = "idle" /\ dpc = "none"
  /\ \E o \in Ops : op' = [op EXCEPT ![t] = o]
  /\ \E d \in Devices : dev' = [dev EXCEPT ![t] = d]
  /\ len' = [len EXCEPT ![t] = FALSE]
  /\ Goes(t, "lock")
  /\ Keep /\ UNCHANGED <<lock, list, srv>>

Lock(t) ==
  /\ tpc[t] = "lock"
  /\ lock = NoThread
  /\ lock' = t
  /\ Goes(t, IF op[t] = "GetDevices" THEN "ask" ELSE "find")
  /\ Keep /\ UNCHANGED <<list, op, dev, srv, len>>

Unlock(t) ==
  /\ tpc[t] = "unlock"
  /\ lock' = NoThread
  /\ Goes(t, IF op[t] = "CreateXClientStreamInterface" /\ len[t] THEN "make" ELSE "idle")
  /\ Keep /\ UNCHANGED <<list, op, dev, srv, len>>

-----------------------------------------------------------------------------
(* GetDevices *)

\* Any of the exchanges may fail, and leaves the list; the answer replaces it whole.
Ask(t) ==
  /\ tpc[t] = "ask"
  /\ \/ \E answer \in Lists : list' = answer /\ Goes(t, "update")
     \/ list' = list /\ Goes(t, "unlock")
  /\ Keep /\ UNCHANGED <<lock, op, dev, srv, len>>

\* Variant: a device without a server is not skipped.
UpdateSignalingServers_AnyAddress(t) ==
  /\ tpc[t] = "update"
  /\ \/ /\ \E d \in Devices : list[d] \notin objects /\ objects' = objects \cup {list[d]}
        /\ UNCHANGED <<tpc, len>>
     \/ /\ \A d \in Devices : list[d] \in objects
        /\ Goes(t, "unlock")
        /\ len' = [len EXCEPT ![t] = TRUE]
        /\ UNCHANGED objects
  /\ UNCHANGED <<fault, dpc, lock, list, deleted, op, dev, srv>>

\* One new server is given an object, which starts its worker; when there is
\* none left GetDevices returns the length.
UpdateSignalingServers(t) ==
  /\ tpc[t] = "update"
  /\ \/ /\ \E s \in Listed \ objects : objects' = objects \cup {s}
        /\ UNCHANGED <<tpc, len>>
     \/ /\ Listed \subseteq objects
        /\ Goes(t, "unlock")
        /\ len' = [len EXCEPT ![t] = TRUE]
        /\ UNCHANGED objects
  /\ UNCHANGED <<fault, dpc, lock, list, deleted, op, dev, srv>>

-----------------------------------------------------------------------------
(* SignalingCtrl, CreateXClientStreamInterface, CreateXClientDownloadInterface *)

\* Variant: a device that is not listed leaves the function at once.
Find_Returns(t) ==
  /\ tpc[t] = "find"
  /\ srv' = [srv EXCEPT ![t] = list[dev[t]]]
  /\ Goes(t, IF srv'[t] = Nowhere THEN "idle" ELSE IF op[t] = "SignalingCtrl" THEN "call" ELSE "unlock")
  /\ len' = [len EXCEPT ![t] = srv'[t] # Nowhere]
  /\ Keep /\ UNCHANGED <<lock, list, op, dev>>

\* Variant: the lock is given back before the request.
Find_Unlocks(t) ==
  /\ tpc[t] = "find"
  /\ srv' = [srv EXCEPT ![t] = list[dev[t]]]
  /\ Goes(t, IF srv'[t] \in objects /\ op[t] = "SignalingCtrl" THEN "call" ELSE "unlock")
  /\ lock' = IF srv'[t] \in objects /\ op[t] = "SignalingCtrl" THEN NoThread ELSE lock
  /\ len' = [len EXCEPT ![t] = srv'[t] # Nowhere /\ op[t] # "SignalingCtrl"]
  /\ Keep /\ UNCHANGED <<list, op, dev>>

\* The device's server, and, for a request, that server's object: without both
\* the call returns nothing.
Find(t) ==
  /\ tpc[t] = "find"
  /\ srv' = [srv EXCEPT ![t] = list[dev[t]]]
  /\ Goes(t, IF srv'[t] \in objects /\ op[t] = "SignalingCtrl" THEN "call" ELSE "unlock")
  /\ len' = [len EXCEPT ![t] = srv'[t] # Nowhere /\ op[t] # "SignalingCtrl"]
  /\ Keep /\ UNCHANGED <<lock, list, op, dev>>

\* CXClientSignaling::SignalingCtrl returns an answer, or none after 1.5 s. The
\* object must not have been deleted meanwhile.
Call(t) ==
  /\ tpc[t] = "call"
  /\ fault' = (srv[t] \in deleted)
  /\ \E answered \in BOOLEAN : len' = [len EXCEPT ![t] = answered]
  /\ Goes(t, "unlock")
  /\ UNCHANGED <<dpc, lock, list, objects, deleted, op, dev, srv>>

\* new CXClientStream or new CXClientHislog, after the lock has been given back.
Make(t) ==
  /\ tpc[t] = "make"
  /\ Goes(t, "idle")
  /\ Keep /\ UNCHANGED <<lock, list, op, dev, srv, len>>

Thread(t) ==
  \/ Lock(t)
  \/ Unlock(t)
  \/ Ask(t)
  \/ UpdateSignalingServers(t)
  \/ Find(t)
  \/ Call(t)
  \/ Make(t)

-----------------------------------------------------------------------------
(* XDelete, on another thread, without the lock *)

\* A thread replaces or goes through a list or a map that XDelete is emptying: undefined.
MayClash == fault' \in {FALSE, \E t \in Threads : tpc[t] \in {"ask", "find", "update"}}

ClearDeivceInfoList ==
  /\ dpc = "none"
  /\ MayClash
  /\ dpc' = "list"
  /\ list' = [d \in Devices |-> Nowhere]
  /\ UNCHANGED <<lock, objects, deleted, threadVars>>

\* One object's Delete; when all have been called the map is cleared.
ClearSignalingServers ==
  /\ dpc \in {"list", "servers"}
  /\ \/ /\ \E s \in objects \ deleted : deleted' = deleted \cup {s}
        /\ dpc' = "servers"
        /\ UNCHANGED <<fault, objects>>
     \/ /\ deleted = objects
        /\ objects' = {} /\ deleted' = {}
        /\ dpc' = "gone"
        /\ MayClash
  /\ UNCHANGED <<lock, list, threadVars>>

\* "delete this" under the feet of a thread that is in a call.
UseAfterDelete(t) ==
  /\ dpc = "gone"
  /\ tpc[t] # "idle"
  /\ fault' = TRUE
  /\ UNCHANGED <<dpc, lock, list, objects, deleted, threadVars>>

XDelete == ClearDeivceInfoList \/ ClearSignalingServers

Ended == (fault \/ dpc = "gone") /\ UNCHANGED vars

Running == ~fault /\ dpc # "gone"

Next ==
  \/ \E t \in Threads : Running /\ (Begin(t) \/ Thread(t))
  \/ ~fault /\ XDelete
  \/ \E t \in Threads : ~fault /\ UseAfterDelete(t)
  \/ Ended

Spec == Init /\ [][Next]_vars

\* Threads run, and the lock lets in each that waits. XDelete finishes.
Fairness ==
  /\ \A t \in Threads : SF_vars(Running /\ Thread(t))
  /\ WF_vars(~fault /\ ClearSignalingServers)

FairSpec == Spec /\ Fairness

-----------------------------------------------------------------------------
(* The inductive invariant, in parts. *)

\* A thread in the locked part of its call holds m_cs.
HoldersLocked ==
  \A t \in Threads : tpc[t] \in {"ask", "update", "find", "call", "unlock"} => lock = t

\* Between the new list and the last new object only UpdateSignalingServers runs.
ServedUnlessUpdating ==
  dpc = "none" =>
    Listed \subseteq objects \/ \E t \in Threads : lock = t /\ tpc[t] = "update"

CallsServed ==
  dpc = "none" =>
    \A t \in Threads : tpc[t] = "call" => srv[t] = list[dev[t]] /\ srv[t] \in objects

-----------------------------------------------------------------------------
(* Properties *)

\* Until XDelete: every server of the list has its object whenever the lock is
\* free, and a request in progress goes to the server of its device's entry in
\* the list, by way of an object no other request is using (GetDevices,
\* UpdateSignalingServers, SignalingCtrl).
ListIsServed ==
  dpc = "none" =>
    /\ lock = NoThread => Listed \subseteq objects
    /\ \A t \in Threads : tpc[t] = "call" =>
         /\ srv[t] = list[dev[t]] /\ srv[t] \in objects
         /\ \A u \in Threads : tpc[u] = "call" /\ srv[u] = srv[t] => u = t

\* Every call comes back, although others hold the lock while they wait for the
\* network, unless XDelete takes the object away.
CallsReturn ==
  \A t \in Threads : (tpc[t] # "idle") ~> (tpc[t] = "idle" \/ dpc # "none")

=============================================================================
