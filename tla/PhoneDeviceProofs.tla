------------------------- MODULE PhoneDeviceProofs -------------------------
(***************************************************************************)
(* Proofs about PhoneDevice, for any number of threads in InputData, lists *)
(* of any length and any number of logins.                                 *)
(***************************************************************************)
EXTENDS PhoneDevice, SequenceTheorems, TLAPS

IInv ==
  /\ TypeOK
  /\ Places
  /\ Connections
  /\ BufferOutlivesWrite
  /\ OneFrameEach
  /\ StaleCallsBroughtNone
  /\ StaleFramesBounded

ApplicationStep == \E t \in Threads : Application(t)

LEMMA NextCases ==
  ASSUME [Next]_vars
  PROVE  User \/ Worker \/ Network \/ ApplicationStep \/ UNCHANGED vars
  BY DEF Next, ApplicationStep

-----------------------------------------------------------------------------
(* Type correctness *)

LEMMA InitTypeOK == Init => TypeOK
<1> SUFFICES ASSUME Init PROVE TypeOK
  OBVIOUS
<1>1. list \in Seq(Frames) /\ Len(list) <= QueueCap /\ sending \in Seq(Frames) /\ Len(sending) <= 1
  BY ConstAssumption DEF ConstAssumption, Init
<1>2. epoch \in 0..MaxLogins /\ aep \in [Threads -> 0..MaxLogins]
  BY ConstAssumption DEF ConstAssumption, Init
<1>3. QED
  BY <1>1, <1>2 DEF Init, TypeOK

\* LogoutPlat's two halves.
LEMMA LogoutTypes ==
  ASSUME TypeOK, ReleaseStream \/ ClearList
  PROVE  /\ conn' \in {"null", "open", "live"}
         /\ list' \in Seq(Frames) /\ Len(list') <= QueueCap
         /\ rd' \in {"none", "init", "head", "body"}
         /\ wr' \in {"none", "delay", "send"}
         /\ sending' \in Seq(Frames) /\ Len(sending') <= 1
<1>1. <<>> \in Seq(Frames) /\ Len(<<>>) = 0 /\ 0 <= QueueCap
  BY ConstAssumption DEF ConstAssumption
<1>2. CASE ReleaseStream
  BY <1>1, <1>2 DEF ReleaseStream, TypeOK
<1>3. CASE ClearList
  BY <1>1, <1>3 DEF ClearList, netVars, TypeOK
<1>4. QED
  BY <1>2, <1>3

LEMMA UserTypeOK ==
  ASSUME TypeOK, User
  PROVE  TypeOK'
<1> USE DEF TypeOK, userVars, netVars, appVars
<1>1. CASE Start
  <2>1. handle' \in BOOLEAN /\ stop' \in BOOLEAN /\ err' \in BOOLEAN /\ login' \in BOOLEAN
    BY <1>1 DEF Start
  <2>2. QED
    BY <1>1, <2>1 DEF Start
<1>2. CASE Stop
  <2>1. stop' \in BOOLEAN
    BY <1>2 DEF Stop
  <2>2. QED
    BY <1>2, <2>1 DEF Stop
<1>3. CASE StopJoins
  <2>1. handle' \in BOOLEAN /\ login' \in BOOLEAN
    BY <1>3 DEF StopJoins
  <2>2. QED
    BY <1>3, <2>1 DEF StopJoins
<1>4. CASE StopLogoutPlat
  <2>1. ReleaseStream \/ ClearList
    BY <1>4 DEF StopLogoutPlat
  <2>2. upc' \in {"idle", "clear"}
    BY <1>4 DEF StopLogoutPlat
  <2>3. QED
    BY <1>4, <2>1, <2>2, LogoutTypes DEF StopLogoutPlat
<1>5. QED
  BY <1>1, <1>2, <1>3, <1>4 DEF User

LEMMA WorkerTypeOK ==
  ASSUME TypeOK, Worker
  PROVE  TypeOK'
<1> USE DEF TypeOK, userVars, netVars, appVars
<1>1. CASE WorkerLoop \/ LoginAdvances
  BY <1>1 DEF WorkerLoop, LoginAdvances
<1>2. CASE LoginSucceeds
  <2>1. silent' \in BOOLEAN
    BY <1>2 DEF LoginSucceeds
  <2>2. QED
    BY <1>2, <2>1 DEF LoginSucceeds
<1>3. CASE LoginFails
  <2>1. login' \in BOOLEAN
    BY <1>3 DEF LoginFails
  <2>2. QED
    BY <1>3, <2>1 DEF LoginFails
<1>4. CASE LoginSet
  <2>1. login' \in BOOLEAN
    BY <1>4 DEF LoginSet
  <2>2. epoch' \in 0..MaxLogins
    BY <1>4, ConstAssumption DEF LoginSet, ConstAssumption
  <2>3. QED
    BY <1>4, <2>1, <2>2 DEF LoginSet
<1>5. CASE WorkerTest
  <2>1. login' \in BOOLEAN
    BY <1>5 DEF WorkerTest
  <2>2. QED
    BY <1>5, <2>1 DEF WorkerTest
<1>6. CASE WorkerLogoutPlat
  <2>1. ReleaseStream \/ ClearList
    BY <1>6 DEF WorkerLogoutPlat
  <2>2. wpc' \in {"clear", "loop"}
    BY <1>6 DEF WorkerLogoutPlat
  <2>3. QED
    BY <1>6, <2>1, <2>2, LogoutTypes DEF WorkerLogoutPlat
<1>7. QED
  BY <1>1, <1>2, <1>3, <1>4, <1>5, <1>6 DEF Worker

LEMMA NetworkTypeOK ==
  ASSUME TypeOK, Network
  PROVE  TypeOK'
<1> USE DEF TypeOK, Keep, userVars, appVars
<1>0. ASSUME sending' = sending \/ sending' = <<>>
      PROVE  sending' \in Seq(Frames) /\ Len(sending') <= 1
  <2>1. <<>> \in Seq(Frames) /\ Len(<<>>) <= 1
    OBVIOUS
  <2>2. QED
    BY <1>0, <2>1
<1>1. CASE Silence
  <2>1. silent' \in BOOLEAN
    BY <1>1 DEF Silence
  <2>2. QED
    BY <1>1, <2>1 DEF Silence, netVars
<1>2. CASE PacketIgnored
  <2>1. rd' \in {"none", "init", "head", "body"} /\ wr' \in {"none", "delay", "send"}
    BY <1>2 DEF PacketIgnored
  <2>2. sending' \in Seq(Frames) /\ Len(sending') <= 1
    <3>1. sending' = sending \/ sending' = <<>>
      BY <1>2 DEF PacketIgnored
    <3>2. QED
      BY <1>0, <3>1
  <2>3. Keep /\ UNCHANGED <<err, silent>>
    BY <1>2 DEF PacketIgnored
  <2>4. QED
    BY <2>1, <2>2, <2>3
<1>3. CASE PacketFails
  <2>1. err' \in BOOLEAN
    BY <1>3 DEF PacketFails
  <2>2. rd' \in {"none", "init", "head", "body"} /\ wr' \in {"none", "delay", "send"}
    BY <1>3 DEF PacketFails
  <2>3. sending' \in Seq(Frames) /\ Len(sending') <= 1
    <3>1. sending' = sending \/ sending' = <<>>
      BY <1>3 DEF PacketFails
    <3>2. QED
      BY <1>0, <3>1
  <2>4. Keep /\ UNCHANGED silent
    BY <1>3 DEF PacketFails
  <2>5. QED
    BY <2>1, <2>2, <2>3, <2>4
<1>4. CASE ReadComplete
  <2>1. silent' \in BOOLEAN
    BY <1>4 DEF ReadComplete
  <2>2. QED
    BY <1>4, <2>1 DEF ReadComplete
<1>5. CASE WriteComplete
  <2>1. list # <<>> => Head(list) \in Frames
    OBVIOUS
  <2>2. sending' \in Seq(Frames) /\ Len(sending') <= 1
    <3>1. CASE list = <<>>
      BY <1>0, <1>5, <3>1 DEF WriteComplete
    <3>2. CASE list # <<>>
      BY <1>5, <2>1, <3>2 DEF WriteComplete
    <3>3. QED
      BY <3>1, <3>2
  <2>3. wr' \in {"none", "delay", "send"}
    BY <1>5 DEF WriteComplete
  <2>4. QED
    BY <1>5, <2>2, <2>3 DEF WriteComplete
<1>6. QED
  BY <1>1, <1>2, <1>3, <1>4, <1>5 DEF Network

LEMMA ApplicationTypeOK ==
  ASSUME TypeOK, NEW t \in Threads, Application(t)
  PROVE  TypeOK'
<1> USE DEF TypeOK, userVars, netVars, appVars
<1>1. CASE InputData(t) \/ InputDataStop(t)
  <2>1. apc' \in [Threads -> {"out", "stop", "push"}]
    BY <1>1 DEF InputData, InputDataStop
  <2>2. aep' \in [Threads -> 0..MaxLogins]
    BY <1>1 DEF InputData, InputDataStop
  <2>3. QED
    BY <1>1, <2>1, <2>2 DEF InputData, InputDataStop
<1>2. CASE InputDataPush(t)
  <2>1. [by |-> t, epoch |-> aep[t]] \in Frames
    BY DEF Frames
  <2>2. list' \in Seq(Frames) /\ Len(list') = Len(list) + 1
    BY <1>2, <2>1 DEF InputDataPush
  <2>3. Len(list') <= QueueCap
    BY <1>2, <2>2, ConstAssumption DEF InputDataPush, ConstAssumption
  <2>4. apc' \in [Threads -> {"out", "stop", "push"}]
    BY <1>2 DEF InputDataPush
  <2>5. QED
    BY <1>2, <2>2, <2>3, <2>4 DEF InputDataPush
<1>3. QED
  BY <1>1, <1>2 DEF Application

LEMMA NextTypeOK ==
  ASSUME TypeOK, [Next]_vars
  PROVE  TypeOK'
<1>1. CASE UNCHANGED vars
  BY <1>1 DEF vars, userVars, netVars, appVars, TypeOK
<1>2. CASE ApplicationStep
  BY <1>2, ApplicationTypeOK DEF ApplicationStep
<1>3. QED
  BY <1>1, <1>2, NextCases, UserTypeOK, WorkerTypeOK, NetworkTypeOK

\* Every variable keeps its type (PhoneDevice.cpp's members and threads).
THEOREM TypeCorrect == Spec => []TypeOK
<1>1. QED
  BY InitTypeOK, NextTypeOK, PTL DEF Spec

-----------------------------------------------------------------------------
(* Where the threads are, and which connection there is *)

LEMMA PlacesStep ==
  ASSUME TypeOK, Places, [Next]_vars
  PROVE  Places'
<1> USE DEF TypeOK, Places, userVars
<1>1. CASE User
  BY <1>1 DEF User, Start, Stop, StopJoins, StopLogoutPlat
<1>2. CASE Worker
  <2>1. CASE WorkerLoop
    BY <2>1 DEF WorkerLoop
  <2>2. CASE LoginAdvances \/ LoginSucceeds \/ LoginFails
    BY <2>2 DEF LoginAdvances, LoginSucceeds, LoginFails
  <2>3. CASE LoginSet
    BY <2>3 DEF LoginSet
  <2>4. CASE WorkerTest
    BY <2>4 DEF WorkerTest
  <2>5. CASE WorkerLogoutPlat
    BY <2>5 DEF WorkerLogoutPlat
  <2>6. QED
    BY <1>2, <2>1, <2>2, <2>3, <2>4, <2>5 DEF Worker
<1>3. CASE Network
  BY <1>3 DEF Network, Silence, PacketIgnored, PacketFails, ReadComplete, WriteComplete, Keep
<1>4. CASE ApplicationStep
  BY <1>4 DEF ApplicationStep, Application, InputData, InputDataStop, InputDataPush
<1>5. CASE UNCHANGED vars
  BY <1>5 DEF vars
<1>6. QED
  BY <1>1, <1>2, <1>3, <1>4, <1>5, NextCases

LEMMA ConnectionsStep ==
  ASSUME TypeOK, Places, Connections, [Next]_vars
  PROVE  Connections'
<1> USE DEF TypeOK, Places, Connections, userVars, netVars
<1>1. CASE User
  <2>1. CASE Start \/ Stop \/ StopJoins
    BY <1>1, <2>1 DEF Start, Stop, StopJoins
  <2>2. CASE StopLogoutPlat
    BY <2>2 DEF StopLogoutPlat, ReleaseStream, ClearList
  <2>3. QED
    BY <1>1, <2>1, <2>2 DEF User
<1>2. CASE Worker
  <2>1. CASE WorkerLoop
    BY <2>1 DEF WorkerLoop
  <2>2. CASE LoginAdvances
    BY <2>2 DEF LoginAdvances
  <2>3. CASE LoginSucceeds
    BY <2>3 DEF LoginSucceeds
  <2>4. CASE LoginFails
    BY <2>4 DEF LoginFails
  <2>5. CASE LoginSet
    BY <2>5 DEF LoginSet
  <2>6. CASE WorkerTest
    BY <2>6 DEF WorkerTest
  <2>7. CASE WorkerLogoutPlat
    BY <2>7 DEF WorkerLogoutPlat, ReleaseStream, ClearList
  <2>8. QED
    BY <1>2, <2>1, <2>2, <2>3, <2>4, <2>5, <2>6, <2>7 DEF Worker
<1>3. CASE Network
  <2>1. CASE Silence
    BY <2>1 DEF Silence
  <2>2. CASE PacketIgnored \/ PacketFails
    BY <2>2 DEF PacketIgnored, PacketFails, Keep
  <2>3. CASE ReadComplete
    BY <2>3 DEF ReadComplete, Keep
  <2>4. CASE WriteComplete
    BY <2>4 DEF WriteComplete, Keep
  <2>5. QED
    BY <1>3, <2>1, <2>2, <2>3, <2>4 DEF Network
<1>4. CASE ApplicationStep
  BY <1>4 DEF ApplicationStep, Application, InputData, InputDataStop, InputDataPush
<1>5. CASE UNCHANGED vars
  BY <1>5 DEF vars
<1>6. QED
  BY <1>1, <1>2, <1>3, <1>4, <1>5, NextCases

-----------------------------------------------------------------------------
(* The buffer that is being sent *)

\* LogoutPlat empties the list only when no buffer is out.
LEMMA ClearsWithoutBuffer ==
  ASSUME TypeOK, Places, Connections, upc = "clear" \/ wpc = "clear"
  PROVE  conn = "null" /\ wr = "none" /\ sending = <<>>
  BY DEF TypeOK, Places, Connections

LEMMA BufferStep ==
  ASSUME TypeOK, Places, Connections, BufferOutlivesWrite, [Next]_vars
  PROVE  BufferOutlivesWrite'
<1> USE DEF BufferOutlivesWrite, netVars
<1>1. CASE StopLogoutPlat \/ WorkerLogoutPlat
  <2>1. CASE ReleaseStream
    BY <2>1 DEF ReleaseStream
  <2>2. CASE ClearList /\ (upc = "clear" \/ wpc = "clear")
    BY <2>2, ClearsWithoutBuffer DEF ClearList
  <2>3. QED
    BY <1>1, <2>1, <2>2 DEF StopLogoutPlat, WorkerLogoutPlat
<1>2. CASE Start \/ Stop \/ StopJoins
  BY <1>2 DEF Start, Stop, StopJoins
<1>3. CASE LoginSucceeds
  <2>1. sending = <<>>
    BY <1>3 DEF LoginSucceeds, Connections
  <2>2. QED
    BY <1>3, <2>1 DEF LoginSucceeds
<1>4. CASE WorkerLoop \/ LoginAdvances \/ LoginFails \/ LoginSet \/ WorkerTest
  BY <1>4 DEF WorkerLoop, LoginAdvances, LoginFails, LoginSet, WorkerTest
<1>5. CASE Network
  <2>1. CASE Silence
    BY <2>1 DEF Silence
  <2>2. CASE PacketIgnored \/ PacketFails
    BY <2>2 DEF PacketIgnored, PacketFails, Keep
  <2>3. CASE ReadComplete
    BY <2>3 DEF ReadComplete, Keep
  <2>4. CASE WriteComplete
    <3>1. CASE list = <<>>
      BY <2>4, <3>1 DEF WriteComplete, Keep
    <3>2. CASE list # <<>>
      <4>1. Head(list) = list[1]
        BY <3>2 DEF TypeOK
      <4>2. QED
        BY <2>4, <3>2, <4>1 DEF WriteComplete, Keep
    <3>3. QED
      BY <3>1, <3>2
  <2>5. QED
    BY <1>5, <2>1, <2>2, <2>3, <2>4 DEF Network
<1>6. CASE ApplicationStep
  <2>1. PICK t \in Threads : Application(t)
    BY <1>6 DEF ApplicationStep
  <2>2. CASE InputData(t) \/ InputDataStop(t)
    BY <2>2 DEF InputData, InputDataStop
  <2>3. CASE InputDataPush(t)
    <3>1. list # <<>> => list' # <<>> /\ list'[1] = list[1]
      BY <2>3 DEF InputDataPush, TypeOK
    <3>2. QED
      BY <2>3, <3>1 DEF InputDataPush
  <2>4. QED
    BY <2>1, <2>2, <2>3 DEF Application
<1>7. CASE UNCHANGED vars
  BY <1>7 DEF vars
<1>8. QED
  BY <1>1, <1>2, <1>3, <1>4, <1>5, <1>6, <1>7, NextCases DEF User, Worker

-----------------------------------------------------------------------------
(* The frames in the list *)

\* InputDataPush puts one frame at the end.
LEMMA PushBrings ==
  ASSUME TypeOK, NEW t \in Threads, InputDataPush(t)
  PROVE  /\ Len(list) + 1 \notin DOMAIN list
         /\ DOMAIN list' = DOMAIN list \cup {Len(list) + 1}
         /\ \A i \in DOMAIN list : list'[i] = list[i]
         /\ list'[Len(list) + 1].by = t
         /\ list'[Len(list) + 1].epoch = aep[t]
<1>1. list \in Seq(Frames) /\ Len(list) \in Nat /\ DOMAIN list = 1..Len(list)
  BY DEF TypeOK
<1>2. [by |-> t, epoch |-> aep[t]] \in Frames
  BY DEF TypeOK, Frames
<1>3. /\ Len(list') = Len(list) + 1
      /\ list' \in Seq(Frames)
      /\ \A i \in 1..Len(list) : list'[i] = list[i]
      /\ list'[Len(list) + 1] = [by |-> t, epoch |-> aep[t]]
  BY <1>1, <1>2 DEF InputDataPush
<1>4. DOMAIN list' = 1..(Len(list) + 1)
  BY <1>3
<1>5. QED
  BY <1>1, <1>3, <1>4

\* A step either leaves the list alone, or empties it, or is a push.
LEMMA ListCases ==
  ASSUME TypeOK, [Next]_vars
  PROVE  \/ list' = list
         \/ list' = <<>>
         \/ \E t \in Threads : InputDataPush(t)
<1> USE DEF userVars, netVars
<1>1. CASE User
  BY <1>1 DEF User, Start, Stop, StopJoins, StopLogoutPlat, ReleaseStream, ClearList
<1>2. CASE Worker
  BY <1>2 DEF Worker, WorkerLoop, LoginAdvances, LoginSucceeds, LoginFails, LoginSet, WorkerTest,
              WorkerLogoutPlat, ReleaseStream, ClearList
<1>3. CASE Network
  BY <1>3 DEF Network, Silence, PacketIgnored, PacketFails, ReadComplete, WriteComplete, Keep
<1>4. CASE ApplicationStep
  BY <1>4 DEF ApplicationStep, Application, InputData, InputDataStop
<1>5. CASE UNCHANGED vars
  BY <1>5 DEF vars
<1>6. QED
  BY <1>1, <1>2, <1>3, <1>4, <1>5, NextCases

\* Only InputData changes what its threads do, and only a new login makes the
\* frames of the last one stale.
LEMMA CallCases ==
  ASSUME TypeOK, [Next]_vars
  PROVE  \/ ApplicationStep
         \/ LoginSet
         \/ UNCHANGED <<appVars, epoch>>
<1> USE DEF userVars, netVars
<1>1. CASE User
  BY <1>1 DEF User, Start, Stop, StopJoins, StopLogoutPlat, ReleaseStream, ClearList
<1>2. CASE Worker
  BY <1>2 DEF Worker, WorkerLoop, LoginAdvances, LoginSucceeds, LoginFails, WorkerTest,
              WorkerLogoutPlat, ReleaseStream, ClearList
<1>3. CASE Network
  BY <1>3 DEF Network, Silence, PacketIgnored, PacketFails, ReadComplete, WriteComplete, Keep
<1>4. CASE UNCHANGED vars
  BY <1>4 DEF vars
<1>5. QED
  BY <1>1, <1>2, <1>3, <1>4, NextCases

\* Until the list has been emptied, a step does not bring the worker and the user
\* into the time between LogoutPlat and the next login.
LEMMA ClearedStep ==
  ASSUME TypeOK, Places, [Next]_vars, Cleared', list' # <<>>
  PROVE  Cleared
<1> USE DEF Cleared, Places, TypeOK, userVars, netVars
<1>1. CASE User
  <2>1. CASE Start \/ Stop \/ StopJoins
    BY <2>1 DEF Start, Stop, StopJoins
  <2>2. CASE StopLogoutPlat
    BY <2>2 DEF StopLogoutPlat, ReleaseStream, ClearList
  <2>3. QED
    BY <1>1, <2>1, <2>2 DEF User
<1>2. CASE Worker
  <2>1. CASE WorkerLoop
    BY <2>1 DEF WorkerLoop
  <2>2. CASE LoginAdvances \/ LoginSucceeds \/ LoginFails
    BY <2>2 DEF LoginAdvances, LoginSucceeds, LoginFails
  <2>3. CASE LoginSet
    BY <2>3 DEF LoginSet
  <2>4. CASE WorkerTest
    BY <2>4 DEF WorkerTest
  <2>5. CASE WorkerLogoutPlat
    BY <2>5 DEF WorkerLogoutPlat, ReleaseStream, ClearList
  <2>6. QED
    BY <1>2, <2>1, <2>2, <2>3, <2>4, <2>5 DEF Worker
<1>3. CASE Network
  BY <1>3 DEF Network, Silence, PacketIgnored, PacketFails, ReadComplete, WriteComplete, Keep
<1>4. CASE ApplicationStep
  BY <1>4 DEF ApplicationStep, Application, InputData, InputDataStop, InputDataPush
<1>5. CASE UNCHANGED vars
  BY <1>5 DEF vars
<1>6. QED
  BY <1>1, <1>2, <1>3, <1>4, <1>5, NextCases

LEMMA OneFrameEachStep ==
  ASSUME TypeOK, Places, OneFrameEach, [Next]_vars
  PROVE  OneFrameEach'
<1> SUFFICES ASSUME Cleared', NEW u \in Threads
             PROVE  /\ apc'[u] # "out" => BroughtBy(u)' = {}
                    /\ \A i, j \in BroughtBy(u)' : i = j
  BY DEF OneFrameEach
<1>1. CASE list' = <<>>
  BY <1>1 DEF BroughtBy
<1>2. CASE list' # <<>>
  <2>1. Cleared
    BY <1>2, ClearedStep
  <2>2. ~login
    BY <2>1 DEF Cleared, Places
  <2>3. CASE list' = list
    <3>1. apc'[u] # "out" => apc[u] # "out"
      BY <2>2, CallCases DEF ApplicationStep, Application, InputData, InputDataStop, InputDataPush,
         LoginSet, appVars, TypeOK
    <3>2. BroughtBy(u)' = BroughtBy(u)
      BY <2>3 DEF BroughtBy
    <3>3. QED
      BY <2>1, <3>1, <3>2 DEF OneFrameEach
  <2>4. ASSUME NEW t \in Threads, InputDataPush(t)
        PROVE  /\ apc'[u] # "out" => BroughtBy(u)' = {}
               /\ \A i, j \in BroughtBy(u)' : i = j
    <3>1. CASE u = t
      <4>1. BroughtBy(t) = {}
        BY <2>1, <2>4 DEF InputDataPush, OneFrameEach
      <4>2. BroughtBy(t)' \subseteq {Len(list) + 1}
        BY <2>4, <4>1, PushBrings DEF BroughtBy
      <4>3. apc'[t] = "out"
        BY <2>4 DEF InputDataPush, TypeOK
      <4>4. QED
        BY <3>1, <4>2, <4>3
    <3>2. CASE u # t
      <4>1. BroughtBy(u)' = BroughtBy(u)
        BY <2>4, <3>2, PushBrings DEF BroughtBy
      <4>2. apc'[u] = apc[u]
        BY <2>4, <3>2 DEF InputDataPush, TypeOK
      <4>3. QED
        BY <2>1, <4>1, <4>2 DEF OneFrameEach
    <3>3. QED
      BY <3>1, <3>2
  <2>5. QED
    BY <1>2, <2>3, <2>4, ListCases
<1>3. QED
  BY <1>1, <1>2

-----------------------------------------------------------------------------
(* Stale frames *)

\* The new login makes stale what the time before it has left: at most one frame
\* of each thread, and none of a thread that is still in its call.
LEMMA LoginMakesStale ==
  ASSUME TypeOK, OneFrameEach, LoginSet, NEW u \in Threads
  PROVE  /\ apc'[u] # "out" => StaleOf(u)' = {}
         /\ \A i, j \in StaleOf(u)' : i = j
<1>1. Cleared
  BY DEF LoginSet, Cleared
<1>2. StaleOf(u)' \subseteq BroughtBy(u)
  BY DEF StaleOf, BroughtBy, LoginSet
<1>3. apc' = apc
  BY DEF LoginSet, appVars
<1>4. QED
  BY <1>1, <1>2, <1>3 DEF OneFrameEach

\* A push adds a stale frame only if its call is of an earlier login.
LEMMA PushedStale ==
  ASSUME TypeOK, StaleCallsBroughtNone, StaleFramesBounded,
         NEW t \in Threads, InputDataPush(t), NEW u \in Threads
  PROVE  /\ apc'[u] # "out" /\ aep'[u] < epoch' => StaleOf(u)' = {}
         /\ \A i, j \in StaleOf(u)' : i = j
<1>1. epoch' = epoch /\ aep' = aep
  BY DEF InputDataPush
<1>2. CASE u # t
  <2>1. StaleOf(u)' = StaleOf(u)
    BY <1>1, <1>2, PushBrings DEF StaleOf, BroughtBy
  <2>2. apc'[u] = apc[u]
    BY <1>2 DEF InputDataPush, TypeOK
  <2>3. QED
    BY <1>1, <2>1, <2>2 DEF StaleCallsBroughtNone, StaleFramesBounded
<1>3. CASE u = t
  <2>1. apc'[u] = "out"
    BY <1>3 DEF InputDataPush, TypeOK
  <2>2. CASE aep[t] < epoch
    <3>1. StaleOf(t) = {}
      BY <2>2 DEF StaleCallsBroughtNone, InputDataPush
    <3>2. StaleOf(t)' \subseteq {Len(list) + 1}
      BY <1>1, <3>1, PushBrings DEF StaleOf, BroughtBy
    <3>3. QED
      BY <1>3, <2>1, <3>2
  <2>3. CASE ~(aep[t] < epoch)
    <3>1. StaleOf(t)' \subseteq StaleOf(t)
      BY <1>1, <2>3, PushBrings DEF StaleOf, BroughtBy
    <3>2. QED
      BY <1>3, <2>1, <3>1 DEF StaleFramesBounded
  <2>4. QED
    BY <2>2, <2>3
<1>4. QED
  BY <1>2, <1>3

LEMMA StaleStep ==
  ASSUME TypeOK, OneFrameEach, StaleCallsBroughtNone, StaleFramesBounded, [Next]_vars
  PROVE  StaleCallsBroughtNone' /\ StaleFramesBounded'
<1> SUFFICES ASSUME NEW u \in Threads
             PROVE  /\ apc'[u] # "out" /\ aep'[u] < epoch' => StaleOf(u)' = {}
                    /\ \A i, j \in StaleOf(u)' : i = j
  BY DEF StaleCallsBroughtNone, StaleFramesBounded
<1>1. CASE LoginSet
  BY <1>1, LoginMakesStale
<1>2. CASE list' = <<>>
  BY <1>2 DEF StaleOf, BroughtBy
<1>3. CASE \E t \in Threads : InputDataPush(t)
  BY <1>3, PushedStale
<1>4. CASE list' = list /\ ~LoginSet
  <2>1. epoch' = epoch
    BY <1>4, CallCases DEF ApplicationStep, Application, InputData, InputDataStop, InputDataPush
  <2>2. StaleOf(u)' = StaleOf(u)
    BY <1>4, <2>1 DEF StaleOf, BroughtBy
  <2>3. apc'[u] # "out" /\ aep'[u] < epoch' => apc[u] # "out" /\ aep[u] < epoch
    <3>1. CASE ApplicationStep
      <4>1. PICK t \in Threads : Application(t)
        BY <3>1 DEF ApplicationStep
      <4>2. CASE InputData(t)
        <5>1. u = t => ~(aep'[u] < epoch')
          BY <4>2, <2>1 DEF InputData, TypeOK
        <5>2. u # t => apc'[u] = apc[u] /\ aep'[u] = aep[u]
          BY <4>2 DEF InputData, TypeOK
        <5>3. QED
          BY <2>1, <5>1, <5>2
      <4>3. CASE InputDataStop(t) \/ InputDataPush(t)
        BY <2>1, <4>3 DEF InputDataStop, InputDataPush, TypeOK
      <4>4. QED
        BY <4>1, <4>2, <4>3 DEF Application
    <3>2. CASE UNCHANGED <<appVars, epoch>>
      BY <3>2 DEF appVars
    <3>3. QED
      BY <1>4, <3>1, <3>2, CallCases
  <2>4. QED
    BY <2>2, <2>3 DEF StaleCallsBroughtNone, StaleFramesBounded
<1>5. QED
  BY <1>1, <1>2, <1>3, <1>4, ListCases

-----------------------------------------------------------------------------
(* The invariant and the theorems *)

LEMMA InitIInv == Init => IInv
<1> SUFFICES ASSUME Init PROVE IInv
  OBVIOUS
<1>1. Places /\ Connections
  BY DEF Init, Places, Connections
<1>2. BufferOutlivesWrite
  BY DEF Init, BufferOutlivesWrite
<1>3. list = <<>>
  BY DEF Init
<1>4. \A t \in Threads : BroughtBy(t) = {} /\ StaleOf(t) = {}
  BY <1>3 DEF BroughtBy, StaleOf
<1>5. QED
  BY <1>1, <1>2, <1>4, InitTypeOK DEF IInv, OneFrameEach, StaleCallsBroughtNone, StaleFramesBounded

LEMMA NextIInv == IInv /\ [Next]_vars => IInv'
  BY NextTypeOK, PlacesStep, ConnectionsStep, BufferStep, OneFrameEachStep, StaleStep DEF IInv

\* The inductive invariant: where Start, Stop, the worker and InputData are, and
\* what m_msgList holds then.
THEOREM InvariantHolds == Spec => []IInv
<1>1. QED
  BY InitIInv, NextIInv, PTL DEF Spec

\* The buffer AsyncWrite was given (PhoneDevice.cpp's WRITE callback) is in the
\* list until the write has ended or the stream is released.
THEOREM BuffersOutliveWrites == Spec => []BufferOutlivesWrite
<1>1. IInv => BufferOutlivesWrite
  BY DEF IInv
<1>2. QED
  BY <1>1, InvariantHolds, PTL

\* Of the frames of earlier logins the list holds one of each thread at most,
\* although InputData tests m_bLogin without a lock.
THEOREM StaleFramesAlwaysBounded == Spec => []StaleFramesBounded
<1>1. IInv => StaleFramesBounded
  BY DEF IInv
<1>2. QED
  BY <1>1, InvariantHolds, PTL

=============================================================================
