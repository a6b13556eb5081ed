------------------------ MODULE DeviceInstanceProofs ------------------------
(***************************************************************************)
(* Proofs about DeviceInstance, for every number of application threads,   *)
(* sessions, routes and queue lengths: its invariants, the bound on the    *)
(* frames that wait (for any finite set of threads), and that each of its  *)
(* two channels implements Channel.                                        *)
(***************************************************************************)
EXTENDS DeviceInstance, FiniteSetTheorems, TLAPS

\* What a channel's worker step may be, spelled out once for the case splits below.
LEMMA NextCases ==
  ASSUME [Next]_vars
  PROVE  \/ XConnect \/ XDisconnect \/ WorkerJoined
         \/ FreeSignaling \/ FreeStream \/ XDelete
         \/ WorkerLoop \/ WorkerRedirect \/ WorkerSleep
         \/ \E c \in Chan : WorkerOn(c)
         \/ \E c \in Chan : Network(c) \/ Expire(c)
         \/ \E t \in App : AppCall(t) \/ AppIn(t)
         \/ UNCHANGED vars
  BY DEF Next, Worker, Deleted

\* Push keeps the queue a sequence of messages, and adds at most the message m.
LEMMA PushProperties ==
  ASSUME NEW c \in Chan, NEW m \in Message, queue[c] \in Seq(Message)
  PROVE  /\ Push(c, m) \in Seq(Message)
         /\ \A i \in 1..Len(Push(c, m)) :
              Push(c, m)[i] = m \/ (i \in 1..Len(queue[c]) /\ Push(c, m)[i] = queue[c][i])
  BY DEF Push

\* The flag IsConnectError writes is a Boolean.
LEMMA FlagTypes ==
  ASSUME TypeOK, NEW c \in Chan, NEW s \in BOOLEAN, IsConnectError(c, s)
  PROVE  err' \in [Chan -> BOOLEAN] /\ canSend' \in BOOLEAN
<1>1. Failing(c, s) \in BOOLEAN
  BY DEF Failing, TypeOK
<1>2. err' \in [Chan -> BOOLEAN]
  BY <1>1 DEF IsConnectError, TypeOK
<1>3. canSend' \in BOOLEAN
  BY DEF IsConnectError, TypeOK
<1>4. QED
  BY <1>2, <1>3

\* A fresh object is well typed.
LEMMA InitTypeOK == Init => TypeOK
<1> SUFFICES ASSUME Init PROVE TypeOK
  OBVIOUS
<1>1. queue \in [Chan -> Seq(Message)] /\ amsg \in [App -> Seq(Message)]
  <2>1. <<>> \in Seq(Message)
    OBVIOUS
  <2>2. QED
    BY <2>1 DEF Init
<1>2. sess \in [Chan -> Sessions]
  BY DEF Init
<1>3. peer \in [Chan -> Routes]
  BY ConstAssumption DEF ConstAssumption, Init
<1>4. QED
  BY <1>1, <1>2, <1>3 DEF Init, TypeOK, Calls, WorkerPlaces, Chan

\* An emptied queue, a shorter queue and a queue pushed to are queues.
LEMMA QueueUpdate ==
  ASSUME TypeOK, NEW c \in Chan, NEW q \in Seq(Message)
  PROVE  [queue EXCEPT ![c] = q] \in [Chan -> Seq(Message)]
  BY DEF TypeOK

\* Disconnect changes the queue, the flag and the stream within their types.
LEMMA DisconnectTypes ==
  ASSUME TypeOK, NEW c \in Chan, Disconnect(c)
  PROVE  /\ conn' \in [Chan -> {"null", "open", "live"}]
         /\ rd' \in [Chan -> {"none", "init", "head"} \cup Cmds]
         /\ wr' \in [Chan -> BOOLEAN]
         /\ err' \in [Chan -> BOOLEAN]
         /\ queue' \in [Chan -> Seq(Message)]
         /\ UNCHANGED <<silent, sess, canSend, opened>>
<1>1. <<>> \in Seq(Message)
  OBVIOUS
<1>2. queue' \in [Chan -> Seq(Message)]
  BY <1>1, QueueUpdate DEF Disconnect, ClearSendBufferList, TypeOK
<1>3. QED
  BY <1>2 DEF Disconnect, Release, TypeOK

\* TypeOK, the owner's calls and the worker's steps that touch no channel.
LEMMA OwnerTypeOK ==
  ASSUME TypeOK,
         \/ XConnect \/ XDisconnect \/ WorkerJoined
         \/ FreeSignaling \/ FreeStream \/ XDelete
         \/ WorkerLoop \/ WorkerRedirect \/ WorkerSleep
         \/ UNCHANGED vars
  PROVE  TypeOK'
<1> USE DEF ownerVars, workerVars, chanVars, appVars
<1>1. CASE XConnect
  BY <1>1 DEF XConnect, TypeOK, WorkerPlaces
<1>2. CASE XDisconnect \/ WorkerJoined \/ XDelete
  BY <1>2 DEF XDisconnect, WorkerJoined, XDelete, TypeOK
<1>3. CASE FreeSignaling \/ FreeStream
  <2>1. PICK c \in Chan : Disconnect(c) /\ alive' = [alive EXCEPT ![c] = FALSE]
    BY <1>3 DEF FreeSignaling, FreeStream, FreeChannel, Chan
  <2>2. /\ opc' \in {"freestr", "off"}
        /\ UNCHANGED <<exit, workerVars, appVars>>
    BY <1>3 DEF FreeSignaling, FreeStream, FreeChannel
  <2>3. QED
    BY <2>1, <2>2, DisconnectTypes DEF TypeOK
<1>4. CASE WorkerLoop \/ WorkerRedirect \/ WorkerSleep
  BY <1>4, ConstAssumption
  DEF ConstAssumption, WorkerLoop, WorkerRedirect, WorkerSleep, WorkerGoes, RouteChoices,
      TypeOK, WorkerPlaces, Chan
<1>5. CASE UNCHANGED vars
  BY <1>5 DEF vars, TypeOK
<1>6. QED
  BY <1>1, <1>2, <1>3, <1>4, <1>5

\* TypeOK, the worker's steps on one channel.
LEMMA WorkerTypeOK ==
  ASSUME TypeOK, NEW c \in Chan, WorkerOn(c)
  PROVE  TypeOK'
<1> USE DEF ownerVars, appVars, WorkerAt, WorkerGoes, WorkerDone
<1>1. CASE WorkerBoth(c) \/ WorkerCheck(c)
  <2>1. silent[c] \in BOOLEAN
    BY DEF TypeOK
  <2>2. IsConnectError(c, silent[c])
    BY <1>1 DEF WorkerBoth, WorkerCheck
  <2>3. err' \in [Chan -> BOOLEAN] /\ canSend' \in BOOLEAN
    BY <2>1, <2>2, FlagTypes
  <2>4. /\ wpc' \in WorkerPlaces
        /\ wch' \in Chan
    BY <1>1 DEF WorkerBoth, WorkerCheck, WorkerPlaces, Chan
  <2>5. QED
    BY <1>1, <2>3, <2>4 DEF WorkerBoth, WorkerCheck, TypeOK
<1>2. CASE WorkerDisconnect(c)
  BY <1>2, DisconnectTypes DEF WorkerDisconnect, TypeOK, WorkerPlaces
<1>3. CASE LinkOk(c) \/ LinkFail(c)
  <2>1. <<>> \in Seq(Message)
    OBVIOUS
  <2>2. queue' \in [Chan -> Seq(Message)]
    BY <1>3, <2>1, QueueUpdate DEF LinkOk, LinkFail, Link, ClearSendBufferList
  <2>3. wpc' \in WorkerPlaces /\ wch' \in Chan
    BY <1>3 DEF LinkOk, LinkFail, WorkerPlaces, Chan
  <2>4. canSend' \in BOOLEAN /\ opened' \in BOOLEAN
    BY <1>3 DEF LinkOk, LinkFail, Link, TypeOK
  <2>5. peer' \in [Chan -> Routes]
    BY <1>3 DEF LinkOk, LinkFail, Link, TypeOK
  <2>6. conn' \in [Chan -> {"null", "open", "live"}]
    <3>1. conn' = conn \/ conn' = [conn EXCEPT ![c] = "open"]
      BY <1>3 DEF LinkOk, LinkFail
    <3>2. QED
      BY <3>1 DEF TypeOK
  <2>7. QED
    BY <1>3, <2>2, <2>3, <2>4, <2>5, <2>6 DEF LinkOk, LinkFail, Link, TypeOK
<1>4. CASE SessionOk(c) \/ LoginOk(c) \/ ExchangeFail(c)
  <2>1. wpc' \in WorkerPlaces /\ wch' \in Chan
    BY <1>4 DEF SessionOk, LoginOk, ExchangeFail, WorkerPlaces, Chan
  <2>2. QED
    BY <1>4, <2>1 DEF SessionOk, LoginOk, ExchangeFail, Release, TypeOK
<1>5. CASE WorkerRegister(c) \/ WorkerTick(c)
  <2>1. wpc' \in WorkerPlaces /\ wch' \in Chan
    BY <1>5 DEF WorkerRegister, WorkerTick, WorkerPlaces, Chan
  <2>2. QED
    BY <1>5, <2>1 DEF WorkerRegister, WorkerTick, TypeOK
<1>6. CASE WorkerBeat(c)
  <2>1. [kind |-> "hb", sess |-> sess[c]] \in Message
    BY DEF TypeOK, Message, Kinds
  <2>2. queue' \in [Chan -> Seq(Message)]
    BY <1>6, <2>1, PushProperties, QueueUpdate DEF WorkerBeat, TypeOK
  <2>3. QED
    BY <1>6, <2>2 DEF WorkerBeat, TypeOK, WorkerPlaces, Chan
<1>7. QED
  BY <1>1, <1>2, <1>3, <1>4, <1>5, <1>6 DEF WorkerOn

\* TypeOK, the network's callbacks and the passing of time.
LEMMA NetworkTypeOK ==
  ASSUME TypeOK, NEW c \in Chan, Network(c) \/ Expire(c)
  PROVE  TypeOK'
<1> USE DEF ownerVars, workerVars, appVars
<1>1. CASE ReadFailed(c) \/ WriteFailed(c) \/ ReadStart(c) \/ ReadHeadTooLong(c) \/ Expire(c)
  BY <1>1 DEF ReadFailed, WriteFailed, ReadStart, ReadHeadTooLong, Expire, TypeOK
<1>2. CASE Receive(c)
  BY <1>2 DEF Receive, ReadBody, ReadHead, DoMsg, TypeOK
<1>3. CASE \E cmd \in CmdsOf(c) : ReadHeadBody(c, cmd)
  <2>1. CmdsOf(c) \subseteq Cmds
    BY ConstAssumption DEF ConstAssumption, CmdsOf, SigCmds, Cmds
  <2>2. QED
    BY <1>3, <2>1 DEF ReadHeadBody, TypeOK
<1>4. CASE WriteDone(c)
  <2>1. Tail(queue[c]) \in Seq(Message)
    BY <1>4 DEF WriteDone, TypeOK
  <2>2. queue' \in [Chan -> Seq(Message)]
    BY <1>4, <2>1, QueueUpdate DEF WriteDone, TypeOK
  <2>3. QED
    BY <1>4, <2>2 DEF WriteDone, TypeOK
<1>5. CASE WriteIdle(c)
  BY <1>5 DEF WriteIdle, vars, chanVars, TypeOK
<1>6. QED
  BY <1>1, <1>2, <1>3, <1>4, <1>5 DEF Network

\* TypeOK, the application's threads.
LEMMA AppTypeOK ==
  ASSUME TypeOK, MessageReady, NEW t \in App, AppCall(t) \/ AppIn(t)
  PROVE  TypeOK'
<1> USE DEF ownerVars, workerVars, chanVars
<1>1. CASE AppCall(t)
  BY <1>1, ConstAssumption
  DEF ConstAssumption, AppCall, Compare, ChanOf, TypeOK, Calls, Chan
<1>2. CASE AppFlagSend(t)
  <2>1. asil[t] \in BOOLEAN /\ ChanOf(aop[t]) \in Chan
    BY DEF TypeOK, ChanOf, Chan
  <2>2. err' \in [Chan -> BOOLEAN] /\ canSend' \in BOOLEAN
    BY <1>2, <2>1, FlagTypes DEF AppFlagSend
  <2>3. QED
    BY <1>2, <2>2 DEF AppFlagSend, Return, TypeOK, Calls
<1>3. CASE AppFlagStatus(t)
  <2>1. asil[t] \in BOOLEAN /\ ChanOf(aop[t]) \in Chan
    BY DEF TypeOK, ChanOf, Chan
  <2>2. err' \in [Chan -> BOOLEAN] /\ canSend' \in BOOLEAN
    BY <1>3, <2>1, FlagTypes DEF AppFlagStatus
  <2> DEFINE next == NextQuestion(aop[t], Failing(ChanOf(aop[t]), asil[t]))
  <2>3. next \in Calls /\ IF next = "none" THEN Return(t) ELSE Compare(t, next)
    <3>1. NextQuestion(aop[t], Failing(ChanOf(aop[t]), asil[t])) \in Calls
      <4> DEFINE f == Failing(ChanOf(aop[t]), asil[t])
      <4>1. CASE f
        BY <4>1 DEF NextQuestion, Calls
      <4>2. CASE ~f
        BY <4>2 DEF NextQuestion, Calls
      <4>3. QED
        BY <4>1, <4>2
    <3>2. QED
      BY <1>3, <3>1 DEF AppFlagStatus
  <2> HIDE DEF next
  <2>4. /\ apc' \in [App -> {"idle", "flag", "look", "fill", "push"}]
        /\ aop' \in [App -> Calls]
        /\ asil' \in [App -> BOOLEAN]
    <3>1. CASE next = "none"
      BY <2>3, <3>1 DEF Return, TypeOK, Calls
    <3>2. CASE next # "none"
      <4>1. ChanOf(next) \in Chan
        BY DEF ChanOf, Chan
      <4>2. silent[ChanOf(next)] \in BOOLEAN
        BY <4>1 DEF TypeOK
      <4>3. QED
        BY <2>3, <3>2, <4>2 DEF Compare, TypeOK
    <3>3. QED
      BY <3>1, <3>2
  <2>5. QED
    BY <1>3, <2>2, <2>4 DEF AppFlagStatus, TypeOK
<1>4. CASE AppLook(t)
  BY <1>4 DEF AppLook, Return, TypeOK, Calls
<1>5. CASE AppFill(t)
  <2>1. <<[kind |-> "app", sess |-> sess[ChanOf(aop[t])]]>> \in Seq(Message)
    BY DEF TypeOK, Message, Kinds, ChanOf, Chan
  <2>2. QED
    BY <1>5, <2>1 DEF AppFill, TypeOK
<1>6. CASE AppPush(t)
  <2> DEFINE c == ChanOf(aop[t])
  <2>1. c \in Chan
    BY DEF ChanOf, Chan
  <2>2. Head(amsg[t]) \in Message
    BY <1>6 DEF AppPush, MessageReady, TypeOK
  <2>3. queue' = [queue EXCEPT ![c] = Push(c, Head(amsg[t]))]
    BY <1>6 DEF AppPush
  <2>4. queue' \in [Chan -> Seq(Message)]
    BY <2>1, <2>2, <2>3, PushProperties, QueueUpdate DEF TypeOK
  <2>5. <<>> \in Seq(Message)
    OBVIOUS
  <2>6. QED
    BY <1>6, <2>4, <2>5 DEF AppPush, Return, TypeOK, Calls
<1>7. QED
  BY <1>1, <1>2, <1>3, <1>4, <1>5, <1>6 DEF AppIn
\* A thread that is about to push has its message.
LEMMA MessageReadyStep ==
  ASSUME TypeOK, MessageReady, [Next]_vars
  PROVE  MessageReady'
<1> USE DEF MessageReady, TypeOK
<1>1. CASE UNCHANGED <<apc, amsg>>
  BY <1>1
<1>2. ASSUME NEW t \in App, AppIn(t) \/ AppCall(t)
      PROVE  MessageReady'
  BY <1>2 DEF AppIn, AppCall, AppFlagSend, AppFlagStatus, AppLook, AppFill, AppPush, Compare, Return
<1>3. QED
  <2>1. ASSUME ~\E t \in App : AppIn(t) \/ AppCall(t)
        PROVE  UNCHANGED appVars
    <3>1. ASSUME NEW c \in Chan, WorkerOn(c)
          PROVE  UNCHANGED appVars
      BY <3>1 DEF WorkerOn, WorkerBoth, WorkerCheck, WorkerDisconnect, LinkOk, LinkFail, Link,
        SessionOk, LoginOk, ExchangeFail, WorkerRegister, WorkerTick, WorkerBeat
    <3>2. ASSUME NEW c \in Chan, Network(c) \/ Expire(c)
          PROVE  UNCHANGED appVars
      BY <3>2 DEF Network, Expire, ReadFailed, WriteFailed, ReadStart, Receive, ReadBody, ReadHead,
        ReadHeadBody, ReadHeadTooLong, WriteDone, WriteIdle, vars
    <3>3. QED
      BY <2>1, <3>1, <3>2, NextCases DEF XConnect, XDisconnect, WorkerJoined, FreeSignaling,
        FreeStream, FreeChannel, XDelete, WorkerLoop, WorkerRedirect, WorkerSleep, vars
  <2>2. QED
    BY <1>1, <1>2, <2>1 DEF appVars

\* The part of the invariant that says which objects and threads exist.
LEMMA LifecycleStep ==
  ASSUME TypeOK, Lifecycle, Connections, [Next]_vars
  PROVE  Lifecycle'
<1> USE DEF Lifecycle, TypeOK, Chan
<1>1. CASE XConnect
  BY <1>1 DEF XConnect
<1>2. CASE XDisconnect \/ WorkerJoined \/ XDelete
  BY <1>2 DEF XDisconnect, WorkerJoined, XDelete, workerVars, chanVars
<1>3. CASE FreeSignaling
  BY <1>3 DEF FreeSignaling, FreeChannel, Disconnect, Release, workerVars
<1>4. CASE FreeStream
  BY <1>4 DEF FreeStream, FreeChannel, Disconnect, Release, workerVars
<1>5. CASE WorkerLoop \/ WorkerRedirect \/ WorkerSleep
  BY <1>5 DEF WorkerLoop, WorkerRedirect, WorkerSleep, WorkerGoes, ownerVars, chanVars
<1>6. ASSUME NEW c \in Chan, WorkerOn(c)
      PROVE  Lifecycle'
  <2>1. UNCHANGED ownerVars /\ wpc # "none"
    BY <1>6 DEF WorkerOn, WorkerBoth, WorkerCheck, WorkerDisconnect, LinkOk, LinkFail, Link,
      SessionOk, LoginOk, ExchangeFail, WorkerRegister, WorkerTick, WorkerBeat, WorkerAt
  <2>2. opc \in {"on", "wait"}
    BY <2>1
  <2>3. QED
    BY <2>1, <2>2 DEF ownerVars
<1>7. ASSUME NEW c \in Chan, Network(c) \/ Expire(c)
      PROVE  Lifecycle'
  BY <1>7 DEF Network, Expire, ReadFailed, WriteFailed, ReadStart, Receive, ReadBody, ReadHead,
    ReadHeadBody, ReadHeadTooLong, WriteDone, WriteIdle, vars, ownerVars, workerVars, chanVars
<1>8. ASSUME NEW t \in App, AppCall(t) \/ AppIn(t)
      PROVE  Lifecycle'
  BY <1>8 DEF AppIn, AppCall, AppFlagSend, AppFlagStatus, AppLook, AppFill, AppPush,
    ownerVars, workerVars, chanVars
<1>9. CASE UNCHANGED vars
  BY <1>9 DEF vars, ownerVars, workerVars, chanVars
<1>10. QED
  BY <1>1, <1>2, <1>3, <1>4, <1>5, <1>6, <1>7, <1>8, <1>9, NextCases
\* The part of the invariant that relates a stream's state, its pending
\* callbacks, the error flag and the place of the worker.
LEMMA ConnectionsStep ==
  ASSUME TypeOK, Lifecycle, Connections, [Next]_vars
  PROVE  Connections'
<1> USE DEF Connections, TypeOK, Chan, Connecting, WorkerAt
<1>1. CASE XConnect
  <2>1. \A c \in Chan : conn[c] = "null" /\ ~wr[c] /\ rd[c] = "none"
    BY <1>1 DEF XConnect, Lifecycle
  <2>2. QED
    BY <1>1, <2>1 DEF XConnect
<1>2. CASE XDisconnect \/ WorkerJoined \/ XDelete
  BY <1>2 DEF XDisconnect, WorkerJoined, XDelete, workerVars, chanVars
<1>3. CASE FreeSignaling \/ FreeStream
  <2>1. PICK c \in Chan : Disconnect(c)
    BY <1>3 DEF FreeSignaling, FreeStream, FreeChannel
  <2>2. wpc = "none" /\ UNCHANGED workerVars
    BY <1>3 DEF FreeSignaling, FreeStream, FreeChannel, Lifecycle
  <2>3. QED
    BY <2>1, <2>2 DEF Disconnect, Release, workerVars
<1>4. CASE WorkerLoop \/ WorkerRedirect \/ WorkerSleep
  BY <1>4 DEF WorkerLoop, WorkerRedirect, WorkerSleep, WorkerGoes, chanVars
<1>5. ASSUME NEW c \in Chan, WorkerOn(c)
      PROVE  Connections'
  <2> USE DEF WorkerGoes, WorkerDone
  <2>1. CASE WorkerBoth(c) \/ WorkerCheck(c)
    <3>1. /\ Connecting(c) = FALSE /\ wpc' \notin {"link", "session", "login", "register"}
          /\ UNCHANGED <<conn, rd, wr>>
          /\ wpc \in {"both", "check"}
      BY <2>1 DEF WorkerBoth, WorkerCheck
    <3>2. \A d \in Chan : err[d] => err'[d]
      BY <2>1 DEF WorkerBoth, WorkerCheck, IsConnectError, Failing
    <3>3. QED
      BY <3>1, <3>2
  <2>2. CASE WorkerDisconnect(c)
    BY <2>2 DEF WorkerDisconnect, Disconnect, Release
  <2>3. CASE LinkOk(c)
    BY <2>3 DEF LinkOk, Link
  <2>4. CASE LinkFail(c)
    BY <2>4 DEF LinkFail, Link
  <2>5. CASE SessionOk(c)
    BY <2>5 DEF SessionOk
  <2>6. CASE LoginOk(c)
    BY <2>6 DEF LoginOk
  <2>7. CASE ExchangeFail(c)
    BY <2>7 DEF ExchangeFail, Release
  <2>8. CASE WorkerRegister(c)
    BY <2>8 DEF WorkerRegister
  <2>9. CASE WorkerTick(c)
    BY <2>9 DEF WorkerTick
  <2>10. CASE WorkerBeat(c)
    BY <2>10 DEF WorkerBeat
  <2>11. QED
    BY <1>5, <2>1, <2>2, <2>3, <2>4, <2>5, <2>6, <2>7, <2>8, <2>9, <2>10 DEF WorkerOn
<1>6. ASSUME NEW c \in Chan, Network(c) \/ Expire(c)
      PROVE  Connections'
  <2>1. CASE ReadFailed(c)
    BY <2>1 DEF ReadFailed, workerVars
  <2>2. CASE WriteFailed(c)
    BY <2>2 DEF WriteFailed, workerVars
  <2>3. CASE ReadStart(c) \/ ReadHeadTooLong(c) \/ WriteDone(c) \/ Expire(c)
    BY <2>3 DEF ReadStart, ReadHeadTooLong, WriteDone, Expire, workerVars
  <2>4. CASE Receive(c)
    BY <2>4 DEF Receive, ReadBody, ReadHead, workerVars, Cmds
  <2>5. CASE \E cmd \in CmdsOf(c) : ReadHeadBody(c, cmd)
    BY <2>5 DEF ReadHeadBody, workerVars
  <2>6. CASE WriteIdle(c)
    BY <2>6 DEF WriteIdle, vars, workerVars, chanVars
  <2>7. QED
    BY <1>6, <2>1, <2>2, <2>3, <2>4, <2>5, <2>6 DEF Network
<1>7. ASSUME NEW t \in App, AppCall(t) \/ AppIn(t)
      PROVE  Connections'
  <2>1. UNCHANGED <<conn, rd, wr, wpc, wch>>
    BY <1>7 DEF AppIn, AppCall, AppFlagSend, AppFlagStatus, AppLook, AppFill, AppPush,
      workerVars, chanVars
  <2>2. \A d \in Chan : err[d] => err'[d]
    BY <1>7 DEF AppIn, AppCall, AppFlagSend, AppFlagStatus, AppLook, AppFill, AppPush,
      IsConnectError, Failing, chanVars
  <2>3. QED
    BY <2>1, <2>2
<1>8. CASE UNCHANGED vars
  BY <1>8 DEF vars, workerVars, chanVars
<1>9. QED
  BY <1>1, <1>2, <1>3, <1>4, <1>5, <1>6, <1>7, <1>8, NextCases
\* The write pump of a healthy channel.
LEMMA PumpsStep ==
  ASSUME TypeOK, Lifecycle, Connections, PumpsRun, [Next]_vars
  PROVE  PumpsRun'
<1> USE DEF PumpsRun, TypeOK, Chan
<1>1. CASE XConnect
  BY <1>1 DEF XConnect
<1>2. CASE XDisconnect \/ WorkerJoined \/ XDelete
  BY <1>2 DEF XDisconnect, WorkerJoined, XDelete, chanVars
<1>3. CASE FreeSignaling \/ FreeStream
  <2>1. PICK c \in Chan : Disconnect(c)
    BY <1>3 DEF FreeSignaling, FreeStream, FreeChannel
  <2>2. QED
    BY <2>1 DEF Disconnect, Release
<1>4. CASE WorkerLoop \/ WorkerRedirect \/ WorkerSleep
  BY <1>4 DEF WorkerLoop, WorkerRedirect, WorkerSleep, chanVars
<1>5. ASSUME NEW c \in Chan, WorkerOn(c)
      PROVE  PumpsRun'
  <2>1. CASE WorkerBoth(c) \/ WorkerCheck(c)
    BY <2>1 DEF WorkerBoth, WorkerCheck, IsConnectError, Failing
  <2>2. CASE WorkerDisconnect(c)
    BY <2>2 DEF WorkerDisconnect, Disconnect, Release
  <2>3. CASE LinkOk(c) \/ LinkFail(c)
    BY <2>3 DEF LinkOk, LinkFail, Link
  <2>4. CASE SessionOk(c) \/ WorkerTick(c) \/ WorkerBeat(c)
    BY <2>4 DEF SessionOk, WorkerTick, WorkerBeat
  <2>5. CASE LoginOk(c)
    BY <2>5 DEF LoginOk, Connections, Connecting, WorkerAt
  <2>6. CASE ExchangeFail(c)
    BY <2>6 DEF ExchangeFail, Release
  <2>7. CASE WorkerRegister(c)
    BY <2>7 DEF WorkerRegister
  <2>8. QED
    BY <1>5, <2>1, <2>2, <2>3, <2>4, <2>5, <2>6, <2>7 DEF WorkerOn
<1>6. ASSUME NEW c \in Chan, Network(c) \/ Expire(c)
      PROVE  PumpsRun'
  <2>1. CASE ReadFailed(c)
    BY <2>1 DEF ReadFailed
  <2>2. CASE WriteFailed(c)
    BY <2>2 DEF WriteFailed
  <2>3. CASE ReadStart(c) \/ ReadHeadTooLong(c) \/ WriteDone(c) \/ Expire(c)
    BY <2>3 DEF ReadStart, ReadHeadTooLong, WriteDone, Expire
  <2>4. CASE Receive(c)
    BY <2>4 DEF Receive, ReadBody, ReadHead
  <2>5. CASE \E cmd \in CmdsOf(c) : ReadHeadBody(c, cmd)
    BY <2>5 DEF ReadHeadBody
  <2>6. CASE WriteIdle(c)
    BY <2>6 DEF WriteIdle, vars, chanVars
  <2>7. QED
    BY <1>6, <2>1, <2>2, <2>3, <2>4, <2>5, <2>6 DEF Network
<1>7. ASSUME NEW t \in App, AppCall(t) \/ AppIn(t)
      PROVE  PumpsRun'
  <2>1. CASE AppFlagSend(t) \/ AppFlagStatus(t)
    BY <2>1 DEF AppFlagSend, AppFlagStatus, IsConnectError, Failing
  <2>2. CASE AppCall(t) \/ AppLook(t) \/ AppFill(t) \/ AppPush(t)
    BY <2>2 DEF AppCall, AppLook, AppFill, AppPush, chanVars
  <2>3. QED
    BY <1>7, <2>1, <2>2 DEF AppIn
<1>8. CASE UNCHANGED vars
  BY <1>8 DEF vars, chanVars
<1>9. QED
  BY <1>1, <1>2, <1>3, <1>4, <1>5, <1>6, <1>7, <1>8, NextCases
\* What is queued on a stream: heartbeats of its own session only.
LEMMA QueueOriginStep ==
  ASSUME TypeOK, Lifecycle, Connections, MessageReady, QueueOrigin, [Next]_vars
  PROVE  QueueOrigin'
<1> USE DEF QueueOrigin, WorkerAt
<1>1. CASE XConnect
  BY <1>1 DEF XConnect, Lifecycle, Chan
<1>2. CASE XDisconnect \/ WorkerJoined \/ XDelete
  BY <1>2 DEF XDisconnect, WorkerJoined, XDelete, workerVars, chanVars
<1>3. CASE FreeSignaling \/ FreeStream
  <2>1. PICK c \in Chan : Disconnect(c) /\ UNCHANGED workerVars
    BY <1>3 DEF FreeSignaling, FreeStream, FreeChannel, Chan
  <2>2. QED
    BY <2>1 DEF Disconnect, Release, ClearSendBufferList, workerVars, TypeOK
<1>4. CASE WorkerLoop \/ WorkerRedirect \/ WorkerSleep
  BY <1>4 DEF WorkerLoop, WorkerRedirect, WorkerSleep, WorkerGoes, chanVars
<1>5. ASSUME NEW c \in Chan, WorkerOn(c)
      PROVE  QueueOrigin'
  <2> USE DEF WorkerGoes, WorkerDone
  <2>1. CASE WorkerBoth(c) \/ WorkerCheck(c)
    BY <2>1 DEF WorkerBoth, WorkerCheck
  <2>2. CASE WorkerDisconnect(c)
    BY <2>2 DEF WorkerDisconnect, Disconnect, Release, ClearSendBufferList, TypeOK
  <2>3. CASE LinkOk(c) \/ LinkFail(c)
    BY <2>3 DEF LinkOk, LinkFail, Link, ClearSendBufferList, TypeOK
  <2>4. CASE SessionOk(c)
    BY <2>4 DEF SessionOk, TypeOK, Connections, Connecting
  <2>5. CASE LoginOk(c) \/ WorkerTick(c)
    BY <2>5 DEF LoginOk, WorkerTick
  <2>6. CASE ExchangeFail(c)
    BY <2>6 DEF ExchangeFail, Release, TypeOK
  <2>7. CASE WorkerRegister(c)
    BY <2>7 DEF WorkerRegister, TypeOK, Connections, Connecting
  <2>8. CASE WorkerBeat(c)
    <3> DEFINE hb == [kind |-> "hb", sess |-> sess[c]]
    <3>1. hb \in Message /\ queue[c] \in Seq(Message)
      BY DEF TypeOK, Message, Kinds
    <3>2. queue' = [queue EXCEPT ![c] = Push(c, hb)]
      BY <2>8 DEF WorkerBeat
    <3>3. UNCHANGED <<conn, sess>> /\ wpc' # "session"
      BY <2>8 DEF WorkerBeat
    <3>4. ASSUME NEW d \in Chan, conn'[d] # "null", NEW i \in 1..Len(queue'[d]),
                 queue'[d][i].kind = "hb"
          PROVE  queue'[d][i].sess = sess[d]
      <4>1. CASE d # c
        BY <3>2, <3>3, <3>4, <4>1 DEF TypeOK
      <4>2. CASE d = c
        <5>1. queue'[c] = Push(c, hb)
          BY <3>2 DEF TypeOK
        <5>2. queue'[c][i] = hb \/ (i \in 1..Len(queue[c]) /\ queue'[c][i] = queue[c][i])
          BY <3>1, <3>4, <4>2, <5>1, PushProperties
        <5>3. QED
          BY <3>3, <3>4, <4>2, <5>2
      <4>3. QED
        BY <4>1, <4>2
    <3>5. QED
      BY <3>3, <3>4
  <2>9. QED
    BY <1>5, <2>1, <2>2, <2>3, <2>4, <2>5, <2>6, <2>7, <2>8 DEF WorkerOn
<1>6. ASSUME NEW c \in Chan, Network(c) \/ Expire(c)
      PROVE  QueueOrigin'
  <2>1. CASE WriteDone(c)
    <3>1. queue[c] \in Seq(Message) /\ queue[c] # <<>>
      BY <2>1 DEF WriteDone, TypeOK
    <3>2. Len(Tail(queue[c])) = Len(queue[c]) - 1
          /\ \A i \in 1..Len(Tail(queue[c])) : i + 1 \in 1..Len(queue[c])
                                              /\ Tail(queue[c])[i] = queue[c][i + 1]
      BY <3>1
    <3>3. \A d \in Chan : queue'[d] = IF d = c THEN Tail(queue[c]) ELSE queue[d]
      BY <2>1 DEF WriteDone, TypeOK
    <3>4. UNCHANGED <<conn, sess, wpc, wch>>
      BY <2>1 DEF WriteDone, workerVars
    <3>5. ASSUME NEW d \in Chan, conn'[d] # "null", NEW i \in 1..Len(queue'[d]),
                 queue'[d][i].kind = "hb"
          PROVE  ~(wpc = "session" /\ wch = d) /\ queue'[d][i].sess = sess[d]
      <4>1. CASE d # c
        BY <3>3, <3>4, <3>5, <4>1
      <4>2. CASE d = c
        <5>1. queue'[c] = Tail(queue[c])
          BY <3>3
        <5>2. i + 1 \in 1..Len(queue[c]) /\ queue'[d][i] = queue[c][i + 1]
          BY <3>2, <3>5, <4>2, <5>1
        <5>3. QED
          BY <3>4, <3>5, <4>2, <5>2
      <4>3. QED
        BY <4>1, <4>2
    <3>6. QED
      BY <3>4, <3>5
  <2>2. CASE ~WriteDone(c)
    <3>1. UNCHANGED <<queue, conn, sess, wpc, wch>>
      BY <1>6, <2>2 DEF Network, Expire, ReadFailed, WriteFailed, ReadStart, Receive, ReadBody,
        ReadHead, ReadHeadBody, ReadHeadTooLong, WriteIdle, vars, workerVars, chanVars
    <3>2. QED
      BY <3>1
  <2>3. QED
    BY <2>1, <2>2
<1>7. ASSUME NEW t \in App, AppCall(t) \/ AppIn(t)
      PROVE  QueueOrigin'
  <2>1. UNCHANGED <<conn, sess, wpc, wch>>
    BY <1>7 DEF AppIn, AppCall, AppFlagSend, AppFlagStatus, AppLook, AppFill, AppPush,
      workerVars, chanVars
  <2>2. CASE AppPush(t)
    <3>1. PICK c \in Chan : queue' = [queue EXCEPT ![c] = Push(c, Head(amsg[t]))]
      BY <2>2 DEF AppPush, ChanOf, Chan
    <3>2. PICK m \in Message : m = Head(amsg[t]) /\ m.kind = "app"
      BY <2>2 DEF AppPush, MessageReady, TypeOK
    <3>3. queue' = [queue EXCEPT ![c] = Push(c, m)] /\ queue[c] \in Seq(Message)
      BY <3>1, <3>2 DEF TypeOK
    <3>4. ASSUME NEW d \in Chan, conn'[d] # "null", NEW i \in 1..Len(queue'[d]),
                 queue'[d][i].kind = "hb"
          PROVE  i \in 1..Len(queue[d]) /\ queue'[d][i] = queue[d][i]
      <4>1. CASE d # c
        BY <3>1, <3>3, <3>4, <4>1 DEF TypeOK
      <4>2. CASE d = c
        <5>1. queue'[c] = Push(c, m)
          BY <3>1, <3>3 DEF TypeOK
        <5>2. queue'[c][i] = m \/ (i \in 1..Len(queue[c]) /\ queue'[c][i] = queue[c][i])
          BY <3>3, <3>4, <4>2, <5>1, PushProperties
        <5>3. QED
          BY <3>2, <3>4, <4>2, <5>2
      <4>3. QED
        BY <4>1, <4>2
    <3>5. QED
      BY <2>1, <3>4
  <2>3. CASE ~AppPush(t)
    <3>1. UNCHANGED queue
      BY <1>7, <2>3 DEF AppIn, AppCall, AppFlagSend, AppFlagStatus, AppLook, AppFill, chanVars
    <3>2. QED
      BY <2>1, <3>1
  <2>4. QED
    BY <2>2, <2>3
<1>8. CASE UNCHANGED vars
  BY <1>8 DEF vars, workerVars, chanVars
<1>9. QED
  BY <1>1, <1>2, <1>3, <1>4, <1>5, <1>6, <1>7, <1>8, NextCases
\* The route: it changes only while both error flags are set.
LEMMA RouteInUseStep ==
  ASSUME TypeOK, Lifecycle, Connections, RouteInUse, [Next]_vars
  PROVE  RouteInUse'
<1> USE DEF RouteInUse, WorkerAt, TypeOK, Chan
<1>1. CASE XConnect
  BY <1>1 DEF XConnect, Lifecycle
<1>2. CASE XDisconnect \/ WorkerJoined \/ XDelete
  BY <1>2 DEF XDisconnect, WorkerJoined, XDelete, workerVars, chanVars
<1>3. CASE FreeSignaling \/ FreeStream
  <2>1. PICK c \in Chan : Disconnect(c)
    BY <1>3 DEF FreeSignaling, FreeStream, FreeChannel
  <2>2. wpc = "none" /\ UNCHANGED workerVars
    BY <1>3 DEF FreeSignaling, FreeStream, FreeChannel, Lifecycle
  <2>3. QED
    BY <2>1, <2>2 DEF Disconnect, Release, workerVars
<1>4. CASE WorkerLoop \/ WorkerSleep
  BY <1>4 DEF WorkerLoop, WorkerSleep, WorkerGoes, chanVars
<1>5. CASE WorkerRedirect
  BY <1>5 DEF WorkerRedirect, WorkerGoes, chanVars, Connections, Connecting
<1>6. ASSUME NEW c \in Chan, WorkerOn(c)
      PROVE  RouteInUse'
  <2> USE DEF WorkerGoes, WorkerDone
  <2>1. CASE WorkerBoth(c)
    BY <2>1 DEF WorkerBoth, IsConnectError, Failing
  <2>2. CASE WorkerCheck(c)
    BY <2>2 DEF WorkerCheck, IsConnectError, Failing
  <2>3. CASE WorkerDisconnect(c)
    BY <2>3 DEF WorkerDisconnect, Disconnect, Release
  <2>4. CASE LinkOk(c) \/ LinkFail(c)
    <3>1. err[c]
      BY <2>4 DEF LinkOk, LinkFail, Link, Connections, Connecting
    <3>2. QED
      BY <2>4, <3>1 DEF LinkOk, LinkFail, Link, Connections, Connecting
  <2>5. CASE SessionOk(c) \/ WorkerTick(c) \/ WorkerBeat(c)
    BY <2>5 DEF SessionOk, WorkerTick, WorkerBeat
  <2>6. CASE LoginOk(c)
    BY <2>6 DEF LoginOk, Connections, Connecting
  <2>7. CASE ExchangeFail(c)
    BY <2>7 DEF ExchangeFail, Release
  <2>8. CASE WorkerRegister(c)
    BY <2>8 DEF WorkerRegister
  <2>9. QED
    BY <1>6, <2>1, <2>2, <2>3, <2>4, <2>5, <2>6, <2>7, <2>8 DEF WorkerOn
<1>7. ASSUME NEW c \in Chan, Network(c) \/ Expire(c)
      PROVE  RouteInUse'
  <2>1. CASE ReadFailed(c)
    BY <2>1 DEF ReadFailed, workerVars
  <2>2. CASE WriteFailed(c)
    BY <2>2 DEF WriteFailed, workerVars
  <2>3. CASE ReadStart(c) \/ ReadHeadTooLong(c) \/ WriteDone(c) \/ Expire(c)
    BY <2>3 DEF ReadStart, ReadHeadTooLong, WriteDone, Expire, workerVars
  <2>4. CASE Receive(c)
    BY <2>4 DEF Receive, ReadBody, ReadHead, workerVars
  <2>5. CASE \E cmd \in CmdsOf(c) : ReadHeadBody(c, cmd)
    BY <2>5 DEF ReadHeadBody, workerVars
  <2>6. CASE WriteIdle(c)
    BY <2>6 DEF WriteIdle, vars, workerVars, chanVars
  <2>7. QED
    BY <1>7, <2>1, <2>2, <2>3, <2>4, <2>5, <2>6 DEF Network
<1>8. ASSUME NEW t \in App, AppCall(t) \/ AppIn(t)
      PROVE  RouteInUse'
  <2>1. CASE AppFlagSend(t) \/ AppFlagStatus(t)
    BY <2>1 DEF AppFlagSend, AppFlagStatus, IsConnectError, Failing, workerVars
  <2>2. CASE AppCall(t) \/ AppLook(t) \/ AppFill(t) \/ AppPush(t)
    BY <2>2 DEF AppCall, AppLook, AppFill, AppPush, workerVars, chanVars
  <2>3. QED
    BY <1>8, <2>1, <2>2 DEF AppIn
<1>9. CASE UNCHANGED vars
  BY <1>9 DEF vars, workerVars, chanVars
<1>10. QED
  BY <1>1, <1>2, <1>3, <1>4, <1>5, <1>6, <1>7, <1>8, <1>9, NextCases

\* The permission to send is withdrawn before a new stream exists.
LEMMA SendOnlyIfOpenedStep ==
  ASSUME TypeOK, Connections, SendOnlyIfOpened, [Next]_vars
  PROVE  SendOnlyIfOpened'
<1> USE DEF SendOnlyIfOpened, TypeOK, Chan
<1>1. CASE XConnect \/ XDisconnect \/ WorkerJoined \/ XDelete
  BY <1>1 DEF XConnect, XDisconnect, WorkerJoined, XDelete, chanVars
<1>2. CASE FreeSignaling \/ FreeStream
  BY <1>2 DEF FreeSignaling, FreeStream, FreeChannel, Disconnect, Release
<1>3. CASE WorkerLoop \/ WorkerRedirect \/ WorkerSleep
  BY <1>3 DEF WorkerLoop, WorkerRedirect, WorkerSleep, chanVars
<1>4. ASSUME NEW c \in Chan, WorkerOn(c)
      PROVE  SendOnlyIfOpened'
  <2>1. CASE WorkerBoth(c) \/ WorkerCheck(c)
    BY <2>1 DEF WorkerBoth, WorkerCheck, IsConnectError
  <2>2. CASE WorkerDisconnect(c) \/ ExchangeFail(c)
    BY <2>2 DEF WorkerDisconnect, ExchangeFail, Disconnect, Release
  <2>3. CASE LinkOk(c) \/ LinkFail(c)
    BY <2>3 DEF LinkOk, LinkFail, Link
  <2>4. CASE SessionOk(c) \/ LoginOk(c) \/ WorkerTick(c) \/ WorkerBeat(c)
    BY <2>4 DEF SessionOk, LoginOk, WorkerTick, WorkerBeat
  <2>5. CASE WorkerRegister(c)
    BY <2>5 DEF WorkerRegister, Connections, Connecting, WorkerAt
  <2>6. QED
    BY <1>4, <2>1, <2>2, <2>3, <2>4, <2>5 DEF WorkerOn
<1>5. ASSUME NEW c \in Chan, Network(c) \/ Expire(c)
      PROVE  SendOnlyIfOpened'
  <2>1. CASE Receive(c)
    BY <2>1 DEF Receive, ReadBody, ReadHead, DoMsg
  <2>2. CASE ~Receive(c)
    BY <1>5, <2>2 DEF Network, Expire, ReadFailed, WriteFailed, ReadStart, ReadHeadBody,
      ReadHeadTooLong, WriteDone, WriteIdle, vars, chanVars
  <2>3. QED
    BY <2>1, <2>2
<1>6. ASSUME NEW t \in App, AppCall(t) \/ AppIn(t)
      PROVE  SendOnlyIfOpened'
  <2>1. CASE AppFlagSend(t) \/ AppFlagStatus(t)
    BY <2>1 DEF AppFlagSend, AppFlagStatus, IsConnectError
  <2>2. CASE AppCall(t) \/ AppLook(t) \/ AppFill(t) \/ AppPush(t)
    BY <2>2 DEF AppCall, AppLook, AppFill, AppPush, chanVars
  <2>3. QED
    BY <1>6, <2>1, <2>2 DEF AppIn
<1>7. CASE UNCHANGED vars
  BY <1>7 DEF vars, chanVars
<1>8. QED
  BY <1>1, <1>2, <1>3, <1>4, <1>5, <1>6, <1>7, NextCases

\* The worker goes to its heartbeat from a test that found no error, and it
\* alone ends a connection.
LEMMA BeatConnectedStep ==
  ASSUME TypeOK, Lifecycle, Connections, BeatConnected, [Next]_vars
  PROVE  BeatConnected'
<1> USE DEF BeatConnected, TypeOK, WorkerAt
<1>1. CASE XConnect \/ XDisconnect \/ WorkerJoined \/ XDelete
  BY <1>1 DEF XConnect, XDisconnect, WorkerJoined, XDelete, workerVars, chanVars
<1>2. CASE FreeSignaling \/ FreeStream
  <2>1. wpc = "none" /\ wpc' = wpc
    BY <1>2 DEF FreeSignaling, FreeStream, FreeChannel, Lifecycle, workerVars
  <2>2. QED
    BY <2>1
<1>3. CASE WorkerLoop \/ WorkerRedirect \/ WorkerSleep
  BY <1>3 DEF WorkerLoop, WorkerRedirect, WorkerSleep, WorkerGoes
<1>4. ASSUME NEW c \in Chan, WorkerOn(c)
      PROVE  BeatConnected'
  <2>1. CASE WorkerCheck(c)
    <3>1. CASE Failing(c, silent[c])
      BY <2>1, <3>1 DEF WorkerCheck, WorkerGoes
    <3>2. CASE ~Failing(c, silent[c])
      <4>1. ~err[c]
        BY <3>2 DEF Failing
      <4>2. conn[c] = "live"
        BY <2>1, <4>1 DEF Connections, WorkerCheck
      <4>3. QED
        BY <2>1, <4>2 DEF WorkerCheck, WorkerGoes
    <3>3. QED
      BY <3>1, <3>2
  <2>2. CASE ~WorkerCheck(c)
    <3>1. wpc' # "beat"
      BY <1>4, <2>2 DEF WorkerOn, WorkerBoth, WorkerDisconnect, LinkOk, LinkFail, SessionOk,
        LoginOk, ExchangeFail, WorkerRegister, WorkerTick, WorkerBeat, WorkerGoes, WorkerDone
    <3>2. QED
      BY <3>1
  <2>3. QED
    BY <2>1, <2>2
<1>5. ASSUME NEW c \in Chan, Network(c) \/ Expire(c)
      PROVE  BeatConnected'
  BY <1>5 DEF Network, Expire, ReadFailed, WriteFailed, ReadStart, Receive, ReadBody, ReadHead,
    ReadHeadBody, ReadHeadTooLong, WriteDone, WriteIdle, vars, workerVars, chanVars
<1>6. ASSUME NEW t \in App, AppCall(t) \/ AppIn(t)
      PROVE  BeatConnected'
  BY <1>6 DEF AppIn, AppCall, AppFlagSend, AppFlagStatus, AppLook, AppFill, AppPush,
    workerVars, chanVars
<1>7. CASE UNCHANGED vars
  BY <1>7 DEF vars, workerVars, chanVars
<1>8. QED
  BY <1>1, <1>2, <1>3, <1>4, <1>5, <1>6, <1>7, NextCases

-----------------------------------------------------------------------------
\* The inductive invariant.
IInv == TypeOK /\ MessageReady /\ Lifecycle /\ Connections /\ PumpsRun
        /\ QueueOrigin /\ BeatConnected /\ RouteInUse /\ SendOnlyIfOpened

\* A fresh object satisfies the invariant.
LEMMA InitIInv == Init => IInv
<1> SUFFICES ASSUME Init PROVE IInv
  OBVIOUS
<1>1. TypeOK
  BY InitTypeOK
<1>2. Lifecycle /\ Connections /\ PumpsRun
  BY DEF Init, Lifecycle, Connections, Connecting, PumpsRun, Chan, WorkerAt
<1>3. MessageReady /\ QueueOrigin /\ BeatConnected /\ SendOnlyIfOpened
  BY DEF Init, MessageReady, QueueOrigin, BeatConnected, SendOnlyIfOpened, Chan
<1>4. RouteInUse
  BY DEF Init, RouteInUse, WorkerAt, Chan
<1>5. QED
  BY <1>1, <1>2, <1>3, <1>4 DEF IInv

\* Every step preserves the invariant.
LEMMA NextIInv == IInv /\ [Next]_vars => IInv'
<1> SUFFICES ASSUME IInv, [Next]_vars PROVE IInv'
  OBVIOUS
<1> USE DEF IInv
<1>1. TypeOK'
  BY OwnerTypeOK, WorkerTypeOK, NetworkTypeOK, AppTypeOK, NextCases
<1>2. MessageReady' /\ Lifecycle' /\ Connections'
  BY MessageReadyStep, LifecycleStep, ConnectionsStep
<1>3. PumpsRun' /\ QueueOrigin' /\ BeatConnected' /\ RouteInUse' /\ SendOnlyIfOpened'
  BY PumpsStep, QueueOriginStep, BeatConnectedStep, RouteInUseStep, SendOnlyIfOpenedStep
<1>4. QED
  BY <1>1, <1>2, <1>3

\* The invariant holds in every behaviour of the device library.
THEOREM IInvAlways == Spec => []IInv
  BY InitIInv, NextIInv, PTL DEF Spec

\* Every variable keeps its type.
THEOREM TypeCorrect == Spec => []TypeOK
<1>1. IInv => TypeOK
  BY DEF IInv
<1>2. QED
  BY <1>1, IInvAlways, PTL

\* XDisconnect never frees a channel the worker or a stream still uses.
THEOREM NoUseAfterDeleteAlways == Spec => []NoUseAfterDelete
<1>1. IInv => NoUseAfterDelete
  BY DEF IInv, Lifecycle, NoUseAfterDelete, TypeOK, Chan
<1>2. QED
  BY <1>1, IInvAlways, PTL

\* A registered channel without error keeps sending: its write pump runs.
THEOREM PumpsRunAlways == Spec => []PumpsRun
<1>1. IInv => PumpsRun
  BY DEF IInv
<1>2. QED
  BY <1>1, IInvAlways, PTL

\* A clear error flag means a completed login on a stream still held.
THEOREM NoErrorMeansConnectedAlways == Spec => []NoErrorMeansConnected
<1>1. IInv => NoErrorMeansConnected
  BY DEF IInv, Connections, NoErrorMeansConnected
<1>2. QED
  BY <1>1, IInvAlways, PTL

\* A heartbeat never leaves on a connection other than the one it was made for.
THEOREM HeartbeatsAreCurrentAlways == Spec => []HeartbeatsAreCurrent
<1>1. IInv => HeartbeatsAreCurrent
  BY DEF IInv, QueueOrigin, HeartbeatsAreCurrent
<1>2. QED
  BY <1>1, IInvAlways, PTL

\* A device sends frames only on a connection whose server opened the stream.
THEOREM SendOnlyIfOpenedAlways == Spec => []SendOnlyIfOpened
<1>1. IInv => SendOnlyIfOpened
  BY DEF IInv
<1>2. QED
  BY <1>1, IInvAlways, PTL

\* Two healthy channels of a device always talk to the same server.
THEOREM SameServerAlways == Spec => []SameServer
<1>1. IInv => SameServer
  BY DEF IInv, RouteInUse, SameServer, Chan
<1>2. QED
  BY <1>1, IInvAlways, PTL

-----------------------------------------------------------------------------
(***************************************************************************)
(* The frames that wait in the stream channel, for any limit: a thread     *)
(* counts against the bound from its test of the length to its push, and   *)
(* its frame from then on.                                                 *)
(***************************************************************************)

\* Only XSendMessage and XSendStream fill in and push a message.
CallPlaces ==
  \A t \in App :
    /\ apc[t] = "look" => aop[t] = "av"
    /\ apc[t] \in {"fill", "push"} => aop[t] \in {"msg", "av"}

CInv == IInv /\ CallPlaces /\ BoundedFrames

-----------------------------------------------------------------------------
(* The application's threads *)

\* Nobody else changes where they are.
LEMMA AppOnly ==
  ASSUME [Next]_vars
  PROVE  (\E t \in App : AppCall(t) \/ AppIn(t)) \/ UNCHANGED appVars
<1>1. CASE XConnect \/ XDisconnect \/ WorkerJoined \/ FreeSignaling \/ FreeStream \/ XDelete
  BY <1>1 DEF XConnect, XDisconnect, WorkerJoined, FreeSignaling, FreeStream, FreeChannel, XDelete
<1>2. CASE WorkerLoop \/ WorkerRedirect \/ WorkerSleep
  BY <1>2 DEF WorkerLoop, WorkerRedirect, WorkerSleep
<1>3. ASSUME NEW c \in Chan, WorkerOn(c)
      PROVE  UNCHANGED appVars
  BY <1>3 DEF WorkerOn, WorkerBoth, WorkerCheck, WorkerDisconnect, LinkOk, LinkFail, Link,
              SessionOk, LoginOk, ExchangeFail, WorkerRegister, WorkerTick, WorkerBeat
<1>4. ASSUME NEW c \in Chan, Network(c) \/ Expire(c)
      PROVE  UNCHANGED appVars
  BY <1>4 DEF Network, Expire, ReadFailed, WriteFailed, ReadStart, Receive, ReadBody, ReadHead,
              ReadHeadBody, ReadHeadTooLong, WriteDone, WriteIdle, vars
<1>5. QED
  BY <1>1, <1>2, <1>3, <1>4, NextCases DEF vars

LEMMA CallPlacesStep ==
  ASSUME TypeOK, CallPlaces, [Next]_vars
  PROVE  CallPlaces'
<1> USE DEF CallPlaces, TypeOK
<1>1. ASSUME NEW t \in App, AppCall(t) \/ AppIn(t)
      PROVE  CallPlaces'
  <2>1. CASE AppCall(t)
    BY <2>1 DEF AppCall, Compare
  <2>2. CASE AppFlagSend(t)
    <3>1. CASE Return(t)
      BY <3>1 DEF Return
    <3>2. CASE ~Return(t)
      BY <2>2, <3>2 DEF AppFlagSend
    <3>3. QED
      BY <3>1, <3>2
  <2>3. CASE AppFlagStatus(t)
    <3>1. Return(t) \/ \E op : Compare(t, op)
      BY <2>3 DEF AppFlagStatus
    <3>2. QED
      BY <3>1 DEF Return, Compare
  <2>4. CASE AppLook(t) \/ AppFill(t) \/ AppPush(t)
    BY <2>4 DEF AppLook, AppFill, AppPush, Return
  <2>5. QED
    BY <1>1, <2>1, <2>2, <2>3, <2>4 DEF AppIn
<1>2. CASE UNCHANGED appVars
  BY <1>2 DEF appVars
<1>3. QED
  BY <1>1, <1>2, AppOnly

\* A thread joins the pushers only by its test of the length, and with the test
\* passed; a push takes its thread out.
LEMMA PusherCases ==
  ASSUME TypeOK, CallPlaces, [Next]_vars
  PROVE  \/ Pushers' \subseteq Pushers
         \/ Sendable /\ UNCHANGED queue
<1> USE DEF Pushers, TypeOK
<1>1. ASSUME NEW t \in App, AppCall(t) \/ AppIn(t)
      PROVE  Pushers' \subseteq Pushers \/ (Sendable /\ UNCHANGED queue)
  <2>1. CASE AppCall(t)
    BY <2>1 DEF AppCall, Compare
  <2>2. CASE AppFlagSend(t)
    <3>1. CASE Return(t)
      BY <3>1 DEF Return
    <3>2. CASE ~Return(t)
      BY <2>2, <3>2 DEF AppFlagSend
    <3>3. QED
      BY <3>1, <3>2
  <2>3. CASE AppFlagStatus(t)
    <3>1. Return(t) \/ \E op : Compare(t, op)
      BY <2>3 DEF AppFlagStatus
    <3>2. QED
      BY <3>1 DEF Return, Compare
  <2>4. CASE AppLook(t)
    BY <2>4 DEF AppLook, Return, chanVars
  <2>5. CASE AppFill(t) \/ AppPush(t)
    BY <2>5 DEF AppFill, AppPush, Return
  <2>6. QED
    BY <1>1, <2>1, <2>2, <2>3, <2>4, <2>5 DEF AppIn
<1>2. CASE UNCHANGED appVars
  BY <1>2 DEF appVars
<1>3. QED
  BY <1>1, <1>2, AppOnly

\* What a step does to the list of the stream channel.
LEMMA StreamQueueCases ==
  ASSUME TypeOK, [Next]_vars
  PROVE  \/ queue'["str"] = queue["str"]
         \/ queue'["str"] = <<>>
         \/ queue["str"] # <<>> /\ queue'["str"] = Tail(queue["str"])
         \/ queue'["str"] = Push("str", [kind |-> "hb", sess |-> sess["str"]])
         \/ \E t \in App : AppPush(t)
<1> USE DEF TypeOK, Chan
<1>1. CASE XConnect \/ XDisconnect \/ WorkerJoined \/ XDelete
  BY <1>1 DEF XConnect, XDisconnect, WorkerJoined, XDelete, chanVars
<1>2. CASE FreeSignaling \/ FreeStream
  BY <1>2 DEF FreeSignaling, FreeStream, FreeChannel, Disconnect, ClearSendBufferList
<1>3. CASE WorkerLoop \/ WorkerRedirect \/ WorkerSleep
  BY <1>3 DEF WorkerLoop, WorkerRedirect, WorkerSleep, chanVars
<1>4. ASSUME NEW c \in Chan, WorkerOn(c)
      PROVE  \/ queue'["str"] = queue["str"]
             \/ queue'["str"] = <<>>
             \/ queue'["str"] = Push("str", [kind |-> "hb", sess |-> sess["str"]])
  <2>1. CASE WorkerBoth(c) \/ WorkerCheck(c)
    BY <2>1 DEF WorkerBoth, WorkerCheck
  <2>2. CASE WorkerDisconnect(c)
    BY <2>2 DEF WorkerDisconnect, Disconnect, ClearSendBufferList
  <2>3. CASE LinkOk(c) \/ LinkFail(c)
    BY <2>3 DEF LinkOk, LinkFail, Link, ClearSendBufferList
  <2>4. CASE SessionOk(c) \/ LoginOk(c) \/ ExchangeFail(c) \/ WorkerRegister(c) \/ WorkerTick(c)
    BY <2>4 DEF SessionOk, LoginOk, ExchangeFail, WorkerRegister, WorkerTick
  <2>5. CASE WorkerBeat(c)
    BY <2>5 DEF WorkerBeat
  <2>6. QED
    BY <1>4, <2>1, <2>2, <2>3, <2>4, <2>5 DEF WorkerOn
<1>5. ASSUME NEW c \in Chan, Network(c) \/ Expire(c)
      PROVE  \/ queue'["str"] = queue["str"]
             \/ queue["str"] # <<>> /\ queue'["str"] = Tail(queue["str"])
  <2>1. CASE WriteDone(c)
    BY <2>1 DEF WriteDone
  <2>2. CASE ~WriteDone(c)
    BY <1>5, <2>2 DEF Network, Expire, ReadFailed, WriteFailed, ReadStart, Receive, ReadBody, ReadHead,
                      ReadHeadBody, ReadHeadTooLong, WriteIdle, vars, chanVars
  <2>3. QED
    BY <2>1, <2>2
<1>6. ASSUME NEW t \in App, AppCall(t) \/ AppIn(t), ~AppPush(t)
      PROVE  queue' = queue
  BY <1>6 DEF AppCall, AppIn, AppFlagSend, AppFlagStatus, AppLook, AppFill, chanVars
<1>7. CASE UNCHANGED vars
  BY <1>7 DEF vars, chanVars
<1>8. QED
  BY <1>1, <1>2, <1>3, <1>4, <1>5, <1>6, <1>7, NextCases

-----------------------------------------------------------------------------
(* Counting *)

LEMMA Finite ==
  ASSUME TypeOK
  PROVE  /\ IsFiniteSet(Frames) /\ Cardinality(Frames) \in Nat
         /\ Cardinality(Frames) <= Len(queue["str"])
         /\ IsFiniteSet(Pushers) /\ Cardinality(Pushers) \in Nat
         /\ Cardinality(Pushers) <= Cardinality(App) /\ Cardinality(App) \in Nat
<1>1. Len(queue["str"]) \in Nat
  BY DEF TypeOK, Chan
<1>2. IsFiniteSet(1..Len(queue["str"])) /\ Cardinality(1..Len(queue["str"])) = Len(queue["str"])
  BY <1>1, FS_Interval
<1>3. Frames \in SUBSET (1..Len(queue["str"]))
  BY DEF Frames
<1>4. Pushers \in SUBSET App
  BY DEF Pushers
<1>5. QED
  BY <1>2, <1>3, <1>4, FS_Subset, FS_CardinalityType, AppAssumption DEF AppAssumption

\* The same after a step.
LEMMA FiniteNext ==
  ASSUME TypeOK'
  PROVE  /\ IsFiniteSet(Frames') /\ Cardinality(Frames') \in Nat
         /\ IsFiniteSet(Pushers') /\ Cardinality(Pushers') \in Nat
         /\ Cardinality(Pushers') <= Cardinality(App)
<1>1. Len(queue'["str"]) \in Nat
  BY DEF TypeOK, Chan
<1>2. IsFiniteSet(1..Len(queue'["str"]))
  BY <1>1, FS_Interval
<1>3. Frames' \in SUBSET (1..Len(queue'["str"]))
  BY DEF Frames
<1>4. Pushers' \in SUBSET App
  BY DEF Pushers
<1>5. QED
  BY <1>2, <1>3, <1>4, FS_Subset, FS_CardinalityType, AppAssumption DEF AppAssumption

\* Frames are numbered anew when the first message has been sent; each is one of before.
LEMMA TailFrames ==
  ASSUME TypeOK, queue["str"] # <<>>, queue'["str"] = Tail(queue["str"])
  PROVE  Cardinality(Frames') <= Cardinality(Frames)
<1> DEFINE q == queue["str"]
           f == [i \in Frames' |-> i + 1]
<1>1. q \in Seq(Message) /\ q # <<>>
  BY DEF TypeOK, Chan
<1>2. Len(Tail(q)) = Len(q) - 1 /\ \A i \in 1..Len(Tail(q)) : Tail(q)[i] = q[i + 1]
  BY <1>1
<1>3. \A i \in Frames' : i \in Nat /\ i + 1 \in Frames
  BY <1>1, <1>2 DEF Frames
<1>4. f \in [Frames' -> Frames]
  BY <1>3
<1>5. \A i, j \in Frames' : f[i] = f[j] => i = j
  BY <1>3
<1>6. f \in Injection(Frames', Frames)
  BY <1>4, <1>5 DEF Injection, IsInjective
<1>7. IsFiniteSet(Frames)
  BY Finite
<1>8. QED
  BY <1>6, <1>7, FS_Injection

\* A heartbeat is no frame; a message of the application adds one frame at most.
LEMMA PushedFrames ==
  ASSUME TypeOK, NEW m \in Message, queue'["str"] = Push("str", m)
  PROVE  /\ Cardinality(Frames') <= Cardinality(Frames) + 1
         /\ m.kind = "hb" => Cardinality(Frames') <= Cardinality(Frames)
<1> DEFINE q == queue["str"]
<1>1. q \in Seq(Message)
  BY DEF TypeOK, Chan
<1>2. CASE queue'["str"] = q
  <2>1. Frames' = Frames
    BY <1>2 DEF Frames
  <2>2. QED
    BY <2>1, Finite
<1>3. CASE queue'["str"] = Append(q, m)
  <2>1. /\ Len(queue'["str"]) = Len(q) + 1 /\ Len(q) \in Nat
        /\ queue'["str"][Len(q) + 1] = m
        /\ \A i \in 1..Len(q) : queue'["str"][i] = q[i]
    BY <1>1, <1>3
  <2>2. Frames' \subseteq Frames \cup {Len(q) + 1}
    BY <2>1 DEF Frames
  <2>3. m.kind = "hb" => Frames' \subseteq Frames
    BY <2>1 DEF Frames
  <2>4. /\ IsFiniteSet(Frames \cup {Len(q) + 1})
        /\ Cardinality(Frames \cup {Len(q) + 1}) <= Cardinality(Frames) + 1
    BY Finite, FS_AddElement
  <2>5. Cardinality(Frames') \in Nat /\ Cardinality(Frames \cup {Len(q) + 1}) \in Nat
    BY <2>2, <2>4, FS_Subset, FS_CardinalityType
  <2>6. QED
    BY <2>2, <2>3, <2>4, <2>5, Finite, FS_Subset
<1>4. QED
  BY <1>2, <1>3 DEF Push

LEMMA BoundedFramesStep ==
  ASSUME IInv, CallPlaces, BoundedFrames, [Next]_vars
  PROVE  BoundedFrames'
<1>0. TypeOK /\ TypeOK'
  BY NextIInv DEF IInv
<1> DEFINE frames == Cardinality(Frames)
           pushers == Cardinality(Pushers)
<1>1. /\ frames \in Nat /\ pushers \in Nat
      /\ frames + pushers <= SendLimit + Cardinality(App)
      /\ Cardinality(Frames') \in Nat /\ Cardinality(Pushers') \in Nat
      /\ Cardinality(Pushers') <= Cardinality(App) /\ Cardinality(App) \in Nat
  <2>1. frames \in Nat /\ pushers \in Nat /\ Cardinality(App) \in Nat
    BY <1>0, Finite
  <2>2. /\ Cardinality(Frames') \in Nat /\ Cardinality(Pushers') \in Nat
        /\ Cardinality(Pushers') <= Cardinality(App)
    <3>1. /\ TypeOK' => /\ Cardinality(Frames') \in Nat /\ Cardinality(Pushers') \in Nat
                       /\ Cardinality(Pushers') <= Cardinality(App)
      BY FiniteNext
    <3>2. QED
      BY <1>0, <3>1
  <2>3. QED
    BY <2>1, <2>2 DEF BoundedFrames
<1> HIDE DEF frames, pushers
<1>2. CASE Sendable /\ UNCHANGED queue
  <2>1. Frames' = Frames
    BY <1>2 DEF Frames
  <2>2. frames <= SendLimit
    BY <1>0, <1>2, Finite, ConstAssumption DEF frames, Sendable, ConstAssumption, TypeOK, Chan
  <2>3. QED
    BY <1>1, <2>1, <2>2, ConstAssumption DEF BoundedFrames, frames, ConstAssumption
<1>3. CASE Pushers' \subseteq Pushers
  <2>1. Cardinality(Pushers') <= pushers
    BY <1>0, <1>3, Finite, FS_Subset DEF pushers
  <2>2. ASSUME Cardinality(Frames') <= frames
        PROVE  BoundedFrames'
    BY <1>1, <2>1, <2>2, ConstAssumption DEF BoundedFrames, ConstAssumption
  <2>3. CASE queue'["str"] = queue["str"]
    <3>1. Frames' = Frames
      BY <2>3 DEF Frames
    <3>2. QED
      BY <1>1, <2>2, <3>1 DEF frames
  <2>4. CASE queue'["str"] = <<>>
    <3>1. Frames' = {}
      BY <2>4 DEF Frames
    <3>2. QED
      BY <1>1, <2>2, <3>1, FS_EmptySet
  <2>5. CASE queue["str"] # <<>> /\ queue'["str"] = Tail(queue["str"])
    BY <1>0, <2>2, <2>5, TailFrames DEF frames
  <2>6. CASE queue'["str"] = Push("str", [kind |-> "hb", sess |-> sess["str"]])
    <3>1. [kind |-> "hb", sess |-> sess["str"]] \in Message
      BY <1>0 DEF TypeOK, Message, Kinds, Chan
    <3>2. Cardinality(Frames') <= frames
      BY <1>0, <2>6, <3>1, PushedFrames DEF frames
    <3>3. QED
      BY <2>2, <3>2
  <2>7. ASSUME NEW t \in App, AppPush(t)
        PROVE  BoundedFrames'
    <3>1. CASE aop[t] = "msg"
      <4>1. queue'["str"] = queue["str"]
        BY <1>0, <2>7, <3>1 DEF AppPush, ChanOf, TypeOK, Chan
      <4>2. QED
        BY <2>3, <4>1
    <3>2. CASE aop[t] = "av"
      <4>1. Head(amsg[t]) \in Message /\ queue'["str"] = Push("str", Head(amsg[t]))
        BY <1>0, <2>7, <3>2 DEF AppPush, ChanOf, TypeOK, Chan, IInv, MessageReady
      <4>2. Cardinality(Frames') <= frames + 1
        BY <1>0, <4>1, PushedFrames DEF frames
      <4>3. t \in Pushers /\ t \notin Pushers'
        BY <1>0, <2>7, <3>2 DEF AppPush, Return, Pushers, TypeOK
      <4>4. Cardinality(Pushers') <= pushers - 1
        <5>1. IsFiniteSet(Pushers \ {t}) /\ Cardinality(Pushers \ {t}) = pushers - 1
          BY <1>0, <4>3, Finite, FS_RemoveElement DEF pushers
        <5>2. Pushers' \in SUBSET (Pushers \ {t})
          BY <1>3, <4>3
        <5>3. QED
          BY <5>1, <5>2, FS_Subset
      <4>5. QED
        BY <1>1, <4>2, <4>4, ConstAssumption DEF BoundedFrames, ConstAssumption
    <3>3. QED
      BY <2>7, <3>1, <3>2 DEF CallPlaces, AppPush
  <2>8. QED
    BY <1>0, <2>3, <2>4, <2>5, <2>6, <2>7, StreamQueueCases
<1>4. QED
  BY <1>0, <1>2, <1>3, PusherCases

-----------------------------------------------------------------------------

LEMMA InitCInv == Init => CInv
<1> SUFFICES ASSUME Init PROVE CInv
  OBVIOUS
<1>1. IInv
  BY InitIInv
<1>2. CallPlaces
  BY DEF Init, CallPlaces
<1>3. Frames = {}
  BY DEF Init, Frames, Chan
<1>4. Pushers = {}
  BY DEF Init, Pushers
<1>5. Cardinality(App) \in Nat
  BY FS_CardinalityType, AppAssumption DEF AppAssumption
<1>6. BoundedFrames
  BY <1>3, <1>4, <1>5, FS_EmptySet, ConstAssumption DEF BoundedFrames, ConstAssumption
<1>7. QED
  BY <1>1, <1>2, <1>6 DEF CInv

LEMMA NextCInv == CInv /\ [Next]_vars => CInv'
  BY NextIInv, CallPlacesStep, BoundedFramesStep DEF CInv, IInv

\* AddSendStream tests the length of m_dataSendList without its lock: the list
\* grows past the limit by one frame of each thread at most.
THEOREM FramesAlwaysBounded == Spec => []BoundedFrames
<1>1. CInv => BoundedFrames
  BY DEF CInv
<1>2. QED
  BY <1>1, InitCInv, NextCInv, PTL DEF Spec

-----------------------------------------------------------------------------
(***************************************************************************)
(* Both channels implement Channel. What a step does to one channel is     *)
(* said once, for either; the two instances only rename it.                *)
(***************************************************************************)

KeepsUp(c) == Live(c)' <=> Live(c)
KeepsSession(c) == sess'[c] = sess[c]
KeepsQueue(c) == queue'[c] = queue[c]

Stutters(c) == KeepsUp(c) /\ KeepsSession(c) /\ KeepsQueue(c)

Closes(c) == ~Live(c)' /\ queue'[c] = <<>> /\ KeepsSession(c)

Renews(c) == ~Live(c) /\ ~Live(c)' /\ sess'[c] \in Sessions /\ KeepsQueue(c)

Establishes(c) == ~Live(c) /\ Live(c)' /\ KeepsSession(c) /\ KeepsQueue(c)

Beats(c) ==
  /\ Live(c) /\ Live(c)' /\ KeepsSession(c)
  /\ queue'[c] = Append(queue[c], [kind |-> "hb", sess |-> sess[c]])

Pushes(c) ==
  /\ KeepsUp(c) /\ KeepsSession(c)
  /\ \E s \in Sessions : queue'[c] = Append(queue[c], [kind |-> "app", sess |-> s])

Sends(c) ==
  /\ KeepsUp(c) /\ KeepsSession(c)
  /\ queue[c] # <<>> /\ queue'[c] = Tail(queue[c])

ChannelMoves(c) ==
  Stutters(c) \/ Closes(c) \/ Renews(c) \/ Establishes(c) \/ Beats(c) \/ Pushes(c) \/ Sends(c)

\* A step that leaves a channel's stream, session number and queue alone.
LEMMA SameMoves ==
  ASSUME NEW d \in Chan, conn'[d] = conn[d], sess'[d] = sess[d], queue'[d] = queue[d]
  PROVE  ChannelMoves(d)
  BY DEF ChannelMoves, Stutters, KeepsUp, KeepsSession, KeepsQueue, Live

\* Disconnect closes the channel, or finds nothing to close.
LEMMA DisconnectMoves ==
  ASSUME TypeOK, NEW c \in Chan, Disconnect(c), NEW d \in Chan
  PROVE  ChannelMoves(d)
<1> USE DEF TypeOK
<1>1. UNCHANGED sess
  BY DEF Disconnect
<1>2. CASE d = c /\ conn[c] # "null"
  <2>1. queue'[d] = <<>> /\ conn'[d] = "null"
    BY <1>2 DEF Disconnect, Release, ClearSendBufferList
  <2>2. Closes(d)
    BY <1>1, <2>1 DEF Closes, KeepsSession, Live
  <2>3. QED
    BY <2>2 DEF ChannelMoves
<1>3. CASE ~(d = c /\ conn[c] # "null")
  <2>1. conn'[d] = conn[d] /\ queue'[d] = queue[d]
    BY <1>3 DEF Disconnect, Release
  <2>2. QED
    BY <1>1, <2>1, SameMoves
<1>4. QED
  BY <1>2, <1>3

\* The worker's steps on channel c, seen on channel d.
LEMMA WorkerMoves ==
  ASSUME IInv, NEW c \in Chan, WorkerOn(c), NEW d \in Chan
  PROVE  ChannelMoves(d)
<1> USE DEF IInv, TypeOK
<1>1. CASE WorkerBoth(c) \/ WorkerCheck(c) \/ LoginOk(c) \/ WorkerTick(c)
  BY <1>1, SameMoves DEF WorkerBoth, WorkerCheck, LoginOk, WorkerTick
<1>2. CASE WorkerDisconnect(c)
  BY <1>2, DisconnectMoves DEF WorkerDisconnect
<1>3. CASE LinkOk(c) \/ LinkFail(c)
  <2>1. CASE d = c
    <3>1. queue'[d] = <<>> /\ UNCHANGED sess
      BY <1>3, <2>1 DEF LinkOk, LinkFail, Link, ClearSendBufferList
    <3>2. conn'[d] # "live"
      BY <1>3, <2>1 DEF LinkOk, LinkFail, Link
    <3>3. Closes(d)
      BY <3>1, <3>2 DEF Closes, KeepsSession, Live
    <3>4. QED
      BY <3>3 DEF ChannelMoves
  <2>2. CASE d # c
    <3>1. queue'[d] = queue[d] /\ conn'[d] = conn[d] /\ sess'[d] = sess[d]
      BY <1>3, <2>2 DEF LinkOk, LinkFail, Link
    <3>2. QED
      BY <3>1, SameMoves
  <2>3. QED
    BY <2>1, <2>2
<1>4. CASE SessionOk(c)
  <2>1. UNCHANGED <<conn, queue>>
    BY <1>4 DEF SessionOk
  <2>2. CASE d = c
    <3>1. sess'[d] \in Sessions
      BY <1>4, <2>2 DEF SessionOk
    <3>2. conn[d] = "open"
      BY <1>4, <2>2 DEF SessionOk, Connections, Connecting, WorkerAt
    <3>3. Renews(d)
      BY <2>1, <3>1, <3>2 DEF Renews, KeepsQueue, Live
    <3>4. QED
      BY <3>3 DEF ChannelMoves
  <2>3. CASE d # c
    BY <1>4, <2>1, <2>3, SameMoves DEF SessionOk
  <2>4. QED
    BY <2>2, <2>3
<1>5. CASE ExchangeFail(c)
  <2>1. UNCHANGED <<sess, queue>>
    BY <1>5 DEF ExchangeFail
  <2>2. conn[c] = "open" /\ conn' = [conn EXCEPT ![c] = "null"]
    BY <1>5 DEF ExchangeFail, Release, Connections, Connecting, WorkerAt
  <2>3. Stutters(d)
    BY <2>1, <2>2 DEF Stutters, KeepsUp, KeepsSession, KeepsQueue, Live
  <2>4. QED
    BY <2>3 DEF ChannelMoves
<1>6. CASE WorkerRegister(c)
  <2>1. UNCHANGED <<sess, queue>>
    BY <1>6 DEF WorkerRegister
  <2>2. conn[c] = "open" /\ conn' = [conn EXCEPT ![c] = "live"]
    BY <1>6 DEF WorkerRegister, Connections, Connecting, WorkerAt
  <2>3. Establishes(d) \/ Stutters(d)
    BY <2>1, <2>2 DEF Establishes, Stutters, KeepsUp, KeepsSession, KeepsQueue, Live
  <2>4. QED
    BY <2>3 DEF ChannelMoves
<1>7. CASE WorkerBeat(c)
  <2>1. UNCHANGED <<conn, sess>> /\ conn[c] = "live"
    BY <1>7 DEF WorkerBeat, BeatConnected, WorkerAt
  <2>2. queue' = [queue EXCEPT ![c] = Push(c, [kind |-> "hb", sess |-> sess[c]])]
    BY <1>7 DEF WorkerBeat
  <2>3. Beats(d) \/ queue'[d] = queue[d]
    BY <2>1, <2>2 DEF Beats, KeepsSession, Live, Push
  <2>4. QED
    BY <2>1, <2>3, SameMoves DEF ChannelMoves
<1>8. QED
  BY <1>1, <1>2, <1>3, <1>4, <1>5, <1>6, <1>7 DEF WorkerOn

\* The callbacks on channel c, seen on channel d.
LEMMA NetworkMoves ==
  ASSUME IInv, NEW c \in Chan, Network(c) \/ Expire(c), NEW d \in Chan
  PROVE  ChannelMoves(d)
<1>1. UNCHANGED <<conn, sess>>
  BY DEF Network, Expire, ReadFailed, WriteFailed, ReadStart, Receive, ReadBody, ReadHead,
    ReadHeadBody, ReadHeadTooLong, WriteDone, WriteIdle, vars, chanVars
<1>2. CASE WriteDone(c)
  <2>1. Sends(d) \/ queue'[d] = queue[d]
    BY <1>1, <1>2 DEF WriteDone, Sends, KeepsUp, KeepsSession, Live, IInv, TypeOK
  <2>2. QED
    BY <1>1, <2>1, SameMoves DEF ChannelMoves
<1>3. CASE ~WriteDone(c)
  <2>1. UNCHANGED queue
    BY <1>3 DEF Network, Expire, ReadFailed, WriteFailed, ReadStart, Receive, ReadBody, ReadHead,
      ReadHeadBody, ReadHeadTooLong, WriteIdle, vars, chanVars
  <2>2. QED
    BY <1>1, <2>1, SameMoves
<1>4. QED
  BY <1>2, <1>3

\* The application's threads, seen on channel d: a push needs no connection.
LEMMA AppMoves ==
  ASSUME IInv, NEW t \in App, AppCall(t) \/ AppIn(t), NEW d \in Chan
  PROVE  ChannelMoves(d)
<1>1. UNCHANGED <<conn, sess>>
  BY DEF AppIn, AppCall, AppFlagSend, AppFlagStatus, AppLook, AppFill, AppPush, chanVars
<1>2. CASE AppPush(t)
  <2>1. PICK c \in Chan : queue' = [queue EXCEPT ![c] = Push(c, Head(amsg[t]))]
    BY <1>2 DEF AppPush, ChanOf, Chan
  <2>2. PICK m \in Message : m = Head(amsg[t]) /\ m.kind = "app"
    BY <1>2 DEF AppPush, IInv, MessageReady, TypeOK
  <2>3. m.sess \in Sessions /\ m = [kind |-> "app", sess |-> m.sess]
    BY <2>2 DEF Message
  <2>4. queue'[d] = Append(queue[d], m) \/ queue'[d] = queue[d]
    BY <2>1, <2>2 DEF Push, IInv, TypeOK
  <2>5. CASE queue'[d] = Append(queue[d], m)
    <3>1. Pushes(d)
      BY <1>1, <2>3, <2>5 DEF Pushes, KeepsUp, KeepsSession, Live
    <3>2. QED
      BY <3>1 DEF ChannelMoves
  <2>6. QED
    BY <1>1, <2>4, <2>5, SameMoves
<1>3. CASE ~AppPush(t)
  <2>1. UNCHANGED queue
    BY <1>3 DEF AppIn, AppCall, AppFlagSend, AppFlagStatus, AppLook, AppFill, chanVars
  <2>2. QED
    BY <1>1, <2>1, SameMoves
<1>4. QED
  BY <1>2, <1>3

\* Every step moves every channel as Channel allows.
LEMMA EveryStepMoves ==
  ASSUME IInv, [Next]_vars, NEW d \in Chan
  PROVE  ChannelMoves(d)
<1>1. CASE XConnect \/ XDisconnect \/ WorkerJoined \/ XDelete
           \/ WorkerLoop \/ WorkerRedirect \/ WorkerSleep \/ UNCHANGED vars
  <2>1. UNCHANGED <<conn, sess, queue>>
    BY <1>1 DEF XConnect, XDisconnect, WorkerJoined, XDelete, WorkerLoop, WorkerRedirect,
      WorkerSleep, vars, chanVars
  <2>2. QED
    BY <2>1, SameMoves
<1>2. CASE FreeSignaling \/ FreeStream
  <2>1. PICK c \in Chan : Disconnect(c)
    BY <1>2 DEF FreeSignaling, FreeStream, FreeChannel, Chan
  <2>2. QED
    BY <2>1, DisconnectMoves DEF IInv
<1>3. QED
  BY <1>1, <1>2, WorkerMoves, NetworkMoves, AppMoves, NextCases

\* A move of the signaling channel is a step of Channel.
LEMMA SignalingMoves ==
  ASSUME ChannelMoves("sig")
  PROVE  [SignalingChannel!Next]_SignalingChannel!vars
<1> USE DEF Live, KeepsUp, KeepsSession, KeepsQueue, SignalingChannel!Next
<1>1. CASE Stutters("sig")
  BY <1>1 DEF Stutters, SignalingChannel!vars
<1>2. CASE Closes("sig")
  BY <1>2 DEF Closes, SignalingChannel!Close
<1>3. CASE Renews("sig")
  BY <1>3 DEF Renews, SignalingChannel!NewSession
<1>4. CASE Establishes("sig")
  BY <1>4 DEF Establishes, SignalingChannel!Establish
<1>5. CASE Beats("sig")
  BY <1>5 DEF Beats, SignalingChannel!Put, Kinds
<1>6. CASE Pushes("sig")
  BY <1>6 DEF Pushes, SignalingChannel!PutUnlocked
<1>7. CASE Sends("sig")
  BY <1>7 DEF Sends, SignalingChannel!Send
<1>8. QED
  BY <1>1, <1>2, <1>3, <1>4, <1>5, <1>6, <1>7 DEF ChannelMoves

\* A move of the stream channel is a step of Channel.
LEMMA StreamMoves ==
  ASSUME ChannelMoves("str")
  PROVE  [StreamChannel!Next]_StreamChannel!vars
<1> USE DEF Live, KeepsUp, KeepsSession, KeepsQueue, StreamChannel!Next
<1>1. CASE Stutters("str")
  BY <1>1 DEF Stutters, StreamChannel!vars
<1>2. CASE Closes("str")
  BY <1>2 DEF Closes, StreamChannel!Close
<1>3. CASE Renews("str")
  BY <1>3 DEF Renews, StreamChannel!NewSession
<1>4. CASE Establishes("str")
  BY <1>4 DEF Establishes, StreamChannel!Establish
<1>5. CASE Beats("str")
  BY <1>5 DEF Beats, StreamChannel!Put, Kinds
<1>6. CASE Pushes("str")
  BY <1>6 DEF Pushes, StreamChannel!PutUnlocked
<1>7. CASE Sends("str")
  BY <1>7 DEF Sends, StreamChannel!Send
<1>8. QED
  BY <1>1, <1>2, <1>3, <1>4, <1>5, <1>6, <1>7 DEF ChannelMoves

\* A fresh object has two closed channels.
LEMMA ChannelsInit == Init => SignalingChannel!Init /\ StreamChannel!Init
<1> SUFFICES ASSUME Init PROVE SignalingChannel!Init /\ StreamChannel!Init
  OBVIOUS
<1>1. \A c \in Chan : ~Live(c) /\ sess[c] \in Sessions /\ queue[c] = <<>>
  BY DEF Init, Live
<1>2. QED
  BY <1>1 DEF Chan, SignalingChannel!Init, StreamChannel!Init

\* A heartbeat waits on a logged-in connection only and carries that login's
\* number, and every message leaves in order or is dropped with its connection,
\* for any number of application threads, sessions and messages.
THEOREM ChannelsImplementChannel == Spec => ImplementsChannel
<1>1. ASSUME IInv, [Next]_vars
      PROVE  [SignalingChannel!Next]_SignalingChannel!vars
  BY <1>1, EveryStepMoves, SignalingMoves DEF Chan
<1>2. ASSUME IInv, [Next]_vars
      PROVE  [StreamChannel!Next]_StreamChannel!vars
  BY <1>2, EveryStepMoves, StreamMoves DEF Chan
<1>3. Spec => SignalingChannel!Spec
  BY <1>1, ChannelsInit, IInvAlways, PTL DEF Spec, SignalingChannel!Spec
<1>4. Spec => StreamChannel!Spec
  BY <1>2, ChannelsInit, IInvAlways, PTL DEF Spec, StreamChannel!Spec
<1>5. QED
  BY <1>3, <1>4 DEF ImplementsChannel
=============================================================================
