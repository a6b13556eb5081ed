----------------------- MODULE ClientSignalingProofs -----------------------
(***************************************************************************)
(* Proofs about ClientSignaling, for any number of calls and any length of *)
(* the send list.                                                          *)
(***************************************************************************)
EXTENDS ClientSignaling, SequenceTheorems, TLAPS

Taking == rd \in {"copy", "finish"}

\* The stream and its callbacks, seen from the worker and from Delete.
Connection ==
  /\ conn # "live" => rd = "none" /\ wr = "none"
  /\ wpc \in {"mark", "renew", "create"} => conn = "null"
  /\ InLogin => conn # "live"
  /\ opc = "on" => (wpc \in {"drop", "dropfailed", "connect", "session", "login", "register"} => conn # "null")
  /\ opc = "on" => (wr = "taking" => queue # <<>>)
  /\ opc = "new" => wpc = "none" /\ conn = "null"
  /\ opc \in {"mark", "stop", "wait", "gone"} => conn = "null" \/ again

\* The call in progress: what DoMsg has kept, or is about to, is its answer.
Answering ==
  /\ cpc = "parse" /\ ~overlap => ~Taking /\ ~finished
  /\ cpc \in {"send", "poll", "take"} /\ ~overlap =>
       /\ uuid = call
       /\ Taking => msg = call
       /\ rd = "finish" \/ finished \/ cpc = "take" => buffer = call

\* The numbers in the list and at the server are those of calls begun, and the
\* call in progress has not been queued before it is sent.
Numbers ==
  /\ \A i \in 1..Len(queue) : queue[i] \in 0..call
  /\ asked \subseteq 1..call
  /\ cpc \in {"parse", "send"} =>
       call > 0 /\ call \notin asked /\ \A i \in 1..Len(queue) : queue[i] # call

IInv ==
  /\ TypeOK
  /\ Connection /\ PumpsRun /\ FaultOnlyInDelete /\ LeftBehindOnlyByRelogin
  /\ Answering /\ AnswerIsOwn
  /\ Numbers /\ SentOnce

-----------------------------------------------------------------------------

\* The steps of the system, spelled out once.
LEMMA NextCases ==
  ASSUME [Next]_vars
  PROVE  \/ ~fault /\ (Connect \/ Delete \/ DeleteLook \/ DeleteDrop \/ DeleteMark \/ DeleteStop \/ DeleteThis)
         \/ ~fault /\ Worker
         \/ ~fault /\ Network
         \/ ~fault /\ (CtrlBegin \/ Ctrl)
         \/ UNCHANGED vars
  BY DEF Next, OwnerInDelete, Ended

\* A fresh object satisfies the invariant.
LEMMA InitIInv == Init => IInv
<1> SUFFICES ASSUME Init PROVE IInv
  OBVIOUS
<1>1. queue \in Seq(0..MaxCalls) /\ Len(queue) = 0
  BY DEF Init
<1>2. TypeOK
  <2>1. 0 \in 0..MaxCalls /\ {} \subseteq CallIds
    BY BoundsAssumption DEF BoundsAssumption
  <2>2. QED
    BY <1>1, <2>1 DEF Init, TypeOK
<1>3. Connection /\ PumpsRun /\ FaultOnlyInDelete /\ LeftBehindOnlyByRelogin
  BY DEF Init, Connection, PumpsRun, FaultOnlyInDelete, LeftBehindOnlyByRelogin, InLogin
<1>4. Answering /\ AnswerIsOwn
  BY DEF Init, Answering, AnswerIsOwn
<1>5. Numbers /\ SentOnce
  BY <1>1 DEF Init, Numbers, SentOnce, Waiting
<1>6. QED
  BY <1>2, <1>3, <1>4, <1>5 DEF IInv

-----------------------------------------------------------------------------
(* An answer goes to its call *)

\* Every step keeps the answer that is on its way the answer of the call in progress.
LEMMA AnswerNext == ASSUME IInv, [Next]_vars PROVE Answering' /\ AnswerIsOwn'
<1> USE DEF IInv, Answering, AnswerIsOwn, Taking
<1>1. CASE /\ UNCHANGED <<callVars, msg, buffer>>
           /\ rd' = rd \/ rd' \in {"none", "init"} \/ (rd = "init" /\ rd' = "head")
  BY <1>1 DEF callVars
<1>2. CASE Connect \/ Delete \/ DeleteLook \/ DeleteDrop \/ DeleteMark \/ DeleteStop \/ DeleteThis
  BY <1>1, <1>2 DEF Connect, Delete, DeleteLook, DeleteDrop, DeleteMark, DeleteStop, DeleteThis,
                    ReleaseStream, Fault, chanVars, answerVars
<1>3. CASE Worker
  <2>1. UNCHANGED <<callVars, answerVars>> /\ (rd' = rd \/ rd' \in {"none", "init"})
    BY <1>3 DEF Worker, WorkerLoop, WorkerBeat, WorkerLook, WorkerDrop, WorkerMark, LoginRenew,
                LoginCreate, LoginConnect, LoginExchange, LoginRegister, LoginFailed, WorkerSleep,
                KeepWorker, ReleaseStream, Fault, chanVars
  <2>2. QED
    BY <1>1, <2>1 DEF answerVars
<1>4. CASE ReadFailed \/ WriteFailed \/ ReadStart \/ ReadTooLong \/ WriteLook \/ WriteTake
  BY <1>1, <1>4 DEF ReadFailed, WriteFailed, ReadStart, ReadTooLong, WriteLook, WriteTake,
                    KeepIo, Fault, chanVars, answerVars
<1>5. ASSUME NEW n \in CallIds, ReadAnswer(n) PROVE Answering' /\ AnswerIsOwn'
  <2>1. PICK same \in Compares(n) :
          /\ rd' = IF same THEN "copy" ELSE "head"
          /\ msg' = IF same THEN n ELSE msg
    BY <1>5 DEF ReadAnswer
  <2>2. cpc # "parse" => same = (n = uuid)
    BY <2>1 DEF Compares
  <2>3. QED
    BY <1>5, <2>1, <2>2 DEF ReadAnswer
<1>6. CASE CopyAnswer
  BY <1>6 DEF CopyAnswer, KeepIo, callVars
<1>7. CASE FinishAnswer
  BY <1>7 DEF FinishAnswer, answerVars
<1>8. CASE CtrlBegin
  BY <1>8 DEF CtrlBegin, KeepCall, answerVars
<1>9. CASE Ctrl
  BY <1>9 DEF Ctrl, CtrlParse, CtrlMalformed, CtrlSend, CtrlSeen, CtrlTimeout, CtrlTake,
              KeepCall, answerVars
<1>10. CASE UNCHANGED vars
  BY <1>1, <1>10 DEF vars, chanVars, answerVars
<1>11. QED
  BY <1>2, <1>3, <1>4, <1>5, <1>6, <1>7, <1>8, <1>9, <1>10, NextCases DEF Network

-----------------------------------------------------------------------------
(* The connection *)

Link == Connection /\ PumpsRun /\ FaultOnlyInDelete /\ LeftBehindOnlyByRelogin

\* Every step keeps the stream, its callbacks and the places of worker and owner in line.
LEMMA ConnectionNext == ASSUME IInv, [Next]_vars PROVE Link'
<1> USE DEF IInv, Connection, PumpsRun, FaultOnlyInDelete, LeftBehindOnlyByRelogin, InLogin, Link
<1>1. CASE Connect
  BY <1>1 DEF Connect, chanVars
<1>2. CASE Delete \/ DeleteLook \/ DeleteMark \/ DeleteStop \/ DeleteThis
  BY <1>2 DEF Delete, DeleteLook, DeleteMark, DeleteStop, DeleteThis, LookThenDrop,
              MarkDisconnected, chanVars
<1>3. CASE DeleteDrop
  BY <1>3 DEF DeleteDrop, ReleaseStream, Fault, ownerVars, chanVars
<1>4. CASE ~fault /\ Worker
  <2> USE DEF KeepWorker, WorkerGoes, ownerVars, chanVars, TypeOK
  <2>1. CASE WorkerLoop \/ WorkerSleep
    BY <1>4, <2>1 DEF WorkerLoop, WorkerSleep
  <2>2. CASE WorkerBeat
    <3>1. queue # <<>> => queue' # <<>>
      BY <2>2 DEF WorkerBeat, AddSendMessage
    <3>2. QED
      BY <2>2, <3>1 DEF WorkerBeat
  <2>3. CASE WorkerLook \/ LoginFailed
    BY <1>4, <2>3 DEF WorkerLook, LoginFailed, LookThenDrop
  <2>4. ASSUME WorkerDrop("drop", "mark") \/ WorkerDrop("dropfailed", "sleep") PROVE Link'
    BY <1>4, <2>4 DEF WorkerDrop, ReleaseStream, Fault
  <2>5. CASE WorkerMark
    BY <1>4, <2>5 DEF WorkerMark, MarkDisconnected
  <2>6. CASE LoginRenew
    BY <1>4, <2>6 DEF LoginRenew
  <2>7. CASE LoginCreate
    BY <1>4, <2>7 DEF LoginCreate
  <2>8. CASE LoginConnect
    BY <1>4, <2>8 DEF LoginConnect
  <2>9. CASE LoginExchange("session", "login") \/ LoginExchange("login", "register")
    BY <1>4, <2>9 DEF LoginExchange, Fault
  <2>10. CASE LoginRegister
    BY <1>4, <2>10 DEF LoginRegister, Fault
  <2>11. QED
    BY <1>4, <2>1, <2>2, <2>3, <2>4, <2>5, <2>6, <2>7, <2>8, <2>9, <2>10 DEF Worker
<1>5. CASE ~fault /\ Network
  <2> USE DEF KeepIo, ownerVars, TypeOK
  <2>1. CASE ReadFailed \/ WriteFailed \/ ReadStart \/ ReadTooLong \/ CopyAnswer \/ FinishAnswer \/ WriteLook
    BY <1>5, <2>1 DEF ReadFailed, WriteFailed, ReadStart, ReadTooLong, CopyAnswer, FinishAnswer, WriteLook
  <2>2. ASSUME NEW n \in CallIds, ReadAnswer(n) PROVE Link'
    BY <1>5, <2>2 DEF ReadAnswer
  <2>3. CASE WriteTake
    BY <1>5, <2>3 DEF WriteTake, Fault, chanVars
  <2>4. QED
    BY <1>5, <2>1, <2>2, <2>3 DEF Network
<1>6. CASE CtrlBegin \/ Ctrl
  <2>1. /\ UNCHANGED <<fault, opc, wpc, conn, err, rd, wr, again>>
        /\ queue' = queue \/ \E m : AddSendMessage(m)
    BY <1>6 DEF CtrlBegin, Ctrl, CtrlParse, CtrlMalformed, CtrlSend, CtrlSeen, CtrlTimeout, CtrlTake,
                KeepCall, ownerVars
  <2>2. queue # <<>> => queue' # <<>>
    BY <2>1 DEF AddSendMessage, TypeOK
  <2>3. QED
    BY <2>1, <2>2
<1>7. CASE UNCHANGED vars
  BY <1>7 DEF vars, ownerVars, chanVars
<1>8. QED
  BY <1>1, <1>2, <1>3, <1>4, <1>5, <1>6, <1>7, NextCases

-----------------------------------------------------------------------------
(* The send list *)

\* The list with one message more, if there is room, and with one less.
LEMMA Pushed ==
  ASSUME TypeOK, NEW m \in 0..MaxCalls, AddSendMessage(m)
  PROVE  /\ queue' \in Seq(0..MaxCalls)
         /\ \/ queue' = queue
            \/ /\ Len(queue') = Len(queue) + 1
               /\ queue'[Len(queue) + 1] = m
               /\ \A i \in 1..Len(queue) : queue'[i] = queue[i]
<1>1. queue \in Seq(0..MaxCalls)
  BY DEF TypeOK
<1>2. CASE Len(queue) < QueueCap
  <2>1. queue' = Append(queue, m)
    BY <1>2 DEF AddSendMessage
  <2>2. queue' \in Seq(0..MaxCalls)
    BY <1>1, <2>1
  <2>3. Len(queue') = Len(queue) + 1
    BY <1>1, <2>1
  <2>4. queue'[Len(queue) + 1] = m
    BY <1>1, <2>1
  <2>5. \A i \in 1..Len(queue) : queue'[i] = queue[i]
    BY <1>1, <2>1
  <2>6. QED
    BY <2>2, <2>3, <2>4, <2>5
<1>3. CASE ~(Len(queue) < QueueCap)
  BY <1>1, <1>3 DEF AddSendMessage
<1>4. QED
  BY <1>2, <1>3
\* The list without its first message.
LEMMA Popped ==
  ASSUME TypeOK, queue # <<>>, queue' = Tail(queue)
  PROVE  /\ queue' \in Seq(0..MaxCalls)
         /\ 1 \in 1..Len(queue) /\ Head(queue) = queue[1] /\ Head(queue) \in 0..MaxCalls
         /\ Len(queue') = Len(queue) - 1
         /\ \A i \in 1..Len(queue') : i + 1 \in 1..Len(queue) /\ queue'[i] = queue[i + 1]
<1>1. queue \in Seq(0..MaxCalls)
  BY DEF TypeOK
<1>2. /\ queue' \in Seq(0..MaxCalls) /\ Head(queue) \in 0..MaxCalls
      /\ Len(queue') = Len(queue) - 1
      /\ \A i \in 1..Len(queue') : queue'[i] = queue[i + 1]
  BY <1>1, HeadTailProperties
<1>3. Len(queue) \in Nat /\ Len(queue) # 0
  BY <1>1
<1>4. 1 \in 1..Len(queue) /\ Head(queue) = queue[1]
  BY <1>1, <1>3
<1>5. \A i \in 1..Len(queue') : i + 1 \in 1..Len(queue)
  BY <1>2, <1>3
<1>6. QED
  BY <1>2, <1>4, <1>5

Sending == Numbers /\ SentOnce

\* What SentOnce says, position by position.
Once ==
  /\ \A i \in 1..Len(queue) : queue[i] # Heartbeat => queue[i] \notin asked
  /\ \A i, j \in 1..Len(queue) : i # j /\ queue[i] # Heartbeat => queue[i] # queue[j]

\* Position by position or as sets, it is the same.
LEMMA OnceIsSentOnce == Once <=> SentOnce
  BY DEF Once, SentOnce, Waiting

\* Every step keeps a request in one place, the list or the server.
LEMMA SendingNext == ASSUME IInv, [Next]_vars PROVE Sending'
<1>1. Once /\ Numbers /\ TypeOK
  BY OnceIsSentOnce DEF IInv
<1> SUFFICES Once' /\ Numbers'
  BY DEF Sending, Once, SentOnce, Waiting
<1>2. Len(queue) \in Nat /\ call \in Nat
  BY <1>1 DEF TypeOK
<1> USE DEF Numbers, Once, Heartbeat
<1>3. CASE UNCHANGED <<queue, asked, cpc, call>>
  BY <1>1, <1>3
<1>4. CASE UNCHANGED <<asked, cpc, call>> /\ queue' = <<>>
  BY <1>1, <1>4
<1>5. CASE UNCHANGED <<asked, cpc, call>> /\ AddSendMessage(Heartbeat)
  <2>1. 0 \in 0..MaxCalls
    BY BoundsAssumption DEF BoundsAssumption
  <2>2. queue' = queue
          \/ /\ Len(queue') = Len(queue) + 1 /\ queue'[Len(queue) + 1] = 0
             /\ \A i \in 1..Len(queue) : queue'[i] = queue[i]
    BY <1>1, <1>5, <2>1, Pushed
  <2>3. CASE queue' = queue
    BY <1>1, <1>5, <2>3
  <2>4. CASE queue' # queue
    <3>1. \A i \in 1..Len(queue') : i \in 1..Len(queue) \/ i = Len(queue) + 1
      BY <1>2, <2>2, <2>4
    <3>2. Once'
      BY <1>1, <1>5, <2>2, <2>4, <3>1
    <3>3. Numbers'
      BY <1>1, <1>2, <1>5, <2>2, <2>4, <3>1
    <3>4. QED
      BY <3>2, <3>3
  <2>5. QED
    BY <2>3, <2>4
<1>6. CASE Connect \/ Delete \/ DeleteLook \/ DeleteDrop \/ DeleteMark \/ DeleteStop \/ DeleteThis
  BY <1>3, <1>4, <1>6 DEF Connect, Delete, DeleteLook, DeleteDrop, DeleteMark, DeleteStop, DeleteThis,
       ReleaseStream, MarkDisconnected, Fault, chanVars, callVars, answerVars
<1>7. CASE Worker
  BY <1>3, <1>4, <1>5, <1>7
     DEF Worker, WorkerLoop, WorkerBeat, WorkerLook, WorkerDrop, WorkerMark, LoginRenew,
         LoginCreate, LoginConnect, LoginExchange, LoginRegister, LoginFailed, WorkerSleep,
         KeepWorker, ReleaseStream, MarkDisconnected, Fault, chanVars, callVars, answerVars
<1>8. CASE ReadFailed \/ WriteFailed \/ ReadStart \/ ReadTooLong \/ CopyAnswer \/ FinishAnswer \/ WriteLook
  BY <1>3, <1>8 DEF ReadFailed, WriteFailed, ReadStart, ReadTooLong, CopyAnswer, FinishAnswer,
                    WriteLook, KeepIo, callVars, answerVars
<1>9. ASSUME NEW n \in CallIds, ReadAnswer(n) PROVE Once' /\ Numbers'
  BY <1>1, <1>9 DEF ReadAnswer
<1>10. CASE WriteTake
  <2>1. CASE queue = <<>>
    BY <1>3, <1>10, <2>1 DEF WriteTake, Fault, chanVars, callVars, answerVars
  <2>2. CASE queue # <<>>
    <3>1. /\ queue' = Tail(queue) /\ asked' = asked \cup ({Head(queue)} \ {Heartbeat})
          /\ UNCHANGED <<cpc, call>>
      BY <1>10, <2>2 DEF WriteTake, KeepIo, callVars
    <3>2. /\ 1 \in 1..Len(queue) /\ Head(queue) = queue[1]
          /\ \A i \in 1..Len(queue') : i + 1 \in 1..Len(queue) /\ queue'[i] = queue[i + 1]
      BY <1>1, <2>2, <3>1, Popped
    <3>3. \A i \in 1..Len(queue') : i \in Int /\ i + 1 # 1
      BY <1>1, <2>2, <3>1, Popped
    <3>4. \A i \in 1..Len(queue') : queue'[i] # Heartbeat => queue'[i] \notin asked'
      BY <1>1, <3>1, <3>2, <3>3
    <3>5. ASSUME NEW i \in 1..Len(queue'), NEW j \in 1..Len(queue'), i # j, queue'[i] # Heartbeat
          PROVE  queue'[i] # queue'[j]
      <4>1. i + 1 # j + 1 /\ i + 1 \in 1..Len(queue) /\ j + 1 \in 1..Len(queue)
        BY <3>2, <3>3, <3>5
      <4>2. QED
        BY <1>1, <3>2, <3>5, <4>1
    <3>6. Numbers'
      <4>1. queue[1] \in 0..call
        BY <1>1, <3>2
      <4>2. asked' \subseteq 1..call
        <5>1. \A n \in 0..call : n # 0 => n \in 1..call
          BY <1>2
        <5>2. QED
          BY <1>1, <3>1, <3>2, <4>1, <5>1
      <4>3. cpc \in {"parse", "send"} => call \notin asked'
        BY <1>1, <3>1, <3>2
      <4>4. QED
        BY <1>1, <3>1, <3>2, <4>2, <4>3
    <3>7. QED
      BY <3>4, <3>5, <3>6
  <2>3. QED
    BY <2>1, <2>2
<1>11. CASE CtrlBegin
  BY <1>1, <1>2, <1>11 DEF CtrlBegin, KeepCall, answerVars
<1>12. CASE CtrlSend
  <2>1. call \in 0..MaxCalls /\ UNCHANGED <<asked, call>> /\ cpc' = "poll" /\ cpc = "send"
    BY <1>1, <1>12 DEF CtrlSend, KeepCall, answerVars, TypeOK
  <2>2. queue' = queue
          \/ /\ Len(queue') = Len(queue) + 1 /\ queue'[Len(queue) + 1] = call
             /\ \A i \in 1..Len(queue) : queue'[i] = queue[i]
    BY <1>1, <1>12, <2>1, Pushed DEF CtrlSend
  <2>3. CASE queue' = queue
    BY <1>1, <2>1, <2>3
  <2>4. CASE queue' # queue
    <3>1. \A i \in 1..Len(queue') : i \in 1..Len(queue) \/ i = Len(queue) + 1
      BY <1>2, <2>2, <2>4
    <3>2. Once'
      BY <1>1, <2>1, <2>2, <2>4, <3>1
    <3>3. Numbers'
      BY <1>1, <1>2, <2>1, <2>2, <2>4, <3>1
    <3>4. QED
      BY <3>2, <3>3
  <2>5. QED
    BY <2>3, <2>4
<1>13. CASE CtrlParse \/ CtrlMalformed \/ CtrlSeen \/ CtrlTimeout \/ CtrlTake
  BY <1>1, <1>13 DEF CtrlParse, CtrlMalformed, CtrlSeen, CtrlTimeout, CtrlTake, KeepCall, answerVars
<1>14. CASE UNCHANGED vars
  BY <1>3, <1>14 DEF vars, chanVars, callVars, answerVars
<1>15. QED
  BY <1>6, <1>7, <1>8, <1>9, <1>10, <1>11, <1>12, <1>13, <1>14, NextCases DEF Network, Ctrl

-----------------------------------------------------------------------------
(* Types *)

\* Every step keeps the types.
LEMMA TypeNext == ASSUME IInv, [Next]_vars PROVE TypeOK'
<1> TypeOK
  BY DEF IInv
<1> USE DEF TypeOK
<1>1. <<>> \in Seq(0..MaxCalls)
  OBVIOUS
<1>2. CASE Connect \/ Delete \/ DeleteLook \/ DeleteDrop \/ DeleteMark \/ DeleteStop \/ DeleteThis
  <2> USE DEF ownerVars, chanVars, callVars, answerVars
  <2>1. CASE Connect
    <3>1. exit' \in BOOLEAN
      BY <2>1 DEF Connect
    <3>2. QED
      BY <2>1, <3>1 DEF Connect
  <2>2. CASE Delete \/ DeleteLook \/ DeleteThis
    BY <2>2 DEF Delete, DeleteLook, DeleteThis, LookThenDrop
  <2>3. CASE DeleteDrop
    <3>1. fault' \in BOOLEAN
      BY <2>3 DEF DeleteDrop, Fault
    <3>2. QED
      BY <2>3, <3>1 DEF DeleteDrop, ReleaseStream, Fault
  <2>4. CASE DeleteMark
    <3>1. err' \in BOOLEAN
      BY <2>4 DEF DeleteMark, MarkDisconnected
    <3>2. QED
      BY <1>1, <2>4, <3>1 DEF DeleteMark, MarkDisconnected
  <2>5. CASE DeleteStop
    <3>1. exit' \in BOOLEAN
      BY <2>5 DEF DeleteStop
    <3>2. QED
      BY <2>5, <3>1 DEF DeleteStop
  <2>6. QED
    BY <1>2, <2>1, <2>2, <2>3, <2>4, <2>5
<1>3. CASE Worker
  <2> USE DEF KeepWorker, WorkerGoes, ownerVars, chanVars, callVars, answerVars
  <2>1. CASE WorkerLoop \/ WorkerSleep \/ WorkerLook \/ LoginFailed
    BY <2>1 DEF WorkerLoop, WorkerSleep, WorkerLook, LoginFailed, LookThenDrop
  <2>2. CASE WorkerBeat
    <3>1. 0 \in 0..MaxCalls
      BY BoundsAssumption DEF BoundsAssumption
    <3>2. queue' \in Seq(0..MaxCalls)
      BY <2>2, <3>1, Pushed DEF WorkerBeat, Heartbeat
    <3>3. QED
      BY <2>2, <3>2 DEF WorkerBeat
  <2>3. CASE WorkerDrop("drop", "mark") \/ WorkerDrop("dropfailed", "sleep")
    <3>1. fault' \in BOOLEAN
      BY <2>3 DEF WorkerDrop, ReleaseStream, Fault
    <3>2. QED
      BY <2>3, <3>1 DEF WorkerDrop, ReleaseStream, Fault
  <2>4. CASE WorkerMark

    BY <1>1, <2>4 DEF WorkerMark, MarkDisconnected
  <2>5. CASE LoginRenew
    <3>1. err' \in BOOLEAN
      BY <2>5 DEF LoginRenew
    <3>2. QED
      BY <2>5, <3>1 DEF LoginRenew
  <2>6. CASE LoginCreate
    BY <1>1, <2>6 DEF LoginCreate
  <2>7. CASE LoginConnect
    BY <2>7 DEF LoginConnect
  <2>8. CASE LoginExchange("session", "login") \/ LoginExchange("login", "register")
    <3>1. fault' \in BOOLEAN
      BY <2>8 DEF LoginExchange, Fault
    <3>2. QED
      BY <2>8, <3>1 DEF LoginExchange, Fault
  <2>9. CASE LoginRegister
    <3>1. fault' \in BOOLEAN
      BY <2>9 DEF LoginRegister, Fault
    <3>2. QED
      BY <2>9, <3>1 DEF LoginRegister, Fault
  <2>10. QED
    BY <1>3, <2>1, <2>2, <2>3, <2>4, <2>5, <2>6, <2>7, <2>8, <2>9 DEF Worker
<1>4. CASE Network
  <2> USE DEF KeepIo, ownerVars, chanVars, callVars, answerVars
  <2>1. CASE ReadFailed \/ WriteFailed \/ ReadStart \/ ReadTooLong \/ CopyAnswer \/ FinishAnswer \/ WriteLook
    BY <2>1 DEF ReadFailed, WriteFailed, ReadStart, ReadTooLong, CopyAnswer, FinishAnswer, WriteLook
  <2>2. ASSUME NEW n \in CallIds, ReadAnswer(n) PROVE TypeOK'
    <3>1. n \in 0..MaxCalls
      BY BoundsAssumption DEF CallIds, BoundsAssumption
    <3>2. rd' \in {"copy", "head"} /\ msg' \in 0..MaxCalls
      BY <2>2, <3>1 DEF ReadAnswer
    <3>3. overlap' \in BOOLEAN
      BY <2>2 DEF ReadAnswer
    <3>4. QED
      BY <2>2, <3>2, <3>3 DEF ReadAnswer
  <2>3. CASE WriteTake
    <3>1. CASE queue = <<>>
      BY <2>3, <3>1 DEF WriteTake, Fault
    <3>2. CASE queue # <<>>
      <4>1. /\ queue' = Tail(queue) /\ asked' = asked \cup ({Head(queue)} \ {Heartbeat})
        BY <2>3, <3>2 DEF WriteTake
      <4>2. queue' \in Seq(0..MaxCalls) /\ Head(queue) \in 0..MaxCalls
        BY <3>2, <4>1, Popped
      <4>3. asked' \subseteq CallIds
        <5>1. \A n \in 0..MaxCalls : n # 0 => n \in 1..MaxCalls
          BY BoundsAssumption DEF BoundsAssumption
        <5>2. QED
          BY <4>1, <4>2, <5>1 DEF CallIds, Heartbeat
      <4>4. QED
        BY <2>3, <3>2, <4>2, <4>3 DEF WriteTake
    <3>3. QED
      BY <3>1, <3>2
  <2>4. QED
    BY <1>4, <2>1, <2>2, <2>3 DEF Network
<1>5. CASE CtrlBegin
  <2>1. call' \in 0..MaxCalls
    BY <1>5, BoundsAssumption DEF CtrlBegin, BoundsAssumption
  <2>2. overlap' \in BOOLEAN
    BY <1>5 DEF CtrlBegin
  <2>3. finished' \in BOOLEAN
    BY <1>5 DEF CtrlBegin
  <2>4. QED
    BY <1>5, <2>1, <2>2, <2>3 DEF CtrlBegin, KeepCall, ownerVars, answerVars
<1>6. CASE CtrlSend
  <2>1. queue' \in Seq(0..MaxCalls)
    BY <1>6, Pushed DEF CtrlSend
  <2>2. QED
    BY <1>6, <2>1 DEF CtrlSend, KeepCall, ownerVars, answerVars
<1>7. CASE CtrlParse \/ CtrlMalformed \/ CtrlSeen \/ CtrlTimeout \/ CtrlTake
  <2>1. 0 \in 0..MaxCalls
    BY BoundsAssumption DEF BoundsAssumption
  <2>2. QED
    BY <1>7, <2>1 DEF CtrlParse, CtrlMalformed, CtrlSeen, CtrlTimeout, CtrlTake, KeepCall,
                      ownerVars, answerVars
<1>8. CASE UNCHANGED vars
  BY <1>8 DEF vars, ownerVars, chanVars, callVars, answerVars
<1>9. QED
  BY <1>2, <1>3, <1>4, <1>5, <1>6, <1>7, <1>8, NextCases DEF Ctrl

-----------------------------------------------------------------------------

\* Every step preserves the invariant.
LEMMA NextIInv == IInv /\ [Next]_vars => IInv'
  BY TypeNext, ConnectionNext, AnswerNext, SendingNext DEF IInv, Link, Sending

\* The invariant holds in every behaviour of the channel.
THEOREM InvariantHolds == Spec => []IInv
<1>1. QED
  BY InitIInv, NextIInv, PTL DEF Spec

\* Every variable keeps its type.
THEOREM TypeCorrect == Spec => []TypeOK
<1>1. IInv => TypeOK
  BY DEF IInv
<1>2. QED
  BY <1>1, InvariantHolds, PTL

\* However late answers come and however many calls were made, a call returns its
\* own answer or none, unless it overlapped DoMsg's unlocked comparison.
THEOREM AnswerIsAlwaysOwn == Spec => []AnswerIsOwn
<1>1. IInv => AnswerIsOwn
  BY DEF IInv
<1>2. QED
  BY <1>1, InvariantHolds, PTL

\* Until Delete begins no thread uses a released stream or an emptied list.
THEOREM NoFaultBeforeDelete == Spec => []FaultOnlyInDelete
<1>1. IInv => FaultOnlyInDelete
  BY DEF IInv
<1>2. QED
  BY <1>1, InvariantHolds, PTL

\* A stream outlives the object only if the worker logged in behind Delete's back.
THEOREM OnlyReloginLeavesStream == Spec => []LeftBehindOnlyByRelogin
<1>1. IInv => LeftBehindOnlyByRelogin
  BY DEF IInv
<1>2. QED
  BY <1>1, InvariantHolds, PTL

\* A registered channel without error always has a WRITE callback due.
THEOREM PumpsAlwaysRun == Spec => []PumpsRun
<1>1. IInv => PumpsRun
  BY DEF IInv
<1>2. QED
  BY <1>1, InvariantHolds, PTL

\* No request is in the list twice, nor in the list and at the server.
THEOREM RequestsSentOnce == Spec => []SentOnce
<1>1. IInv => SentOnce
  BY DEF IInv
<1>2. QED
  BY <1>1, InvariantHolds, PTL
=============================================================================
