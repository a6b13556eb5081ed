--------------------------- MODULE ClientSignaling ---------------------------
(***************************************************************************)
(* The client's signaling channel (XInternetTest/_IncludeClient/           *)
(* XClientSignaling.cpp): its worker thread logs in, is woken once a       *)
(* second, and queues heartbeats; the application sends a request with     *)
(* SignalingCtrl and polls for the answer, which the network library's     *)
(* threads deliver; the owner calls Connect and Delete.                    *)
(*                                                                         *)
(* No lock protects m_pTcpStream and m_bIsError, and Delete releases the   *)
(* stream before it stops the worker: every test of the pointer and the    *)
(* use that follows are separate steps, and a use of a pointer that has    *)
(* become NULL ends the process ("fault").                                 *)
(*                                                                         *)
(* External (XStream.hpp): Release waits for the callbacks that are        *)
(* running, and none starts after it; SetStreamData brings a first READ    *)
(* callback of 0 bytes and a first WRITE callback.                         *)
(***************************************************************************)
EXTENDS Integers, Sequences

CONSTANTS
  MaxCalls,   \* bound of the model: how many times SignalingCtrl is called
  QueueCap    \* bound of the model: a longer send list is cut (the code has no limit)

ASSUME BoundsAssumption == MaxCalls \in Nat /\ QueueCap \in Nat

VARIABLES
  fault,     \* TRUE once a thread has used a NULL or a released object
  opc, exit, \* the owner, and m_bTheadExit
  wpc,       \* the worker
  conn,      \* m_pTcpStream: "null", "open", "live" (SetStreamData done)
  err,       \* m_bIsError
  queue,     \* m_msgSendList: heartbeats and request numbers
  rd,        \* the pending read: "none", "init", "head", "copy", "finish"
  wr,        \* the WRITE callback: "none", "due", "taking" (it has seen a message)
  asked,     \* requests the server has received and not answered
  msg,       \* the number of the answer DoMsg is copying
  cpc, call, \* the thread inside SignalingCtrl, and how many calls were begun
  uuid,      \* m_strSignalingCtrlMsgUuid (0: none yet)
  finished,  \* m_bSignalingCtrlFinished
  buffer,    \* m_pSignalingCtrlBuffer: whose answer it holds
  result,    \* what the last call returned: 0 for -1, or whose answer
  overlap,   \* history: DoMsg compared uuids while or before the call set its own
  again      \* history: the worker made a stream after Delete had looked for one

ownerVars == <<opc, exit>>
chanVars == <<conn, err, queue, rd, wr>>
callVars == <<cpc, call, uuid, finished, result, overlap>>
answerVars == <<asked, msg, buffer>>
vars == <<fault, ownerVars, wpc, chanVars, callVars, answerVars, again>>

CallIds == 1..MaxCalls
Heartbeat == 0

TypeOK ==
  /\ fault \in BOOLEAN
  /\ opc \in {"new", "on", "look", "drop", "mark", "stop", "wait", "gone"}
  /\ exit \in BOOLEAN
  /\ wpc \in {"none", "loop", "beat", "look", "drop", "mark", "renew", "create", "connect",
              "session", "login", "register", "failed", "dropfailed", "sleep"}
  /\ conn \in {"null", "open", "live"}
  /\ err \in BOOLEAN
  /\ queue \in Seq(0..MaxCalls)
  /\ rd \in {"none", "init", "head", "copy", "finish"}
  /\ wr \in {"none", "due", "taking"}
  /\ asked \subseteq CallIds
  /\ msg \in 0..MaxCalls
  /\ cpc \in {"idle", "parse", "send", "poll", "take"}
  /\ call \in 0..MaxCalls
  /\ uuid \in 0..MaxCalls
  /\ finished \in BOOLEAN
  /\ buffer \in 0..MaxCalls
  /\ result \in 0..MaxCalls
  /\ overlap \in BOOLEAN
  /\ again \in BOOLEAN

Init ==
  /\ fault = FALSE
  /\ opc = "new"
  /\ exit \in BOOLEAN      \* the constructor does not set m_bTheadExit
  /\ wpc = "none"
  /\ conn = "null"
  /\ err = TRUE
  /\ queue = <<>>
  /\ rd = "none"
  /\ wr = "none"
  /\ asked = {}
  /\ msg = 0
  /\ cpc = "idle"
  /\ call = 0
  /\ uuid = 0
  /\ finished = FALSE
  /\ buffer = 0
  /\ result = 0
  /\ overlap = FALSE
  /\ again = FALSE

-----------------------------------------------------------------------------
(* Helpers *)

\* Variant: the command is counted from zero.
AddSendMessage_OffByOne(m) ==
  queue' = IF Len(queue) < QueueCap THEN Append(queue, m - 1) ELSE queue

AddSendMessage(m) == queue' = IF Len(queue) < QueueCap THEN Append(queue, m) ELSE queue

\* No callback is running: Release waits for that.
Quiet == rd \notin {"copy", "finish"} /\ wr # "taking"

\* m_pTcpStream->Release(); m_pTcpStream = NULL.
ReleaseStream ==
  /\ conn' = "null"
  /\ rd' = "none"
  /\ wr' = "none"

\* The use of a pointer that has been set to NULL or released meanwhile.
Fault == fault' = TRUE /\ UNCHANGED <<ownerVars, wpc, chanVars, callVars, answerVars, again>>

\* The start of Disconnect, and of the end of a failed Login: is there a stream?
LookThenDrop(drop, skip) == IF conn = "null" THEN skip ELSE drop

\* The rest of Disconnect: the error flag, and ClearSendBufferList.
MarkDisconnected == err' = TRUE /\ queue' = <<>>

-----------------------------------------------------------------------------
(* The owner: Connect, Delete *)

Connect ==
  /\ opc = "new"
  /\ opc' = "on"
  /\ exit' = FALSE
  /\ wpc' = "loop"
  /\ UNCHANGED <<fault, chanVars, callVars, answerVars, again>>

\* Delete begins (no request is in progress): Disconnect looks at the pointer.
Delete ==
  /\ opc = "on"
  /\ cpc = "idle"
  /\ opc' = "look"
  /\ UNCHANGED <<fault, exit, wpc, chanVars, callVars, answerVars, again>>

DeleteLook ==
  /\ opc = "look"
  /\ opc' = LookThenDrop("drop", "mark")
  /\ UNCHANGED <<fault, exit, wpc, chanVars, callVars, answerVars, again>>

DeleteDrop ==
  /\ opc = "drop"
  /\ IF conn = "null"
     THEN Fault
     ELSE /\ Quiet
          /\ ReleaseStream
          /\ opc' = "mark"
          /\ UNCHANGED <<fault, exit, wpc, err, queue, callVars, answerVars, again>>

DeleteMark ==
  /\ opc = "mark"
  /\ MarkDisconnected
  /\ opc' = "stop"
  /\ UNCHANGED <<fault, exit, wpc, conn, rd, wr, callVars, answerVars, again>>

DeleteStop ==
  /\ opc = "stop"
  /\ exit' = TRUE
  /\ opc' = "wait"
  /\ UNCHANGED <<fault, wpc, chanVars, callVars, answerVars, again>>

\* CrossWaitThread, then "delete this".
DeleteThis ==
  /\ opc = "wait"
  /\ wpc = "none"
  /\ opc' = "gone"
  /\ UNCHANGED <<fault, exit, wpc, chanVars, callVars, answerVars, again>>

-----------------------------------------------------------------------------
(* The worker: Woker, Disconnect, Login *)

WorkerGoes(here, there) == wpc = here /\ wpc' = there
KeepWorker == UNCHANGED <<fault, ownerVars, callVars, answerVars>>

\* Variant: the exit flag is not tested.
WorkerLoop_NoExit ==
  /\ WorkerGoes("loop", IF err THEN "look" ELSE "beat")
  /\ KeepWorker /\ UNCHANGED <<chanVars, again>>

\* IsNetError is m_bIsError alone (the version with the tick is commented out).
WorkerLoop ==
  /\ WorkerGoes("loop", IF exit THEN "none" ELSE IF err THEN "look" ELSE "beat")
  /\ KeepWorker /\ UNCHANGED <<chanVars, again>>

WorkerBeat ==
  /\ WorkerGoes("beat", "sleep")
  /\ AddSendMessage(Heartbeat)
  /\ KeepWorker /\ UNCHANGED <<conn, err, rd, wr, again>>

\* Variant: the message list is emptied before the stream is released.
WorkerLook_ClearsFirst ==
  /\ WorkerGoes("look", LookThenDrop("drop", "mark"))
  /\ queue' = <<>>
  /\ KeepWorker /\ UNCHANGED <<conn, err, rd, wr, again>>

WorkerLook ==
  /\ WorkerGoes("look", LookThenDrop("drop", "mark"))
  /\ KeepWorker /\ UNCHANGED <<chanVars, again>>

\* Variant: the pointer is forgotten, the stream not released.
WorkerDrop_Leaks(here, there) ==
  /\ wpc = here
  /\ IF conn = "null"
     THEN Fault
     ELSE /\ wpc' = there
          /\ KeepWorker /\ UNCHANGED <<chanVars, again>>

WorkerDrop(here, there) ==
  /\ wpc = here
  /\ IF conn = "null"
     THEN Fault
     ELSE /\ Quiet
          /\ ReleaseStream
          /\ wpc' = there
          /\ KeepWorker /\ UNCHANGED <<err, queue, again>>

WorkerMark ==
  /\ WorkerGoes("mark", "renew")
  /\ MarkDisconnected
  /\ KeepWorker /\ UNCHANGED <<conn, rd, wr, again>>

\* Login clears m_bIsError before it has connected to anything.
LoginRenew ==
  /\ WorkerGoes("renew", "create")
  /\ err' = FALSE
  /\ KeepWorker /\ UNCHANGED <<conn, queue, rd, wr, again>>

LoginCreate ==
  /\ WorkerGoes("create", "connect")
  /\ queue' = <<>>
  /\ conn' = "open"
  /\ again' = (opc \notin {"on", "look"})
  /\ KeepWorker /\ UNCHANGED <<err, rd, wr>>

\* XNetConnectStream, given the object itself: it may fail.
LoginConnect ==
  /\ \E there \in {"session", "failed"} : WorkerGoes("connect", there)
  /\ KeepWorker /\ UNCHANGED <<chanVars, again>>

\* The NEED_SESSION and LOGIN exchanges and SetStreamData use m_pTcpStream anew.
LoginExchange(here, there) ==
  /\ wpc = here
  /\ IF conn = "null"
     THEN Fault
     ELSE /\ wpc' \in {there, "failed"}
          /\ KeepWorker /\ UNCHANGED <<chanVars, again>>

LoginRegister ==
  /\ wpc = "register"
  /\ IF conn = "null"
     THEN Fault
     ELSE /\ conn' = "live"
          /\ rd' = "init"
          /\ wr' = "due"
          /\ wpc' = "sleep"
          /\ KeepWorker /\ UNCHANGED <<err, queue, again>>

\* A failed Login releases its stream; m_bIsError stays as it is.
LoginFailed ==
  /\ WorkerGoes("failed", LookThenDrop("dropfailed", "sleep"))
  /\ KeepWorker /\ UNCHANGED <<chanVars, again>>

WorkerSleep ==
  /\ WorkerGoes("sleep", "loop")
  /\ KeepWorker /\ UNCHANGED <<chanVars, again>>

Worker ==
  \/ WorkerLoop
  \/ WorkerBeat
  \/ WorkerLook
  \/ WorkerDrop("drop", "mark")
  \/ WorkerMark
  \/ LoginRenew
  \/ LoginCreate
  \/ LoginConnect
  \/ LoginExchange("session", "login")
  \/ LoginExchange("login", "register")
  \/ LoginRegister
  \/ LoginFailed
  \/ WorkerDrop("dropfailed", "sleep")
  \/ WorkerSleep

-----------------------------------------------------------------------------
(* OnPacketCompleteNetStreamData and DoMsg, on the network library's threads *)

KeepIo == UNCHANGED <<fault, ownerVars, wpc, conn, callVars, again>>

ReadFailed ==
  /\ rd \in {"init", "head"}
  /\ rd' = "none"
  /\ err' = TRUE
  /\ KeepIo /\ UNCHANGED <<queue, wr, answerVars>>

WriteFailed ==
  /\ wr = "due"
  /\ wr' = "none"
  /\ err' = TRUE
  /\ KeepIo /\ UNCHANGED <<queue, rd, answerVars>>

ReadStart ==
  /\ rd = "init"
  /\ ~err
  /\ rd' = "head"
  /\ KeepIo /\ UNCHANGED <<err, queue, wr, answerVars>>

\* A header that announces too much: the callback returns, reading stops.
ReadTooLong ==
  /\ rd = "head"
  /\ ~err
  /\ rd' = "none"
  /\ KeepIo /\ UNCHANGED <<err, queue, wr, answerVars>>

\* What DoMsg's comparison finds: while the call assigns the string, anything.
Compares(n) == IF cpc = "parse" THEN BOOLEAN ELSE {n = uuid}

\* An answer whose uuid is the current one is kept for the caller; any other
\* message goes to the application's callback.
ReadAnswer(n) ==
  /\ rd = "head"
  /\ ~err
  /\ n \in asked
  /\ asked' = asked \ {n}
  /\ \E same \in Compares(n) :
       /\ rd' = IF same THEN "copy" ELSE "head"
       /\ msg' = IF same THEN n ELSE msg
  /\ overlap' = (overlap \/ cpc = "parse")
  /\ UNCHANGED <<fault, ownerVars, wpc, conn, err, queue, wr, buffer,
                 cpc, call, uuid, finished, result, again>>

CopyAnswer ==
  /\ rd = "copy"
  /\ rd' = "finish"
  /\ buffer' = msg
  /\ KeepIo /\ UNCHANGED <<err, queue, wr, asked, msg>>

\* m_bSignalingCtrlFinished = TRUE, and the next read is armed.
FinishAnswer ==
  /\ rd = "finish"
  /\ rd' = "head"
  /\ finished' = TRUE
  /\ UNCHANGED <<fault, ownerVars, wpc, conn, err, queue, wr, answerVars,
                 cpc, call, uuid, result, overlap, again>>

\* The WRITE callback looks at the list without its lock.
WriteLook ==
  /\ wr = "due"
  /\ ~err
  /\ queue # <<>>
  /\ wr' = "taking"
  /\ KeepIo /\ UNCHANGED <<err, queue, rd, answerVars>>

\* Variant: the message is sent but not removed from the list.
WriteTake_NoPop ==
  /\ wr = "taking"
  /\ queue # <<>>
  /\ asked' = asked \cup ({Head(queue)} \ {Heartbeat})
  /\ wr' = "due"
  /\ KeepIo /\ UNCHANGED <<err, queue, rd, msg, buffer>>

\* Variant: after a message was taken nobody asks to be called again.
WriteTake_NotRearmed ==
  /\ wr = "taking"
  /\ queue # <<>>
  /\ queue' = Tail(queue)
  /\ asked' = asked \cup ({Head(queue)} \ {Heartbeat})
  /\ wr' = "none"
  /\ KeepIo /\ UNCHANGED <<err, rd, msg, buffer>>

WriteTake ==
  /\ wr = "taking"
  /\ IF queue = <<>>
     THEN Fault
     ELSE /\ queue' = Tail(queue)
          /\ asked' = asked \cup ({Head(queue)} \ {Heartbeat})
          /\ wr' = "due"
          /\ KeepIo /\ UNCHANGED <<err, rd, msg, buffer>>

Network ==
  \/ ReadFailed
  \/ WriteFailed
  \/ ReadStart
  \/ ReadTooLong
  \/ \E n \in CallIds : ReadAnswer(n)
  \/ CopyAnswer
  \/ FinishAnswer
  \/ WriteLook
  \/ WriteTake

-----------------------------------------------------------------------------
(* The application: SignalingCtrl. m_csSignalingCtrl admits one call at a time. *)

KeepCall == UNCHANGED <<fault, ownerVars, wpc, conn, err, rd, wr, answerVars, again>>

\* Variant: the flag of the previous call is not reset.
CtrlBegin_KeepsFlag ==
  /\ opc = "on"
  /\ cpc = "idle"
  /\ call < MaxCalls
  /\ call' = call + 1
  /\ cpc' = "parse"
  /\ overlap' = (rd \in {"copy", "finish"})
  /\ KeepCall /\ UNCHANGED <<queue, uuid, finished, result>>

CtrlBegin ==
  /\ opc = "on"
  /\ cpc = "idle"
  /\ call < MaxCalls
  /\ call' = call + 1
  /\ cpc' = "parse"
  /\ finished' = FALSE
  /\ overlap' = (rd \in {"copy", "finish"})
  /\ KeepCall /\ UNCHANGED <<queue, uuid, result>>

\* JsonGetHeaderInfo puts the request's uuid into m_strSignalingCtrlMsgUuid.
CtrlParse ==
  /\ cpc = "parse"
  /\ uuid' = call
  /\ cpc' = "send"
  /\ KeepCall /\ UNCHANGED <<queue, call, finished, result, overlap>>

\* The request has no proper header: the call returns -1, the old uuid stays.
CtrlMalformed ==
  /\ cpc = "parse"
  /\ cpc' = "idle"
  /\ result' = 0
  /\ KeepCall /\ UNCHANGED <<queue, call, uuid, finished, overlap>>

CtrlSend ==
  /\ cpc = "send"
  /\ AddSendMessage(call)
  /\ cpc' = "poll"
  /\ KeepCall /\ UNCHANGED <<call, uuid, finished, result, overlap>>

\* One of the hundred looks at the flag finds it set.
CtrlSeen ==
  /\ cpc = "poll"
  /\ finished
  /\ cpc' = "take"
  /\ KeepCall /\ UNCHANGED <<queue, call, uuid, finished, result, overlap>>

\* The hundred looks, 15 ms apart, are over.
CtrlTimeout ==
  /\ cpc = "poll"
  /\ cpc' = "idle"
  /\ result' = 0
  /\ KeepCall /\ UNCHANGED <<queue, call, uuid, finished, overlap>>

CtrlTake ==
  /\ cpc = "take"
  /\ cpc' = "idle"
  /\ result' = buffer
  /\ KeepCall /\ UNCHANGED <<queue, call, uuid, finished, overlap>>

Ctrl == CtrlParse \/ CtrlMalformed \/ CtrlSend \/ CtrlSeen \/ CtrlTimeout \/ CtrlTake

-----------------------------------------------------------------------------
OwnerInDelete == DeleteLook \/ DeleteDrop \/ DeleteMark \/ DeleteStop \/ DeleteThis

\* The process has crashed, or the object is gone.
Ended == (fault \/ opc = "gone") /\ UNCHANGED vars

Next ==
  \/ /\ ~fault /\ opc # "gone"
     /\ Connect \/ Delete \/ OwnerInDelete \/ Worker \/ Network \/ CtrlBegin \/ Ctrl
  \/ Ended

Spec == Init /\ [][Next]_vars

\* The worker and the owner keep running, a callback that has begun ends, and
\* Release, which waits for callbacks, is not put off by them for ever.
Running ==
  /\ SF_vars(~fault /\ Worker)
  /\ SF_vars(~fault /\ OwnerInDelete)
  /\ WF_vars(~fault /\ (CopyAnswer \/ FinishAnswer))
  /\ WF_vars(~fault /\ WriteTake)

RunningSpec == Spec /\ Running

-----------------------------------------------------------------------------
(* Safety *)

InLogin == wpc \in {"renew", "create", "connect", "session", "login", "register", "failed", "dropfailed"}

\* SignalingCtrl returns the answer to its own request or none, however late
\* the answers to earlier requests come, unless DoMsg was already past, or in
\* the middle of, its comparison when the call set its uuid (the string and
\* the flag are shared without a lock).
AnswerIsOwn == cpc = "idle" => result \in {0, call} \/ overlap

\* Without a Delete no thread uses a stream that another has released, nor
\* takes a message from an emptied list: only Delete's Disconnect, which
\* comes before the worker is stopped, does that to the others.
FaultOnlyInDelete == fault => opc \notin {"new", "on"}

\* The object is deleted with a stream still registered to it only if the
\* worker logged in between Delete's Disconnect and the end of the thread.
LeftBehindOnlyByRelogin == opc = "gone" /\ conn # "null" => again

\* A registered channel without error keeps its WRITE pump: the flag is cleared
\* before the stream exists, so SetStreamData's first callbacks are not lost.
PumpsRun == conn = "live" /\ ~err => wr # "none"

\* What is sent to the server was asked by a call on this object: no request is
\* answered twice, and none is in the list after it was sent.
Waiting == {queue[i] : i \in 1..Len(queue)} \ {Heartbeat}
SentOnce == /\ Waiting \cap asked = {}
            /\ \A i, j \in 1..Len(queue) : i # j /\ queue[i] # Heartbeat => queue[i] # queue[j]

\* "whether the current connection is in error" (XClientSignaling.h:53): outside
\* Login, no error means there is a connection. A failed Login leaves the flag clear.
NoErrorMeansConnected == opc = "on" /\ ~InLogin /\ ~err => conn = "live"

(* Liveness *)

\* A connection that has failed is released (and Login tried once more).
BrokenIsReleased == (conn = "live" /\ err) ~> (conn = "null" \/ opc = "gone" \/ fault)

\* Delete returns, or has crashed the worker.
DeleteReturns == opc = "look" ~> (opc = "gone" \/ fault)
=============================================================================
