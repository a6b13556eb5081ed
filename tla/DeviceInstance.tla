--------------------------- MODULE DeviceInstance ---------------------------
(***************************************************************************)
(* The device library (XInternetTest/_IncludeDevice): one CXDeviceInstance *)
(* with its worker thread, its two server channels (CXDeviceSignaling and  *)
(* CXDeviceStream, which have the same code shape), the callbacks of the   *)
(* network library and the application's threads.                          *)
(*                                                                         *)
(* The network library (XStream.hpp) is not in the repository: a stream    *)
(* delivers nothing after Release, and after SetStreamData it delivers a   *)
(* first READ callback of 0 bytes and a first WRITE callback.              *)
(***************************************************************************)
EXTENDS Integers, Sequences, FiniteSets

CONSTANTS
  App,        \* application threads that call XSendMessage, XSendStream, XGetStatus
  AppCalls,   \* which of those calls they make: a subset of {"msg", "av", "status"}
  Sessions,   \* session numbers the servers hand out
  Routes,     \* (ip, user) pairs a device may be sent to
  SvrRoute,   \* the route of a classic device: the configured server itself
  ClassicId,  \* TRUE if the uuid is a classic (all digits) id
  StrCmds,    \* the commands the stream server sends
  SendLimit,  \* AddSendStream refuses when more than this many are queued (30)
  QueueCap    \* bound of the model, per channel: a longer queue is cut (the code has none)

Chan == {"sig", "str"}

ASSUME ConstAssumption ==
  /\ AppCalls \subseteq {"msg", "av", "status"}
  /\ SvrRoute \in Routes
  /\ ClassicId \in BOOLEAN
  /\ StrCmds \subseteq {"hb", "open", "close"}
  /\ SendLimit \in Nat
  /\ QueueCap \in [Chan -> Nat]

\* An application has finitely many threads.
ASSUME AppAssumption == IsFiniteSet(App)

VARIABLES
  opc,      \* the owner: XConnect, XDisconnect, XDelete
  exit,     \* m_bTheadExit
  wpc, wch, \* where the worker is, and the channel it is busy with
  route,    \* m_szRealIp and m_szIotUsername
  alive,    \* [Chan -> BOOLEAN]: m_pSignaling, m_pStream # NULL
  conn,     \* m_pTcpStream: "null", "open", "live" (SetStreamData done)
  peer,     \* the route the current or last connection was made to
  err,      \* m_bIsError
  silent,   \* CrossGetTickCount64() - m_dwLastTick > 10000
  sess,     \* m_nSessionID
  queue,    \* m_msgSendList, m_dataSendList
  rd,       \* the pending read and m_nRecvStep: none, "init" (the first READ callback
            \* is due), "head", or the cmd of m_head while its body is read
  wr,       \* TRUE if a WRITE callback is due
  canSend,  \* m_nCanSendStream
  opened,   \* history: the server has opened the stream on this connection
  apc, aop, \* where each application thread is, and in which call
  asil,     \* the tick comparison it made in IsConnectError
  amsg      \* pMsg: the message it has filled in, if any

ownerVars == <<opc, exit, alive>>
workerVars == <<wpc, wch, route, peer>>
chanVars == <<conn, err, silent, sess, queue, rd, wr, canSend, opened>>
appVars == <<apc, aop, asil, amsg>>
vars == <<ownerVars, workerVars, chanVars, appVars>>

Cmds == {"hb", "user", "open", "close"}
Kinds == {"hb", "app"}
Message == [kind : Kinds, sess : Sessions]

WorkerPlaces == {"none", "loop", "both", "redirect", "check", "disconnect", "link",
                 "session", "login", "register", "tick", "beat", "sleep"}
Calls == {"none", "msg", "av", "st1", "st2", "st3", "st4"}

TypeOK ==
  /\ opc \in {"off", "on", "wait", "freesig", "freestr", "gone"}
  /\ exit \in BOOLEAN
  /\ wpc \in WorkerPlaces
  /\ wch \in Chan
  /\ route \in Routes
  /\ alive \in [Chan -> BOOLEAN]
  /\ conn \in [Chan -> {"null", "open", "live"}]
  /\ peer \in [Chan -> Routes]
  /\ err \in [Chan -> BOOLEAN]
  /\ silent \in [Chan -> BOOLEAN]
  /\ sess \in [Chan -> Sessions]
  /\ queue \in [Chan -> Seq(Message)]
  /\ rd \in [Chan -> {"none", "init", "head"} \cup Cmds]
  /\ wr \in [Chan -> BOOLEAN]
  /\ canSend \in BOOLEAN
  /\ opened \in BOOLEAN
  /\ apc \in [App -> {"idle", "flag", "look", "fill", "push"}]
  /\ aop \in [App -> Calls]
  /\ asil \in [App -> BOOLEAN]
  /\ amsg \in [App -> Seq(Message)]

Init ==
  /\ opc = "off"
  /\ exit = FALSE
  /\ wpc = "none"
  /\ wch = "sig"
  /\ route \in Routes               \* m_szRealIp is not initialised
  /\ alive = [c \in Chan |-> FALSE]
  /\ conn = [c \in Chan |-> "null"]
  /\ peer = [c \in Chan |-> SvrRoute]
  /\ err = [c \in Chan |-> TRUE]
  /\ silent = [c \in Chan |-> TRUE]
  /\ sess \in {[c \in Chan |-> s] : s \in Sessions}
  /\ queue = [c \in Chan |-> <<>>]
  /\ rd = [c \in Chan |-> "none"]
  /\ wr = [c \in Chan |-> FALSE]
  /\ canSend = FALSE
  /\ opened = FALSE
  /\ apc = [t \in App |-> "idle"]
  /\ aop = [t \in App |-> "none"]
  /\ asil = [t \in App |-> FALSE]
  /\ amsg = [t \in App |-> <<>>]

-----------------------------------------------------------------------------
(* Helpers shared by both channel classes. *)

\* Variant: the payload is queued without its header.
Push_NoHeader(c, m) == IF Len(queue[c]) < QueueCap[c] THEN Append(queue[c], m.sess) ELSE queue[c]

Push(c, m) == IF Len(queue[c]) < QueueCap[c] THEN Append(queue[c], m) ELSE queue[c]

\* Variant: the loop ends with one message left.
ClearSendBufferList_OffByOne(q) == IF Len(q) > 1 THEN <<q[Len(q)]>> ELSE q

ClearSendBufferList(q) == <<>>

\* Variant: the tick comparison is forgotten.
Failing_NoTick(c, s) == err[c]

\* What IsConnectError returns when the tick comparison gave s.
Failing(c, s) == s \/ err[c]

\* IsConnectError of channel c after the tick comparison s: it latches
\* m_bIsError, and the stream channel also stops the sending.
IsConnectError(c, s) ==
  /\ err' = [err EXCEPT ![c] = Failing(c, s)]
  /\ canSend' = (canSend /\ ~(s /\ c = "str"))

\* Disconnect of channel c: nothing unless there is a stream.
Release(c) ==
  /\ conn' = [conn EXCEPT ![c] = "null"]
  /\ rd' = [rd EXCEPT ![c] = "none"]
  /\ wr' = [wr EXCEPT ![c] = FALSE]

Disconnect(c) ==
  /\ Release(c)
  /\ IF conn[c] = "null"
     THEN UNCHANGED <<queue, err>>
     ELSE /\ queue' = [queue EXCEPT ![c] = ClearSendBufferList(queue[c])]
          /\ err' = [err EXCEPT ![c] = TRUE]
  /\ UNCHANGED <<silent, sess, canSend, opened>>

-----------------------------------------------------------------------------
(* The owner's calls. *)

\* XConnect: fresh channel objects (their constructors), then the worker thread.
XConnect ==
  /\ opc = "off"
  /\ opc' = "on"
  /\ exit' = FALSE
  /\ alive' = [c \in Chan |-> TRUE]
  /\ wpc' = "loop"
  /\ err' = [c \in Chan |-> TRUE]
  /\ silent' = [c \in Chan |-> TRUE]
  /\ canSend' = FALSE
  /\ UNCHANGED <<wch, route, peer, conn, sess, queue, rd, wr, opened, appVars>>

\* XDisconnect asks the worker to stop. The application may not be inside
\* another call: those calls use the channel objects without any lock.
XDisconnect ==
  /\ opc = "on"
  /\ \A t \in App : apc[t] = "idle"
  /\ opc' = "wait"
  /\ exit' = TRUE
  /\ UNCHANGED <<alive, workerVars, chanVars, appVars>>

\* CrossWaitThread returns once the worker function has returned.
WorkerJoined ==
  /\ opc = "wait"
  /\ wpc = "none"
  /\ opc' = "freesig"
  /\ UNCHANGED <<exit, alive, workerVars, chanVars, appVars>>

\* Disconnect and delete one channel object.
FreeChannel(c, here, next) ==
  /\ opc = here
  /\ opc' = next
  /\ Disconnect(c)
  /\ alive' = [alive EXCEPT ![c] = FALSE]
  /\ UNCHANGED <<exit, workerVars, appVars>>

FreeSignaling == FreeChannel("sig", "freesig", "freestr")
FreeStream == FreeChannel("str", "freestr", "off")

\* XDelete is XDisconnect followed by "delete this".
XDelete ==
  /\ opc = "off"
  /\ opc' = "gone"
  /\ UNCHANGED <<exit, alive, workerVars, chanVars, appVars>>

Deleted == opc = "gone" /\ UNCHANGED vars

-----------------------------------------------------------------------------
(* The worker thread: CXDeviceInstance::Woker. *)

WorkerAt(place, c) == wpc = place /\ wch = c
WorkerGoes(place, c) == wpc' = place /\ wch' = c

\* Variant: m_bTheadExit is not volatile and was read once.
WorkerLoop_NoExit ==
  /\ wpc = "loop"
  /\ WorkerGoes("both", "sig")
  /\ UNCHANGED <<ownerVars, route, peer, chanVars, appVars>>

WorkerLoop ==
  /\ wpc = "loop"
  /\ WorkerGoes(IF exit THEN "none" ELSE "both", "sig")
  /\ UNCHANGED <<ownerVars, route, peer, chanVars, appVars>>

\* Variant: the route is looked up when either channel fails.
WorkerBoth_Either(c) ==
  /\ WorkerAt("both", c)
  /\ IsConnectError(c, silent[c])
  /\ IF Failing(c, silent[c]) THEN WorkerGoes("redirect", "sig")
     ELSE IF c = "sig"        THEN WorkerGoes("both", "str")
                              ELSE WorkerGoes("check", "sig")
  /\ UNCHANGED <<ownerVars, route, peer, conn, silent, sess, queue, rd, wr, opened, appVars>>

\* Both channels failing: the route is looked up again. The second channel
\* is only asked when the first one fails.
WorkerBoth(c) ==
  /\ WorkerAt("both", c)
  /\ IsConnectError(c, silent[c])
  /\ IF ~Failing(c, silent[c]) THEN WorkerGoes("check", "sig")
     ELSE IF c = "sig"         THEN WorkerGoes("both", "str")
                               ELSE WorkerGoes("redirect", "sig")
  /\ UNCHANGED <<ownerVars, route, peer, conn, silent, sess, queue, rd, wr, opened, appVars>>

\* A classic device always goes to its server. GetIotServerInfo may fail,
\* which leaves the route as it was.
RouteChoices == IF ClassicId THEN {SvrRoute} ELSE Routes

WorkerRedirect ==
  /\ wpc = "redirect"
  /\ WorkerGoes("check", "sig")
  /\ route' \in RouteChoices
  /\ UNCHANGED <<ownerVars, peer, chanVars, appVars>>

\* Variant: only a channel that still holds a stream is connected again.
WorkerCheck_OnlyIfStream(c) ==
  /\ WorkerAt("check", c)
  /\ IsConnectError(c, silent[c])
  /\ WorkerGoes(IF Failing(c, silent[c]) /\ conn[c] # "null" THEN "disconnect" ELSE "beat", c)
  /\ UNCHANGED <<ownerVars, route, peer, conn, silent, sess, queue, rd, wr, opened, appVars>>

WorkerCheck(c) ==
  /\ WorkerAt("check", c)
  /\ IsConnectError(c, silent[c])
  /\ WorkerGoes(IF Failing(c, silent[c]) THEN "disconnect" ELSE "beat", c)
  /\ UNCHANGED <<ownerVars, route, peer, conn, silent, sess, queue, rd, wr, opened, appVars>>

WorkerDisconnect(c) ==
  /\ WorkerAt("disconnect", c)
  /\ Disconnect(c)
  /\ WorkerGoes("link", c)
  /\ UNCHANGED <<ownerVars, route, peer, appVars>>

\* The worker is done with channel c: first the signaling channel, then the stream.
WorkerDone(c) == IF c = "sig" THEN WorkerGoes("check", "str") ELSE WorkerGoes("sleep", "str")

\* Variant: Connect does not withdraw the permission to send.
Link_KeepsCanSend(c) ==
  /\ WorkerAt("link", c)
  /\ conn[c] = "null"
  /\ queue' = [queue EXCEPT ![c] = ClearSendBufferList(queue[c])]
  /\ IF c = "str" THEN opened' = FALSE ELSE UNCHANGED opened
  /\ peer' = [peer EXCEPT ![c] = route]
  /\ UNCHANGED <<ownerVars, route, err, silent, sess, rd, wr, canSend, appVars>>

\* Connect, first part: forget the queue and open a stream to the current route.
Link(c) ==
  /\ WorkerAt("link", c)
  /\ conn[c] = "null"
  /\ queue' = [queue EXCEPT ![c] = ClearSendBufferList(queue[c])]
  /\ IF c = "str"
     THEN canSend' = FALSE /\ opened' = FALSE
     ELSE UNCHANGED <<canSend, opened>>
  /\ peer' = [peer EXCEPT ![c] = route]
  /\ UNCHANGED <<ownerVars, route, err, silent, sess, rd, wr, appVars>>

LinkOk(c) ==
  /\ Link(c)
  /\ conn' = [conn EXCEPT ![c] = "open"]
  /\ WorkerGoes("session", c)

LinkFail(c) ==
  /\ Link(c)
  /\ WorkerDone(c)
  /\ UNCHANGED conn

\* The NEED_SESSION exchange: the server hands out a session number.
SessionOk(c) ==
  /\ WorkerAt("session", c)
  /\ \E s \in Sessions : sess' = [sess EXCEPT ![c] = s]
  /\ WorkerGoes("login", c)
  /\ UNCHANGED <<ownerVars, route, peer, conn, err, silent, queue, rd, wr, canSend, opened, appVars>>

\* The LOGIN exchange succeeded: m_bIsError is cleared before the stream delivers.
LoginOk(c) ==
  /\ WorkerAt("login", c)
  /\ err' = [err EXCEPT ![c] = FALSE]
  /\ WorkerGoes("register", c)
  /\ UNCHANGED <<ownerVars, route, peer, conn, silent, sess, queue, rd, wr, canSend, opened, appVars>>

\* Either exchange failed or timed out: the stream is released.
ExchangeFail(c) ==
  /\ WorkerAt("session", c) \/ WorkerAt("login", c)
  /\ Release(c)
  /\ WorkerDone(c)
  /\ UNCHANGED <<ownerVars, route, peer, err, silent, sess, queue, canSend, opened, appVars>>

\* SetStreamData: from here on callbacks arrive.
WorkerRegister(c) ==
  /\ WorkerAt("register", c)
  /\ conn' = [conn EXCEPT ![c] = "live"]
  /\ rd' = [rd EXCEPT ![c] = "init"]
  /\ wr' = [wr EXCEPT ![c] = TRUE]
  /\ WorkerGoes("tick", c)
  /\ UNCHANGED <<ownerVars, route, peer, err, silent, sess, queue, canSend, opened, appVars>>

\* Variant: m_bIsError is cleared after SetStreamData.
WorkerTick_ClearsError(c) ==
  /\ WorkerAt("tick", c)
  /\ silent' = [silent EXCEPT ![c] = FALSE]
  /\ err' = [err EXCEPT ![c] = FALSE]
  /\ WorkerDone(c)
  /\ UNCHANGED <<ownerVars, route, peer, conn, sess, queue, rd, wr, canSend, opened, appVars>>

WorkerTick(c) ==
  /\ WorkerAt("tick", c)
  /\ silent' = [silent EXCEPT ![c] = FALSE]
  /\ WorkerDone(c)
  /\ UNCHANGED <<ownerVars, route, peer, conn, err, sess, queue, rd, wr, canSend, opened, appVars>>

\* AddSendMessage(HEARTBEAT) or AddHeartbeat.
WorkerBeat(c) ==
  /\ WorkerAt("beat", c)
  /\ queue' = [queue EXCEPT ![c] = Push(c, [kind |-> "hb", sess |-> sess[c]])]
  /\ WorkerDone(c)
  /\ UNCHANGED <<ownerVars, route, peer, conn, err, silent, sess, rd, wr, canSend, opened, appVars>>

WorkerSleep ==
  /\ wpc = "sleep"
  /\ WorkerGoes("loop", "sig")
  /\ UNCHANGED <<ownerVars, route, peer, chanVars, appVars>>

WorkerOn(c) ==
  \/ WorkerBoth(c)
  \/ WorkerCheck(c)
  \/ WorkerDisconnect(c)
  \/ LinkOk(c)
  \/ LinkFail(c)
  \/ SessionOk(c)
  \/ LoginOk(c)
  \/ ExchangeFail(c)
  \/ WorkerRegister(c)
  \/ WorkerTick(c)
  \/ WorkerBeat(c)

Worker == WorkerLoop \/ WorkerRedirect \/ WorkerSleep \/ \E c \in Chan : WorkerOn(c)

-----------------------------------------------------------------------------
(* OnPacketCompleteNetStreamData, called by the network library's threads. *)

\* DoMsg for a message of command cmd: the channel is no longer silent.
DoMsg(c, cmd) ==
  /\ silent' = [silent EXCEPT ![c] = FALSE]
  /\ IF c = "str" /\ cmd \in {"open", "close"}
     THEN canSend' = (cmd = "open") /\ opened' = (opened \/ cmd = "open")
     ELSE UNCHANGED <<canSend, opened>>

\* Any callback on a channel already in error, or a failed one: nothing is
\* armed again. The failed read or write itself is over.
ReadFailed(c) ==
  /\ rd[c] # "none"
  /\ rd' = [rd EXCEPT ![c] = "none"]
  /\ err' = [err EXCEPT ![c] = TRUE]
  /\ UNCHANGED <<ownerVars, workerVars, conn, silent, sess, queue, wr, canSend, opened, appVars>>

WriteFailed(c) ==
  /\ wr[c]
  /\ wr' = [wr EXCEPT ![c] = FALSE]
  /\ err' = [err EXCEPT ![c] = TRUE]
  /\ UNCHANGED <<ownerVars, workerVars, conn, silent, sess, queue, rd, canSend, opened, appVars>>

\* The first READ callback carries no bytes: it starts the reading.
ReadStart(c) ==
  /\ rd[c] = "init"
  /\ ~err[c]
  /\ rd' = [rd EXCEPT ![c] = "head"]
  /\ UNCHANGED <<ownerVars, workerVars, conn, err, silent, sess, queue, wr, canSend, opened, appVars>>

\* A header without a body is a whole message.
ReadHead(c, cmd) ==
  /\ rd[c] = "head"
  /\ ~err[c]
  /\ DoMsg(c, cmd)
  /\ UNCHANGED <<ownerVars, workerVars, conn, err, sess, queue, rd, wr, appVars>>

\* A header with a body that fits: read the body next.
ReadHeadBody(c, cmd) ==
  /\ rd[c] = "head"
  /\ ~err[c]
  /\ rd' = [rd EXCEPT ![c] = cmd]
  /\ UNCHANGED <<ownerVars, workerVars, conn, err, silent, sess, queue, wr, canSend, opened, appVars>>

\* A header that announces more than m_pBuffer holds: the callback returns,
\* no read is armed and no error is noted.
ReadHeadTooLong(c) ==
  /\ rd[c] = "head"
  /\ ~err[c]
  /\ rd' = [rd EXCEPT ![c] = "none"]
  /\ UNCHANGED <<ownerVars, workerVars, conn, err, silent, sess, queue, wr, canSend, opened, appVars>>

ReadBody(c) ==
  /\ rd[c] \in Cmds
  /\ ~err[c]
  /\ rd' = [rd EXCEPT ![c] = "head"]
  /\ DoMsg(c, rd[c])
  /\ UNCHANGED <<ownerVars, workerVars, conn, err, sess, queue, wr, appVars>>

\* A WRITE callback sends the first queued message, or asks to be called
\* again later: either way another WRITE callback is due.
WriteDone(c) ==
  /\ wr[c]
  /\ ~err[c]
  /\ queue[c] # <<>>
  /\ queue' = [queue EXCEPT ![c] = Tail(@)]
  /\ UNCHANGED <<ownerVars, workerVars, conn, err, silent, sess, rd, wr, canSend, opened, appVars>>

WriteIdle(c) ==
  /\ wr[c]
  /\ ~err[c]
  /\ queue[c] = <<>>
  /\ UNCHANGED vars

\* Ten seconds have passed since m_dwLastTick.
Expire(c) ==
  /\ alive[c]
  /\ ~silent[c]
  /\ silent' = [silent EXCEPT ![c] = TRUE]
  /\ UNCHANGED <<ownerVars, workerVars, conn, err, sess, queue, rd, wr, canSend, opened, appVars>>

\* The commands on the signaling channel differ only in whether the user's
\* callback is called: one stands for all.
SigCmds == {"user"}

CmdsOf(c) == IF c = "sig" THEN SigCmds ELSE StrCmds

Receive(c) == ReadBody(c) \/ \E cmd \in CmdsOf(c) : ReadHead(c, cmd)

Network(c) ==
  \/ ReadFailed(c)
  \/ WriteFailed(c)
  \/ ReadStart(c)
  \/ Receive(c)
  \/ \E cmd \in CmdsOf(c) : ReadHeadBody(c, cmd)
  \/ ReadHeadTooLong(c)
  \/ WriteDone(c)
  \/ WriteIdle(c)

-----------------------------------------------------------------------------
(* The application's threads: XSendMessage, XSendStream, XGetStatus. *)

\* The channel whose IsConnectError a call evaluates.
ChanOf(op) == IF op \in {"av", "st2", "st4"} THEN "str" ELSE "sig"

\* Enter IsConnectError for call op: compare the tick.
Compare(t, op) ==
  /\ apc' = [apc EXCEPT ![t] = "flag"]
  /\ aop' = [aop EXCEPT ![t] = op]
  /\ asil' = [asil EXCEPT ![t] = silent[ChanOf(op)]]

Return(t) ==
  /\ apc' = [apc EXCEPT ![t] = "idle"]
  /\ aop' = [aop EXCEPT ![t] = "none"]
  /\ asil' = [asil EXCEPT ![t] = FALSE]

AppCall(t) ==
  /\ opc = "on"
  /\ apc[t] = "idle"
  /\ \E op \in AppCalls : Compare(t, IF op = "status" THEN "st1" ELSE op)
  /\ UNCHANGED <<ownerVars, workerVars, chanVars, amsg>>

\* The second half of IsConnectError: latch m_bIsError and return it. A
\* sending call goes on if there is no error.
AppFlagSend(t) ==
  /\ apc[t] = "flag"
  /\ aop[t] \in {"msg", "av"}
  /\ IsConnectError(ChanOf(aop[t]), asil[t])
  /\ IF Failing(ChanOf(aop[t]), asil[t])
     THEN Return(t)
     ELSE /\ apc' = [apc EXCEPT ![t] = IF aop[t] = "av" THEN "look" ELSE "fill"]
          /\ UNCHANGED <<aop, asil>>
  /\ UNCHANGED <<ownerVars, workerVars, conn, silent, sess, queue, rd, wr, opened, amsg>>

\* XGetStatus asks up to three times: both, then signaling, then the stream.
NextQuestion(op, failing) ==
  CASE op = "st1" -> IF failing THEN "st2" ELSE "st3"
    [] op = "st2" -> IF failing THEN "none" ELSE "st3"
    [] op = "st3" -> IF failing THEN "none" ELSE "st4"
    [] OTHER      -> "none"

AppFlagStatus(t) ==
  /\ apc[t] = "flag"
  /\ aop[t] \in {"st1", "st2", "st3", "st4"}
  /\ LET c    == ChanOf(aop[t])
         next == NextQuestion(aop[t], Failing(c, asil[t]))
     IN  /\ IsConnectError(c, asil[t])
         /\ IF next = "none" THEN Return(t) ELSE Compare(t, next)
  /\ UNCHANGED <<ownerVars, workerVars, conn, silent, sess, queue, rd, wr, opened, amsg>>

\* Variant: one more than the limit is let through.
Sendable_OffByOne == canSend /\ ~err["str"] /\ Len(queue["str"]) <= SendLimit + 1

\* AddSendStream's refusals: not asked to send, in error, too many queued
\* (the length is read without the lock).
Sendable == canSend /\ ~err["str"] /\ Len(queue["str"]) <= SendLimit

AppLook(t) ==
  /\ apc[t] = "look"
  /\ IF Sendable
     THEN apc' = [apc EXCEPT ![t] = "fill"] /\ UNCHANGED <<aop, asil>>
     ELSE Return(t)
  /\ UNCHANGED <<ownerVars, workerVars, chanVars, amsg>>

AppFill(t) ==
  /\ apc[t] = "fill"
  /\ apc' = [apc EXCEPT ![t] = "push"]
  /\ amsg' = [amsg EXCEPT ![t] = <<[kind |-> "app", sess |-> sess[ChanOf(aop[t])]]>>]
  /\ UNCHANGED <<ownerVars, workerVars, chanVars, aop, asil>>

AppPush(t) ==
  /\ apc[t] = "push"
  /\ LET c == ChanOf(aop[t])
     IN  queue' = [queue EXCEPT ![c] = Push(c, Head(amsg[t]))]
  /\ amsg' = [amsg EXCEPT ![t] = <<>>]
  /\ Return(t)
  /\ UNCHANGED <<ownerVars, workerVars, conn, err, silent, sess, rd, wr, canSend, opened>>

AppIn(t) == AppFlagSend(t) \/ AppFlagStatus(t) \/ AppLook(t) \/ AppFill(t) \/ AppPush(t)

-----------------------------------------------------------------------------
Next ==
  \/ XConnect
  \/ XDisconnect
  \/ WorkerJoined
  \/ FreeSignaling
  \/ FreeStream
  \/ XDelete
  \/ Deleted
  \/ Worker
  \/ \E c \in Chan : Network(c) \/ Expire(c)
  \/ \E t \in App : AppCall(t) \/ AppIn(t)

Spec == Init /\ [][Next]_vars

\* Threads keep running, and time passes: a channel either hears from its
\* server or becomes silent. The network owes nothing else.
Running ==
  /\ WF_vars(Worker)
  /\ WF_vars(WorkerJoined \/ FreeSignaling \/ FreeStream)
  /\ \A t \in App : WF_vars(AppIn(t))
  /\ \A c \in Chan : WF_vars(Expire(c) \/ Receive(c))

\* The servers answer an exchange that is tried again and again.
ServersReachable ==
  \A c \in Chan : SF_vars(LinkOk(c)) /\ SF_vars(SessionOk(c)) /\ SF_vars(LoginOk(c))

RunningSpec == Spec /\ Running

-----------------------------------------------------------------------------
(* The inductive invariant, in parts. *)

\* The channel objects live from XConnect until XDisconnect frees them one by
\* one, and the worker only in between.
Lifecycle ==
  /\ wpc # "none" => opc \in {"on", "wait"}
  /\ alive["sig"] <=> opc \in {"on", "wait", "freesig"}
  /\ alive["str"] <=> opc \in {"on", "wait", "freesig", "freestr"}
  /\ \A c \in Chan : conn[c] # "null" => alive[c]

Connecting(c) == wpc \in {"session", "login", "register"} /\ wch = c

\* Only the worker holds a stream that is not registered yet; callbacks are
\* due on registered streams alone; the error flag is clear only from the
\* login to the release.
Connections ==
  /\ wpc = "link" => conn[wch] = "null"
  /\ \A c \in Chan :
       /\ conn[c] = "open" <=> Connecting(c)
       /\ rd[c] # "none" \/ wr[c] => conn[c] = "live"
       /\ ~err[c] => conn[c] = "live" \/ (conn[c] = "open" /\ WorkerAt("register", c))

\* A thread about to queue has filled in an application message.
MessageReady == \A t \in App : apc[t] = "push" => amsg[t] # <<>> /\ Head(amsg[t]).kind = "app"

\* Only the worker queues heartbeats, and a stream has none queued before it
\* has its session number.
QueueOrigin ==
  \A c \in Chan : conn[c] # "null" =>
    \A i \in 1..Len(queue[c]) : queue[c][i].kind = "hb" =>
      ~WorkerAt("session", c) /\ queue[c][i].sess = sess[c]

\* The worker queues a heartbeat only for a stream it holds.
BeatConnected == wpc = "beat" => conn[wch] = "live"

\* The worker looks the route up when both error flags are set (they stay
\* set until it has connected again): a clear flag means the current route.
RouteInUse ==
  /\ WorkerAt("both", "str") => err["sig"]
  /\ wpc = "redirect" => \A c \in Chan : err[c]
  /\ \A c \in Chan : ~err[c] \/ conn[c] = "open" => peer[c] = route

-----------------------------------------------------------------------------
(* Safety *)

\* Woker and the callbacks use m_pSignaling and m_pStream without a test:
\* while the worker has not returned, or a stream delivers to a channel,
\* both objects (the channel) exist. XDisconnect joins the thread first.
NoUseAfterDelete ==
  /\ wpc # "none" => \A c \in Chan : alive[c]
  /\ \A c \in Chan : conn[c] # "null" => alive[c]
  /\ opc \in {"off", "gone"} => \A c \in Chan : ~alive[c]

\* A channel that is registered and not in error keeps its write pump
\* running: a WRITE callback is due. m_bIsError must be FALSE when
\* SetStreamData's first callbacks arrive (they alone start the pumps), every
\* WRITE callback must arm the next, and m_bIsError may go FALSE nowhere else.
PumpsRun ==
  \A c \in Chan : conn[c] = "live" /\ ~err[c] => wr[c]

\* A channel without error has completed its login on a stream it still
\* holds: Connect clears m_bIsError last, Disconnect sets it.
NoErrorMeansConnected ==
  \A c \in Chan :
    alive[c] /\ ~err[c] => conn[c] = "live" \/ (conn[c] = "open" /\ WorkerAt("register", c))

\* Every heartbeat queued on a live channel carries that login's session number:
\* none survives from an earlier connection (ClearSendBufferList).
HeartbeatsAreCurrent ==
  \A c \in Chan : conn[c] = "live" =>
    \A i \in 1..Len(queue[c]) : queue[c][i].kind = "hb" => queue[c][i].sess = sess[c]

\* The device may send only if the server opened the stream on this very
\* connection: m_nCanSendStream does not outlive it.
SendOnlyIfOpened == canSend /\ conn["str"] # "null" => opened

\* Two healthy channels go to one server: the route changes only when both
\* channels fail, and then both are connected again.
SameServer ==
  (\A c \in Chan : conn[c] = "live" /\ ~err[c]) => peer["sig"] = peer["str"]

\* The unlocked length test of AddSendStream lets at most one frame per
\* application thread past the limit.
Frames == {i \in 1..Len(queue["str"]) : queue["str"][i].kind = "app"}
Pushers == {t \in App : aop[t] = "av" /\ apc[t] \in {"fill", "push"}}
BoundedFrames == Cardinality(Frames) + Cardinality(Pushers) <= SendLimit + Cardinality(App)

\* "not connect ! so donot send data" (XDeviceStream.cpp:228): a frame that
\* waits on a live connection was filled in for that connection.
FramesAreCurrent ==
  conn["str"] = "live" =>
    \A i \in 1..Len(queue["str"]) : queue["str"][i].sess = sess["str"]

\* Each channel seen from outside. The application's messages are queued
\* without a lock (FramesAreCurrent); the heartbeats come from the worker alone.
Live(c) == conn[c] = "live"

SignalingChannel == INSTANCE Channel WITH
  Greeting <- {}, Unlocked <- {"app"}, up <- Live("sig"), greeted <- Live("sig"),
  session <- sess["sig"], out <- queue["sig"]

StreamChannel == INSTANCE Channel WITH
  Greeting <- {}, Unlocked <- {"app"}, up <- Live("str"), greeted <- Live("str"),
  session <- sess["str"], out <- queue["str"]

\* Connect, Disconnect and the two lists implement Channel: a heartbeat is queued
\* on a logged-in connection only, with that login's number, and every message
\* is sent in order on it or dropped with it, whatever the application's threads
\* queue in between.
ImplementsChannel == SignalingChannel!Spec /\ StreamChannel!Spec

(* Liveness *)

\* A read pump that stopped (oversized header, or callbacks lost to the error
\* flag) does not stay stopped: the silence is noticed and the stream released.
StalledIsReleased ==
  \A c \in Chan : (conn[c] = "live" /\ rd[c] = "none") ~> conn[c] = "null"

\* If the servers answer, a channel without connection gets one, or the
\* owner disconnects.
EventuallyConnected ==
  ServersReachable =>
    \A c \in Chan : (opc = "on" /\ conn[c] = "null") ~> (conn[c] = "live" \/ opc # "on")

\* XDisconnect returns: the worker notices m_bTheadExit even while the servers refuse.
DisconnectReturns == opc = "wait" ~> opc = "off"
=============================================================================
