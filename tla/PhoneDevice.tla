---------------------------- MODULE PhoneDevice ----------------------------
(***************************************************************************)
(* A phone as a device (XInternetTest/_IncludeClient/PhoneDevice.cpp): one *)
(* user thread calls Start and Stop, a worker logs in to the server and    *)
(* drops the connection after 20 s of silence, the application's threads   *)
(* hand frames over with InputData, and the network calls back when a read *)
(* or a write has ended. A callback runs whole between the others' steps   *)
(* and never after CXNetStream::Release has returned.                      *)
(***************************************************************************)
EXTENDS Naturals, Sequences

CONSTANTS
  Threads,    \* the threads that call InputData
  QueueCap,   \* bound: the length of m_msgList (the code has none)
  MaxLogins   \* bound: the number of successful logins

ASSUME ConstAssumption == QueueCap \in Nat \ {0} /\ MaxLogins \in Nat

VARIABLES
  upc,     \* Start and Stop: "idle", "join", and in LogoutPlat "release", "clear"
  handle,  \* m_hWorkerThread is not CROSS_THREAD_NULL
  stop,    \* m_hEvtWorkerStop
  wpc,     \* the worker: "none", "loop", LoginPlat's "link", "session", "login",
           \* then "logged", "test", and in LogoutPlat "release", "clear"
  login,   \* m_bLogin
  err,     \* m_bStreamIsError
  conn,    \* m_pTcpStream: "null", "open", "live" (SetStreamData was called)
  silent,  \* more than 20 s since m_dTickHearbeat
  list,    \* m_msgList: the frames, never popped while a connection lives
  rd,      \* the read under way: "none", "init", "head", "body"
  wr,      \* the write under way: "none", "delay" (PostDelayWriteStatus), "send"
  sending, \* the message whose buffer the last AsyncWrite was given
  epoch,   \* history: the number of logins
  apc,     \* InputData in each thread: "out", "stop", "push"
  aep      \* history: the login at which it found m_bLogin set

userVars == <<upc, handle, stop>>
netVars == <<rd, wr, sending>>
appVars == <<apc, aep>>
vars == <<userVars, wpc, login, err, conn, silent, list, netVars, epoch, appVars>>

\* A frame: who brought it, for which login (its bytes are left out).
Frames == [by : Threads, epoch : 0..MaxLogins]

TypeOK ==
  /\ upc \in {"idle", "join", "release", "clear"}
  /\ handle \in BOOLEAN /\ stop \in BOOLEAN
  /\ wpc \in {"none", "loop", "link", "session", "login", "logged", "test", "release", "clear"}
  /\ login \in BOOLEAN /\ err \in BOOLEAN /\ silent \in BOOLEAN
  /\ conn \in {"null", "open", "live"}
  /\ list \in Seq(Frames) /\ Len(list) <= QueueCap
  /\ rd \in {"none", "init", "head", "body"}
  /\ wr \in {"none", "delay", "send"}
  /\ sending \in Seq(Frames) /\ Len(sending) <= 1
  /\ epoch \in 0..MaxLogins
  /\ wpc \in {"link", "session", "login", "logged"} => epoch < MaxLogins
  /\ apc \in [Threads -> {"out", "stop", "push"}]
  /\ aep \in [Threads -> 0..MaxLogins]

\* m_dTickHearbeat, m_bStreamIsError and m_hEvtWorkerStop are not initialised.
Init ==
  /\ upc = "idle"
  /\ handle = FALSE
  /\ stop \in BOOLEAN
  /\ wpc = "none"
  /\ login = FALSE
  /\ err \in BOOLEAN
  /\ conn = "null"
  /\ silent \in BOOLEAN
  /\ list = <<>>
  /\ rd = "none" /\ wr = "none" /\ sending = <<>>
  /\ epoch = 0
  /\ apc = [t \in Threads |-> "out"]
  /\ aep = [t \in Threads |-> 0]

-----------------------------------------------------------------------------
(* LogoutPlat, by Stop (upc) or by the worker (wpc) *)

\* Variant: the list is cleared first and the stream released after it.
ReleaseStream_Last ==
  /\ list' = <<>>
  /\ UNCHANGED <<conn, netVars>>

\* CXNetStream::Release: no callback of this connection comes after it.
ReleaseStream ==
  /\ conn' = "null"
  /\ rd' = "none" /\ wr' = "none" /\ sending' = <<>>
  /\ UNCHANGED list

\* Variant: the frames of the ended connection stay.
ClearList_Keeps == UNCHANGED <<list, conn, netVars>>

\* Every message of the list goes back to the pool.
ClearList ==
  /\ list' = <<>>
  /\ UNCHANGED <<conn, netVars>>

-----------------------------------------------------------------------------
(* The user *)

Start ==
  /\ upc = "idle" /\ ~handle
  /\ handle' = TRUE
  /\ stop' = FALSE /\ err' = FALSE /\ login' = FALSE
  /\ wpc' = "loop"
  /\ UNCHANGED <<upc, conn, silent, list, netVars, epoch, appVars>>

Stop ==
  /\ upc = "idle"
  /\ stop' = (handle \/ stop)
  /\ upc' = IF handle THEN "join" ELSE "release"
  /\ UNCHANGED <<handle, wpc, login, err, conn, silent, list, netVars, epoch, appVars>>

StopJoins ==
  /\ upc = "join" /\ wpc = "none"
  /\ handle' = FALSE
  /\ login' = FALSE
  /\ upc' = "release"
  /\ UNCHANGED <<stop, wpc, err, conn, silent, list, netVars, epoch, appVars>>

StopLogoutPlat ==
  /\ \/ upc = "release" /\ ReleaseStream /\ upc' = "clear"
     \/ upc = "clear" /\ ClearList /\ upc' = "idle"
  /\ UNCHANGED <<handle, stop, wpc, login, err, silent, epoch, appVars>>

-----------------------------------------------------------------------------
(* The worker *)

WorkerLoop ==
  /\ wpc = "loop"
  /\ stop \/ login \/ epoch < MaxLogins
  /\ wpc' = IF stop THEN "none" ELSE IF login THEN "test" ELSE "link"
  /\ UNCHANGED <<userVars, login, err, conn, silent, list, netVars, epoch, appVars>>

\* XNetCreateStream4Connect, then one step for each of XNetConnectStream and the
\* session exchange.
LoginAdvances ==
  /\ \/ wpc = "link" /\ wpc' = "session"
     \/ wpc = "session" /\ wpc' = "login"
  /\ conn' = "open"
  /\ UNCHANGED <<userVars, login, err, silent, list, netVars, epoch, appVars>>

\* The login exchange, and SetStreamData: the stream reports a first read of
\* nothing and a first write.
LoginSucceeds ==
  /\ wpc = "login"
  /\ wpc' = "logged"
  /\ conn' = "live"
  /\ silent' = FALSE
  /\ rd' = "init" /\ wr' = "delay"
  /\ UNCHANGED <<userVars, login, err, list, sending, epoch, appVars>>

\* Worker waits up to 3 s and tries again; stopped, it goes on to the test below.
LoginFails ==
  /\ wpc \in {"link", "session", "login"}
  /\ conn' = "null"
  /\ login' = FALSE
  /\ wpc' = IF stop THEN "test" ELSE "loop"
  /\ UNCHANGED <<userVars, err, silent, list, netVars, epoch, appVars>>

LoginSet ==
  /\ wpc = "logged"
  /\ login' = TRUE
  /\ epoch' = epoch + 1
  /\ wpc' = "test"
  /\ UNCHANGED <<userVars, err, conn, silent, list, netVars, appVars>>

WorkerTest ==
  /\ wpc = "test"
  /\ wpc' = IF silent THEN "release" ELSE "loop"
  /\ login' = (login /\ ~silent)
  /\ UNCHANGED <<userVars, err, conn, silent, list, netVars, epoch, appVars>>

WorkerLogoutPlat ==
  /\ \/ wpc = "release" /\ ReleaseStream /\ wpc' = "clear"
     \/ wpc = "clear" /\ ClearList /\ wpc' = "loop"
  /\ UNCHANGED <<userVars, login, err, silent, epoch, appVars>>

\* Twenty seconds pass without a message.
Silence ==
  /\ ~silent
  /\ silent' = TRUE
  /\ UNCHANGED <<userVars, wpc, login, err, conn, list, netVars, epoch, appVars>>

-----------------------------------------------------------------------------
(* InputData: two tests without a lock, then the push under m_csMsg *)

InputData(t) ==
  /\ apc[t] = "out" /\ login
  /\ apc' = [apc EXCEPT ![t] = "stop"]
  /\ aep' = [aep EXCEPT ![t] = epoch]
  /\ UNCHANGED <<userVars, wpc, login, err, conn, silent, list, netVars, epoch>>

InputDataStop(t) ==
  /\ apc[t] = "stop"
  /\ apc' = [apc EXCEPT ![t] = IF stop THEN "out" ELSE "push"]
  /\ UNCHANGED <<userVars, wpc, login, err, conn, silent, list, netVars, epoch, aep>>

InputDataPush(t) ==
  /\ apc[t] = "push" /\ Len(list) < QueueCap
  /\ list' = Append(list, [by |-> t, epoch |-> aep[t]])
  /\ apc' = [apc EXCEPT ![t] = "out"]
  /\ UNCHANGED <<userVars, wpc, login, err, conn, silent, netVars, epoch, aep>>

-----------------------------------------------------------------------------
(* OnPacketCompleteNetStreamData *)

Keep == UNCHANGED <<userVars, wpc, login, conn, list, epoch, appVars>>

\* m_bStreamIsError: whatever ends from now on, no read or write follows it.
PacketIgnored ==
  /\ err
  /\ \/ rd # "none" /\ rd' = "none" /\ UNCHANGED <<wr, sending>>
     \/ wr # "none" /\ wr' = "none" /\ sending' = <<>> /\ UNCHANGED rd
  /\ Keep /\ UNCHANGED <<err, silent>>

\* bytesTransferred < 0, or a head that announces more than the buffer holds.
PacketFails ==
  /\ ~err
  /\ err' = TRUE
  /\ \/ rd # "none" /\ rd' = "none" /\ UNCHANGED <<wr, sending>>
     \/ wr # "none" /\ wr' = "none" /\ sending' = <<>> /\ UNCHANGED rd
  /\ Keep /\ UNCHANGED silent

\* A message is complete with its body, or with a head that announces none.
ReadComplete ==
  /\ ~err /\ rd # "none"
  /\ \/ rd = "init" /\ rd' = "head" /\ UNCHANGED silent
     \/ rd = "head" /\ rd' = "body" /\ UNCHANGED silent
     \/ rd \in {"head", "body"} /\ rd' = "head" /\ silent' = FALSE
  /\ Keep /\ UNCHANGED <<err, wr, sending>>

\* Variant: every frame of the list is handed to the stream at once.
WriteComplete_All ==
  /\ ~err /\ wr # "none"
  /\ wr' = IF list = <<>> THEN "delay" ELSE "send"
  /\ sending' = list
  /\ Keep /\ UNCHANGED <<err, silent, rd>>

\* The front of the list is sent, and stays in the list.
WriteComplete ==
  /\ ~err /\ wr # "none"
  /\ wr' = IF list = <<>> THEN "delay" ELSE "send"
  /\ sending' = IF list = <<>> THEN <<>> ELSE <<Head(list)>>
  /\ Keep /\ UNCHANGED <<err, silent, rd>>

-----------------------------------------------------------------------------
User == Start \/ Stop \/ StopJoins \/ StopLogoutPlat

Worker ==
  \/ WorkerLoop
  \/ LoginAdvances
  \/ LoginSucceeds
  \/ LoginFails
  \/ LoginSet
  \/ WorkerTest
  \/ WorkerLogoutPlat

Network == Silence \/ PacketIgnored \/ PacketFails \/ ReadComplete \/ WriteComplete

Application(t) == InputData(t) \/ InputDataStop(t) \/ InputDataPush(t)

Next ==
  \/ User
  \/ Worker
  \/ Network
  \/ \E t \in Threads : Application(t)

Spec == Init /\ [][Next]_vars

-----------------------------------------------------------------------------
(* The inductive invariant, in parts. *)

\* The worker lives between Start and the join of Stop, and m_bLogin is set only
\* while it is in its loop.
Places ==
  /\ ~handle => wpc = "none" /\ ~login
  /\ upc \in {"release", "clear"} => ~handle
  /\ wpc \in {"link", "session", "login", "logged", "release", "clear"} => ~login

\* Whoever clears the list has released the stream, and a stream that is not
\* registered has no buffer.
Connections ==
  /\ wpc \in {"link", "clear"} => conn = "null"
  /\ wpc \in {"session", "login"} => conn = "open"
  /\ wpc \in {"loop", "test"} /\ ~login => conn = "null"
  /\ ~handle /\ upc \in {"idle", "clear"} => conn = "null"
  /\ conn # "live" => rd = "none" /\ wr = "none" /\ sending = <<>>

\* From LogoutPlat's end to the next login.
Cleared ==
  \/ wpc \in {"link", "session", "login", "logged"}
  \/ wpc \in {"loop", "test"} /\ ~login
  \/ ~handle /\ upc = "idle"

BroughtBy(t) == {i \in DOMAIN list : list[i].by = t}
StaleOf(t) == {i \in BroughtBy(t) : list[i].epoch < epoch}

\* In that time a thread finishes the call it is in, and begins no other.
OneFrameEach ==
  Cleared => \A t \in Threads :
    /\ apc[t] # "out" => BroughtBy(t) = {}
    /\ \A i, j \in BroughtBy(t) : i = j

\* A thread still in a call of an earlier login has brought no other stale frame.
StaleCallsBroughtNone ==
  \A t \in Threads : apc[t] # "out" /\ aep[t] < epoch => StaleOf(t) = {}

-----------------------------------------------------------------------------
(* Properties *)

\* While the stream writes, the buffer it was given is that of the front of the
\* list: no LogoutPlat, by Stop or by the worker, has given it back to the pool
\* (OnPacketCompleteNetStreamData's AsyncWrite of m_msgList.front()).
BufferOutlivesWrite ==
  /\ wr = "send" => sending # <<>>
  /\ sending # <<>> => list # <<>> /\ sending[1] = list[1]

\* A frame brought for an earlier login is in the list only because its thread
\* was inside InputData when LogoutPlat cleared the list: at most one of each
\* thread, however many logins and frames there were.
StaleFramesBounded == \A t \in Threads : \A i, j \in StaleOf(t) : i = j

=============================================================================
