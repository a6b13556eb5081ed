---------------------------- MODULE ClientStream ----------------------------
(***************************************************************************)
(* The client's live stream (XInternetTest/_IncludeClient/                 *)
(* XClientStream.cpp): the user's calls (Play, Close, Sound, Capture,      *)
(* Record, XDelete), the worker that logs in and notices silence, the      *)
(* voice thread, and the callbacks of the network library, which record,   *)
(* queue audio and create the decoder.                                     *)
(*                                                                         *)
(* External (XStream.hpp): Release waits for the callback that is running, *)
(* and none starts after it; SetStreamData brings a first READ callback of *)
(* 0 bytes and a first WRITE callback.                                     *)
(*                                                                         *)
(* The constructor sets none of the fields that Tidy resets: the model     *)
(* starts with the zeros of fresh memory.                                  *)
(***************************************************************************)
EXTENDS Integers, Sequences

CONSTANTS
  Windows,   \* TRUE for the Windows build, whose Play logs in itself
  Calls,     \* the calls the user makes
  Sessions,  \* session numbers the server hands out
  Formats,   \* what the six compared fields of ST_XMEDIA_AVHEAD may be
  Voices,    \* bound of the model: the voice threads that may run at once
  Buffers,   \* bound of the model: the audio buffers of the pool
  QueueCap   \* bound of the model: a longer send list is cut (the code has no limit)

AllCalls == {"play", "close", "delete", "sound", "mute", "capture", "record", "norecord"}

NoThread == "no thread"

ASSUME ConstAssumption ==
  /\ Windows \in BOOLEAN
  /\ Calls \subseteq AllCalls
  /\ NoThread \notin Voices
  /\ QueueCap \in Nat \ {0}

VARIABLES
  fault,    \* "none", or what a thread has misused: "voice", "list", "capture"
  upc,      \* the user's thread
  deleting, \* the Close it is in belongs to an XDelete
  account,  \* m_szIP, m_szUser and m_szPwd: Tidy erases them
  handle,   \* m_hWorkerThread # NULL
  stop,     \* m_bWorkerStop
  wpc,      \* the worker: "none", "loop", "login"
  lpc,      \* where Login is, on whichever thread runs it
  login,    \* m_bLogin
  status,   \* m_emClientNetStatus
  conn,     \* m_pTcpStream: "null", "open", "live" (SetStreamData done)
  silent,   \* CrossGetTickCount64() - m_dwLastTick > 15000
  sess,     \* m_nSessionID
  list,     \* m_msgList
  rd,       \* the pending read: "none", "init", "head", "body"
  wr,       \* TRUE if a WRITE callback is due
  cpc,      \* where the READ callback is in DoMsg, with a frame
  dec,      \* m_dec # NULL
  rec,      \* m_bRecodeMp4File
  hdr,      \* m_pFrameHeadTemp: the format of the file, or of none
  file,     \* m_pMp4File, and what has been written to it
  aac,      \* m_Voice # NULL
  vhandle,  \* m_hVoiceWorkerThread
  vstop,    \* m_hEvtVoiceWorkerStop
  vpc, vp,  \* each voice thread: where it is, and its p
  voice,    \* m_VoiceBufferList
  orphan    \* history: Close has forgotten a running voice thread

userVars == <<upc, deleting, account, handle, stop>>
loginVars == <<lpc, login, status, sess>>
netVars == <<conn, silent, list, rd, wr>>
msgVars == <<cpc, dec>>
recVars == <<rec, hdr, file>>
voiceVars == <<aac, vhandle, vstop, vpc, vp, voice, orphan>>
vars == <<fault, userVars, wpc, loginVars, netVars, msgVars, recVars, voiceVars>>

Types == {"I", "P", "A"}
NoFormat == "no format"
NoFile == [first |-> "none", fmts |-> {}]
NoBuffer == 0
Message == [kind : {"open", "hb"}, sess : Sessions]

TypeOK ==
  /\ fault \in {"none", "voice", "list", "capture"}
  /\ upc \in {"idle", "login", "start", "join", "release", "empty", "tidy",
              "capture", "mute", "unqueue", "gone"}
  /\ deleting \in BOOLEAN /\ account \in BOOLEAN /\ handle \in BOOLEAN /\ stop \in BOOLEAN
  /\ wpc \in {"none", "loop", "login"}
  /\ lpc \in {"none", "begin", "link", "session", "login", "register", "tick", "open"}
  /\ login \in BOOLEAN
  /\ status \in {"none", "connecting", "connected"}
  /\ conn \in {"null", "open", "live"}
  /\ silent \in BOOLEAN
  /\ sess \in Sessions
  /\ list \in Seq(Message)
  /\ rd \in {"none", "init", "head", "body"}
  /\ wr \in BOOLEAN
  /\ cpc \in {"none", "route", "queue", "decode"}
  /\ dec \in BOOLEAN
  /\ rec \in BOOLEAN
  /\ hdr \in Formats \cup {NoFormat}
  /\ file \in [first : Types \cup {"none"}, fmts : SUBSET Formats]
  /\ aac \in BOOLEAN /\ vstop \in BOOLEAN
  /\ vhandle \in Voices \cup {NoThread}
  /\ vpc \in [Voices -> {"none", "loop", "front", "decode", "pop"}]
  /\ vp \in [Voices -> Buffers \cup {NoBuffer}]
  /\ voice \in Seq(Buffers)
  /\ orphan \in BOOLEAN

Init ==
  /\ fault = "none"
  /\ upc = "idle"
  /\ deleting = FALSE
  /\ account = TRUE
  /\ handle = FALSE
  /\ stop = FALSE
  /\ wpc = "none"
  /\ lpc = "none"
  /\ login = FALSE
  /\ status = "none"
  /\ conn = "null"
  /\ silent = TRUE
  /\ sess \in Sessions
  /\ list = <<>>
  /\ rd = "none"
  /\ wr = FALSE
  /\ cpc = "none"
  /\ dec = FALSE
  /\ rec = FALSE
  /\ hdr = NoFormat
  /\ file = NoFile
  /\ aac = FALSE
  /\ vhandle = NoThread
  /\ vstop = FALSE
  /\ vpc = [v \in Voices |-> "none"]
  /\ vp = [v \in Voices |-> NoBuffer]
  /\ voice = <<>>
  /\ orphan = FALSE

-----------------------------------------------------------------------------
(* Helpers *)

\* Variant: the session number is left at zero.
AddSendMessge_NoSession(kind) ==
  list' = IF Len(list) < QueueCap THEN Append(list, [kind |-> kind, sess |-> 0]) ELSE list

\* AddSendMessge: the message is stamped with the session number.
AddSendMessge(kind) ==
  list' = IF Len(list) < QueueCap THEN Append(list, [kind |-> kind, sess |-> sess]) ELSE list

\* Release waits for the READ callback that is running; then nothing is pending.
ReleaseStream ==
  /\ cpc = "none"
  /\ conn' = "null"
  /\ rd' = "none"
  /\ wr' = FALSE

Queued == {voice[i] : i \in DOMAIN voice}

-----------------------------------------------------------------------------
(* The user: Play, Close, XDelete *)

Idle(call) == upc = "idle" /\ call \in Calls

\* The Windows build logs in on the user's thread before it starts the worker.
Play ==
  /\ Idle("play")
  /\ status' = IF Windows THEN "connecting" ELSE status
  /\ upc' = IF handle THEN "idle" ELSE IF Windows THEN "login" ELSE "start"
  /\ lpc' = IF Windows /\ ~handle THEN "begin" ELSE lpc
  /\ UNCHANGED <<fault, deleting, account, handle, stop, wpc, login, sess,
                 netVars, msgVars, recVars, voiceVars>>

StartWorker ==
  /\ upc = "start"
  /\ upc' = "idle"
  /\ stop' = FALSE
  /\ handle' = TRUE
  /\ wpc' = "loop"
  /\ UNCHANGED <<fault, deleting, account, loginVars, netVars, msgVars, recVars, voiceVars>>

Close ==
  /\ \E call \in {"close", "delete"} : Idle(call) /\ deleting' = (call = "delete")
  /\ upc' = IF handle THEN "join" ELSE "tidy"
  /\ stop' = (stop \/ handle)
  /\ UNCHANGED <<fault, account, handle, wpc, loginVars, netVars, msgVars, recVars, voiceVars>>

\* CrossWaitThread.
CloseJoin ==
  /\ upc = "join"
  /\ wpc = "none"
  /\ handle' = FALSE
  /\ upc' = "release"
  /\ UNCHANGED <<fault, deleting, account, stop, wpc, loginVars, netVars, msgVars,
                 recVars, voiceVars>>

CloseRelease ==
  /\ upc = "release"
  /\ ReleaseStream
  /\ dec' = FALSE
  /\ list' = <<>>
  /\ upc' = "empty"
  /\ UNCHANGED <<fault, deleting, account, handle, stop, wpc, loginVars, silent,
                 cpc, recVars, voiceVars>>

\* The audio list is emptied without its lock, whoever is reading it.
CloseEmpty ==
  /\ upc = "empty"
  /\ voice' = <<>>
  /\ upc' = "tidy"
  /\ UNCHANGED <<fault, deleting, account, handle, stop, wpc, loginVars, netVars,
                 msgVars, recVars, aac, vhandle, vstop, vpc, vp, orphan>>

\* Tidy zeroes every field: the account, the handle of a voice thread that runs
\* on, the open mp4 file. XDelete ends with "delete this".
Tidy ==
  /\ upc = "tidy"
  /\ upc' = IF deleting THEN "gone" ELSE "idle"
  /\ account' = FALSE
  /\ rec' = FALSE
  /\ hdr' = NoFormat
  /\ file' = NoFile
  /\ orphan' = (orphan \/ vhandle # NoThread)
  /\ vhandle' = NoThread
  /\ aac' = FALSE
  /\ login' = FALSE
  /\ status' = "none"
  /\ stop' = FALSE
  /\ UNCHANGED <<fault, deleting, handle, wpc, lpc, sess, netVars, msgVars,
                 vstop, vpc, vp, voice>>

-----------------------------------------------------------------------------
(* The user: Sound, CapturePictures, Record *)

KeepOthers == UNCHANGED <<deleting, account, handle, stop, wpc, loginVars, netVars>>

\* A second call replaces the decoder instance and keeps the thread.
SoundOn ==
  /\ Idle("sound")
  /\ aac' = TRUE
  /\ \/ /\ vhandle # NoThread
        /\ UNCHANGED <<vhandle, vstop, vpc>>
     \/ /\ vhandle = NoThread
        /\ vstop' = FALSE
        /\ \E v \in Voices :
             /\ vpc[v] = "none"
             /\ vhandle' = v
             /\ vpc' = [vpc EXCEPT ![v] = "loop"]
  /\ KeepOthers /\ UNCHANGED <<fault, upc, msgVars, recVars, vp, voice, orphan>>

\* m_Voice and the thread's handle are set and cleared together.
SoundOff ==
  /\ Idle("mute")
  /\ aac
  /\ vstop' = TRUE
  /\ upc' = "mute"
  /\ KeepOthers /\ UNCHANGED <<fault, msgVars, recVars, aac, vhandle, vpc, vp, voice, orphan>>

\* Variant: Sound does not wait for the voice thread.
SoundJoin_NoWait ==
  /\ upc = "mute"
  /\ vhandle' = NoThread
  /\ upc' = "unqueue"
  /\ KeepOthers /\ UNCHANGED <<fault, msgVars, recVars, aac, vstop, vpc, vp, voice, orphan>>

SoundJoin ==
  /\ upc = "mute"
  /\ vpc[vhandle] = "none"
  /\ vhandle' = NoThread
  /\ upc' = "unqueue"
  /\ KeepOthers /\ UNCHANGED <<fault, msgVars, recVars, aac, vstop, vpc, vp, voice, orphan>>

SoundEmpty ==
  /\ upc = "unqueue"
  /\ voice' = <<>>
  /\ aac' = FALSE
  /\ upc' = "idle"
  /\ KeepOthers /\ UNCHANGED <<fault, msgVars, recVars, vhandle, vstop, vpc, vp, orphan>>

Capture ==
  /\ Idle("capture")
  /\ dec
  /\ upc' = "capture"
  /\ KeepOthers /\ UNCHANGED <<fault, msgVars, recVars, voiceVars>>

\* The worker may have destroyed the decoder since the test.
CaptureUse ==
  /\ upc = "capture"
  /\ upc' = "idle"
  /\ fault' = IF dec THEN fault ELSE "capture"
  /\ KeepOthers /\ UNCHANGED <<msgVars, recVars, voiceVars>>

\* Under m_csRecord.
Record ==
  /\ \E call \in {"record", "norecord"} : Idle(call) /\ rec' = (call = "record")
  /\ file' = IF rec' THEN file ELSE NoFile
  /\ KeepOthers /\ UNCHANGED <<fault, upc, msgVars, hdr, voiceVars>>

UserStarts == Play \/ Close \/ SoundOn \/ SoundOff \/ Capture \/ Record

UserGoesOn ==
  \/ StartWorker
  \/ CloseJoin
  \/ CloseRelease
  \/ CloseEmpty
  \/ Tidy
  \/ SoundJoin
  \/ SoundEmpty
  \/ CaptureUse

-----------------------------------------------------------------------------
(* The worker *)

KeepWorker == UNCHANGED <<fault, userVars, sess, msgVars, recVars, voiceVars>>

\* Variant: the stop flag is not tested.
WorkerLoop_NoStop ==
  /\ wpc = "loop"
  /\ wpc' = IF login THEN "loop" ELSE "login"
  /\ lpc' = IF login THEN lpc ELSE "begin"
  /\ UNCHANGED <<login, status, netVars>>
  /\ KeepWorker

\* The top of the loop: stop, or log in. The wait after a failed login ends early.
WorkerLoop ==
  /\ wpc = "loop"
  /\ stop \/ ~login
  /\ wpc' = IF stop THEN "none" ELSE "login"
  /\ lpc' = IF stop THEN lpc ELSE "begin"
  /\ UNCHANGED <<login, status, netVars>>
  /\ KeepWorker

\* Variant: the status is not taken back.
WorkerSilent_KeepsStatus ==
  /\ wpc = "loop" /\ ~stop
  /\ login /\ silent
  /\ login' = FALSE
  /\ UNCHANGED <<wpc, lpc, status, netVars>>
  /\ KeepWorker

\* Variant: the silence is shown, and the login kept.
WorkerSilent_KeepsLogin ==
  /\ wpc = "loop" /\ ~stop
  /\ login /\ silent
  /\ status' = "connecting"
  /\ UNCHANGED <<wpc, lpc, login, netVars>>
  /\ KeepWorker

\* Fifteen seconds of silence.
WorkerSilent ==
  /\ wpc = "loop" /\ ~stop
  /\ login /\ silent
  /\ login' = FALSE
  /\ status' = "connecting"
  /\ UNCHANGED <<wpc, lpc, netVars>>
  /\ KeepWorker

WorkerBeat ==
  /\ wpc = "loop" /\ ~stop
  /\ login /\ ~silent
  /\ AddSendMessge("hb")
  /\ UNCHANGED <<wpc, lpc, login, status, conn, silent, rd, wr>>
  /\ KeepWorker

-----------------------------------------------------------------------------
(* Login, on the user's thread (Windows, first time) or on the worker *)

LoginGoes(here, there) == lpc = here /\ lpc' = there
KeepLogin == UNCHANGED <<fault, deleting, account, handle, stop, recVars, voiceVars>>

\* Login returns ok: the caller stores it in m_bLogin and goes on.
LoginReturn(ok) ==
  /\ lpc' = "none"
  /\ login' = ok
  /\ upc' = IF upc = "login" THEN "start" ELSE upc
  /\ wpc' = IF upc = "login" THEN wpc ELSE "loop"

\* Variant: the messages of the last session stay.
LoginBegin_KeepsList ==
  /\ LoginGoes("begin", "link")
  /\ ReleaseStream
  /\ dec' = FALSE
  /\ KeepLogin /\ UNCHANGED <<upc, wpc, login, status, sess, silent, list, cpc>>

\* The old stream, the messages for it and the decoder go.
LoginBegin ==
  /\ LoginGoes("begin", "link")
  /\ ReleaseStream
  /\ dec' = FALSE
  /\ list' = <<>>
  /\ KeepLogin /\ UNCHANGED <<upc, wpc, login, status, sess, silent, cpc>>

\* XNetConnectStream, or one of the two exchanges, succeeds; without the address
\* and the user that Tidy erased there is nothing to connect to.
LoginLink ==
  /\ LoginGoes("link", "session")
  /\ account
  /\ conn' = "open"
  /\ KeepLogin /\ UNCHANGED <<upc, wpc, login, status, sess, silent, list, rd, wr, msgVars>>

LoginSession ==
  /\ LoginGoes("session", "login")
  /\ sess' \in Sessions
  /\ KeepLogin /\ UNCHANGED <<upc, wpc, login, status, netVars, msgVars>>

LoginAccount ==
  /\ LoginGoes("login", "register")
  /\ KeepLogin /\ UNCHANGED <<upc, wpc, login, status, sess, netVars, msgVars>>

\* A failed step releases the stream.
LoginFail ==
  /\ lpc \in {"link", "session", "login"}
  /\ LoginReturn(FALSE)
  /\ conn' = "null"
  /\ KeepLogin /\ UNCHANGED <<status, sess, silent, list, rd, wr, msgVars>>

\* SetStreamData: the callbacks begin.
LoginRegister ==
  /\ LoginGoes("register", "tick")
  /\ conn' = "live"
  /\ rd' = "init"
  /\ wr' = TRUE
  /\ KeepLogin /\ UNCHANGED <<upc, wpc, login, status, sess, silent, list, msgVars>>

LoginTick ==
  /\ LoginGoes("tick", "open")
  /\ silent' = FALSE
  /\ status' = "connected"
  /\ KeepLogin /\ UNCHANGED <<upc, wpc, login, sess, conn, list, rd, wr, msgVars>>

LoginOpen ==
  /\ lpc = "open"
  /\ AddSendMessge("open")
  /\ LoginReturn(TRUE)
  /\ KeepLogin /\ UNCHANGED <<status, sess, conn, silent, rd, wr, msgVars>>

Login ==
  \/ LoginBegin
  \/ LoginLink
  \/ LoginSession
  \/ LoginAccount
  \/ LoginFail
  \/ LoginRegister
  \/ LoginTick
  \/ LoginOpen

-----------------------------------------------------------------------------
(* OnPacketCompleteNetStreamData and DoMsg, on the network library's threads *)

KeepIo == UNCHANGED <<fault, userVars, wpc, loginVars, conn>>

\* A callback that reports an error changes nothing; it only arms no other.
ReadFails ==
  /\ rd # "none"
  /\ rd' = "none"
  /\ KeepIo /\ UNCHANGED <<silent, list, wr, msgVars, recVars, voiceVars>>

WriteFails ==
  /\ wr
  /\ wr' = FALSE
  /\ KeepIo /\ UNCHANGED <<silent, list, rd, msgVars, recVars, voiceVars>>

ReadStart ==
  /\ rd = "init"
  /\ rd' = "head"
  /\ KeepIo /\ UNCHANGED <<silent, list, wr, msgVars, recVars, voiceVars>>

\* A header: of a message without a body, with one, or announcing too much.
ReadHead ==
  /\ rd = "head"
  /\ \/ rd' = "head" /\ silent' = FALSE
     \/ rd' \in {"body", "none"} /\ silent' = silent
  /\ KeepIo /\ UNCHANGED <<list, wr, msgVars, recVars, voiceVars>>

\* A body that is not a frame: DoMsg returns at once.
ReadOther ==
  /\ rd = "body"
  /\ rd' = "head"
  /\ silent' = FALSE
  /\ KeepIo /\ UNCHANGED <<list, wr, msgVars, recVars, voiceVars>>

\* Variant: the format of the open file is not compared.
RecordFrame_AnyFormat(type, fmt) ==
  \/ /\ ~rec
     /\ UNCHANGED recVars
  \/ /\ rec /\ file = NoFile
     /\ file' = IF type = "I" THEN [first |-> "I", fmts |-> {fmt}] ELSE NoFile
     /\ hdr' = IF type = "I" THEN fmt ELSE hdr
     /\ UNCHANGED rec
  \/ /\ rec /\ file # NoFile
     /\ file' = [file EXCEPT !.fmts = @ \cup {fmt}]
     /\ UNCHANGED <<rec, hdr>>

\* Under m_csRecord: a file of another format is closed, a file begins with an
\* I frame, and a frame is added to the file of its format.
RecordFrame(type, fmt) ==
  LET kept == IF hdr = fmt THEN file ELSE NoFile IN
  \/ /\ ~rec
     /\ UNCHANGED recVars
  \/ /\ rec /\ kept = NoFile
     /\ file' = IF type = "I" THEN [first |-> "I", fmts |-> {fmt}] ELSE NoFile
     /\ hdr' = IF type = "I" THEN fmt ELSE hdr
     /\ UNCHANGED rec
  \/ /\ rec /\ kept # NoFile
     /\ file' = [file EXCEPT !.fmts = @ \cup {fmt}]
     /\ UNCHANGED <<rec, hdr>>

\* A frame: DoMsg records it, then looks whether it is audio.
ReadFrame ==
  /\ rd = "body"
  /\ rd' = "none"
  /\ silent' = FALSE
  /\ \E type \in Types, fmt \in Formats :
       /\ RecordFrame(type, fmt)
       /\ cpc' = IF type = "A" THEN "route" ELSE "decode"
  /\ KeepIo /\ UNCHANGED <<list, wr, dec, voiceVars>>

\* Is there a voice thread for this audio frame?
DoRoute ==
  /\ cpc = "route"
  /\ cpc' = IF vhandle # NoThread THEN "queue" ELSE "decode"
  /\ KeepIo /\ UNCHANGED <<silent, list, rd, wr, dec, recVars, voiceVars>>

\* DoMsg has returned: the next header is asked for.
DoMsgEnds == cpc' = "none" /\ rd' = "head"

\* Pushed under m_csVoice, which Sound does not take to empty the list. The
\* model drops the frame when all its Buffers are in the list.
DoQueue ==
  /\ cpc = "queue"
  /\ DoMsgEnds
  /\ \/ \E b \in Buffers \ Queued : voice' = Append(voice, b)
     \/ Buffers \subseteq Queued /\ voice' = voice
  /\ fault' = IF upc = "unqueue" THEN "list" ELSE fault
  /\ UNCHANGED <<userVars, wpc, loginVars, conn, silent, list, wr, dec, recVars,
                 aac, vhandle, vstop, vpc, vp, orphan>>

\* The decoder is created by the first frame that comes here, audio included.
DoDecode ==
  /\ cpc = "decode"
  /\ DoMsgEnds
  /\ dec' = TRUE
  /\ KeepIo /\ UNCHANGED <<silent, list, wr, recVars, voiceVars>>

\* The head of the list is sent; with an empty list the callback asks to be called later.
WriteNext ==
  /\ wr /\ list # <<>>
  /\ list' = Tail(list)
  /\ KeepIo /\ UNCHANGED <<silent, rd, wr, msgVars, recVars, voiceVars>>

DoMsg == DoRoute \/ DoQueue \/ DoDecode

Network ==
  \/ ReadFails
  \/ WriteFails
  \/ ReadStart
  \/ ReadHead
  \/ ReadOther
  \/ ReadFrame
  \/ DoMsg
  \/ WriteNext

\* CrossGetTickCount64() passes m_dwLastTick + 15 s.
Silence ==
  /\ conn = "live"
  /\ ~silent
  /\ silent' = TRUE
  /\ KeepIo /\ UNCHANGED <<list, rd, wr, msgVars, recVars, voiceVars>>

-----------------------------------------------------------------------------
(* VoiceWorker: the front is taken outside the lock, and popped under it. *)

KeepVoice == UNCHANGED <<userVars, wpc, loginVars, netVars, msgVars, recVars,
                         aac, vhandle, vstop, orphan>>
VoiceGoes(v, there) == vpc' = [vpc EXCEPT ![v] = there]

\* The thread works with a deleted object, or with a buffer it does not have.
VoiceFaults == fault' = "voice" /\ UNCHANGED <<vpc, vp, voice>>

VoiceTest(v) ==
  /\ vpc[v] = "loop"
  /\ IF upc = "gone"
     THEN VoiceFaults
     ELSE /\ vstop \/ voice # <<>>
          /\ VoiceGoes(v, IF vstop THEN "none" ELSE "front")
          /\ UNCHANGED <<fault, vp, voice>>
  /\ KeepVoice

VoiceFront(v) ==
  /\ vpc[v] = "front"
  /\ IF upc = "gone" \/ voice = <<>>
     THEN VoiceFaults
     ELSE /\ vp' = [vp EXCEPT ![v] = Head(voice)]
          /\ VoiceGoes(v, "decode")
          /\ UNCHANGED <<fault, voice>>
  /\ KeepVoice

VoiceDecode(v) ==
  /\ vpc[v] = "decode"
  /\ IF upc = "gone" \/ ~aac \/ vp[v] \notin Queued
     THEN VoiceFaults
     ELSE /\ VoiceGoes(v, "pop")
          /\ UNCHANGED <<fault, vp, voice>>
  /\ KeepVoice

\* pop_front and free(p): the two are the same buffer only if nobody has popped
\* or emptied the list since the front was taken.
VoicePop(v) ==
  /\ vpc[v] = "pop"
  /\ IF upc \in {"gone", "empty", "unqueue"} \/ voice = <<>> \/ Head(voice) # vp[v]
     THEN VoiceFaults
     ELSE /\ voice' = Tail(voice)
          /\ vp' = [vp EXCEPT ![v] = NoBuffer]
          /\ VoiceGoes(v, "loop")
          /\ UNCHANGED fault
  /\ KeepVoice

Voice(v) == VoiceTest(v) \/ VoiceFront(v) \/ VoiceDecode(v) \/ VoicePop(v)

-----------------------------------------------------------------------------
Worker == WorkerLoop \/ WorkerSilent \/ WorkerBeat

\* The object is used no more, or the program has crashed.
Ended == (upc = "gone" \/ fault # "none") /\ UNCHANGED vars

Running == fault = "none"

Next ==
  \/ Running /\ UserStarts
  \/ Running /\ UserGoesOn
  \/ Running /\ Worker
  \/ Running /\ Login
  \/ Running /\ Network
  \/ Running /\ Silence
  \/ \E v \in Voices : Running /\ Voice(v)
  \/ Ended

Spec == Init /\ [][Next]_vars

\* The threads run on, and Release lets a waiting thread in between two
\* callbacks. Of the network only this is certain: a stream that is no longer
\* read becomes silent.
Fairness ==
  /\ SF_vars(Running /\ UserGoesOn)
  /\ SF_vars(Running /\ Login)
  /\ WF_vars(Running /\ Worker)
  /\ WF_vars(Running /\ DoMsg)
  /\ WF_vars(Running /\ rd = "none" /\ Silence)
  /\ \A v \in Voices : WF_vars(Running /\ Voice(v))

FairSpec == Spec /\ Fairness

-----------------------------------------------------------------------------
(* The inductive invariant, in parts. *)

\* Login runs on one thread at a time: on the user's before there is a worker,
\* on the worker afterwards.
Places ==
  /\ lpc # "none" <=> upc = "login" \/ wpc = "login"
  /\ ~handle => wpc = "none"
  /\ upc \in {"login", "start", "release", "empty", "tidy", "gone"} => ~handle

\* Login holds the stream it makes, its callbacks are due only once it is
\* registered, and nothing is queued before it ends.
Connections ==
  /\ conn = "open" <=> lpc \in {"session", "login", "register"}
  /\ lpc = "link" => conn = "null"
  /\ lpc \in {"tick", "open"} => conn = "live"
  /\ cpc # "none" \/ rd # "none" \/ wr => conn = "live"
  /\ lpc \notin {"none", "begin"} => list = <<>>

\* Whoever is about to log in, or has failed to, has not left "connected" behind.
StatusPlaces ==
  status = "connected" =>
    /\ lpc \in {"none", "open"}
    /\ wpc = "loop" \/ upc = "start" => login
    /\ handle \/ upc \in {"login", "start", "release", "empty", "tidy"}

\* As long as Close has forgotten none, the voice thread is the one Sound
\* started, and a frame it has taken is at the front of the list.
VoiceThreads ==
  /\ aac => vhandle # NoThread \/ upc = "unqueue"
  /\ vhandle # NoThread => aac
  /\ upc = "mute" => vhandle # NoThread
  /\ upc \in {"unqueue", "gone"} => vhandle = NoThread
  /\ ~orphan => \A v \in Voices :
       /\ v # vhandle => vpc[v] = "none"
       /\ vpc[v] \in {"front", "decode", "pop"} /\ upc # "tidy" => voice # <<>>
       /\ vpc[v] \in {"decode", "pop"} /\ upc # "tidy" => Head(voice) = vp[v]

-----------------------------------------------------------------------------
(* Properties *)

\* The channel to the stream server, seen from outside: Channel with the
\* greeting "open".
Link == INSTANCE Channel WITH
  Kinds <- {"open", "hb"},
  Greeting <- {"open"},
  Unlocked <- {},
  up <- conn = "live",
  greeted <- conn = "live" /\ lpc \notin {"tick", "open"},
  session <- sess,
  out <- IF conn = "live" THEN list ELSE <<>>

\* However the user's calls, silence and logins interleave, each connection
\* carries OPEN_STREAM once and first, and no message of an earlier session
\* (Login, AddSendMessge and the WRITE callback).
ImplementsChannel == Link!Spec

\* The voice thread, which reads m_VoiceBufferList outside its lock, never works
\* with a buffer it does not have, nor with a deleted object, unless a Close has
\* emptied the list and forgotten the thread (XClientStreamClose, VoiceWorker).
VoiceFaultsOnlyAfterClose ==
  fault = "voice" => orphan \/ (upc \in {"empty", "tidy"} /\ vhandle # NoThread)

\* A recording that is open was asked for, begins with an I frame and holds
\* frames of the format it was opened with only (DoMsg, XClientStreamRecord).
RecordingWhole ==
  file # NoFile => rec /\ file.first = "I" /\ file.fmts = {hdr}

\* "Connected" is shown only while there is a connection, or while Close is
\* taking it down (Worker, Login, XClientStreamClose).
StatusIsHonest ==
  status = "connected" => conn = "live" \/ upc \in {"empty", "tidy"}

\* A stream that is no longer read (an error, a header that is too long) is
\* noticed and released (the silence test of Worker).
DeadReadIsReleased ==
  (conn = "live" /\ rd = "none" /\ cpc = "none") ~> (conn # "live" \/ ~Running)

\* Every call of the user comes back, whatever the worker, the voice thread and
\* the callbacks are doing.
CallsReturn == (upc # "idle") ~> (upc \in {"idle", "gone"} \/ ~Running)

=============================================================================
