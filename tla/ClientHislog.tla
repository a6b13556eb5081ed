---------------------------- MODULE ClientHislog ----------------------------
(***************************************************************************)
(* Download and playback of a recording (XInternetTest/_IncludeClient/     *)
(* XClientHislog.cpp, CXClientHislog). The network library's thread        *)
(* appends frames to one buffer without any lock; a player thread takes    *)
(* them out under m_cs; the user's thread lists, downloads, seeks and      *)
(* writes an mp4 file under m_cs.                                          *)
(*                                                                         *)
(* A frame is its type and its time in milliseconds: "I" and "P" are video *)
(* frames (H264 or H265), "A" is an audio frame.                           *)
(*                                                                         *)
(* External (XStream.hpp): Release waits for the callback that is running. *)
(***************************************************************************)
EXTENDS Integers, Sequences, FiniteSets

CONSTANTS
  Intervals,     \* the <<begin, end>> times a user asks for
  Gaps,          \* milliseconds between two frames of a recording
  Elapsed,       \* milliseconds that decoding a frame may take
  SeekSeconds,   \* the seconds a user seeks to
  MaxFrames,     \* bound of the model on the frames downloaded (the code tests none)
  MaxDownloads,  \* bound of the model on the downloads with one object
  MaxOps,        \* bound of the model on the user's other calls
  MaxAudio       \* MAX_ONE_VIDEO_AUDIO_COUNT (16)

ASSUME BoundsAssumption ==
  /\ Intervals \subseteq Nat \X Nat
  /\ Gaps \subseteq Nat /\ Elapsed \subseteq Nat /\ SeekSeconds \subseteq Nat
  /\ MaxFrames \in Nat /\ MaxDownloads \in Nat /\ MaxOps \in Nat /\ MaxAudio \in Nat

VARIABLES
  lock,      \* who holds m_cs: "free", "user", "player"
  upc,       \* the user's thread
  downloads, ops, \* how many downloads and other calls it has made
  interval,  \* m_tmStartTime, m_tmEndTime
  conn,      \* m_pTcpStream: "null", "open", "live"
  rd,        \* the pending read: "none", "init", "head", "body"; and data_callback:
             \* "index", "copyhead", "copybody", "publish"
  arriving,  \* the frame of m_frameHead and m_pDataBuffer, if any
  clock,     \* the time the server's recording has reached
  file,      \* m_pDownFileBuffer: the frames copied completely
  idx,       \* m_nDownloadFileIndex: the frames published
  cur,       \* m_nCureFileIndex
  needI,     \* m_bNeedFirstIFrame
  ppc,       \* the player's thread
  found,     \* i, the frame GetNextVideoFrame is about to return
  given,     \* m_pFrame: the frame's number, nSleep and nAudioCount
  ret,       \* what the last PlayFrame did: played or not, and its return value
  shown,     \* history: the last frame returned since the start or a seek (-1: none)
  mp4        \* the mp4 writer: m, i and m_nWiteMp4FileProgress

userVars == <<upc, downloads, ops, interval>>
netVars == <<conn, rd, arriving, clock, file, idx>>
playVars == <<ppc, found, given, ret, shown>>
cursorVars == <<cur, needI>>
vars == <<lock, userVars, netVars, playVars, cursorVars, mp4>>

Frame == [type : {"I", "P", "A"}, t : Nat]
Video(f) == f.type \in {"I", "P"}
None == -1

TypeOK ==
  /\ lock \in {"free", "user", "player"}
  /\ upc \in {"idle", "wantlock", "login", "opened", "list", "write"}
  /\ downloads \in 0..MaxDownloads
  /\ ops \in 0..MaxOps
  /\ interval \in Nat \X Nat
  /\ conn \in {"null", "open", "live"}
  /\ rd \in {"none", "init", "head", "body", "index", "copyhead", "copybody", "publish"}
  /\ arriving \in Frame
  /\ clock \in Nat
  /\ file \in Seq(Frame)
  /\ idx \in Nat
  /\ cur \in Nat
  /\ needI \in BOOLEAN
  /\ ppc \in {"idle", "collect", "decode"}
  /\ found \in Nat
  /\ given \in [frame : Nat, sleep : Nat, audio : 0..MaxAudio]
  /\ ret \in [played : BOOLEAN, value : Int]
  /\ shown \in Nat \cup {None}
  /\ mp4 \in [m : Nat, i : Nat, progress : 0..100]

\* The counters start at 0, as in memory that was never used; the constructor
\* leaves them uninitialised, and with other values the indices mean nothing.
Init ==
  /\ lock = "free"
  /\ upc = "idle"
  /\ downloads = 0
  /\ ops = 0
  /\ interval \in Intervals
  /\ conn = "null"
  /\ rd = "none"
  /\ arriving = [type |-> "I", t |-> 0]
  /\ clock = 0
  /\ file = <<>>
  /\ idx = 0
  /\ cur = 0
  /\ needI = TRUE
  /\ ppc = "idle"
  /\ found = 0
  /\ given = [frame |-> 0, sleep |-> 0, audio |-> 0]
  /\ ret = [played |-> FALSE, value |-> 0]
  /\ shown = None
  /\ mp4 = [m |-> 0, i |-> 0, progress |-> 0]

-----------------------------------------------------------------------------
(* Frames are numbered from 0, as in m_pFileIndexArray. *)

At(n) == file[n + 1]

\* What a loop upwards through S finds.
First(i, S) == i \in S /\ \A j \in S : i <= j

\* Release waits for the running callback; m_pTcpStream = NULL.
InCallback == rd \in {"index", "copyhead", "copybody", "publish"}
ReleaseStream ==
  /\ ~InCallback
  /\ conn' = "null"
  /\ rd' = "none"

\* The difference of two times in whole seconds, 0 if it is negative.
SecondsBetween(a, b) == IF b < a THEN 0 ELSE (b - a) \div 1000

-----------------------------------------------------------------------------
(* The user's thread *)

Keep == UNCHANGED <<playVars, arriving, file, idx, mp4>>

\* DownloadHislog notes the interval before it takes the lock.
DownloadHislog ==
  /\ upc = "idle"
  /\ downloads < MaxDownloads
  /\ downloads' = downloads + 1
  /\ interval' \in Intervals
  /\ upc' = "wantlock"
  /\ UNCHANGED <<lock, ops, conn, rd, clock, cursorVars>> /\ Keep

\* Login releases the stream there is and connects a new one.
DownloadLogin ==
  /\ upc = "wantlock"
  /\ lock = "free"
  /\ lock' = "user"
  /\ upc' = "login"
  /\ ReleaseStream
  /\ UNCHANGED <<downloads, ops, interval, clock, cursorVars>> /\ Keep

DownloadOpen ==
  /\ upc = "login"
  /\ conn' = "open"
  /\ upc' = "opened"
  /\ UNCHANGED <<lock, downloads, ops, interval, rd, clock, cursorVars>> /\ Keep

\* Variant: a new download starts the buffer over, and forgets the player's cursor.
DownloadStarted_StartsOver ==
  /\ upc = "opened"
  /\ conn' = "live"
  /\ rd' = "init"
  /\ clock' = interval[1]
  /\ file' = <<>> /\ idx' = 0
  /\ lock' = "free"
  /\ upc' = "idle"
  /\ UNCHANGED <<downloads, ops, interval, cursorVars, playVars, arriving, mp4>>

\* The server agreed: the stream delivers. What was downloaded before stays, and is
\* followed by the new frames: no counter is reset.
DownloadStarted ==
  /\ upc = "opened"
  /\ conn' = "live"
  /\ rd' = "init"
  /\ clock' = interval[1]
  /\ lock' = "free"
  /\ upc' = "idle"
  /\ UNCHANGED <<downloads, ops, interval, cursorVars>> /\ Keep

\* The connection, the login or the request failed.
DownloadFailed ==
  /\ upc \in {"login", "opened"}
  /\ conn' = "null"
  /\ lock' = "free"
  /\ upc' = "idle"
  /\ UNCHANGED <<downloads, ops, interval, rd, clock, cursorVars>> /\ Keep

UserCalls == upc = "idle" /\ ops < MaxOps /\ ops' = ops + 1 /\ UNCHANGED <<downloads, interval>>

\* GetHisLogs logs in as well: it ends a download that is running.
GetHisLogs ==
  /\ UserCalls
  /\ lock = "free"
  /\ lock' = "user"
  /\ upc' = "list"
  /\ ReleaseStream
  /\ UNCHANGED <<clock, cursorVars>> /\ Keep

GetHisLogsDone ==
  /\ upc = "list"
  /\ lock' = "free"
  /\ upc' = "idle"
  /\ UNCHANGED <<downloads, ops, interval, conn, rd, clock, cursorVars>> /\ Keep

\* DownloadClose takes no lock.
DownloadClose ==
  /\ UserCalls
  /\ ReleaseStream
  /\ UNCHANGED <<lock, upc, clock, cursorVars>> /\ Keep

\* The frames that come later than second sec, counted from the first.
LaterThan(sec) == {z \in 0..(idx - 1) : SecondsBetween(At(0).t, At(z).t) > sec}

\* Seek compares the second with the number of frames first.
Seek(sec) ==
  /\ UserCalls
  /\ lock = "free"
  /\ IF sec < idx /\ LaterThan(sec) # {}
     THEN /\ \E z \in LaterThan(sec) : First(z, LaterThan(sec)) /\ cur' = z
          /\ needI' = TRUE
          /\ shown' = None
     ELSE UNCHANGED <<cur, needI, shown>>
  /\ UNCHANGED <<lock, upc, netVars, ppc, found, given, ret, mp4>>

Mp4Begin ==
  /\ UserCalls
  /\ lock = "free"
  /\ lock' = "user"
  /\ upc' = "write"
  /\ mp4' = [m |-> idx, i |-> 0, progress |-> 0]
  /\ UNCHANGED <<netVars, playVars, cursorVars>>

Mp4Progress(i, m) == (i * 100) \div m

Mp4Frame ==
  /\ upc = "write"
  /\ mp4.i < mp4.m
  /\ mp4' = [m |-> mp4.m, i |-> mp4.i + 1, progress |-> Mp4Progress(mp4.i, mp4.m)]
  /\ UNCHANGED <<lock, userVars, netVars, playVars, cursorVars>>

Mp4End ==
  /\ upc = "write"
  /\ mp4.i = mp4.m
  /\ mp4' = [mp4 EXCEPT !.progress = 100]
  /\ lock' = "free"
  /\ upc' = "idle"
  /\ UNCHANGED <<downloads, ops, interval, netVars, playVars, cursorVars>>

UserInCall ==
  \/ DownloadLogin
  \/ DownloadOpen
  \/ DownloadStarted
  \/ DownloadFailed
  \/ GetHisLogsDone
  \/ Mp4Frame
  \/ Mp4End

User ==
  \/ DownloadHislog
  \/ GetHisLogs
  \/ DownloadClose
  \/ \E sec \in SeekSeconds : Seek(sec)
  \/ Mp4Begin
  \/ UserInCall

-----------------------------------------------------------------------------
(* OnPacketCompleteNetStreamData and data_callback: no lock *)

KeepIo == UNCHANGED <<lock, userVars, conn, playVars, cursorVars, mp4>>

ReadStart ==
  /\ rd = "init"
  /\ rd' = "head"
  /\ KeepIo /\ UNCHANGED <<arriving, clock, file, idx>>

\* A head, and the next frame of the recording behind it.
ReadHead(type, gap) ==
  /\ rd = "head"
  /\ idx < MaxFrames
  /\ clock + gap <= interval[2]
  /\ clock' = clock + gap
  /\ arriving' = [type |-> type, t |-> clock + gap]
  /\ rd' = "body"
  /\ KeepIo /\ UNCHANGED <<file, idx>>

\* Head or body longer than the buffer, or the connection fails: the callback
\* returns, no read is armed; so does a recording that has come to its end.
ReadStops ==
  /\ rd \in {"init", "head", "body"}
  /\ rd' = "none"
  /\ KeepIo /\ UNCHANGED <<arriving, clock, file, idx>>

ReadBody ==
  /\ rd = "body"
  /\ rd' = "index"
  /\ KeepIo /\ UNCHANGED <<arriving, clock, file, idx>>

\* m_pFileIndexArray[m_nDownloadFileIndex] = m_nDownloadFileLen.
DataIndex ==
  /\ rd = "index"
  /\ rd' = "copyhead"
  /\ KeepIo /\ UNCHANGED <<arriving, clock, file, idx>>

\* Variant: the frame is published before its data is copied.
DataHead_PublishesFirst ==
  /\ rd = "copyhead"
  /\ rd' = "copybody"
  /\ idx' = idx + 1
  /\ KeepIo /\ UNCHANGED <<arriving, clock, file>>

DataHead ==
  /\ rd = "copyhead"
  /\ rd' = "copybody"
  /\ KeepIo /\ UNCHANGED <<arriving, clock, file, idx>>

DataBody ==
  /\ rd = "copybody"
  /\ rd' = "publish"
  /\ file' = Append(file, arriving)
  /\ KeepIo /\ UNCHANGED <<arriving, clock, idx>>

\* m_nDownloadFileIndex++, and the next head is read.
DataPublish ==
  /\ rd = "publish"
  /\ rd' = "head"
  /\ idx' = idx + 1
  /\ KeepIo /\ UNCHANGED <<arriving, clock, file>>

Callback == DataIndex \/ DataHead \/ DataBody \/ DataPublish

Network ==
  \/ ReadStart
  \/ \E type \in {"I", "P", "A"}, gap \in Gaps : ReadHead(type, gap)
  \/ ReadStops
  \/ ReadBody
  \/ Callback

-----------------------------------------------------------------------------
(* The player's thread: PlayFrameWindows and GetNextVideoFrame *)

KeepPlay == UNCHANGED <<userVars, netVars, mp4>>

\* The frames GetNextVideoFrame may start with, and the video frames after i.
Startable == {n \in cur..(idx - 1) : IF needI THEN At(n).type = "I" ELSE Video(At(n))}
VideosAfter(i) == {n \in (i + 1)..(idx - 1) : Video(At(n))}
AudioBetween(i, k) == {n \in (i + 1)..(k - 1) : At(n).type = "A"}

NothingToPlay == ret' = [played |-> FALSE, value |-> 0]

\* First loop: the first frame to start with; m_bNeedFirstIFrame is cleared.
FindFrame ==
  /\ ppc = "idle"
  /\ lock = "free"
  /\ IF Startable = {}
     THEN NothingToPlay /\ UNCHANGED <<lock, ppc, found, needI>>
     ELSE /\ \E i \in Startable : First(i, Startable) /\ found' = i
          /\ needI' = FALSE
          /\ lock' = "player"
          /\ ppc' = "collect"
          /\ UNCHANGED ret
  /\ UNCHANGED <<cur, given, shown>> /\ KeepPlay

\* nSleep: the distance to the next video frame, or 33 if that is odd.
NSleep(i, k) ==
  LET gap == At(k).t - At(i).t
  IN  IF gap < 0 \/ gap > 1000 THEN 33 ELSE gap

\* Variant: the cursor goes past the frame that was only looked at.
Advance_OnePast(k) == k + 1

\* Variant: the cursor stays on the frame shown.
Advance_Stays(k) == found

Advance(k) == k

\* Variant: the audio frames are not counted against the buffers there are.
AudioCount_NoLimit(i, k) == Cardinality(AudioBetween(i, k))

AudioCount(i, k) ==
  LET n == Cardinality(AudioBetween(i, k)) IN IF n < MaxAudio THEN n ELSE MaxAudio

\* Second loop: the next video frame, and the audio frames before it. If there
\* is none yet, the cursor stays, and so does the cleared flag.
Collect ==
  /\ ppc = "collect"
  /\ IF VideosAfter(found) = {}
     THEN /\ NothingToPlay
          /\ ppc' = "idle"
          /\ UNCHANGED <<cur, given, shown>>
     ELSE \E k \in VideosAfter(found) :
            /\ First(k, VideosAfter(found))
            /\ cur' = Advance(k)
            /\ given' = [frame |-> found, sleep |-> NSleep(found, k),
                         audio |-> AudioCount(found, k)]
            /\ shown' = found
            /\ ppc' = "decode"
            /\ UNCHANGED ret
  /\ lock' = "free"
  /\ UNCHANGED <<found, needI>> /\ KeepPlay

\* C's division, which rounds towards zero.
Truncate(x, y) == IF x >= 0 THEN x \div y ELSE -((-x) \div y)

\* The frame is decoded; the return value is the time left until the next.
Decode ==
  /\ ppc = "decode"
  /\ \E e \in Elapsed : ret' = [played |-> TRUE, value |-> Truncate(given.sleep - e, 15) * 15]
  /\ ppc' = "idle"
  /\ UNCHANGED <<lock, found, given, shown, cursorVars>> /\ KeepPlay

Player == FindFrame \/ Collect \/ Decode

-----------------------------------------------------------------------------
Next == User \/ Network \/ Player

Spec == Init /\ [][Next]_vars

\* The player is called again and again, a call of the user's thread goes on
\* (its network exchanges have time limits), and a callback that runs ends.
\* The lock is given to the player in turn.
Running ==
  /\ SF_vars(FindFrame) /\ WF_vars(Collect \/ Decode)
  /\ WF_vars(UserInCall)
  /\ WF_vars(Callback)

RunningSpec == Spec /\ Running

-----------------------------------------------------------------------------
(* The inductive invariant, in parts. *)

\* The frames published are those copied, but for one that waits to be published.
Published == Len(file) = IF rd = "publish" THEN idx + 1 ELSE idx

\* m_cs has one holder, and the holder is in a call that takes it.
LockHeld ==
  /\ lock = "user" <=> upc \in {"login", "opened", "list", "write"}
  /\ lock = "player" <=> ppc = "collect"

VideoFrom(i) == {n \in i..(idx - 1) : Video(At(n))}

\* Between two frames of a playback the cursor stands on the next video frame,
\* which is the one the first loop finds.
CursorOnNext ==
  /\ shown # None => ~needI /\ First(cur, VideoFrom(shown + 1))
  /\ ppc = "collect" =>
       ~needI /\ found < idx /\ Video(At(found)) /\ (shown # None => found = cur)

\* While the user's thread connects, no read of an earlier download is pending.
Disconnected == upc \in {"login", "opened"} => rd = "none"

(* Safety *)

\* The player, which never waits for the network thread, only sees frames that
\* are completely in the buffer: the count is raised last.
PublishedIsComplete == idx <= Len(file)

\* The player's cursor, the frame it has found and the length the mp4 writer noted stay
\* within the frames published, also while a further download is started or seeks and
\* lists come between: what they index is in the buffer.
ReadersBehindDownload ==
  /\ cur < idx \/ cur = 0
  /\ ppc # "idle" => found < idx
  /\ upc = "write" => mp4.m <= idx

\* Playback goes from one video frame to the very next, however the download
\* and the player interleave, until the user seeks.
NoFrameSkipped ==
  [][shown' \notin {shown, None} /\ shown # None =>
       First(shown', {n \in (shown + 1)..(Len(file) - 1) : Video(At(n))})]_vars

\* "when playing starts, first take the first I frame and show it"
\* (bak/DownloadCallback.hpp:16): the first frame of a playback is an I frame.
StartsWithIFrame ==
  [][shown = None /\ shown' # None => At(shown').type = "I"]_vars

\* ">0 is the interval to the next frame, -1 failure, 0 no data"
\* (XClientStructDefine.h:67): a call that played a frame returns more than 0.
ReturnTellsPlayed == ret.played => ret.value > 0

(* Liveness *)

\* An I frame that is followed by another video frame is passed sooner or later,
\* whatever the user's thread does meanwhile.
PlaybackAdvances ==
  \A n \in 0..(MaxFrames - 1) :
    (n < idx /\ cur <= n /\ At(n).type = "I" /\ VideosAfter(n) # {}) ~> cur > n
=============================================================================
