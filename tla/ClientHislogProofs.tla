------------------------- MODULE ClientHislogProofs -------------------------
(***************************************************************************)
(* Proofs about ClientHislog, for every interval, gap, seek time and bound *)
(* of the model. The network thread takes no lock, so the argument is one  *)
(* about order: a frame is counted after it has been copied, and a frame   *)
(* once counted never changes.                                             *)
(***************************************************************************)
EXTENDS ClientHislog, FiniteSetTheorems, TLAPS

\* The part of the types that the proofs need.
Typed ==
  /\ file \in Seq(Frame)
  /\ arriving \in Frame
  /\ clock \in Nat
  /\ interval \in Nat \X Nat
  /\ idx \in Nat
  /\ cur \in Nat
  /\ found \in Nat
  /\ needI \in BOOLEAN
  /\ shown \in Nat \cup {None}

IInv == Typed /\ Published /\ LockHeld /\ Disconnected /\ CursorOnNext

\* A fresh object satisfies the invariant.
LEMMA InitIInv == Init => IInv
<1> SUFFICES ASSUME Init PROVE IInv
  OBVIOUS
<1>1. file \in Seq(Frame) /\ Len(file) = 0
  BY DEF Init
<1>2. Typed
  BY <1>1, BoundsAssumption DEF Init, Typed, Frame, BoundsAssumption
<1>3. QED
  BY <1>1, <1>2 DEF Init, IInv, Published, LockHeld, Disconnected, CursorOnNext

\* What the steps of the user's thread leave as it is.
LEMMA UserKeeps ==
  ASSUME IInv, User
  PROVE  /\ UNCHANGED <<arriving, file, idx, ppc, found>>
         /\ (rd' = "publish") = (rd = "publish")
         /\ clock' \in Nat /\ interval' \in Nat \X Nat
         /\ \/ UNCHANGED <<cur, needI, shown>>
            \/ cur' \in Nat /\ needI' = TRUE /\ shown' = None /\ ppc # "collect"
         /\ LockHeld' /\ Disconnected'
<1> USE DEF IInv, LockHeld, Disconnected, Typed
<1>1. CASE DownloadHislog
  BY <1>1, BoundsAssumption DEF DownloadHislog, Keep, playVars, cursorVars, BoundsAssumption
<1>2. CASE DownloadLogin
  BY <1>2 DEF DownloadLogin, ReleaseStream, InCallback, Keep, playVars, cursorVars
<1>3. CASE DownloadOpen
  BY <1>3 DEF DownloadOpen, Keep, playVars, cursorVars
<1>4. CASE DownloadStarted
  BY <1>4 DEF DownloadStarted, Keep, playVars, cursorVars
<1>5. CASE DownloadFailed
  BY <1>5 DEF DownloadFailed, Keep, playVars, cursorVars
<1>6. CASE GetHisLogs
  BY <1>6 DEF GetHisLogs, UserCalls, ReleaseStream, InCallback, Keep, playVars, cursorVars
<1>7. CASE GetHisLogsDone
  BY <1>7 DEF GetHisLogsDone, Keep, playVars, cursorVars
<1>8. CASE DownloadClose
  BY <1>8 DEF DownloadClose, UserCalls, ReleaseStream, InCallback, Keep, playVars, cursorVars
<1>9. ASSUME NEW sec \in SeekSeconds, Seek(sec)
      PROVE  /\ UNCHANGED <<lock, upc, arriving, file, idx, ppc, found, rd, clock, interval>>
             /\ \/ UNCHANGED <<cur, needI, shown>>
                \/ cur' \in Nat /\ needI' = TRUE /\ shown' = None /\ ppc # "collect"
  <2>1. UNCHANGED <<lock, upc, arriving, file, idx, ppc, found, rd, clock, interval>>
    BY <1>9 DEF Seek, UserCalls, netVars
  <2>2. CASE sec < idx /\ LaterThan(sec) # {}
    <3>1. needI' = TRUE /\ shown' = None /\ ppc # "collect"
      BY <1>9, <2>2 DEF Seek
    <3>2. PICK z \in LaterThan(sec) : cur' = z
      BY <1>9, <2>2 DEF Seek
    <3>3. z \in 0..(idx - 1)
      BY <3>2 DEF LaterThan
    <3>4. cur' \in Nat
      BY <3>2, <3>3
    <3>5. QED
      BY <2>1, <3>1, <3>4, Zenon
  <2>3. CASE ~(sec < idx /\ LaterThan(sec) # {})
    BY <1>9, <2>1, <2>3 DEF Seek
  <2>4. QED
    BY <2>2, <2>3
<1>10. CASE Mp4Begin
  BY <1>10 DEF Mp4Begin, UserCalls, netVars, playVars, cursorVars
<1>11. CASE Mp4Frame
  BY <1>11 DEF Mp4Frame, userVars, netVars, playVars, cursorVars
<1>12. CASE Mp4End
  BY <1>12 DEF Mp4End, netVars, playVars, cursorVars
<1>13. QED
  BY <1>1, <1>2, <1>3, <1>4, <1>5, <1>6, <1>7, <1>8, <1>9, <1>10, <1>11, <1>12
     DEF User, UserInCall

\* What the steps of the network library's thread leave as it is: they only
\* append a frame, or count one that has been appended.
LEMMA NetworkKeeps ==
  ASSUME IInv, Network
  PROVE  /\ UNCHANGED <<lock, userVars, ppc, found, shown, cursorVars>>
         /\ arriving' \in Frame /\ clock' \in Nat
         /\ Published' /\ Disconnected'
         /\ \/ file' = file /\ idx' = idx
            \/ file' = Append(file, arriving) /\ idx' = idx
            \/ file' = file /\ idx' = idx + 1 /\ Len(file) = idx + 1
<1> USE DEF IInv, Typed, Published, Disconnected, KeepIo, playVars, userVars
<1>1. CASE ReadStart
  BY <1>1 DEF ReadStart
<1>2. ASSUME NEW type \in {"I", "P", "A"}, NEW gap \in Gaps, ReadHead(type, gap)
      PROVE  /\ UNCHANGED <<lock, userVars, ppc, found, shown, cursorVars, file, idx>>
             /\ arriving' \in Frame /\ clock' \in Nat
             /\ Published' /\ Disconnected'
  BY <1>2, BoundsAssumption DEF ReadHead, Frame, BoundsAssumption
<1>3. CASE ReadStops
  BY <1>3 DEF ReadStops
<1>4. CASE ReadBody
  BY <1>4 DEF ReadBody
<1>5. CASE DataIndex
  BY <1>5 DEF DataIndex
<1>6. CASE DataHead
  BY <1>6 DEF DataHead
<1>7. CASE DataBody
  BY <1>7 DEF DataBody
<1>8. CASE DataPublish
  BY <1>8 DEF DataPublish
<1>9. QED
  BY <1>1, <1>2, <1>3, <1>4, <1>5, <1>6, <1>7, <1>8 DEF Network, Callback

\* The frames counted stay what they are.
LEMMA FramesStay ==
  ASSUME IInv, Network, NEW n \in 0..(idx - 1)
  PROVE  At(n)' = At(n)
<1>1. n + 1 \in 1..Len(file)
  BY DEF IInv, Typed, Published
<1>2. \/ file' = file
      \/ file' = Append(file, arriving)
  BY NetworkKeeps
<1>3. QED
  BY <1>1, <1>2 DEF IInv, Typed, At

\* If the first loop finds a frame between two frames of a playback, it is the
\* one at the cursor.
LEMMA FirstLoopFindsCursor ==
  ASSUME IInv, shown # None, NEW i, First(i, Startable)
  PROVE  i = cur
<1>1. ~needI /\ cur \in VideoFrom(shown + 1)
  BY DEF IInv, CursorOnNext, First
<1>2. cur \in Startable
  BY <1>1 DEF Startable, VideoFrom, IInv, Typed
<1>3. i \in cur..(idx - 1) /\ i <= cur
  BY <1>2 DEF First, Startable
<1>4. QED
  BY <1>3 DEF IInv, Typed

\* The steps of the player.
LEMMA PlayerKeeps ==
  ASSUME IInv, Player
  PROVE  /\ UNCHANGED <<upc, interval, netVars>>
         /\ cur' \in Nat /\ found' \in Nat /\ needI' \in BOOLEAN /\ shown' \in Nat \cup {None}
         /\ LockHeld' /\ CursorOnNext'
         /\ shown' # shown => ppc = "collect" /\ shown' = found
<1> USE DEF IInv, Typed, LockHeld
<1>1. CASE FindFrame
  <2>1. UNCHANGED <<upc, interval, netVars, cur, shown>>
    BY <1>1 DEF FindFrame, KeepPlay, userVars
  <2>2. VideoFrom(shown + 1)' = VideoFrom(shown + 1)
    BY <2>1 DEF VideoFrom, At, Video, netVars
  <2>3. CASE Startable = {}
    BY <1>1, <2>1, <2>2, <2>3 DEF FindFrame, CursorOnNext, First, netVars, At, Video
  <2>4. CASE Startable # {}
    <3>1. /\ First(found', Startable)
          /\ needI' = FALSE /\ lock = "free" /\ lock' = "player" /\ ppc' = "collect"
      BY <1>1, <2>4 DEF FindFrame
    <3>2. found' \in cur..(idx - 1) /\ Video(At(found'))
      BY <3>1 DEF First, Startable, Video
    <3>3. shown # None => found' = cur
      BY <3>1, FirstLoopFindsCursor
    <3>4. shown # None => First(cur, VideoFrom(shown + 1))'
      BY <2>1, <2>2 DEF CursorOnNext, First
    <3>5. CursorOnNext'
      BY <2>1, <3>1, <3>2, <3>3, <3>4 DEF CursorOnNext, netVars, At, Video
    <3>6. lock = "free" /\ found' \in Nat /\ needI' \in BOOLEAN
      <4>1. lock = "free"
        BY <1>1 DEF FindFrame
      <4>2. found' \in Nat
        BY <3>2
      <4>3. needI' \in BOOLEAN
        BY <3>1
      <4>4. QED
        BY <4>1, <4>2, <4>3
    <3>7. LockHeld'
      BY <2>1, <3>1, <3>6
    <3>8. QED
      BY <2>1, <3>5, <3>6, <3>7
  <2>5. QED
    BY <2>3, <2>4
<1>2. CASE Collect
  <2>1. UNCHANGED <<upc, interval, netVars, needI, found>> /\ lock' = "free" /\ ppc' \in {"idle", "decode"}
    BY <1>2 DEF Collect, KeepPlay, userVars
  <2>2. CASE VideosAfter(found) = {}
    <3>1. UNCHANGED <<cur, shown>>
      BY <1>2, <2>2 DEF Collect
    <3>2. CursorOnNext'
      BY <2>1, <3>1 DEF CursorOnNext, VideoFrom, First, At, Video, netVars
    <3>3. QED
      BY <1>2, <2>1, <3>1, <3>2 DEF Collect
  <2>3. CASE VideosAfter(found) # {}
    <3>1. PICK k \in VideosAfter(found) :
            First(k, VideosAfter(found)) /\ cur' = k /\ shown' = found /\ ppc' = "decode"
      BY <1>2, <2>3 DEF Collect, Advance
    <3>2. ppc = "collect" /\ k \in Nat
      BY <1>2, <3>1 DEF Collect, VideosAfter
    <3>3. ~needI
      BY <3>2 DEF CursorOnNext
    <3>4. VideoFrom(shown + 1)' = VideosAfter(found)
      BY <2>1, <3>1 DEF VideoFrom, VideosAfter, At, Video, netVars
    <3>5. First(cur, VideoFrom(shown + 1))'
      BY <3>1, <3>4 DEF First
    <3>6. CursorOnNext'
      BY <2>1, <3>1, <3>3, <3>5 DEF CursorOnNext
    <3>7. QED
      BY <1>2, <2>1, <3>1, <3>2, <3>6 DEF Collect
  <2>4. QED
    BY <2>2, <2>3
<1>3. CASE Decode
  BY <1>3 DEF Decode, KeepPlay, userVars, cursorVars, CursorOnNext, VideoFrom, First, At, Video, netVars
<1>4. QED
  BY <1>1, <1>2, <1>3 DEF Player

\* A range of frames that ends before the count grows with it.
LEMMA RangeGrows ==
  \A x, y, n \in Nat : x <= y => n..(x - 1) \subseteq n..(y - 1)
  OBVIOUS

\* Every step preserves the invariant.
LEMMA NextIInv == IInv /\ [Next]_vars => IInv'
<1> SUFFICES ASSUME IInv, [Next]_vars PROVE IInv'
  OBVIOUS
<1>1. CASE User
  <2>1. Typed' /\ Published' /\ LockHeld' /\ Disconnected'
    BY <1>1, UserKeeps DEF IInv, Typed, Published
  <2>2. UNCHANGED <<file, idx, ppc, found>>
    BY <1>1, UserKeeps
  <2>3. CASE UNCHANGED <<cur, needI, shown>>
    <3>1. First(cur, VideoFrom(shown + 1))' = First(cur, VideoFrom(shown + 1))
      BY <2>2, <2>3 DEF First, VideoFrom, At, Video
    <3>2. Video(At(found))' = Video(At(found))
      BY <2>2 DEF At, Video
    <3>3. QED
      BY <2>1, <2>2, <2>3, <3>1, <3>2 DEF IInv, CursorOnNext
  <2>4. CASE shown' = None /\ ppc # "collect"
    BY <2>1, <2>2, <2>4 DEF IInv, CursorOnNext
  <2>5. QED
    BY <1>1, <2>3, <2>4, UserKeeps
<1>2. CASE Network
  <2>1. /\ UNCHANGED <<lock, userVars, ppc, found, shown, cursorVars>>
        /\ Published' /\ Disconnected'
        /\ idx' \in Nat /\ idx <= idx'
    BY <1>2, NetworkKeeps DEF IInv, Typed
  <2>2. Typed' /\ LockHeld'
    <3>1. Append(file, arriving) \in Seq(Frame)
      BY DEF IInv, Typed
    <3>2. QED
      BY <1>2, <2>1, <3>1, NetworkKeeps DEF IInv, Typed, LockHeld, userVars, cursorVars
  <2>3. ASSUME shown # None PROVE First(cur, VideoFrom(shown + 1))'
    <3>1. First(cur, VideoFrom(shown + 1))
      BY <2>3 DEF IInv, CursorOnNext
    <3>2. shown \in Nat /\ cur \in (shown + 1)..(idx - 1) /\ Video(At(cur))
      BY <2>3, <3>1 DEF First, VideoFrom, IInv, Typed
    <3>3. Video(At(cur))'
      <4>1. cur \in 0..(idx - 1)
        BY <3>2 DEF IInv, Typed
      <4>2. At(cur)' = At(cur)
        BY <1>2, <2>1, <4>1, FramesStay DEF cursorVars, At
      <4>3. QED
        BY <3>2, <4>2 DEF Video
    <3>4. cur \in VideoFrom(shown + 1)'
      <4>1. cur \in (shown' + 1)..(idx' - 1)
        <5>1. idx \in Nat /\ idx' \in Nat /\ shown + 1 \in Nat
          BY <2>1, <3>2 DEF IInv, Typed
        <5>2. idx <= idx'
          BY <2>1
        <5>3. cur \in (shown + 1)..(idx' - 1)
          BY <3>2, <5>1, <5>2, RangeGrows
        <5>4. QED
          BY <2>1, <5>3
      <4>2. cur' = cur
        BY <2>1 DEF cursorVars
      <4>3. Video(At(cur)')
        BY <3>3 DEF Video
      <4>4. cur \in {n \in (shown' + 1)..(idx' - 1) : Video(At(n)')}
        BY <4>1, <4>2, <4>3 DEF At
      <4>5. QED
        BY <4>4 DEF VideoFrom, Video
    <3>5. ASSUME NEW n \in VideoFrom(shown + 1)' PROVE cur <= n
      <4>1. n \in (shown + 1)..(idx' - 1) /\ Video(At(n)')
        BY <2>1, <3>5 DEF VideoFrom, At, Video
      <4>2. CASE n < idx
        <5>1. n \in 0..(idx - 1) /\ n \in (shown + 1)..(idx - 1)
          BY <3>2, <4>1, <4>2 DEF IInv, Typed
        <5>2. n \in VideoFrom(shown + 1)
          BY <1>2, <4>1, <5>1, FramesStay DEF VideoFrom
        <5>3. QED
          BY <3>1, <5>2 DEF First
      <4>3. CASE idx <= n
        BY <2>1, <3>2, <4>1, <4>3 DEF IInv, Typed
      <4>4. QED
        BY <2>1, <3>2, <4>1, <4>2, <4>3 DEF IInv, Typed
    <3>6. QED
      BY <2>1, <3>4, <3>5 DEF First, cursorVars
  <2>4. ASSUME ppc = "collect" PROVE found < idx' /\ Video(At(found))'
    BY <1>2, <2>1, <2>4, FramesStay DEF IInv, CursorOnNext, Typed, Video
  <2>5. CursorOnNext'
    BY <2>1, <2>3, <2>4 DEF IInv, CursorOnNext, cursorVars
  <2>6. QED
    BY <2>1, <2>2, <2>5 DEF IInv
<1>3. CASE Player
  BY <1>3, PlayerKeeps DEF IInv, Typed, Published, Disconnected, netVars
<1>4. CASE UNCHANGED vars
  BY <1>4 DEF vars, userVars, netVars, playVars, cursorVars, IInv, Typed, Published, LockHeld,
              Disconnected, CursorOnNext, First, VideoFrom, At, Video
<1>5. QED
  BY <1>1, <1>2, <1>3, <1>4 DEF Next

\* What a playback shows next is the very next video frame.
LEMMA NextShown ==
  IInv /\ [Next]_vars =>
    (shown' \notin {shown, None} /\ shown # None =>
       First(shown', {n \in (shown + 1)..(Len(file) - 1) : Video(At(n))}))
<1> SUFFICES ASSUME IInv, [Next]_vars, shown' # shown, shown' # None, shown # None
             PROVE  First(shown', {n \in (shown + 1)..(Len(file) - 1) : Video(At(n))})
  OBVIOUS
<1>1. Player
  BY UserKeeps, NetworkKeeps DEF Next, vars, playVars
<1>2. ppc = "collect" /\ shown' = found
  BY <1>1, PlayerKeeps
<1>3. shown' = cur
  BY <1>2 DEF IInv, CursorOnNext
<1>4. First(cur, VideoFrom(shown + 1))
  BY DEF IInv, CursorOnNext
<1>5. Len(file) \in Nat /\ idx <= Len(file)
  BY DEF IInv, Typed, Published
<1>6. QED
  BY <1>3, <1>4, <1>5 DEF First, VideoFrom, IInv, Typed

\* The invariant holds in every behaviour of the download and its player.
THEOREM InvariantHolds == Spec => []IInv
<1>1. QED
  BY InitIInv, NextIInv, PTL DEF Spec

\* The player, which never waits for the network thread, only ever sees frames
\* whose data is complete in the download buffer.
THEOREM PublishedCompletely == Spec => []PublishedIsComplete
<1>1. IInv => PublishedIsComplete
  BY DEF IInv, Typed, Published, PublishedIsComplete
<1>2. QED
  BY <1>1, InvariantHolds, PTL

\* However download, player and user interleave, playback goes from one video
\* frame to the very next until the user seeks.
THEOREM PlaybackInOrder == Spec => NoFrameSkipped
<1>1. QED
  BY InvariantHolds, NextShown, PTL DEF Spec, NoFrameSkipped

-----------------------------------------------------------------------------
(* The types of what is left *)

\* The part of the types that is not in Typed.
Places ==
  /\ lock \in {"free", "user", "player"}
  /\ upc \in {"idle", "wantlock", "login", "opened", "list", "write"}
  /\ downloads \in 0..MaxDownloads
  /\ ops \in 0..MaxOps
  /\ conn \in {"null", "open", "live"}
  /\ rd \in {"none", "init", "head", "body", "index", "copyhead", "copybody", "publish"}
  /\ ppc \in {"idle", "collect", "decode"}

Given ==
  /\ given \in [frame : Nat, sleep : Nat, audio : 0..MaxAudio]
  /\ ret \in [played : BOOLEAN, value : Int]

\* While the file is written its progress is below 100.
Writing ==
  /\ mp4 \in [m : Nat, i : Nat, progress : 0..100]
  /\ upc = "write" => mp4.progress < 100

\* A part of a whole in hundredths, rounded down.
LEMMA Hundredths ==
  ASSUME NEW i \in Nat, NEW m \in Nat, i < m
  PROVE  Mp4Progress(i, m) \in 0..99
<1>1. m > 0 /\ i * 100 < m * 100 /\ i * 100 >= 0
  OBVIOUS
<1> DEFINE q == (i * 100) \div m
<1>2. q \in Int /\ m * q <= i * 100 /\ i * 100 < m * q + m
  BY <1>1
<1>3. q < 100
  BY <1>1, <1>2
<1>4. q >= 0
  BY <1>1, <1>2
<1>5. QED
  BY <1>2, <1>3, <1>4 DEF Mp4Progress

LEMMA PlacesStep ==
  ASSUME Places, [Next]_vars
  PROVE  Places'
<1> USE DEF Places
<1>1. CASE User
  <2>0. \A d \in 0..MaxDownloads : d < MaxDownloads => d + 1 \in 0..MaxDownloads
    BY BoundsAssumption DEF BoundsAssumption
  <2>1. \A o \in 0..MaxOps : o < MaxOps => o + 1 \in 0..MaxOps
    BY BoundsAssumption DEF BoundsAssumption
  <2>2. CASE DownloadHislog \/ DownloadLogin \/ DownloadOpen \/ DownloadStarted \/ DownloadFailed
    BY <2>0, <2>2 DEF DownloadHislog, DownloadLogin, DownloadOpen, DownloadStarted, DownloadFailed,
                      ReleaseStream, Keep, playVars
  <2>3. CASE GetHisLogs \/ GetHisLogsDone \/ DownloadClose
    BY <2>1, <2>3 DEF GetHisLogs, GetHisLogsDone, DownloadClose, UserCalls, ReleaseStream, Keep, playVars
  <2>4. CASE \E sec \in SeekSeconds : Seek(sec)
    BY <2>1, <2>4 DEF Seek, UserCalls, netVars
  <2>5. CASE Mp4Begin \/ Mp4Frame \/ Mp4End
    BY <2>1, <2>5 DEF Mp4Begin, Mp4Frame, Mp4End, UserCalls, userVars, netVars, playVars
  <2>6. QED
    BY <1>1, <2>2, <2>3, <2>4, <2>5 DEF User, UserInCall
<1>2. CASE Network
  BY <1>2 DEF Network, Callback, ReadStart, ReadHead, ReadStops, ReadBody, DataIndex, DataHead,
              DataBody, DataPublish, KeepIo, userVars, playVars
<1>3. CASE Player
  BY <1>3 DEF Player, FindFrame, Collect, Decode, KeepPlay, userVars, netVars
<1>4. CASE UNCHANGED vars
  BY <1>4 DEF vars, userVars, netVars, playVars
<1>5. QED
  BY <1>1, <1>2, <1>3, <1>4 DEF Next

LEMMA WritingStep ==
  ASSUME Typed, Writing, [Next]_vars
  PROVE  Writing'
<1> USE DEF Writing
<1>1. CASE Mp4Begin
  BY <1>1 DEF Mp4Begin, Typed
<1>2. CASE Mp4Frame
  <2>1. /\ mp4' = [m |-> mp4.m, i |-> mp4.i + 1, progress |-> Mp4Progress(mp4.i, mp4.m)]
        /\ mp4.i \in Nat /\ mp4.m \in Nat /\ mp4.i < mp4.m
    BY <1>2 DEF Mp4Frame
  <2>2. Mp4Progress(mp4.i, mp4.m) \in 0..99
    BY <2>1, Hundredths
  <2>3. mp4' \in [m : Nat, i : Nat, progress : 0..100] /\ mp4'.progress < 100
    BY <2>1, <2>2
  <2>4. QED
    BY <2>3
<1>3. CASE Mp4End
  BY <1>3 DEF Mp4End
<1>4. CASE User /\ ~Mp4Begin /\ ~Mp4Frame /\ ~Mp4End
  BY <1>4 DEF User, UserInCall, DownloadHislog, DownloadLogin, DownloadOpen, DownloadStarted,
              DownloadFailed, GetHisLogs, GetHisLogsDone, DownloadClose, Seek, Keep
<1>5. CASE Network
  BY <1>5 DEF Network, Callback, ReadStart, ReadHead, ReadStops, ReadBody, DataIndex, DataHead,
              DataBody, DataPublish, KeepIo, userVars
<1>6. CASE Player
  BY <1>6 DEF Player, FindFrame, Collect, Decode, KeepPlay, userVars
<1>7. CASE UNCHANGED vars
  BY <1>7 DEF vars, userVars
<1>8. QED
  BY <1>1, <1>2, <1>3, <1>4, <1>5, <1>6, <1>7 DEF Next

\* What GetNextVideoFrame fills in.
LEMMA GivenTypes ==
  ASSUME IInv, NEW i \in Nat, NEW k \in VideosAfter(i)
  PROVE  NSleep(i, k) \in Nat /\ AudioCount(i, k) \in 0..MaxAudio
<1>1. k \in Nat /\ i < k /\ k < idx
  BY DEF VideosAfter, IInv, Typed
<1>2. At(i).t \in Nat /\ At(k).t \in Nat
  <2>1. i + 1 \in 1..Len(file) /\ k + 1 \in 1..Len(file)
    BY <1>1 DEF IInv, Typed, Published
  <2>2. At(i) \in Frame /\ At(k) \in Frame
    BY <2>1 DEF At, IInv, Typed
  <2>3. QED
    BY <2>2 DEF Frame
<1>3. NSleep(i, k) \in Nat
  BY <1>2 DEF NSleep
<1>4. AudioBetween(i, k) \in SUBSET ((i + 1)..(k - 1)) /\ IsFiniteSet((i + 1)..(k - 1))
  <2>1. i + 1 \in Int /\ k - 1 \in Int
    BY <1>1
  <2>2. IsFiniteSet((i + 1)..(k - 1))
    BY <2>1, FS_Interval
  <2>3. QED
    BY <2>2 DEF AudioBetween
<1>5. Cardinality(AudioBetween(i, k)) \in Nat
  BY <1>4, FS_Subset, FS_CardinalityType
<1>6. AudioCount(i, k) \in 0..MaxAudio
  BY <1>5, BoundsAssumption DEF AudioCount, BoundsAssumption
<1>7. QED
  BY <1>3, <1>6

LEMMA GivenStep ==
  ASSUME IInv, Given, [Next]_vars
  PROVE  Given'
<1>1. CASE UNCHANGED <<given, ret>>
  BY <1>1 DEF Given
<1>2. CASE FindFrame
  <2>1. given' = given /\ (ret' = ret \/ ret' = [played |-> FALSE, value |-> 0])
    BY <1>2 DEF FindFrame, NothingToPlay
  <2>2. [played |-> FALSE, value |-> 0] \in [played : BOOLEAN, value : Int]
    OBVIOUS
  <2>3. QED
    BY <2>1, <2>2 DEF Given
<1>3. CASE Collect
  <2>1. CASE VideosAfter(found) = {}
    <3>1. given' = given /\ ret' = [played |-> FALSE, value |-> 0]
      BY <1>3, <2>1 DEF Collect, NothingToPlay
    <3>2. [played |-> FALSE, value |-> 0] \in [played : BOOLEAN, value : Int]
      OBVIOUS
    <3>3. QED
      BY <3>1, <3>2 DEF Given
  <2>2. CASE VideosAfter(found) # {}
    <3>1. PICK k \in VideosAfter(found) :
            given' = [frame |-> found, sleep |-> NSleep(found, k), audio |-> AudioCount(found, k)]
      BY <1>3, <2>2 DEF Collect
    <3>2. found \in Nat /\ ret' = ret
      BY <1>3, <2>2 DEF Collect, IInv, Typed
    <3>3. NSleep(found, k) \in Nat /\ AudioCount(found, k) \in 0..MaxAudio
      BY <3>2, GivenTypes
    <3>4. QED
      BY <3>1, <3>2, <3>3 DEF Given
  <2>3. QED
    BY <2>1, <2>2
<1>4. CASE Decode
  <2>1. PICK e \in Elapsed : ret' = [played |-> TRUE, value |-> Truncate(given.sleep - e, 15) * 15]
    BY <1>4 DEF Decode
  <2>2. e \in Nat /\ given.sleep \in Nat
    BY BoundsAssumption DEF BoundsAssumption, Given
  <2>3. \A x \in Int : Truncate(x, 15) \in Int
    BY DEF Truncate
  <2>4. Truncate(given.sleep - e, 15) * 15 \in Int
    BY <2>2, <2>3
  <2>5. ret' \in [played : BOOLEAN, value : Int]
    BY <2>1, <2>4
  <2>6. given' = given
    BY <1>4 DEF Decode
  <2>7. QED
    BY <2>5, <2>6 DEF Given
<1>5. CASE User
  BY <1>1, <1>5 DEF User, UserInCall, DownloadHislog, DownloadLogin, DownloadOpen, DownloadStarted,
     DownloadFailed, GetHisLogs, GetHisLogsDone, DownloadClose, Seek, Mp4Begin, Mp4Frame, Mp4End,
     Keep, playVars
<1>6. CASE Network
  BY <1>1, <1>6 DEF Network, Callback, ReadStart, ReadHead, ReadStops, ReadBody, DataIndex, DataHead,
     DataBody, DataPublish, KeepIo, playVars
<1>7. CASE UNCHANGED vars
  BY <1>1, <1>7 DEF vars, playVars
<1>8. QED
  BY <1>2, <1>3, <1>4, <1>5, <1>6, <1>7 DEF Next, Player

TInv == IInv /\ Places /\ Given /\ Writing

LEMMA InitTInv == Init => TInv
<1> SUFFICES ASSUME Init PROVE TInv
  OBVIOUS
<1>1. Places
  BY BoundsAssumption DEF Init, Places, BoundsAssumption
<1>2. Given
  <2>1. 0 \in 0..MaxAudio
    BY BoundsAssumption DEF BoundsAssumption
  <2>2. given \in [frame : Nat, sleep : Nat, audio : 0..MaxAudio]
    BY <2>1 DEF Init
  <2>3. ret \in [played : BOOLEAN, value : Int]
    BY DEF Init
  <2>4. QED
    BY <2>2, <2>3 DEF Given
<1>3. Writing
  BY DEF Init, Writing
<1>4. QED
  BY <1>1, <1>2, <1>3, InitIInv DEF TInv

LEMMA NextTInv == TInv /\ [Next]_vars => TInv'
  BY NextIInv, PlacesStep, GivenStep, WritingStep DEF TInv, IInv

\* Every variable keeps its type (the members of CXClientHislog, the pending
\* read and the three threads).
THEOREM TypeCorrect == Spec => []TypeOK
<1>1. TInv => TypeOK
  BY DEF TInv, IInv, Typed, Places, Given, Writing, TypeOK
<1>2. QED
  BY <1>1, InitTInv, NextTInv, PTL DEF Spec

-----------------------------------------------------------------------------
(* The readers *)

LEMMA InitReaders == Init => ReadersBehindDownload
  BY DEF Init, ReadersBehindDownload

\* The user's thread seeks to a frame that is published and writes those there are.
LEMMA ReadersUser ==
  ASSUME IInv, ReadersBehindDownload, User
  PROVE  ReadersBehindDownload'
<1>1. UNCHANGED <<idx, ppc, found>>
  BY UserKeeps
<1>2. CASE Mp4Begin
  <2>1. mp4'.m = idx /\ cur' = cur /\ idx \in Nat
    BY <1>2 DEF Mp4Begin, cursorVars, IInv, Typed
  <2>2. QED
    BY <1>1, <2>1 DEF ReadersBehindDownload
<1>3. CASE Mp4Frame \/ Mp4End
  <2>1. cur' = cur /\ (upc' = "write" => upc = "write" /\ mp4'.m = mp4.m)
    BY <1>3 DEF Mp4Frame, Mp4End, cursorVars
  <2>2. QED
    BY <1>1, <2>1 DEF ReadersBehindDownload
<1>4. ASSUME NEW sec \in SeekSeconds, Seek(sec)
      PROVE  ReadersBehindDownload'
  <2>1. upc' = upc /\ mp4' = mp4
    BY <1>4 DEF Seek
  <2>2. cur' < idx \/ cur' = cur
    <3>1. CASE sec < idx /\ LaterThan(sec) # {}
      <4>1. PICK z \in LaterThan(sec) : cur' = z
        BY <1>4, <3>1 DEF Seek
      <4>2. z \in 0..(idx - 1)
        BY <4>1 DEF LaterThan
      <4>3. QED
        BY <4>1, <4>2 DEF IInv, Typed
    <3>2. CASE ~(sec < idx /\ LaterThan(sec) # {})
      BY <1>4, <3>2 DEF Seek
    <3>3. QED
      BY <3>1, <3>2
  <2>3. QED
    BY <1>1, <2>1, <2>2 DEF ReadersBehindDownload
<1>5. CASE \/ DownloadHislog \/ DownloadLogin \/ DownloadOpen \/ DownloadStarted
           \/ DownloadFailed \/ GetHisLogs \/ GetHisLogsDone \/ DownloadClose
  <2>1. cur' = cur /\ mp4' = mp4 /\ (upc' = "write" => upc = "write")
    BY <1>5 DEF DownloadHislog, DownloadLogin, DownloadOpen, DownloadStarted, DownloadFailed,
                GetHisLogs, GetHisLogsDone, DownloadClose, UserCalls, Keep, cursorVars
  <2>2. QED
    BY <1>1, <2>1 DEF ReadersBehindDownload
<1>6. QED
  BY <1>2, <1>3, <1>4, <1>5 DEF User, UserInCall

\* The network library's thread only adds frames.
LEMMA ReadersNetwork ==
  ASSUME IInv, ReadersBehindDownload, mp4.m \in Nat, Network
  PROVE  ReadersBehindDownload'
<1>1. /\ UNCHANGED <<upc, ppc, found, cur>>
      /\ idx' = idx \/ idx' = idx + 1
  BY NetworkKeeps DEF userVars, cursorVars
<1>2. mp4' = mp4
  BY DEF Network, ReadStart, ReadHead, ReadStops, ReadBody, Callback, DataIndex, DataHead,
         DataBody, DataPublish, KeepIo
<1>3. idx \in Nat /\ cur \in Nat /\ found \in Nat
  BY DEF IInv, Typed
<1>4. QED
  BY <1>1, <1>2, <1>3 DEF ReadersBehindDownload

\* The player moves from one published frame to another.
LEMMA ReadersPlayer ==
  ASSUME IInv, ReadersBehindDownload, Player
  PROVE  ReadersBehindDownload'
<1>1. UNCHANGED <<upc, idx, mp4>>
  BY DEF Player, FindFrame, Collect, Decode, KeepPlay, userVars, netVars
<1>2. idx \in Nat /\ cur \in Nat /\ found \in Nat
  BY DEF IInv, Typed
<1>3. CASE FindFrame
  <2>1. CASE Startable = {}
    BY <1>1, <1>3, <2>1 DEF FindFrame, ReadersBehindDownload
  <2>2. CASE Startable # {}
    <3>1. PICK i \in Startable : found' = i
      BY <1>3, <2>2 DEF FindFrame
    <3>2. i < idx
      BY <1>2, <3>1 DEF Startable
    <3>3. QED
      BY <1>1, <1>3, <3>1, <3>2 DEF FindFrame, ReadersBehindDownload
  <2>3. QED
    BY <2>1, <2>2
<1>4. CASE Collect
  <2>1. CASE VideosAfter(found) = {}
    BY <1>1, <1>4, <2>1 DEF Collect, ReadersBehindDownload
  <2>2. CASE VideosAfter(found) # {}
    <3>1. PICK k \in VideosAfter(found) : cur' = k
      BY <1>4, <2>2 DEF Collect, Advance
    <3>2. k < idx
      BY <1>2, <3>1 DEF VideosAfter
    <3>3. found' = found /\ ppc = "collect"
      BY <1>4 DEF Collect
    <3>4. QED
      BY <1>1, <3>1, <3>2, <3>3 DEF ReadersBehindDownload
  <2>3. QED
    BY <2>1, <2>2
<1>5. CASE Decode
  BY <1>1, <1>5 DEF Decode, cursorVars, ReadersBehindDownload
<1>6. QED
  BY <1>3, <1>4, <1>5 DEF Player

\* However many downloads, seeks, lists and mp4 files come between, no reader gets
\* ahead of the frames the network library's thread has published: the counters of
\* an object are never reset, and only a published frame becomes a position.
THEOREM ReadersStayBehind == Spec => []ReadersBehindDownload
<1>1. TInv /\ ReadersBehindDownload /\ [Next]_vars => ReadersBehindDownload'
  <2> SUFFICES ASSUME TInv, ReadersBehindDownload, [Next]_vars PROVE ReadersBehindDownload'
    OBVIOUS
  <2>1. CASE UNCHANGED vars
    BY <2>1 DEF vars, userVars, netVars, playVars, cursorVars, ReadersBehindDownload
  <2>2. IInv /\ mp4.m \in Nat
    BY DEF TInv, Writing
  <2>3. QED
    BY <2>1, <2>2, ReadersUser, ReadersNetwork, ReadersPlayer DEF Next
<1>2. QED
  BY <1>1, InitReaders, InitTInv, NextTInv, PTL DEF Spec

=============================================================================
