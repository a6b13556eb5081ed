------------------------- MODULE ClientStreamProofs -------------------------
(***************************************************************************)
(* Proofs about ClientStream, for any number of sessions, formats, voice   *)
(* threads and audio buffers, and a send list of any length.               *)
(***************************************************************************)
EXTENDS ClientStream, SequenceTheorems, TLAPS

IInv ==
  /\ TypeOK
  /\ Places
  /\ Connections
  /\ StatusIsHonest
  /\ StatusPlaces
  /\ RecordingWhole
  /\ VoiceThreads
  /\ VoiceFaultsOnlyAfterClose

\* The steps of the program, named for the case splits below.
Step == UserStarts \/ UserGoesOn \/ Worker \/ Login \/ Network \/ Silence
VoiceStep == \E v \in Voices : Voice(v)

LEMMA NextCases ==
  ASSUME [Next]_vars
  PROVE  (Running /\ (Step \/ VoiceStep)) \/ UNCHANGED vars
  BY DEF Next, Step, VoiceStep, Ended

\* A list that is cut at QueueCap is a list of messages.
LEMMA SendListType ==
  ASSUME TypeOK, NEW kind \in {"open", "hb"}, AddSendMessge(kind)
  PROVE  list' \in Seq(Message)
<1>1. [kind |-> kind, sess |-> sess] \in Message
  BY DEF TypeOK, Message
<1>2. list \in Seq(Message)
  BY DEF TypeOK
<1>3. QED
  BY <1>1, <1>2 DEF AddSendMessge

-----------------------------------------------------------------------------
(* Type correctness *)

LEMMA InitTypeOK == Init => TypeOK
<1> SUFFICES ASSUME Init PROVE TypeOK
  OBVIOUS
<1>1. list \in Seq(Message) /\ voice \in Seq(Buffers)
  BY DEF Init
<1>2. file \in [first : Types \cup {"none"}, fmts : SUBSET Formats]
  BY DEF Init, NoFile
<1>3. vp \in [Voices -> Buffers \cup {NoBuffer}]
  BY DEF Init
<1>4. vpc \in [Voices -> {"none", "loop", "front", "decode", "pop"}]
  BY DEF Init
<1>5. QED
  BY <1>1, <1>2, <1>3, <1>4 DEF Init, TypeOK

\* The calls of the user.
LEMMA UserTypeOK ==
  ASSUME TypeOK, UserStarts \/ UserGoesOn
  PROVE  TypeOK'
<1> USE DEF TypeOK, userVars, loginVars, netVars, msgVars, recVars, voiceVars, KeepOthers, Idle
<1>1. <<>> \in Seq(Message) /\ <<>> \in Seq(Buffers)
  OBVIOUS
<1>2. CASE Play
  BY <1>2 DEF Play
<1>3. CASE StartWorker
  <2>1. stop' \in BOOLEAN /\ handle' \in BOOLEAN
    BY <1>3 DEF StartWorker
  <2>2. QED
    BY <1>3, <2>1 DEF StartWorker
<1>4. CASE Close
  <2>1. stop' \in BOOLEAN /\ deleting' \in BOOLEAN
    BY <1>4 DEF Close
  <2>2. QED
    BY <1>4, <2>1 DEF Close
<1>5. CASE CloseJoin
  <2>1. handle' \in BOOLEAN
    BY <1>5 DEF CloseJoin
  <2>2. QED
    BY <1>5, <2>1 DEF CloseJoin
<1>6. CASE CloseRelease
  <2>1. dec' \in BOOLEAN /\ wr' \in BOOLEAN
    BY <1>1, <1>6 DEF CloseRelease, ReleaseStream
  <2>2. QED
    BY <1>1, <1>6, <2>1 DEF CloseRelease, ReleaseStream
<1>7. CASE CloseEmpty
  BY <1>1, <1>7 DEF CloseEmpty
<1>8. CASE Tidy
  <2>1. account' \in BOOLEAN /\ rec' \in BOOLEAN /\ orphan' \in BOOLEAN /\ aac' \in BOOLEAN /\ login' \in BOOLEAN /\ stop' \in BOOLEAN
    BY <1>8 DEF Tidy, NoFile, Types
  <2>2. file' \in [first : Types \cup {"none"}, fmts : SUBSET Formats]
    BY <1>8 DEF Tidy, NoFile, Types
  <2>3. QED
    BY <1>8, <2>1, <2>2 DEF Tidy, NoFile, Types
<1>9. CASE SoundOn
  <2>1. aac' \in BOOLEAN /\ vstop' \in BOOLEAN
    BY <1>9 DEF SoundOn
  <2>2. vhandle' \in Voices \cup {NoThread}
    BY <1>9 DEF SoundOn
  <2>3. vpc' \in [Voices -> {"none", "loop", "front", "decode", "pop"}]
    BY <1>9 DEF SoundOn
  <2>4. QED
    BY <1>9, <2>1, <2>2, <2>3 DEF SoundOn
<1>10. CASE SoundOff
  <2>1. vstop' \in BOOLEAN
    BY <1>10 DEF SoundOff
  <2>2. QED
    BY <1>10, <2>1 DEF SoundOff
<1>11. CASE SoundJoin
  BY <1>11 DEF SoundJoin
<1>12. CASE SoundEmpty
  <2>1. aac' \in BOOLEAN
    BY <1>1, <1>12 DEF SoundEmpty
  <2>2. QED
    BY <1>1, <1>12, <2>1 DEF SoundEmpty
<1>13. CASE Capture
  BY <1>13 DEF Capture
<1>14. CASE CaptureUse
  BY <1>14 DEF CaptureUse
<1>15. CASE Record
  <2>1. rec' \in BOOLEAN
    BY <1>15 DEF Record, NoFile, Types
  <2>2. file' \in [first : Types \cup {"none"}, fmts : SUBSET Formats]
    BY <1>15 DEF Record, NoFile, Types
  <2>3. QED
    BY <1>15, <2>1, <2>2 DEF Record, NoFile, Types
<1>16. QED
  BY <1>2, <1>3, <1>4, <1>5, <1>6, <1>7, <1>8, <1>9, <1>10, <1>11, <1>12, <1>13, <1>14, <1>15
  DEF UserStarts, UserGoesOn

\* The worker and Login.
LEMMA WorkerTypeOK ==
  ASSUME TypeOK, Worker \/ Login
  PROVE  TypeOK'
<1> USE DEF userVars, loginVars, netVars, msgVars, recVars, voiceVars,
        KeepWorker, KeepLogin, LoginGoes, LoginReturn
<1>1. <<>> \in Seq(Message)
  OBVIOUS
<1>2. CASE WorkerLoop
  BY <1>2 DEF WorkerLoop, TypeOK
<1>3. CASE WorkerSilent
  <2>1. login' \in BOOLEAN
    BY <1>3 DEF WorkerSilent, TypeOK
  <2>2. QED
    BY <1>3, <2>1 DEF WorkerSilent, TypeOK
<1>4. CASE WorkerBeat
  <2>1. list' \in Seq(Message)
    BY SendListType, <1>4 DEF WorkerBeat, TypeOK
  <2>2. QED
    BY SendListType, <1>4, <2>1 DEF WorkerBeat, TypeOK
<1>5. CASE LoginBegin
  <2>1. dec' \in BOOLEAN /\ wr' \in BOOLEAN
    BY <1>1, <1>5 DEF LoginBegin, ReleaseStream, TypeOK
  <2>2. QED
    BY <1>1, <1>5, <2>1 DEF LoginBegin, ReleaseStream, TypeOK
<1>6. CASE LoginLink
  BY <1>6 DEF LoginLink, TypeOK
<1>7. CASE LoginSession
  BY <1>7 DEF LoginSession, TypeOK
<1>8. CASE LoginAccount
  BY <1>8 DEF LoginAccount, TypeOK
<1>9. CASE LoginFail
  <2>1. login' \in BOOLEAN
    BY <1>9 DEF LoginFail, TypeOK
  <2>2. QED
    BY <1>9, <2>1 DEF LoginFail, TypeOK
<1>10. CASE LoginRegister
  <2>1. wr' \in BOOLEAN
    BY <1>10 DEF LoginRegister, TypeOK
  <2>2. QED
    BY <1>10, <2>1 DEF LoginRegister, TypeOK
<1>11. CASE LoginTick
  <2>1. silent' \in BOOLEAN
    BY <1>11 DEF LoginTick, TypeOK
  <2>2. QED
    BY <1>11, <2>1 DEF LoginTick, TypeOK
<1>12. CASE LoginOpen
  <2>1. login' \in BOOLEAN
    BY SendListType, <1>12 DEF LoginOpen, TypeOK
  <2>2. list' \in Seq(Message)
    BY SendListType, <1>12 DEF LoginOpen, TypeOK
  <2>3. QED
    BY SendListType, <1>12, <2>1, <2>2 DEF LoginOpen, TypeOK
<1>13. QED
  BY <1>2, <1>3, <1>4, <1>5, <1>6, <1>7, <1>8, <1>9, <1>10, <1>11, <1>12
  DEF Worker, Login

\* What RecordFrame does to the file, whatever the frame.
LEMMA RecordFrameTypes ==
  ASSUME TypeOK, NEW type \in Types, NEW fmt \in Formats, RecordFrame(type, fmt)
  PROVE  /\ rec' = rec
         /\ hdr' \in Formats \cup {NoFormat}
         /\ file' \in [first : Types \cup {"none"}, fmts : SUBSET Formats]
<1>1. NoFile \in [first : Types \cup {"none"}, fmts : SUBSET Formats]
  BY DEF NoFile
<1>2. [first |-> "I", fmts |-> {fmt}] \in [first : Types \cup {"none"}, fmts : SUBSET Formats]
  BY DEF Types
<1>3. [file EXCEPT !.fmts = @ \cup {fmt}] \in [first : Types \cup {"none"}, fmts : SUBSET Formats]
  BY DEF TypeOK
<1>4. QED
  BY <1>1, <1>2, <1>3 DEF RecordFrame, TypeOK, recVars

\* The callbacks, and the passing of time.
LEMMA NetworkTypeOK ==
  ASSUME TypeOK, Network \/ Silence
  PROVE  TypeOK'
<1> USE DEF KeepIo, userVars, loginVars, netVars, msgVars, recVars, voiceVars
<1>1. CASE ReadFrame
  <2>1. PICK type \in Types, fmt \in Formats : RecordFrame(type, fmt)
    BY <1>1 DEF ReadFrame
  <2>2. /\ rec' = rec
        /\ hdr' \in Formats \cup {NoFormat}
        /\ file' \in [first : Types \cup {"none"}, fmts : SUBSET Formats]
    BY <2>1, RecordFrameTypes
  <2>3. cpc' \in {"none", "route", "queue", "decode"}
    BY <1>1 DEF ReadFrame
  <2>4. rec' \in BOOLEAN /\ silent' \in BOOLEAN
    BY <1>1, <2>2 DEF TypeOK, ReadFrame
  <2>5. QED
    BY <1>1, <2>2, <2>3, <2>4 DEF TypeOK, ReadFrame
<1>2. CASE ReadFails
  BY <1>2 DEF ReadFails, TypeOK
<1>3. CASE WriteFails
  <2>1. wr' \in BOOLEAN
    BY <1>3 DEF WriteFails, TypeOK
  <2>2. QED
    BY <1>3, <2>1 DEF WriteFails, TypeOK
<1>4. CASE ReadStart
  BY <1>4 DEF ReadStart, TypeOK
<1>5. CASE ReadHead
  <2>1. silent' \in BOOLEAN
    BY <1>5 DEF ReadHead, TypeOK
  <2>2. QED
    BY <1>5, <2>1 DEF ReadHead, TypeOK
<1>6. CASE ReadOther
  <2>1. silent' \in BOOLEAN
    BY <1>6 DEF ReadOther, TypeOK
  <2>2. QED
    BY <1>6, <2>1 DEF ReadOther, TypeOK
<1>7. CASE Silence
  <2>1. silent' \in BOOLEAN
    BY <1>7 DEF Silence, TypeOK
  <2>2. QED
    BY <1>7, <2>1 DEF Silence, TypeOK
<1>8. CASE DoRoute
  BY <1>8 DEF DoRoute, TypeOK
<1>9. CASE DoDecode
  <2>1. dec' \in BOOLEAN
    BY <1>9 DEF DoDecode, DoMsgEnds, TypeOK
  <2>2. QED
    BY <1>9, <2>1 DEF DoDecode, DoMsgEnds, TypeOK
<1>10. CASE DoQueue
  <2>1. voice' \in Seq(Buffers)
    BY <1>10 DEF DoQueue, DoMsgEnds, TypeOK
  <2>2. QED
    BY <1>10, <2>1 DEF DoQueue, DoMsgEnds, TypeOK
<1>11. CASE WriteNext
  <2>1. list' \in Seq(Message)
    BY <1>11 DEF WriteNext, TypeOK
  <2>2. QED
    BY <1>11, <2>1 DEF WriteNext, TypeOK
<1>12. QED
  BY <1>1, <1>2, <1>3, <1>4, <1>5, <1>6, <1>7, <1>8, <1>9, <1>10, <1>11
  DEF Network, DoMsg

\* The voice threads.
LEMMA VoiceTypeOK ==
  ASSUME TypeOK, NEW v \in Voices, Voice(v)
  PROVE  TypeOK'
<1> USE DEF KeepVoice, userVars, loginVars, netVars, msgVars, recVars, VoiceFaults, VoiceGoes
<1>1. CASE VoiceTest(v)
  BY <1>1 DEF TypeOK, VoiceTest
<1>2. CASE VoiceFront(v)
  <2>1. voice # <<>> => Head(voice) \in Buffers
    BY DEF TypeOK
  <2>2. QED
    BY <1>2, <2>1 DEF TypeOK, VoiceFront
<1>3. CASE VoiceDecode(v)
  BY <1>3 DEF TypeOK, VoiceDecode
<1>4. CASE VoicePop(v)
  <2>1. voice' \in Seq(Buffers)
    <3>1. voice \in Seq(Buffers)
      BY DEF TypeOK
    <3>2. voice # <<>> => Tail(voice) \in Seq(Buffers)
      BY <3>1, HeadTailProperties
    <3>3. QED
      BY <1>4, <3>1, <3>2 DEF VoicePop
  <2>2. vp' \in [Voices -> Buffers \cup {NoBuffer}]
    BY <1>4 DEF TypeOK, VoicePop
  <2>3. vpc' \in [Voices -> {"none", "loop", "front", "decode", "pop"}]
    BY <1>4 DEF TypeOK, VoicePop
  <2>4. QED
    BY <1>4, <2>1, <2>2, <2>3 DEF TypeOK, VoicePop
<1>5. QED
  BY <1>1, <1>2, <1>3, <1>4 DEF Voice

LEMMA NextTypeOK ==
  ASSUME TypeOK, [Next]_vars
  PROVE  TypeOK'
<1>1. CASE Step
  BY <1>1, UserTypeOK, WorkerTypeOK, NetworkTypeOK DEF Step
<1>2. CASE VoiceStep
  BY <1>2, VoiceTypeOK DEF VoiceStep
<1>3. CASE UNCHANGED vars
  BY <1>3 DEF vars, TypeOK, userVars, loginVars, netVars, msgVars, recVars, voiceVars
<1>4. QED
  BY <1>1, <1>2, <1>3, NextCases

\* Every variable keeps its type.
THEOREM TypeCorrect == Spec => []TypeOK
  BY InitTypeOK, NextTypeOK, PTL DEF Spec

-----------------------------------------------------------------------------
(* Where the threads are, and what the stream is then *)

\* The callbacks and the voice threads leave the users of Login where they are.
LEMMA OthersKeepPlaces ==
  ASSUME Network \/ Silence \/ VoiceStep
  PROVE  UNCHANGED <<userVars, wpc, loginVars, conn>>
<1>1. CASE Network \/ Silence
  BY <1>1 DEF Network, DoMsg, ReadFails, WriteFails, ReadStart, ReadHead, ReadOther, ReadFrame,
     DoRoute, DoQueue, DoDecode, WriteNext, Silence, KeepIo
<1>2. CASE VoiceStep
  BY <1>2 DEF VoiceStep, Voice, VoiceTest, VoiceFront, VoiceDecode, VoicePop, KeepVoice, netVars
<1>3. QED
  BY <1>1, <1>2

LEMMA PlacesStep ==
  ASSUME IInv, Step \/ VoiceStep
  PROVE  Places'
<1> USE DEF IInv, TypeOK, Places, userVars, loginVars
<1>1. CASE UserStarts
  BY <1>1 DEF UserStarts, Play, Close, SoundOn, SoundOff, Capture, Record, Idle, KeepOthers
<1>2. CASE UserGoesOn
  BY <1>2 DEF UserGoesOn, StartWorker, CloseJoin, CloseRelease, CloseEmpty, Tidy, SoundJoin,
     SoundEmpty, CaptureUse, KeepOthers
<1>3. CASE Worker
  BY <1>3 DEF Worker, WorkerLoop, WorkerSilent, WorkerBeat, KeepWorker
<1>4. CASE Login
  BY <1>4 DEF Login, LoginBegin, LoginLink, LoginSession, LoginAccount, LoginFail, LoginRegister,
     LoginTick, LoginOpen, LoginGoes, LoginReturn, KeepLogin
<1>5. CASE Network \/ Silence \/ VoiceStep
  BY <1>5, OthersKeepPlaces
<1>6. QED
  BY <1>1, <1>2, <1>3, <1>4, <1>5 DEF Step

LEMMA ConnectionsStep ==
  ASSUME IInv, Step \/ VoiceStep
  PROVE  Connections'
<1> USE DEF IInv, TypeOK, Places, Connections, userVars, loginVars, netVars, msgVars
<1>1. CASE UserStarts
  BY <1>1 DEF UserStarts, Play, Close, SoundOn, SoundOff, Capture, Record, Idle, KeepOthers
<1>2. CASE UserGoesOn
  BY <1>2 DEF UserGoesOn, StartWorker, CloseJoin, CloseRelease, CloseEmpty, Tidy, SoundJoin,
     SoundEmpty, CaptureUse, KeepOthers, ReleaseStream
<1>3. CASE Worker
  BY <1>3 DEF Worker, WorkerLoop, WorkerSilent, WorkerBeat, KeepWorker
<1>4. CASE Login
  BY <1>4 DEF Login, LoginBegin, LoginLink, LoginSession, LoginAccount, LoginFail, LoginRegister,
     LoginTick, LoginOpen, LoginGoes, LoginReturn, KeepLogin, ReleaseStream
<1>5. CASE Network
  BY <1>5 DEF Network, DoMsg, ReadFails, WriteFails, ReadStart, ReadHead, ReadOther, ReadFrame,
     DoRoute, DoQueue, DoDecode, DoMsgEnds, WriteNext, KeepIo
<1>6. CASE Silence \/ VoiceStep
  BY <1>6 DEF Silence, KeepIo, VoiceStep, Voice, VoiceTest, VoiceFront, VoiceDecode, VoicePop,
     KeepVoice
<1>7. QED
  BY <1>1, <1>2, <1>3, <1>4, <1>5, <1>6 DEF Step

\* "Connected" is shown with a connection only.
LEMMA StatusStep ==
  ASSUME IInv, Step \/ VoiceStep
  PROVE  StatusIsHonest' /\ StatusPlaces'
<1> USE DEF IInv, TypeOK, Places, Connections, StatusIsHonest, StatusPlaces,
        userVars, loginVars, netVars
<1>1. CASE UserStarts
  BY <1>1 DEF UserStarts, Play, Close, SoundOn, SoundOff, Capture, Record, Idle, KeepOthers
<1>2. CASE UserGoesOn
  BY <1>2 DEF UserGoesOn, StartWorker, CloseJoin, CloseRelease, CloseEmpty, Tidy, SoundJoin,
     SoundEmpty, CaptureUse, KeepOthers, ReleaseStream
<1>3. CASE Worker
  BY <1>3 DEF Worker, WorkerLoop, WorkerSilent, WorkerBeat, KeepWorker
<1>4. CASE Login
  BY <1>4 DEF Login, LoginBegin, LoginLink, LoginSession, LoginAccount, LoginFail, LoginRegister,
     LoginTick, LoginOpen, LoginGoes, LoginReturn, KeepLogin, ReleaseStream
<1>5. CASE Network \/ Silence \/ VoiceStep
  BY <1>5, OthersKeepPlaces
<1>6. QED
  BY <1>1, <1>2, <1>3, <1>4, <1>5 DEF Step

-----------------------------------------------------------------------------
(* The recording *)

LEMMA RecordingStep ==
  ASSUME IInv, Step \/ VoiceStep
  PROVE  RecordingWhole'
<1> USE DEF IInv, RecordingWhole
<1>1. CASE Tidy \/ Record
  BY <1>1 DEF Tidy, Record
<1>2. CASE ReadFrame
  <2>1. PICK type \in Types, fmt \in Formats : RecordFrame(type, fmt)
    BY <1>2 DEF ReadFrame
  <2>2. CASE ~rec
    BY <2>1, <2>2 DEF RecordFrame, recVars
  <2>3. CASE rec /\ (hdr # fmt \/ file = NoFile)
    <3>1. /\ rec' = rec
          /\ file' = IF type = "I" THEN [first |-> "I", fmts |-> {fmt}] ELSE NoFile
          /\ hdr' = IF type = "I" THEN fmt ELSE hdr
      BY <2>1, <2>3 DEF RecordFrame
    <3>2. CASE type = "I"
      BY <2>3, <3>1, <3>2
    <3>3. CASE type # "I"
      BY <3>1, <3>3
    <3>4. QED
      BY <3>2, <3>3
  <2>4. CASE rec /\ hdr = fmt /\ file # NoFile
    <3>1. file' = [file EXCEPT !.fmts = @ \cup {fmt}] /\ rec' = rec /\ hdr' = hdr
      BY <2>1, <2>4 DEF RecordFrame
    <3>2. file'.first = file.first /\ file'.fmts = file.fmts \cup {fmt}
      BY <3>1 DEF TypeOK
    <3>3. QED
      BY <2>4, <3>1, <3>2
  <2>5. QED
    BY <2>2, <2>3, <2>4 DEF TypeOK
<1>3. CASE UNCHANGED recVars
  BY <1>3 DEF recVars
<1>4. QED
  BY <1>1, <1>2, <1>3 DEF Step, VoiceStep, UserStarts, Play, Close, SoundOn, SoundOff, Capture,
     KeepOthers, UserGoesOn, StartWorker, CloseJoin, CloseRelease, CloseEmpty, SoundJoin,
     SoundEmpty, CaptureUse, Worker, WorkerLoop, WorkerSilent, WorkerBeat, KeepWorker, Login,
     LoginBegin, LoginLink, LoginSession, LoginAccount, LoginFail, LoginRegister, LoginTick,
     LoginOpen, KeepLogin, Network, DoMsg, ReadFails, WriteFails, ReadStart, ReadHead, ReadOther,
     DoRoute, DoQueue, DoDecode, WriteNext, Silence, Voice, VoiceTest, VoiceFront, VoiceDecode,
     VoicePop, KeepVoice

-----------------------------------------------------------------------------
(* The voice thread *)

\* The worker, Login and the callbacks but DoQueue know nothing of it.
LEMMA OthersKeepVoice ==
  ASSUME Worker \/ Login \/ (Network /\ ~DoQueue) \/ Silence
  PROVE  UNCHANGED <<fault, voiceVars>>
  BY DEF Worker, WorkerLoop, WorkerSilent, WorkerBeat, KeepWorker, Login, LoginBegin, LoginLink,
     LoginSession, LoginAccount, LoginFail, LoginRegister, LoginTick, LoginOpen, KeepLogin,
     Network, DoMsg, ReadFails, WriteFails, ReadStart, ReadHead, ReadOther, ReadFrame, DoRoute,
     DoDecode, WriteNext, Silence, KeepIo

\* Login on the user's thread ends in "start"; the others leave the user alone.
LEMMA OthersKeepUser ==
  ASSUME Worker \/ Login \/ Network \/ Silence
  PROVE  upc' = upc \/ (upc = "login" /\ upc' = "start")
  BY DEF Worker, WorkerLoop, WorkerSilent, WorkerBeat, KeepWorker, Login, LoginBegin, LoginLink,
     LoginSession, LoginAccount, LoginFail, LoginRegister, LoginTick, LoginOpen, LoginReturn,
     Network, DoMsg, ReadFails, WriteFails, ReadStart, ReadHead, ReadOther, ReadFrame, DoRoute,
     DoQueue, DoDecode, WriteNext, Silence, KeepIo, userVars

\* A frame pushed behind others leaves the front.
LEMMA AppendKeepsHead ==
  ASSUME NEW S, NEW s \in Seq(S), NEW e \in S, s # <<>>
  PROVE  Append(s, e) # <<>> /\ Head(Append(s, e)) = Head(s)
  OBVIOUS

LEMMA VoiceThreadsStep ==
  ASSUME IInv, Running, Step \/ VoiceStep
  PROVE  VoiceThreads'
<1> USE DEF IInv, VoiceThreads
<1>1. CASE Play \/ Close \/ SoundOff \/ Capture \/ Record
  BY <1>1 DEF Play, Close, SoundOff, Capture, Record, Idle, KeepOthers, voiceVars
<1>2. CASE SoundOn
  BY <1>2, ConstAssumption DEF ConstAssumption, SoundOn, Idle, TypeOK
<1>3. CASE StartWorker \/ CloseJoin \/ CloseRelease \/ CaptureUse
  BY <1>3 DEF StartWorker, CloseJoin, CloseRelease, CaptureUse, KeepOthers, voiceVars
<1>4. CASE CloseEmpty
  BY <1>4 DEF CloseEmpty
<1>5. CASE Tidy
  <2>1. ~aac' /\ vhandle' = NoThread /\ upc' \notin {"mute", "tidy"} /\ vpc' = vpc
    BY <1>5 DEF Tidy
  <2>2. ~orphan' => \A v \in Voices : vpc[v] = "none"
    BY <1>5, ConstAssumption DEF Tidy, ConstAssumption
  <2>3. QED
    BY <2>1, <2>2
<1>6. CASE SoundJoin
  <2>1. upc' = "unqueue" /\ vhandle' = NoThread /\ UNCHANGED <<aac, vpc, orphan>>
    BY <1>6 DEF SoundJoin
  <2>2. ~orphan' => \A v \in Voices : vpc'[v] = "none"
    BY <1>6, <2>1 DEF SoundJoin
  <2>3. QED
    BY <2>1, <2>2
<1>7. CASE SoundEmpty
  <2>1. upc' = "idle" /\ ~aac' /\ UNCHANGED <<vhandle, vpc, orphan>>
    BY <1>7 DEF SoundEmpty
  <2>2. vhandle = NoThread
    BY <1>7 DEF SoundEmpty
  <2>3. ~orphan' => \A v \in Voices : vpc'[v] = "none"
    BY <2>1, <2>2, ConstAssumption DEF ConstAssumption
  <2>4. QED
    BY <2>1, <2>2, <2>3
<1>8. CASE Worker \/ Login \/ (Network /\ ~DoQueue) \/ Silence
  BY <1>8, OthersKeepVoice, OthersKeepUser DEF voiceVars
<1>9. CASE DoQueue
  <2>1. voice \in Seq(Buffers)
    BY DEF TypeOK
  <2>2. voice # <<>> => voice' # <<>> /\ Head(voice') = Head(voice)
    BY <1>9, <2>1, AppendKeepsHead DEF DoQueue
  <2>3. UNCHANGED <<upc, aac, vhandle, vpc, vp, orphan>>
    BY <1>9 DEF DoQueue, userVars
  <2>4. QED
    BY <2>2, <2>3
<1>10. CASE VoiceStep
  <2>1. PICK v \in Voices : Voice(v)
    BY <1>10 DEF VoiceStep
  <2>2. UNCHANGED <<upc, aac, vhandle, orphan>>
    BY <2>1 DEF Voice, VoiceTest, VoiceFront, VoiceDecode, VoicePop, KeepVoice, userVars
  <2>3. \A u \in Voices : u # v => vpc'[u] = vpc[u] /\ vp'[u] = vp[u]
    BY <2>1 DEF Voice, VoiceTest, VoiceFront, VoiceDecode, VoicePop, VoiceFaults, VoiceGoes, TypeOK
  <2>4. vpc[v] # "none"
    BY <2>1 DEF Voice, VoiceTest, VoiceFront, VoiceDecode, VoicePop
  <2>5. ~orphan => v = vhandle /\ \A u \in Voices : u # v => vpc'[u] = "none"
    BY <2>3, <2>4
  <2>6. /\ vpc'[v] \in {"front", "decode", "pop"} /\ ~orphan /\ upc # "tidy" => voice' # <<>>
        /\ vpc'[v] \in {"decode", "pop"} /\ ~orphan /\ upc # "tidy" => Head(voice') = vp'[v]
    BY <2>1 DEF Voice, VoiceTest, VoiceFront, VoiceDecode, VoicePop, VoiceFaults, VoiceGoes, TypeOK
  <2>7. QED
    BY <2>2, <2>5, <2>6
<1>11. QED
  BY <1>1, <1>2, <1>3, <1>4, <1>5, <1>6, <1>7, <1>8, <1>9, <1>10
  DEF Step, UserStarts, UserGoesOn

\* A voice thread faults only when Close is emptying its list or has forgotten it.
LEMMA VoiceFaultsStep ==
  ASSUME IInv, Running, Step \/ VoiceStep
  PROVE  VoiceFaultsOnlyAfterClose'
<1> USE DEF IInv, VoiceFaultsOnlyAfterClose
<1>1. CASE Step
  <2>1. fault' # "voice"
    BY <1>1, OthersKeepVoice DEF Running, Step, UserStarts, UserGoesOn, Play, Close, SoundOn, SoundOff, Capture,
       Record, StartWorker, CloseJoin, CloseRelease, CloseEmpty, Tidy, SoundJoin, SoundEmpty,
       CaptureUse, Idle, DoQueue
  <2>2. QED
    BY <2>1
<1>2. CASE VoiceStep
  <2>1. PICK v \in Voices : Voice(v)
    BY <1>2 DEF VoiceStep
  <2>2. UNCHANGED <<upc, vhandle, orphan>>
    BY <2>1 DEF Voice, VoiceTest, VoiceFront, VoiceDecode, VoicePop, KeepVoice, userVars
  <2>3. ASSUME ~orphan PROVE v = vhandle /\ vhandle # NoThread /\ aac /\ upc \notin {"gone", "unqueue"}
    BY <2>1, <2>3, ConstAssumption
    DEF ConstAssumption, VoiceThreads, Voice, VoiceTest, VoiceFront, VoiceDecode, VoicePop
  <2>4. ASSUME ~orphan, vpc[v] \in {"decode", "pop"}, upc # "tidy"
        PROVE  voice # <<>> /\ Head(voice) = vp[v] /\ vp[v] \in Queued
    <3>1. voice # <<>> /\ Head(voice) = vp[v]
      BY <2>4 DEF VoiceThreads
    <3>2. 1 \in DOMAIN voice /\ Head(voice) = voice[1]
      BY <3>1 DEF TypeOK
    <3>3. QED
      BY <3>1, <3>2 DEF Queued
  <2>5. ASSUME ~orphan, vpc[v] = "front", upc # "tidy" PROVE voice # <<>>
    BY <2>5 DEF VoiceThreads
  <2>6. QED
    BY <2>1, <2>2, <2>3, <2>4, <2>5
    DEF Running, Voice, VoiceTest, VoiceFront, VoiceDecode, VoicePop, VoiceFaults
<1>3. QED
  BY <1>1, <1>2

-----------------------------------------------------------------------------
(* The invariant, and the properties it gives *)

LEMMA InitIInv == Init => IInv
<1> SUFFICES ASSUME Init PROVE IInv
  OBVIOUS
<1>1. TypeOK
  BY InitTypeOK
<1>2. Places /\ Connections /\ StatusIsHonest /\ StatusPlaces
  BY DEF Init, Places, Connections, StatusIsHonest, StatusPlaces
<1>3. RecordingWhole /\ VoiceThreads /\ VoiceFaultsOnlyAfterClose
  BY DEF Init, RecordingWhole, VoiceThreads, VoiceFaultsOnlyAfterClose
<1>4. QED
  BY <1>1, <1>2, <1>3 DEF IInv

LEMMA NextIInv == IInv /\ [Next]_vars => IInv'
<1> SUFFICES ASSUME IInv, [Next]_vars PROVE IInv'
  OBVIOUS
<1>1. TypeOK'
  BY NextTypeOK DEF IInv
<1>2. CASE Running /\ (Step \/ VoiceStep)
  <2>1. Places' /\ Connections'
    BY <1>2, PlacesStep, ConnectionsStep
  <2>2. StatusIsHonest' /\ StatusPlaces' /\ RecordingWhole'
    BY <1>2, StatusStep, RecordingStep
  <2>3. VoiceThreads' /\ VoiceFaultsOnlyAfterClose'
    BY <1>2, VoiceThreadsStep, VoiceFaultsStep
  <2>4. QED
    BY <1>1, <2>1, <2>2, <2>3 DEF IInv
<1>3. CASE UNCHANGED vars
  BY <1>1, <1>3 DEF vars, IInv, Places, Connections, StatusIsHonest, StatusPlaces, RecordingWhole,
     VoiceThreads, VoiceFaultsOnlyAfterClose, userVars, loginVars, netVars, msgVars, recVars,
     voiceVars
<1>4. QED
  BY <1>2, <1>3, NextCases

\* The invariant holds in every behaviour of the live stream.
THEOREM InvariantHolds == Spec => []IInv
  BY InitIInv, NextIInv, PTL DEF Spec

\* A recording begins with an I frame and holds frames of one format.
THEOREM RecordingsAreWhole == Spec => []RecordingWhole
<1>1. IInv => RecordingWhole
  BY DEF IInv
<1>2. QED
  BY <1>1, InvariantHolds, PTL

\* "Connected" is shown only with a connection, or while Close takes it down.
THEOREM StatusAlwaysHonest == Spec => []StatusIsHonest
<1>1. IInv => StatusIsHonest
  BY DEF IInv
<1>2. QED
  BY <1>1, InvariantHolds, PTL

\* Until Close empties the list of a running voice thread, that thread works
\* with buffers it has.
THEOREM NoVoiceFaultBeforeClose == Spec => []VoiceFaultsOnlyAfterClose
<1>1. IInv => VoiceFaultsOnlyAfterClose
  BY DEF IInv
<1>2. QED
  BY <1>1, InvariantHolds, PTL

-----------------------------------------------------------------------------
(* The stream implements Channel *)

LinkVars == <<conn, lpc, sess, list>>

\* Steps that Channel does not see.
LEMMA Stutters ==
  ASSUME LinkVars' = LinkVars
  PROVE  UNCHANGED Link!vars
  BY DEF LinkVars, Link!vars

LEMMA LinkInit == Init => Link!Init
  BY DEF Init, Link!Init

\* The user's steps: CloseRelease closes, Play begins a login.
LEMMA LinkUser ==
  ASSUME IInv, UserStarts \/ UserGoesOn
  PROVE  [Link!Next]_Link!vars
<1>1. CASE CloseRelease
  <2>1. Link!Close
    BY <1>1 DEF CloseRelease, ReleaseStream, loginVars, Link!Close
  <2>2. QED
    BY <2>1 DEF Link!Next
<1>2. CASE Play
  <2>1. \/ lpc = "none" /\ lpc' \in {"none", "begin"} /\ UNCHANGED <<conn, sess, list>>
        \/ UNCHANGED LinkVars
    BY <1>2 DEF Play, Idle, IInv, Places, netVars, LinkVars
  <2>2. QED
    BY <2>1, Stutters DEF LinkVars, Link!vars
<1>3. CASE LinkVars' = LinkVars
  BY <1>3, Stutters
<1>4. QED
  BY <1>1, <1>2, <1>3 DEF UserStarts, UserGoesOn, Close, SoundOn, SoundOff, Capture, Record,
     StartWorker, CloseJoin, CloseEmpty, Tidy, SoundJoin, SoundEmpty, CaptureUse, KeepOthers,
     loginVars, netVars, LinkVars

\* The worker's steps: a heartbeat is put on a connection that has been greeted.
LEMMA LinkWorker ==
  ASSUME IInv, Worker
  PROVE  [Link!Next]_Link!vars
<1>1. lpc = "none"
  BY DEF IInv, Places, Worker, WorkerLoop, WorkerSilent, WorkerBeat
<1>2. CASE WorkerBeat
  <2>1. UNCHANGED <<conn, lpc, sess>>
    BY <1>2 DEF WorkerBeat, KeepWorker
  <2>2. CASE conn = "live" /\ list' # list
    <3>1. list' = Append(list, [kind |-> "hb", sess |-> sess])
      BY <1>2, <2>2 DEF WorkerBeat, AddSendMessge
    <3>2. Link!Put
      BY <1>1, <2>1, <2>2, <3>1 DEF Link!Put
    <3>3. QED
      BY <3>2 DEF Link!Next
  <2>3. CASE conn # "live" \/ list' = list
    BY <2>1, <2>3 DEF Link!vars
  <2>4. QED
    BY <2>2, <2>3
<1>3. CASE WorkerLoop \/ WorkerSilent
  <2>1. lpc' \in {"none", "begin"} /\ UNCHANGED <<conn, sess, list>>
    BY <1>1, <1>3 DEF WorkerLoop, WorkerSilent, KeepWorker, netVars
  <2>2. QED
    BY <1>1, <2>1 DEF Link!vars
<1>4. QED
  BY <1>2, <1>3 DEF Worker

\* Login closes the old connection, gets a session, establishes the new one
\* and greets.
LEMMA LinkLogin ==
  ASSUME IInv, Login
  PROVE  [Link!Next]_Link!vars
<1>1. CASE LoginBegin
  <2>1. Link!Close
    BY <1>1 DEF LoginBegin, ReleaseStream, Link!Close
  <2>2. QED
    BY <2>1 DEF Link!Next
<1>2. CASE LoginLink \/ LoginAccount \/ LoginFail
  <2>1. conn # "live" /\ conn' # "live" /\ sess' = sess
    BY <1>2 DEF IInv, Connections, LoginLink, LoginAccount, LoginFail, LoginGoes, netVars
  <2>2. QED
    BY <2>1 DEF Link!vars
<1>3. CASE LoginSession
  <2>1. conn # "live" /\ conn' = conn /\ sess' \in Sessions
    BY <1>3 DEF IInv, Connections, LoginSession, LoginGoes, netVars
  <2>2. Link!NewSession
    BY <2>1 DEF Link!NewSession
  <2>3. QED
    BY <2>2 DEF Link!Next
<1>4. CASE LoginRegister
  <2>1. /\ conn # "live" /\ conn' = "live" /\ lpc' = "tick"
        /\ list = <<>> /\ UNCHANGED <<list, sess>>
    BY <1>4 DEF IInv, Connections, LoginRegister, LoginGoes
  <2>2. Link!Establish
    BY <2>1 DEF Link!Establish
  <2>3. QED
    BY <2>2 DEF Link!Next
<1>5. CASE LoginTick
  <2>1. lpc = "tick" /\ lpc' = "open" /\ UNCHANGED <<conn, list, sess>>
    BY <1>5 DEF LoginTick, LoginGoes
  <2>2. QED
    BY <2>1 DEF Link!vars
<1>6. CASE LoginOpen
  <2>1. conn = "live" /\ lpc = "open" /\ list = <<>> /\ lpc' = "none" /\ UNCHANGED <<conn, sess>>
    BY <1>6 DEF IInv, Connections, LoginOpen, LoginReturn
  <2>2. Len(list) < QueueCap
    BY <2>1, ConstAssumption DEF ConstAssumption
  <2>3. list' = Append(list, [kind |-> "open", sess |-> sess])
    BY <1>6, <2>2 DEF LoginOpen, AddSendMessge
  <2>4. Link!Greet
    BY <2>1, <2>3 DEF Link!Greet
  <2>5. QED
    BY <2>4 DEF Link!Next
<1>7. QED
  BY <1>1, <1>2, <1>3, <1>4, <1>5, <1>6 DEF Login

\* The callbacks: the front of the list is sent.
LEMMA LinkNetwork ==
  ASSUME IInv, Network \/ Silence \/ VoiceStep
  PROVE  [Link!Next]_Link!vars
<1>1. CASE WriteNext
  <2>1. conn = "live" /\ list # <<>> /\ list' = Tail(list) /\ UNCHANGED <<conn, lpc, sess>>
    BY <1>1 DEF IInv, Connections, WriteNext, KeepIo, loginVars
  <2>2. Link!Send
    BY <2>1 DEF Link!Send
  <2>3. QED
    BY <2>2 DEF Link!Next
<1>2. CASE LinkVars' = LinkVars
  BY <1>2, Stutters
<1>3. QED
  BY <1>1, <1>2, OthersKeepPlaces DEF Network, DoMsg, ReadFails, WriteFails, ReadStart, ReadHead, ReadOther,
     ReadFrame, DoRoute, DoQueue, DoDecode, Silence, VoiceStep, Voice, VoiceTest, VoiceFront,
     VoiceDecode, VoicePop, KeepVoice, loginVars, netVars, LinkVars

\* Each connection greets once and first, and carries its own messages only.
THEOREM StreamImplementsChannel == Spec => ImplementsChannel
<1>1. ASSUME IInv, [Next]_vars PROVE [Link!Next]_Link!vars
  <2>1. CASE Step \/ VoiceStep
    BY <1>1, <2>1, LinkUser, LinkWorker, LinkLogin, LinkNetwork DEF Step
  <2>2. CASE UNCHANGED vars
    BY <2>2, Stutters DEF vars, loginVars, netVars, LinkVars
  <2>3. QED
    BY <1>1, <2>1, <2>2, NextCases
<1>2. QED
  BY <1>1, LinkInit, InvariantHolds, PTL DEF Spec, ImplementsChannel, Link!Spec
=============================================================================
