# A TLA+ model of the Internet-of-Things server's own code

The repository holds a video surveillance platform: libraries that a device
(camera) and a client (viewer) link to talk to media servers, and a web site
with which an administrator keeps areas, devices, groups and servers. The
servers themselves, the network library (`XStream.hpp`), the players and the
mp4 library are not in it; nor do the 16,000 vendored and generated files say
anything about the system. This directory models the code that is the system's
own, `src/XInternetTest/_IncludeDevice`, `_IncludeClient`, and
`src/XInternetProjectWebCenter/WebClassicCenter/NewPlatCenter`.

`PROJECT.json` says, definition by definition, which lines a definition stands
for, which runs check what, and lists the hazards at their lines.

## The system

| Component | State it keeps | Operations | Hard because |
|---|---|---|---|
| Device instance (`XDeviceInstance`) | both channels, one worker thread, the server in use | XConnect, XDisconnect, XDelete, XSendMessage, XSendStream, XGetStatus; the worker looks up the route, connects, beats | the worker, the owner, application threads and network callbacks share objects without locks |
| Device channels (`XDeviceSignaling`, `XDeviceStream`) | stream, error flag, last tick, session number, send list, pending read and write, permission to send | Connect/login, Disconnect, heartbeat, READ and WRITE callbacks | callbacks chain themselves: a callback that does not arm the next ends the traffic; flags are written by several threads |
| Client signaling (`XClientSignaling`) | as above, and one call in progress: uuid, buffer, flag | Connect, Delete, worker, SignalingCtrl, DoMsg | a call times out while its answer is on its way; Delete tears down what the worker uses |
| Client history (`XClientHislog`) | one buffer of frames with an index, a cursor, times, mp4 progress | list, download, close, seek, play a frame, seconds, mp4 file | network thread, player and user share the buffer, only two of them with a lock |
| Client live stream (`XClientStream`) | status, login flag, send list, decoder, voice list and voice thread, recording file | Play, Close, Sound, CapturePictures, Record, XDelete; worker with re-login; voice thread; callbacks | four threads share lists and flags, some of them outside the locks that are there; the worker logs in again under the user's feet |
| Classic client (`ClassicClientInstance`) | list of devices, a signaling object per server, one lock | GetDevices, SignalingCtrl, the makers of stream and download objects, XDelete | the lock is held while a call waits for the network, and XDelete does not take it |
| Phone as a device (`PhoneDevice`) | login flag, send list, worker | Start, Stop, InputData, worker, callbacks | InputData tests flags without a lock; the buffer being sent stays in the list that LogoutPlat frees |
| Web centre (`NewPlatCenter`) | tables in SQL Server, no foreign keys | handlers that add, edit, delete | a handler is several transactions; requests of several sessions interleave |
| Protocol headers, test programs, node exercises, face demo, `IOTClientInstance` | none worth a model | | data layouts, load generators, samples, stubs |

Components interact through the network library's callbacks (one thread of its
own delivers READ and WRITE for a stream), through shared fields, and, between
device, client and web centre, only by way of servers that are not here.

What makes each correct: a live connection keeps its pumps; nothing is used
after it is freed; nothing of one connection leaks into the next; calls return;
connections come back; an answer goes to the call that asked; a player sees
whole frames, each in turn; tables that refer to each other keep doing so.

## Modules

| Module | Models | Checked with | Proofs |
|---|---|---|---|
| `DeviceInstance` | device instance and both channels | `MCDeviceInstance` | `DeviceInstanceProofs` |
| `ClientSignaling` | client signaling channel | `MCClientSignaling` | `ClientSignalingProofs` |
| `ClientHislog` | history download and playback | `MCClientHislog` | `ClientHislogProofs` |
| `ClientStream` | live stream, recording, voice | `MCClientStream` | `ClientStreamProofs` |
| `Channel` | no code: what a message channel promises | implemented by `ClientStream` and twice by `DeviceInstance` | in `ClientStreamProofs`, `DeviceInstanceProofs` |
| `ClassicClient` | device list and the calls on it | `MCClassicClient` | `ClassicClientProofs` |
| `PhoneDevice` | phone as a device | `MCPhoneDevice` | `PhoneDeviceProofs` |
| `PlatCenter` | web centre | `MCPlatCenter` | `PlatCenterProofs`, `PlatCenterAloneProofs` |

Each `Proofs` module extends the module it is about. The parts of an inductive
invariant are definitions of the module itself, so that TLC can check them too.

### DeviceInstance

The owner's thread (`opc`) runs XConnect, XDisconnect and XDelete; the worker
(`wpc`, `wch`) runs `Woker` and, inside it, a channel's Connect, one step per
blocking exchange or shared field written; application threads (`apc`, `aop`)
run XSendMessage, XSendStream and XGetStatus, one step per shared field read or
written, since no lock covers the whole call; callbacks are `Receive`,
`ReadDone`-like steps of `rd` and the steps of `wr`. The two channel classes are
the same code twice, so the channel is a parameter. A send list holds messages
of kind heartbeat or application, each with the session number in its header.
Time is one bit per channel: silent for ten seconds or not.

A pending read is `rd`, a WRITE callback to come is `wr`; the library's promise
(external) is that after SetStreamData a first READ callback of no bytes and a
first WRITE callback come, and that none comes after Release. `opened` is a
history variable: the server opened the stream on this connection.

### ClientSignaling

Every test of `m_pTcpStream` and the use after it are separate steps; a use of
a pointer that has become NULL, or of an empty list's front, sets `fault` and
ends the behaviour's interesting part. A call of SignalingCtrl is a number, and so is its
answer. The comparison of uuids in DoMsg reads a string another thread may be
writing; `overlap` remembers that it did, and then either outcome is possible.
`again` remembers that the worker made a stream after Delete had looked for one.

### ClientHislog

A frame is a type and a time. `file` is the frames copied, `idx` the number
published; data_callback raises the second after the first, in steps of their
own, without the lock. The player takes the lock, finds a frame (`FindFrame`),
collects the audio frames before it (`Collect`), releases the lock and decodes.
Counters the constructor does not set (`m_nDownloadFileLen` and others) start at
0, as in memory that was never used; of an object whose memory held something else
nothing is claimed. A second download with the same object
resets no counter: its frames follow those of the first, and the lengths the code keeps
count both. The three getters of seconds (played, downloaded, total) change nothing and
are not modelled: the code leaves open what they mean after a second download.

### ClientStream

The user's thread (`upc`) runs XClientStreamPlay, Close, Sound, Capture, Record
and XDelete; the worker (`wpc`) runs the loop that beats and, after fifteen
seconds of silence, logs in again. Login is the same code on either thread: its
place is `lpc`, and `Places` says that only one of the two is ever in it. With
`Windows` the model is the build in which Play logs in before it starts the
worker. The READ callback has a place of its own (`cpc`) in DoMsg, since it
hands an audio buffer to the voice thread, writes the recording and makes the
decoder in separate steps; the voice threads (`vpc`) take the front of
`voice`, decode it and pop it, the first and the last under different tests
than the middle. `orphan` is a history variable: a Close has forgotten a voice
thread that runs. A misuse of shared state (an empty list's front, a buffer
that is gone, a decoder that is not there) sets `fault`, after which the model
only stutters. A frame is its type and its format (`Formats` stands for the six
fields DoMsg compares); `file` remembers the first frame and the formats
written. Pictures, samples, Java and window code are left out.

### Channel

The abstract specification that a message channel is to implement: a
connection belongs to one session, a greeting (if the class has one) is put
once and first, what waits was put on this connection, and is lost with it.
`ClientStream` maps `up` to the registered stream, `greeted` to the end of
Login's OPEN_STREAM, and `out` to the send list; its steps LoginSession,
LoginRegister, LoginOpen, WorkerBeat and WriteNext are NewSession, Establish,
Greet, Put and Send, and LoginBegin and CloseRelease are Close. `DeviceInstance`
implements it with each of its two channels and without a greeting: `up` is a
registered stream, `out` the send list, WorkerBeat is Put. Application threads fill
in a frame or a message before they take the lock of the list, so these kinds
are `Unlocked`: PutUnlocked may come when there is no connection, and may carry the
number of a session that is over.

### ClassicClient

Every call takes `m_cs` (`lock`), works and gives it back, so a thread is at
one of: waiting, asking the centre, making the missing objects
(`UpdateSignalingServers`), looking a device up, waiting for an answer, leaving,
making a stream or download object outside the lock. An object of
`ClientSignaling` is seen from outside: it exists, a call uses it, Delete was
called. Objects of servers that left the list stay in the map, as in the code.
XDelete runs on another thread and takes no lock; when it meets a thread in the
list or the map, `fault` may be set.

### PhoneDevice

The user runs Start and Stop, the worker logs in, watches for twenty seconds of
silence and logs out; InputData is three steps, for its two tests without a lock
and its push under `m_csMsg`. LogoutPlat, which both Stop and the worker run, is
two steps: release the stream, empty the list. The WRITE callback hands the
front of the list to the stream and does not pop it; `sending` is the buffer the
stream was given. `m_bStreamIsError` is reset by Start alone, so that after an
error later logins are silent (`PacketIgnored`). A frame is who brought it and
at which login, both history.

### PlatCenter

`db` is the tables, `req[r]` the request session r runs: which handler, at which
round trip, and the rows its DbContext tracks. A query and a SaveChanges are one
step each. SaveChanges is a transaction that writes only by primary key, so it
is atomic; it throws if a row it updates or deletes is gone, and writes all
columns of a row marked Modified, with the values the query returned. `Abort`
ends a request between any two round trips; `RollBack` is a save that fails after some
of its inserts, whose ids the identity columns have used up all the same (SQL Server).
Core and live servers have the same handlers over two columns, so the column is a
parameter (`kind`). ASP.NET runs the requests of one session one at a time;
requests of different sessions overlap freely.

Ids come from the lists and trees of a page, which may be old: `Shown` is every id that
was ever given out, whether its row is there or not, since no handler looks. The
kind of a server, which is the page it is on, is right as long as the server exists
(`ShownServers`). Serial numbers are looked up as they were sent and stored as
`HtmlDecode` makes them, a constant function that may map several to one.

Two sessions that write at the same time can break almost everything here, so most
promises are about one that was left in peace: `alone` is a history variable, true
as long as no other session has written since this one's request was sent. What other
requests left behind when they died, or wrote before, is part of the start, and so is an
old page. `DeletedForGood`, `NoWrongKind` and `NoCircle` need no such condition. DeleteArea
queries by `_d[n].ID`, an expression the query provider may refuse to translate; it then
ends in an exception, which is one of the behaviours of `Abort`.

## Runs

Passing runs:

| Run | Question | Bounds |
|---|---|---|
| `device_worker` | Do channels keep their pumps, send frames only where the server opened the stream, follow one route, and implement `Channel`? | 1 thread in XGetStatus, which writes the error flags late; 2 sessions, 2 routes, signaling list of 1 and stream list of 0 application places |
| `device_queue` | By how much can unlocked length tests overfill the list? | 2 threads in XSendStream, limit 0, list of 2 |
| `device_live` | Is a stalled channel released, does XDisconnect return, does a device get connected? | 1 thread in XSendMessage, 1 session, 1 route |
| `client_calls` | Is an answer ever given to the wrong call; can a thread crash without Delete; are requests sent once; is a broken connection released; does Delete return? | 3 calls, list of 2 |
| `hislog_play` | Does the player see whole frames, each in turn, to the end; does any reader get ahead of the download? | 2 downloads with one object, 4 frames a second apart in all, the seek to 0 or 1 s; 1 seek, list, close or mp4 file |
| `center_tree` | Does a handler that deletes leave nothing behind that names what it deleted, does an edit of a group install its list, whatever died before and however old the page? | 2 sessions; 2 areas, 1 device, 2 groups, 2 links ever |
| `center_servers` | Is a deleted server off every device, is anything revived by a row written back late, does a device ever name a server of the other kind? | 2 sessions; 1 device, 2 servers, 1 account ever; 2 serial numbers that decode to one |
| `stream_play` | Does a connection carry its own messages only, is a recording whole, can the voice thread be left with nothing, is the status true? | every call of the user, 2 sessions, 2 formats, 1 voice thread, 2 audio buffers, list of 2 |
| `stream_live` | Does every call return, is a stream nobody reads noticed? | the Windows build; Play, Close, Delete, Sound on and off; 1 of everything else, list of 2 |
| `classic_client` | Does a request find the server its device is listed with, alone on that server's object; do calls return? | 2 threads, 2 devices, 2 servers, XDelete at any time |
| `phone_device` | Is the buffer being sent still held; how many frames of an earlier login can the list hold? | 2 threads, list of 3, 3 logins |

The bounds are the smallest at which the interesting case happens: two routes
and two sessions tell an old one from a new one; two threads race for one
place; three calls give an answer that comes during a later call, and one that
is two calls late; four frames contain I P A I and every other order, and may
be split between two downloads at any place; two sessions overlap, with a row to
delete and one that refers to it; two servers are one of each kind; two formats make a
recording that must end; three logins leave frames that are two logins old; a list of
three holds a stale frame of each of two threads and one more. `QueueCap`, `MaxCalls`,
`MaxFrames`, `MaxDownloads`, `MaxOps`, `Limit` (rows ever inserted into a table),
`MaxLogins`, `MaxAudio` (the code's 16, here 1), `Voices` and `Buffers` are the model's
bounds.
`SendLimit` is the code's 30, here 0. The symmetry of threads and of sessions is
used where no definition tells them apart and no liveness is checked.

One run ends in a violation, a finding in `PROJECT.json` with the quotation:
`client_error` shows that a failed login leaves the client's error flag clear,
so that the worker never tries again.

The same models show more with a small change of a configuration:

- two threads of the application in XSendStream and two sessions in
  `DeviceQueue.cfg` break `FramesAreCurrent`: a frame filled in for one
  connection is sent on the next (against the comment at
  `XDeviceStream.cpp:228`);
- `HislogPlay.cfg` with `StartsWithIFrame` or, with a decoding time of 1000 ms,
  `ReturnTellsPlayed`: playback may start with a P frame, and a played frame is
  reported as no data;
- in `CenterTree.cfg`, `MCRoots` as the limits and `Index` and `DeleteArea` as the
  operations break `RootStays`: two first visitors make two administrators and
  two root areas, the second of which can be deleted. With `Index` alone, already
  one visitor breaks `DefaultArea`: a first save that is rolled back uses up the
  id 1, by which DeleteArea knows the default area (`HomeController.cs:99`);
- without the condition `alone`, `CenterTree.cfg` breaks `NothingLeftBehind` (an area gets
  a child, a deleted device a link, while it is deleted) and `GroupsFollow` (two edits of a
  group link a device twice), and `CenterServers.cfg` breaks `ServersDetached` (a device
  is attached between the two saves of its server's deletion).

`NoUseAfterDelete`, `NoErrorMeansConnected` and `HeartbeatsAreCurrent` of the
device, `LeftBehindOnlyByRelogin` of the client's signaling channel and `NoCircle` of the
web centre are proved for every instance and not listed by a run.

## Fairness

Threads are scheduled: the worker, the owner inside a call, application threads
inside a call and callbacks that have begun are weakly fair. In
`ClientSignaling` and `ClientHislog` the worker, Delete and the player compete
for a lock or wait in Release for callbacks to end; they are strongly fair,
since both locks and Release let a waiting thread in eventually; so are, for the
same reason, the user's call and Login in `ClientStream` and the threads of
`ClassicClient`. The worker, DoMsg and the voice threads of `ClientStream` are
weakly fair, and silence comes only to a stream that is not read. Time passes:
a channel hears from its server or becomes silent (`Expire`, `Receive`).
The network owes nothing; `EventuallyConnected` alone supposes, in its own
statement (`ServersReachable`), that an exchange that is tried again and again
succeeds some day.

## Proofs

`DeviceInstanceProofs` proves, for every number of application threads, sets of
sessions and routes, list bounds and commands allowed by `ConstAssumption`:
type correctness, `NoUseAfterDelete`, `PumpsRun`, `NoErrorMeansConnected`,
`HeartbeatsAreCurrent`, `SendOnlyIfOpened` and `SameServer`.
None of them is inductive alone. `IInv` adds `Lifecycle` (which object exists
while the owner is where), `Connections` (only the worker holds an unregistered
stream, callbacks are due on registered streams only, and the error flag is clear only from
the login on), `QueueOrigin` (no heartbeat is queued between Disconnect and the
session number), `RouteInUse` (the route changes only while both flags are set)
and `MessageReady` (a thread about to push has filled in its message). `PumpsRun` needs
`Connections`: the application thread's late write of TRUE can only ever set the flag, and the flag
is cleared only before SetStreamData.

It also proves `BoundedFrames` for any finite set of application
threads (`AppAssumption`) and any limit. The test of the length is not locked, so
the argument gives every frame over the limit to a thread of its own: a thread
counts from its test to its push, its frame from then on. A push adds a frame and
takes a thread away, a pop only removes, and a thread that passes the test found
room.

Last, it proves that both channels implement `Channel`. A step moves a channel in one
of six ways (`ChannelMoves`: close, renew the session, establish, beat, push, send) or
not at all; one lemma for each action says which, and `SignalingMoves` and
`StreamMoves` that each way is a step of `Channel`. The invariant is needed where the
abstract step has a guard the code does not test: the session number changes only
while the channel is down, and the worker beats only on a connection that is up
(`BeatConnected`). The run checks the mapping without application messages, which
would multiply its states; the theorem covers them.

`ClientSignalingProofs` proves, for any number of calls and lists of any length,
every safety invariant of `client_calls`: type correctness, `AnswerIsOwn`,
`FaultOnlyInDelete`, `LeftBehindOnlyByRelogin`, `PumpsRun` and `SentOnce`. `Connection`
relates the pointer to where the worker is and to how far Delete has come
(while the object is in use, only the worker sets it to NULL); `Answering` says
that during a call whatever DoMsg keeps is the answer to that call, which holds
because the flag is reset before the uuid is set and `overlap` covers the time
between; `Numbers` that a call in progress is not in the list before it is sent.

`ClientHislogProofs` proves `PublishedIsComplete` and the action property
`NoFrameSkipped`, from `BoundsAssumption`, for recordings, gaps and bounds of any
size. The network thread takes no lock, so the argument is about order:
`Published` says by how much the frames copied and the frames counted differ,
and the lemma `FramesStay` that a frame once counted never changes. `LockHeld`
keeps a seek out of GetNextVideoFrame, `Disconnected` keeps callbacks of an old
download out of a new one, and `CursorOnNext` says that between two frames the
cursor stands on the next video frame, which the first loop must then find.
The module also proves type correctness (with the progress of an mp4 file, which
is below 100 while frames are missing), and `ReadersBehindDownload` for any number of
downloads with one object. It holds because nothing ever lowers `idx`: a cursor, a
found frame and the length an mp4 writer noted were below it once, and only `FindFrame`,
`Collect` and a seek set a cursor, each to a frame below `idx`.

`PlatCenterProofs` proves what survives requests that overlap, for any number of
sessions, handlers and rows and any `HtmlDecode`. `Typed` adds to `TypeOK` what the ids and
kinds of a request are by its handler, since they end in the rows it inserts or
writes back. `DeletedForGood`: a save writes back whole rows read round trips before,
and still never revives a row deleted meanwhile, since it fails instead. The lemma
`EveryStepTables` says of every action what it may do to the tables (`StepTables`:
ids are new, only devices are written over, and with what the request tracks).
`NoCircle`: a page shows only ids that were given out, so a parent is older than the area,
and no handler moves an area. `NoWrongKind`: `KindInv` says of every server id, in a row of
the database, in a row a request tracks or in the request itself, that it was issued and
is of its kind as long as its server exists. It may outlive the server.

`PlatCenterAloneProofs` proves the three promises about deletions and edits,
`NothingLeftBehind`, `ServersDetached` and `GroupsFollow`, for any number of sessions and
rows and without a further hypothesis: the condition `alone` is part of the properties,
since nothing in the code keeps other sessions away. `AloneInv` says that what the earlier
round trips of a request established still holds while it is alone (`Context`), with one
definition for each kind of handler: `AreaPlan` (no child; the area's devices are tracked
and the links of those already asked for are marked), `LinksPlan` (the links to delete are
marked, and none is left when the row goes), `EditPlan` (the group's links and the
devices still to be linked are disjoint), `ServerPlan` (no device is left to detach).
Nothing is assumed of the tables a request starts from, so it does not matter which
handler died before. For `ServersDetached` the column the handler did not look at is
the other kind's, which `KindInv` covers.

`ClientStreamProofs` proves, for both builds and sets and lists of any size, every safety
property of `stream_play`: type correctness, `RecordingWhole`, `StatusIsHonest`,
`VoiceFaultsOnlyAfterClose`, and that the module implements `Channel`. `Places`
says that Login runs on one thread at a time; `Connections` that nothing is
queued before Login ends, which makes the list of a new session empty although
the worker logs in without a look at it; `StatusPlaces` where the three writers of
the status may be while it reads "connected"; `VoiceThreads` that, as long as Close has
forgotten no thread, the frame the voice thread has taken is at the front of the
list, which only that thread pops. The refinement has one lemma per
thread: its steps of the mapping above are steps of `Channel`, every other step
leaves the four mapped values alone.

`ClassicClientProofs` proves type correctness and `ListIsServed` for any number of
threads, devices and servers: `HoldersLocked` (a thread in the locked part of
its call is the holder), `ServedUnlessUpdating` (list and map disagree only while
the holder is in UpdateSignalingServers) and `CallsServed`.

`PhoneDeviceProofs` proves type correctness, `BufferOutlivesWrite` and
`StaleFramesBounded` for any number of threads and logins. `Connections` says
that whoever empties the list has released the stream, so no buffer is out.
The bound on stale frames rests on `OneFrameEach`: between LogoutPlat and the
next login (`Cleared`) nobody can enter InputData, so each thread adds at most
the frame of the call it was in; the login makes those stale, and
`StaleCallsBroughtNone` carries the count on for a thread that is late.

Every safety property a passing run checks is a theorem. Left to TLC, as the
installed provers do not handle ENABLED or fairness, are the liveness properties:
`StalledIsReleased`, `DisconnectReturns`, `EventuallyConnected`, `BrokenIsReleased`,
`DeleteReturns`, `PlaybackAdvances`, `DeadReadIsReleased` and both `CallsReturn`.

## What is not modelled

- Payloads, encryption, JSON texts, codec and drawing calls, log lines, sizes of
  buffers.
- What the memory of a new `XClientHislog` holds in the counters its constructor does not set.
- Times, beyond "silent for so many seconds" and the 1.5 s limit of a call
  (either may happen at any time). That a blocking Connect of one device channel
  delays the heartbeat of the other needs clocks and the limits of the servers,
  which are not in the repository.
- `IOTClientInstance`: Init and the calls on devices are stubs that return a
  constant, and the one request it makes is called by nobody.
- Protocol headers and JSON builders, test programs, database exercises, the face
  recognition demo: no state of the system.
- In the web centre, the edits that change texts only, and the log table nothing
  writes. In `ClientHislog`, decoding, drawing and the destructor.
- Servers, network library, players and the mp4 library, of which the repository
  has headers and binaries at most: they are the environment of the models.

## Plan

1. (done) `DeviceInstance`, with proofs: the device is the component that has to
   run for months, and its channels are the pattern of every other.
2. (done) `ClientSignaling`, `ClientHislog`, `PlatCenter`, with proofs.
3. (done) `ClientStream`, and `Channel`, which it and `DeviceInstance` implement.
4. (done) `ClassicClient` and `PhoneDevice`, with proofs.
5. (done) `BoundedFrames`, the types of `ClientHislog`, and that its readers stay behind any
   number of downloads, as theorems.
6. (done) That `DeviceInstance` implements `Channel`, as a theorem.
7. (done) The web centre with old pages, rolled-back saves and overlapping sessions: what
   survives them, and what a handler promises when it is left alone, as theorems.
8. Worth proving next: that `ClientSignaling` implements a channel too, of a weaker kind than
   `Channel` (its messages carry no session number, and after a login that fails it
   queues heartbeats without a connection).
