# playstream: a verification project

playstream is an Android player for RTSP cameras. A Java activity calls a JNI
layer, which keeps camera objects; each playback of a camera runs a LIVE555
RTSP client on an event loop in its own thread, and draws what an FFmpeg
decoder makes of the frames into a bitmap the activity owns. The repository
holds the application (`src/src/my/streamplayer`, `src/jni/player`), a copy of
LIVE555 (`src/jni/liveMedia`, `BasicUsageEnvironment`, `groupsock`,
`UsageEnvironment`, `mediaServer`, `proxyServer`) and of FFmpeg
(`src/jni/rockffmpeg`).

## 1. Inventory

| Part | Source | State | Operations | Correct when |
|---|---|---|---|---|
| Activity | `PlaystreamActivity.java`, `Rtsplayer.java` | the bitmap, the Handler's queue | Play1, Stop, Quit, Snap buttons, "disp1" messages | pictures shown are those of the stream last started |
| JNI layer | `my_streamplayer_Rtsplayer.cpp` | globals `MyIPCAM1`, `pixel1`, `info`, `errorCam1` | `CreateRec`, `StartRec`, `StopRec`, `DisplayCb_1` | a picture is drawn with the pixels and geometry of its own camera |
| Camera, controller | `ipcam_camera.cpp`, `ipcam_controller.cpp` | one `rtsp_play`, one thread | `play_connect`, `start_playback`, `stop_playback` | one thread per event loop; Stop reaches it |
| Decoder | `ipcam_vdec.cpp` | one context shared by all playbacks of a camera number | `getInstance`, `setparam`, `InitMPEG4Dec`, `DecVideo` | one thread at a time, with a context of its own size |
| Playback session | `ipcam_rtsp_play.cpp` | pending request, iterator, sinks, `miscPtr`, watch variable | answers to DESCRIBE, SETUP, PLAY; frames, BYE, closure; shutdown | see 4.1 |
| Recording session | `ipcam_rtsp_rec.cpp` | as above, with a file sink and timers | not called by the application | - |
| RTSP client | `RTSPClient.cpp` | connection, three request queues | `send...Command`, connection, response and tunnelling handlers | every request gets one answer, in order |
| RTP source | `MultiFramedRTPSource.cpp` and its H.264 and MPEG-4 subclasses | reordering buffer, frame under assembly | packet arrival, `doGetNextFrame1`, `doStopGettingFrames` | whole frames, in order, none lost without a lost packet |
| RTCP | `RTCP.cpp` | members, BYE handler, report timer | reports, BYE | reports keep their distance; a BYE is heeded; the silent are forgotten |
| Timer queue | `DelayQueue.cpp`, `BasicTaskScheduler0.cpp` | entries with delta times | schedule, unschedule, `handleAlarm` | tasks neither early nor late, in order |
| Event loop | `BasicTaskScheduler.cpp`, `BasicTaskScheduler0.cpp` | sockets and their handlers, event triggers, watch variable | `SingleStep`, `setBackgroundHandling`, `moveSocketHandling`, triggers | each round calls at most one socket, one event and one alarm, and nobody starves |

How they interact. The user interface thread calls JNI functions, which write
globals and a watch variable that the playback threads read; there is no lock
anywhere in the player. In a playback thread everything is a callback: the
event loop calls the RTSP client, which calls the response handlers of the
session, which start sinks; RTP arrivals call the source, the source calls the
sink at once or through the timer queue, the sink calls the decoder and the
JNI layer's `DisplayCb_1`, which posts a message to the activity.

What is hard here: a BYE or a closure in the middle of the handshake; frames
whose delivery was put off; Play clicked again while a playback runs; the
decoder and the globals shared by threads; loss, reordering and wrap-around of
sequence numbers with fragmented frames; a clock that is set back; requests
that are queued, resent or answered in parts while handlers send new ones;
handlers that replace handlers while the event loop walks over them; a report
timer that BYEs bring forward. The full list, each at its line with the
properties aimed at it, is `hazards` in `PROJECT.json`.

## 2. Modules

| Module | Models | Role |
|---|---|---|
| `StreamLifecycle` | what a playback promises | abstract specification |
| `PlaySession` | `ipcam_rtsp_play.cpp`, with what it uses of `RTSPClient`, `MediaSink`, `FramedSource`, RTCP and the event loop | implements `StreamLifecycle` |
| `PlaySessionProofs` | - | theorems about `PlaySession` |
| `Camera` | activity, JNI layer, cameras, shared decoder | several playbacks, one shared access at a time |
| `CameraProofs` | - | theorems about `Camera` |
| `VideoDecoder` | one `DecVideo` call | its picture buffer |
| `RequestService` | what the RTSP client promises | abstract specification |
| `RTSPClient` | `RTSPClient.cpp` without HTTP tunnelling | connection, request queues, responses; implements `RequestService` |
| `RTSPClientProofs` | - | types, queues, matching of responses, each request handled once, and the implementation of `RequestService` |
| `RTPSource` | `MultiFramedRTPSource`, `ReorderingPacketBuffer`, H.264 and MPEG-4 headers | one source, an unreliable network |
| `RTPSourceProofs` | - | theorems about its reordering buffer and the frames it delivers |
| `RTCP` | `RTCP.cpp`, `rtcp_from_spec.c` | report timer, members, BYE |
| `RTCPProofs` | - | theorems about `RTCP` |
| `TaskScheduler` | `BasicTaskScheduler.cpp`, handler set and triggers of `BasicTaskScheduler0.cpp` | the event loop and what handlers do to it |
| `TaskSchedulerProofs` | - | theorems about `TaskScheduler` |
| `DelayQueue` | `DelayQueue.cpp` as the scheduler uses it | timers under a clock set back |
| `DelayQueueProofs` | - | theorems about `DelayQueue` |
| `Extrema` | - | a set of numbers has a least, a finite one a greatest element |
| `MCPlaySession`, `MCCamera`, `MCRTPSource`, `MCRTCP`, `MCTaskScheduler`, `MCDelayQueue`, `MCRTSPClient` | - | what TLC runs |

`Camera` takes from a playback what `StreamLifecycle` says of it: it goes on
until it is asked to stop, and leaves only between two handlers; `PlaySession`
implements that. `PlaySession` takes from the RTSP client that a handler is
called once, after its request came back, at once or later, and by the answer
that belongs to it; `RTSPClient` implements that (`RequestService`,
`HandledOnce`, `AnswersOwnRequest`), except for a request that cannot be sent
again (4.6). That a frame may be delivered at once or through the timer queue
is in detail in `RTPSource`; that a task runs neither early nor late, in
`DelayQueue`; that the thread comes round to every ready socket, in
`TaskScheduler`; when the BYE handler is called, in `RTCP`.

Definitions whose comment begins with "Mutant" are not part of a model. Each is
the form a mapped definition would have after a plausible mistake; the property
listed with it in `PROJECT.json` fails when it takes the definition's place,
which shows that the run would notice.

## 3. How state and actions correspond to the code

**PlaySession.** `pc` is where the thread is in `doEventLoop`: `check` (the
watch variable), `select` (at most one readable socket), `alarm` (at most one
due task). Handlers run to completion within one round, so each handler is one
action, including everything it calls: `PlayContinueAfterSETUP` creates the
sink, starts it, registers the BYE handler *and* walks on to the next
subsession, sending SETUP or PLAY, or shutting the stream down when PLAY cannot
be sent. `PlaySetupNextSubsession`, `PlaySubsessionAfterPlaying` and
`PlayShutdownStream` are therefore operators over the sinks reached so far, not
actions. `sink` holds the subsessions with a sink pointer and `live` those
whose sink object exists: that they agree is a property, not an assumption.
`awaiting` is `fIsCurrentlyAwaitingData` of each source, `deferred` the
`afterGetting()` tasks in the timer queue. The user interface thread only
starts the thread, which may fail (`failed`: the result of `pthread_create` is
ignored and a later click tries again), and sets the watch variable, at any
time. `shutdown` and `stale` are history.

`playshutdownStream` closes sinks only. The media session and the client are
closed in code that is commented out, and the model keeps them.

**Camera.** A click is a sequence of steps (`ui`), each one access to shared
state, because playback threads run in between; so are `InitMPEG4Dec`, decoding
and drawing in a playback thread (`at`). `StartRec` and `StopRec` contain what
they call: `StartMedia` with a `pthread_create` that may fail, and `CloseMedia`.
`failed` is history: the calls that failed, by click. `patient` is history too:
it is true as long as Play was clicked only while no playback ran. Objects are
never freed in the code, so camera and bitmap are named by the number of the
click that made them.

**VideoDecoder.** One call of `DecVideo`: the codec, which is external, takes
any part of the data, returns a picture or none, or fails. `frees` counts how
often the call freed its picture buffer.

**RTPSource.** The sender numbers packets 1, 2, ...; a packet carries its number
modulo `M`. The identity is history: the properties read it, the actions of the
source read only the sequence number. `delivered` is history too: it flips with
every frame the sink gets, so that a frame that comes twice in a row can be told
from one that came once. The kinds of packets are `single`,
`start`, `mid`, `end` (a frame in pieces), `again` (a middle piece that looks
like a first one, MPEG-4) and `aggregate` (H.264 STAP and the like). One
iteration of `doGetNextFrame1`'s loop is one action; the network is heard only
when the loop is left. The reordering threshold of 100 ms is wall-clock time
and may or may not have passed at any call.

**RTCP.** Times are relative to the wall clock now: `elapsed` since the previous
report, `wait` until the next one. `timers` holds the `onExpire()` tasks that
are scheduled; that there is one is a property. A member is kept with the number
of the report at which it was last heard; `age` is how many reports ago that was
and `phase` the count modulo the reaping period, so that the count has no bound.
`rtcp_interval()`, a random number, is any of a few intervals. `fresh` (who sent
media or an SR since the last report), `since` (the true time since the last
report), `shrinks` (how many BYEs shrank the group since) and `sent`, which
flips with every report, are history. `elapsed` is what the code takes for the
time since the last report: a BYE that shrinks the group scales it down.

**TaskScheduler.** `pc` says whose handler runs in `SingleStep`: that of a
socket, of an event, or an alarm. What a handler does to the scheduler (setting,
clearing and moving handlers, creating, deleting and triggering events) are
actions that happen any number of times while its phase lasts. Which sockets are
ready is the network's choice, and whether a handler reads all there is its own.
`passed` is history: the sockets handled while another one waits.

**RTSPClient.** A handler may send the next request, so `sendRequest` nests in
handlers and handlers in `sendRequest`. `calls` is the stack of what is still to
be done before the event loop is reached again: a request to send or resend, a
handler to call. Each way through `sendRequest` is an action on the top of it;
connection events and responses need it empty. A queue that the code empties in
a loop (`Connected`, `ConnectionFailed`, `ConnectionLost`) becomes that many
calls, in order, so a handler called in the middle of the loop can send in
between, as in the code. `waitConn` and `waitResp` are the two request queues,
`partial` is the response in the buffer whose body is incomplete: it is parsed
again from its start when the rest arrives. `FoundAt` is the search for the
request of a response, with what it removes on the way. The server, which the
code does not contain, is the queue `atServer`: it answers each request once, in
order, with a correct CSeq or none, any response code, whole or in two pieces.
`unsent` is history.

`Status` is the refinement mapping to `RequestService`: a request that is in
`waitResp` is with the server, one whose handler was called is told, and any
other one that was issued waits, be it for a connection, its turn in a loop or
the call of its handler.

**DelayQueue.** Entries hold deltas as in the code. `synchronize` takes the time
since the last call off the front; a clock that went back counts as no time.
The history variable `time` is real time, `due` the real time a task was
scheduled for.

## 4. Runs

All bounds are constants of the modules, given in the `.cfg` files; each run
takes seconds, the longest a minute or two.

### 4.1 Playback (`MCPlaySession`, N = 3, RTCP for subsessions 1 and 2)

- `play` (passes): `TypeOK`; `SinkPointersExact` - pointers and objects agree
  after any order of BYE, closure, shutdown; `ReadersAreLive` - no source waits
  on behalf of a deleted sink; `AnswersMeetTheirRequest` - an answer, which is
  applied to `scs.subsession`, finds the state its request was sent in, and a
  stream that waits for no answer has come to its PLAY or was shut down;
  `LastSinkShutsDown` - with the last sink the stream is shut down;
  `StopEndsThread` - Stop is noticed from every point, with no help from the
  server, if there is a thread; `ImplementsLifecycle` - the whole abstract specification.
- `play_shutdown` (violated): `ShutdownIsFinal`. A BYE for the only subsession
  set up so far shuts the stream down, and the answer to the next SETUP, still
  pending, opens a sink on it and sends PLAY.
- `play_stale` (violated): `NoFrameAfterClose`. `doStopGettingFrames` leaves
  the deferred `afterGetting()` in the timer queue.

Three subsessions are the least with one before, at and after the current one,
and with one without RTCP; the theorems (section 5) remove the bound for safety.

### 4.2 Cameras (`MCCamera`, two sizes, every platform call may fail)

- `camera` (passes): three clicks on Play, or two once a click did not wait for
  the playback before. As long as every click waited (`patient`), the decoder is
  used by one thread (`DecoderExclusive`), opened for its size (`DecoderReady`),
  and pictures are drawn with the geometry of their own bitmap, and its pixels
  unless locking these failed (`DisplayConsistent`). Nothing in the code makes a
  user wait, and without waiting none of the three holds, which is why the
  assumption is explicit. With clicks at any time, still no frame is decoded or
  drawn through NULL unless the playback's own `lockPixels` failed
  (`NothingIsNull`); no event loop gets two threads, except that of the camera a
  later click falls back to because its `getInfo` failed (`OneThreadPerLoop`);
  and a playback that was asked to stop ends (`StopEndsPlayback`).

Three clicks give a playback before and one after the one in question; with
overlapping playbacks two are enough for every pair. `MaxMsgs` = 2 caps the
message count, which stands for "so many or more" (`ShowBitmap` may leave it at
the cap).

### 4.3 Decoder (`VideoDecoder`, MaxSize = 2)

- `decoder_buffer` (violated): `FreedOnce`. Data that yields a picture and then
  an error, or two pictures, frees the call's only picture buffer twice. Two
  bytes are the least that can be taken in two parts.

### 4.4 RTP source (`MCRTPSource`, M = 8, Window = 4)

- `rtp` (passes): 12 packets, so that numbers wrap around and the sender's
  pattern repeats, any loss, duplication and reordering in the window, and one
  change of SSRC. One sender sends fragmented and single-packet frames, another
  single packets and aggregates. `QueueInSendingOrder`, `FramesWhole`,
  `FramesInOrder`, `OnlyDamagedFramesSkipped`: frames come whole, in order, and
  one is skipped only when a packet of it was given up; a frame delivered twice
  in a row counts as out of order. `SavedPacketExact`: the
  preallocated packet is in use exactly while it is queued, after a change of
  SSRC too. `OnlyDamageDelays`: data the sink waits for stays in the queue only
  behind a rejected packet.
- `rtp_assert` (violated): `HeadNotPassed`, an assertion in a comment of the
  code, when the sender changes its SSRC.

`Window` (at most M/2) is the assumption on the network: a packet comes less
than that many numbers from the one expected, and none is exactly half the
circle from one in the queue. It is what comparison modulo M needs; in the code
M = 65536 and half of it is some 30 seconds of video at 1000 packets a second.
M = 8 is the least even number with room for a fragmented frame inside half the
circle; the theorems hold for every even M.

### 4.5 Timers (`MCDelayQueue`)

- `timers` (passes): three tasks with delays 0, 1 or 3, four units of time, the
  clock set back by up to two in all. `TimersAccurate` - an entry is due no
  earlier than scheduled less the setbacks and no later than scheduled, however
  the queue was changed in between; `RunsInDueOrder` - a task overtakes another
  by no more than the setbacks, and equals run first come, first served;
  `DueTaskRuns` - under fairness a due task runs.

Three tasks give an entry before, at and behind the one that is added or
removed.

### 4.6 RTSP client (`MCRTSPClient`)

- `rtsp` (passes): five requests, up to three outstanding, eight CSeq numbers.
  `HandledOnce` - a request is in exactly one place until its handler is called,
  which happens once; `QueuesHaveConnection` - nobody waits for a connection
  that is not being made or for a response on a closed one;
  `AnswersOwnRequest` - a response goes to the request it answers, also without
  a CSeq and in pieces; `ImplementsService` - the whole of `RequestService`: no
  handler is told while its request is out, and no request hangs before it is
  sent or after it came back.
- `rtsp_resend` (violated): `NoneTwice`. A request to be sent again (redirected,
  or with a password) that cannot be sent is handled and deleted by
  `sendRequest` and once more by `handleResponseBytes`. In `rtsp` these are the
  only requests allowed a second call.

The player has one request outstanding, as `AnswersMeetTheirRequest` says of
`PlaySession`; the run allows three, the least for a queue with a middle. Five
requests let handlers send new ones while a queue of three is emptied; three
CSeq numbers are left for resending. Assumed (in `ResendCommand`): nothing is
pipelined behind a request that must be resent.

### 4.7 Event loop (`MCTaskScheduler`)

- `eventloop` (passes): three sockets, three triggers, five calls that change
  handlers or triggers. `SelectSeesEveryHandler` - after any of these calls
  `select` is told of exactly the sockets that have a handler;
  `NotOvertakenTwice` - a socket that waits is not overtaken by the same one
  twice; `ReadySocketHandled`, `TriggeredEventHandled` - no ready socket and no
  event starves.

With three sockets one can be cleared or moved in front of, at and behind the
one handled last. Sockets have one condition, as those of the player do once
connected; several conditions are in the theorems. A handler that sets itself up
anew for ever, at the front of the list, would starve others: `MaxChanges` rules
that out, and no handler of the player does it.

### 4.8 RTCP (`MCRTCP`)

- `rtcp` (passes): two participants, a reaping period of two reports, intervals
  of 2 and 4 (1 and 2 before the first report, which is the halving of the
  code), two BYEs, the clock set back once. `OneReportTimer` - whatever is
  rescheduled, there is one timer; in true time it is due within the longest
  interval of the last report, plus one interval for each BYE that shrank the
  group since, because reconsideration makes the instance forget part of the
  time that has passed, plus the setbacks; `ReportsSpaced` - though
  BYEs bring the next report forward, two reports keep the shortest interval;
  `ByeHeeded` - a BYE of whoever sent something since the last report calls the
  handler, whatever was reaped before; `SilentMembersForgotten`.

Two participants are the least for which a BYE shrinks a group that is not
empty afterwards; two BYEs shrink it twice between two reports. A period of two
tells a report with reaping from one without; it is 5 in the code, and any
positive number in the theorems.

### 4.9 Deadlock and fairness

The runs of `PlaySession` and `TaskScheduler` check for deadlock: the event loop
goes round for ever. The other models stop at their bounds (clicks, packets,
time, requests, a closed instance), so their configurations say
`CHECK_DEADLOCK FALSE`.

Fairness is weak and only on what the platform schedules:

- `PlaySession`: the playback thread; `select` waits 10 ms at most because of
  `schedulerTickTask`, so the thread never blocks.
- `Camera`: a click handler that began ends, the Handler empties its queue, each
  playback thread runs.
- `TaskScheduler`: `doEventLoop` calls `SingleStep` for ever, and handlers
  return.
- `DelayQueue`: every `SingleStep` calls `handleAlarm`.
- `RTCP`: time passes, and a due `onExpire()` runs, as `DelayQueue` says.
- `RTSPClient`: the thread carries out the calls it is in, and the system
  resolves a pending `connect()`, if only by its timeout. The number of requests
  is bounded, which leaves out a handler that always sends one more.

Nothing is assumed of the server, the network or the user.

## 5. Proofs

TLAPS checks the theorems below for every value of the constants that the named
assumptions of the modules allow; TLC evaluates these assumptions in the runs.
Every inductive invariant, or its parts, was checked with TLC before it was
proved. The step proofs have one case per action.

**`PlaySessionProofs`**, for every `N` in Nat \ {0} and every `RtpSubs \subseteq
1..N`: `TypeCorrect`, `SinksExact`, `ReadersLive`, `AnswersMatch`, `LastSink`
(the invariants of `play`) and `RefinesLifecycle`: `Spec => Lifecycle!SafeSpec`,
the safety part of the implementation: `Init` maps to `Init`, every step to a
step or a stutter. None of the invariants is inductive alone. That a SETUP
answer finds a subsession without a sink needs the iterator to bound the
subsessions that ever had one (`HandshakeOK`); that closing a sink never leaves
a pointer, a BYE handler or a waiting source behind needs these four sets
related to each other and to `miscPtr` (`SinksOK`); and `LastSinkShutsDown`
needs that a BYE handler exists only for a subsession with `miscPtr`.
`KeepLemma`, `ShutdownLemma`, `AfterPlayingLemma` and `SetupNextLemma` say what
the shared building blocks of the handlers preserve.

**`CameraProofs`**, for any number of clicks, any sizes and any choice of calls
that may fail: `TypeCorrect`, `Exclusive`, `Consistent`, `Ready`, `NeverNull`,
`OneThread`. What a thread finds in the globals was put there by a click,
perhaps long before. The invariant follows the settings of a click through the
steps of `CreateRec` (`ClickOK`, `SettingsOK`) to the thread it starts
(`ThreadsOK`, `NotNullOK`), and says what waiting adds (`PatientOK`).

**`RTSPClientProofs`**, for every number of requests, bound on CSeq numbers and
pipelining: `TypeCorrect`, `NoQueueStalls` and `ResponsesMeetRequests`. The
first two are inductive together (`IInv`): that a queue is not empty after an
`Append` needs its type. The third is not: that the first request in the queue
is the one the server answered holds because the queue and the server's list
agree element by element, and while a body is awaited the queue has one more,
the request that was put back at its head. `LinkOK` says so and is preserved
because the search stops at the head (`FirstIsFound`) and both sides lose and
gain elements together (`MatchTail`, `MatchAppend`).

The same module proves `OnceHandled` (`HandledOnce`) and `RefinesService`: `Spec
=> Service!SafeSpec`. The argument counts: for every request, the calls of its
handler and the places that hold it are 0 together before it is issued, 1
afterwards, and 2 if it could not be sent again (`Balanced`). The lemmas at the
start say how concatenation, `Append` and `Tail` change the number of positions
that hold a request. For the refinement, `Balanced` makes `Status` unambiguous:
what moves from one place to another is nowhere else.

**`RTPSourceProofs`**, for every even `M` of at least 4, every `Window` up to
M/2, every sender and any loss, duplication, reordering and change of SSRC.

The reordering buffer: `TypeCorrect`, `InSendingOrder`, `SavedExact`, and
`AssertionHolds`, which is the other side of `rtp_assert`: as long as the SSRC
does not change, `HeadNotPassed` holds. The invariant (`BufferInv`) says that
the queue's numbers are the ids modulo `M` (`Numbered`), that these lie within
the window from the one expected (`InWindow`), and that they grow. `CircleOrder`
is what the comparison modulo M rests on: of two ids less than M/2 apart,
`SeqNumLT` of their numbers is their order. It follows from two lemmas on
differences modulo M (`ModDiff`, `ModNext`); `AcceptStep` uses it to show that
`storePacket()` finds the one position that keeps the order.

Frames, on top of it: `InSendingOrderFrames` (`FramesInOrder`) and `OnlyDamage`
(`OnlyDamageDelays`) hold for every sender. A frame is later than the last one,
and so never the same again, because the pieces in the buffer were all passed
since (`FramesLater`); the two exceptions to "passed" are an aggregate of which
the first part was delivered (`PartsLeft`) and the very first packet
(`FirstExpected`). `Whole` (`FramesWhole`) and `OnlyDamagedSkipped`
(`OnlyDamagedFramesSkipped`) need the sender to keep to `SendsWholeFrames`: no
aggregates along with fragmented frames, and no piece in the middle that looks
like the first of a frame. This is a hypothesis of the two theorems, not of the
model: it is needed because H.264 aggregates set neither flag and MPEG-4 takes
any start code for a frame's first, two of the `hazards`, and `MCRTPSource`
asserts that the senders of `rtp` meet it and that those of the two failures
(`MCMixed`, `MCHeaders`) do not. Without damage, the buffer then holds one frame
from its start up to the packet used last, or is empty and that packet ended a
frame (`BufferFits`): so a packet that begins a frame finds an empty buffer, and
one that continues a frame finds its beginning (`FragmentFilled`). For the
second theorem, `SkipInv` says of each frame that begins after the last one
delivered and before the packet expected that a packet of it was given up or
that it is the one in the buffer.

**`DelayQueueProofs`**, for any number of tasks and of setbacks, and any delays:
`TypeCorrect`, `Accurate` (`TimersAccurate`) and `DueOrder` (`RunsInDueOrder`).
The time left to an entry is the sum of the deltas up to it, a recursive
function. Its defining equation is not given by the prover: that a function with
this equation exists is shown by the least index at which it could fail
(`SumExists`, with `LeastExists` of `Extrema` in place of an induction theorem),
and the lemmas on sums that follow go the same way. With them
`SynchronizeLemma`, `RemoveLemma` and `AddLemma` say that taking time off the
front, unlinking and linking an entry change the sum of no other entry, but for
the time that passed. The invariant is `TimersAccurate` (`InTime`) and that
tasks are queued once (`Distinct`) and, as far as the clock was not set back, in
the order of their due times (`Ordered`).

**`RTCPProofs`**, for any participants, intervals, reaping period, BYEs and
setbacks: `TypeCorrect`, `OneTimerOnly`, `Spaced`, `Heeded`. Scaling by members
left never makes `elapsed` longer than the true time (`ScaledLemma`,
`ScaledSum`), which `TimesOK` keeps together with `elapsed + wait <= Longest`.
How far `elapsed` lags behind the true time is bounded by `LagOK`: a BYE forgets
at most what had passed, which is no more than an interval, and the clock what
it was set back; the two give `OneReportTimer`. A member is never older than a
period and the phase (`AgesOK`), so whoever was heard since the last report is
not reaped (`FreshOK`).

**`TaskSchedulerProofs`**, for any number of sockets, conditions and triggers:
`TypeCorrect`, `SelectSeesAll`, `NotOvertaken`. The last rests on where handlers
are in the list: whoever passed a waiting socket was called since, and the
search starts behind the one called last, so the ones that passed it come later
in the order of the search (`PassedAreLater`); setting, clearing and moving
handlers preserve that order.

**`Extrema`** proves that a set of naturals has a least element and a finite set
of integers a greatest, from the well-foundedness of strict inclusion on finite
sets; the others cite it for `CHOOSE`, and `DelayQueueProofs` in place of an
induction.

Only model-checked:

- liveness: `StopEndsThread`, `StopEndsPlayback`, `DueTaskRuns`,
  `ReadySocketHandled`, `TriggeredEventHandled`, `SilentMembersForgotten` and
  the fairness parts of `ImplementsLifecycle` and `ImplementsService`, which
  are about `ENABLED` and are beyond the prover;
- the five violated properties, which a counterexample settles.

Every invariant and every safety action property of a passing run is a theorem.

## 6. Findings

`findings` in `PROJECT.json` has one entry per violated run, with the line of
the repository that says otherwise.

## 7. Not modelled

- `ipcam_rtsp_rec.cpp`: no caller; `start_recording` and `rec_connect` are
  commented out in the JNI layer.
- In `RTSPClient`: RTSP over HTTP (the player passes no tunnel port), a server
  that skips a request, repeats a response or sends malformed headers, requests
  from the server (answered without any change of state),
  `changeResponseHandler` (no caller), the synchronous interface.
- In `RTCP`: the contents of reports and the reception statistics, among them a
  field that `reset()` leaves uninitialised and nobody in the player reads; RTCP
  over TCP; SR and RR handlers and instances with a sink, which the player does
  not use.
- In `TaskScheduler`: a reentrant `doEventLoop` (no caller), a fatal error of
  `select`, `triggerEvent` from another thread (no caller).
- Two failures known from the models have no run: `FramesWhole` with aggregates
  after fragmented frames (`MCMixed`) and with a second start code
  (`MCHeaders`); see `hazards`.
- In `RTPSource`: packets refused by the header checks, H.264 fragments with a
  header of one byte, partial reads over TCP, jitter and presentation times,
  starting again after a stop.
- In the decoder: `SaveFrame`, and the H.264 call, which is commented out.
- In `DelayQueue`: the carry between seconds and microseconds; `updateEntry`,
  which has no caller.
- Cameras 2 to 4 (the same code as camera 1, without a button), the Snap button
  (writes a file), SDP parsing, sockets, the servers and FFmpeg.

The copies of FFmpeg and LIVE555 make up nearly all of the repository; the
models cover the parts of LIVE555 that the player runs, and the player.

## 8. Plan

Done, in this order: `StreamLifecycle`, `PlaySession` and its proofs; `Camera`;
`RTPSource`; `DelayQueue`; `RTSPClient` and its proofs; `TaskScheduler`, `RTCP`
and `VideoDecoder`; `RequestService` and its implementation; the proofs about
`Camera`, `TaskScheduler`, `RTPSource`, `RTCP` and of `HandledOnce`; those about
`DelayQueue` and the frames of `RTPSource`.

Left, in order of use:

1. A server that skips, repeats or reorders responses in `RTSPClient`.
2. Should the recorder get a caller: its handshake, its duration and
   inter-packet-gap timers, and its end.
