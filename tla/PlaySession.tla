---------------------------- MODULE PlaySession ----------------------------
(***************************************************************************)
(* One playback of one stream: jni/player/src/ipcam_rtsp_play.cpp, run by  *)
(* its own thread (StartPlay) on its own live555 event loop.               *)
(*                                                                         *)
(* The thread goes round BasicTaskScheduler0::doEventLoop: read the watch  *)
(* variable ("check"), handle at most one readable socket ("select"),      *)
(* handle at most one due alarm ("alarm").  All RTSP response handlers,    *)
(* RTP packets and RTCP BYEs run to completion inside "select"; a frame    *)
(* whose delivery the RTP source deferred to the event loop runs in        *)
(* "alarm".  The only other actor is the user interface, which starts the  *)
(* thread and later sets the watch variable (ipcam_rtsp_play::Close).      *)
(*                                                                         *)
(* The server and the network are the environment: any answer, any packet, *)
(* any failure, at any moment the code is listening for it.                *)
(***************************************************************************)
EXTENDS Integers, FiniteSets

CONSTANTS
  N,          \* number of media subsessions in the SDP description
  RtpSubs     \* those received over RTP/RTCP: rtcpInstance() != NULL

ASSUME NAssumption == N \in Nat \ {0}
ASSUME RtpSubsAssumption == RtpSubs \subseteq 1..N

Subs == 1..N

Commands == {"DESCRIBE", "SETUP", "PLAY"}

(* A request in RTSPClient's "awaiting response" queue.  sub is the        *)
(* subsession named by a SETUP, 0 for the other commands.                  *)
Requests == [cmd : Commands, sub : 0..N]

VARIABLES
  pc,         \* where the playback thread is
  watch,      \* watchVariable != 0
  requests,   \* RTSP requests sent and not yet answered
  session,    \* scs.session != NULL, with N subsessions
  iter,       \* how many subsessions scs.iter has returned
  cur,        \* scs.subsession: the one being set up, 0 for NULL
  inited,     \* subsessions with source objects (MediaSubsession::initiate)
  misc,       \* subsessions whose miscPtr is the RTSPClient
  sink,       \* subsessions whose sink pointer is not NULL
  live,       \* subsessions whose DecoderSink object exists
  bye,        \* subsessions with a BYE handler registered
  awaiting,   \* sources with fIsCurrentlyAwaitingData
  deferred,   \* sources with an afterGetting() task in the delay queue
  shutdown,   \* playshutdownStream() has run at least once
  stale       \* afterGetting() was called into a deleted sink

sessionVars == <<requests, session, iter, cur, inited, misc>>
sinkVars == <<sink, live, bye, awaiting>>
vars == <<pc, watch, sessionVars, sinkVars, deferred, shutdown, stale>>

(* "failed": the thread could not be created.                              *)
PCs == {"none", "failed", "created", "check", "select", "alarm", "exited", "crashed"}

TypeOK ==
  /\ pc \in PCs
  /\ watch \in BOOLEAN
  /\ requests \in SUBSET Requests
  /\ session \in BOOLEAN
  /\ iter \in 0..N
  /\ cur \in 0..N
  /\ inited \in SUBSET Subs
  /\ misc \in SUBSET Subs
  /\ sink \in SUBSET Subs
  /\ live \in SUBSET Subs
  /\ bye \in SUBSET Subs
  /\ awaiting \in SUBSET Subs
  /\ deferred \in SUBSET Subs
  /\ shutdown \in BOOLEAN
  /\ stale \in BOOLEAN

(* ipcam_rtsp_play's constructor and Init(): the client exists, the        *)
(* watch variable is clear.                                                *)
Init ==
  /\ pc = "none"
  /\ watch = FALSE
  /\ requests = {}
  /\ session = FALSE
  /\ iter = 0
  /\ cur = 0
  /\ inited = {}
  /\ misc = {}
  /\ sink = {}
  /\ live = {}
  /\ bye = {}
  /\ awaiting = {}
  /\ deferred = {}
  /\ shutdown = FALSE
  /\ stale = FALSE

-----------------------------------------------------------------------------
(* Building blocks of the handlers.  Several run after another one in the  *)
(* same call, so each takes the sinks (s), sink objects (l), BYE handlers  *)
(* (b) and awaiting sources (a) the call has reached so far.               *)

(* Mutant: the sink pointers are not reset.                                *)
ShutdownKeepsPointers(s, l, b, a) ==
  /\ sink' = s
  /\ live' = l \ s
  /\ bye' = b \ (s \cap RtpSubs)
  /\ awaiting' = a \ s
  /\ shutdown' = TRUE

(* playshutdownStream(): close every open sink, which stops its source,    *)
(* and clear its BYE handler.  Neither the session nor the RTSPClient is   *)
(* closed, so env.reclaim() finds media still registered and does nothing. *)
PlayShutdownStream(s, l, b, a) ==
  /\ sink' = {}
  /\ live' = l \ s
  /\ bye' = b \ (s \cap RtpSubs)
  /\ awaiting' = a \ s
  /\ shutdown' = TRUE

KeepStreaming(s, l, b, a) ==
  /\ sink' = s
  /\ live' = l
  /\ bye' = b
  /\ awaiting' = a
  /\ UNCHANGED shutdown

(* Mutant: no return after sending SETUP, so PLAY follows at once.         *)
SetupFallsThrough(rest, s, l, b, a) ==
  \E q \in Subs :
    /\ iter < q
    /\ inited' = inited \cup {q}
    /\ iter' = q
    /\ cur' = q
    /\ requests' = rest \cup {[cmd |-> "SETUP", sub |-> q],
                             [cmd |-> "PLAY", sub |-> 0]}
    /\ KeepStreaming(s, l, b, a)

(* Mutant: the iterator moves past the end of the session.                 *)
SetupOverruns(rest, s, l, b, a) ==
  /\ iter' = iter + 1
  /\ inited' = inited
  /\ cur' = IF iter < N THEN iter + 1 ELSE 0
  /\ requests' = rest \cup
       {[cmd |-> IF iter < N THEN "SETUP" ELSE "PLAY", sub |-> cur']}
  /\ KeepStreaming(s, l, b, a)

(* playsetupNextSubsession(): walk the iterator, giving up on subsessions  *)
(* that cannot be initiated or whose SETUP cannot be sent, until a SETUP   *)
(* is sent, or none is left and PLAY is sent.  A request that cannot be    *)
(* sent calls its handler at once (RTSPClient::handleRequestError).        *)
PlaySetupNextSubsession(rest, s, l, b, a) ==
  \/ \E q \in Subs :                   \* SETUP sent for subsession q
       /\ iter < q
       /\ \E tried \in SUBSET ((iter + 1)..(q - 1)) :
            inited' = inited \cup tried \cup {q}
       /\ iter' = q
       /\ cur' = q
       /\ requests' = rest \cup {[cmd |-> "SETUP", sub |-> q]}
       /\ KeepStreaming(s, l, b, a)
  \/ /\ \E tried \in SUBSET ((iter + 1)..N) :
          inited' = inited \cup tried
     /\ iter' = N
     /\ cur' = 0
     /\ \/ /\ requests' = rest \cup {[cmd |-> "PLAY", sub |-> 0]}
           /\ KeepStreaming(s, l, b, a)
        \/ /\ requests' = rest         \* sending PLAY failed
           /\ PlayShutdownStream(s, l, b, a)

(* Mutant: the check for subsessions still active is missing.              *)
AfterPlayingForgetsShutdown(i, b, a) ==
  KeepStreaming(sink \ {i}, live \ {i}, b, a)

(* playsubsessionAfterPlaying(i): close i's sink, and shut the stream down *)
(* when no subsession has a sink any more.  a: awaiting sources.           *)
PlaySubsessionAfterPlaying(i, b, a) ==
  LET s == sink \ {i} IN
  LET l == IF i \in sink THEN live \ {i} ELSE live IN
  IF s = {} THEN PlayShutdownStream(s, l, b, a)
            ELSE KeepStreaming(s, l, b, a)

(* Mutant: the destructor does not stop the source.                        *)
StopSourceForgotten(i, a) == a

(* ~MediaSink() stops the source that the sink still has.                  *)
StopSource(i, a) == IF i \in sink THEN a \ {i} ELSE a

-----------------------------------------------------------------------------
(* The user interface thread *)

(* The caller ignores the result of pthread_create, and a later click may  *)
(* try again.                                                              *)
StartRecv ==
  /\ pc \in {"none", "failed"}
  /\ pc' = "created" \/ pc' = "failed"
  /\ UNCHANGED <<watch, sessionVars, sinkVars, deferred, shutdown, stale>>

(* Java enables Stop only after CreateRec and StartRec ran in the same     *)
(* click handler.                                                          *)
Close ==
  /\ pc # "none"
  /\ watch' = TRUE
  /\ UNCHANGED <<pc, sessionVars, sinkVars, deferred, shutdown, stale>>

-----------------------------------------------------------------------------
(* The playback thread: StartPlay and the event loop *)

StartPlay ==
  /\ pc = "created"
  /\ pc' = "check"
  /\ \/ /\ requests' = {[cmd |-> "DESCRIBE", sub |-> 0]}
        /\ UNCHANGED <<sinkVars, shutdown>>
     \/ /\ UNCHANGED requests          \* sending DESCRIBE failed
        /\ PlayShutdownStream(sink, live, bye, awaiting)
  /\ UNCHANGED <<watch, session, iter, cur, inited, misc, deferred, stale>>

(* Mutant: the event loop runs without the watch variable.                 *)
ContinueLoopUnwatched ==
  /\ pc = "check"
  /\ pc' = "select"
  /\ UNCHANGED <<watch, sessionVars, sinkVars, deferred, shutdown, stale>>

ContinueLoop ==
  /\ pc = "check"
  /\ ~watch
  /\ pc' = "select"
  /\ UNCHANGED <<watch, sessionVars, sinkVars, deferred, shutdown, stale>>

(* Mutant: StartPlay returns without playshutdownStream().                 *)
LeaveLoopOpen ==
  /\ pc = "check"
  /\ watch
  /\ pc' = "exited"
  /\ UNCHANGED <<watch, sessionVars, sinkVars, deferred, shutdown, stale>>

LeaveLoop ==
  /\ pc = "check"
  /\ watch
  /\ pc' = "exited"
  /\ PlayShutdownStream(sink, live, bye, awaiting)
  /\ UNCHANGED <<watch, sessionVars, deferred, stale>>

(* select() times out: schedulerTickTask bounds the wait to 10 ms.         *)
SelectTimeout ==
  /\ pc = "select"
  /\ pc' = "alarm"
  /\ UNCHANGED <<watch, sessionVars, sinkVars, deferred, shutdown, stale>>

(* An answer to request r: an RTSP response, or an error code when the     *)
(* connection is lost (RTSPClient flushes its queues).                     *)
Answer(r) ==
  /\ pc = "select"
  /\ pc' = "alarm"
  /\ r \in requests
  /\ UNCHANGED <<watch, deferred, stale>>

PlayContinueAfterDESCRIBE(r) ==
  /\ Answer(r)
  /\ r.cmd = "DESCRIBE"
  /\ UNCHANGED misc
  /\ \/ /\ session' = TRUE             \* MediaSession::createNew succeeded
        /\ PlaySetupNextSubsession(requests \ {r}, sink, live, bye, awaiting)
     \/ /\ requests' = requests \ {r}  \* error, bad SDP or no subsessions
        /\ PlayShutdownStream(sink, live, bye, awaiting)
        /\ UNCHANGED <<session, iter, cur, inited>>

PlayContinueAfterSETUP(r) ==
  /\ Answer(r)
  /\ r.cmd = "SETUP"
  /\ UNCHANGED session
  /\ \/ /\ misc' = misc \cup {cur}     \* create the sink and start it
        /\ PlaySetupNextSubsession(requests \ {r},
             sink \cup {cur}, live \cup {cur},
             bye \cup ({cur} \cap RtpSubs), awaiting \cup {cur})
     \/ /\ UNCHANGED misc              \* give up on this subsession
        /\ PlaySetupNextSubsession(requests \ {r}, sink, live, bye, awaiting)

PlayContinueAfterPLAY(r) ==
  /\ Answer(r)
  /\ r.cmd = "PLAY"
  /\ requests' = requests \ {r}
  /\ UNCHANGED <<session, iter, cur, inited, misc>>
  /\ \/ UNCHANGED <<sinkVars, shutdown>>
     \/ PlayShutdownStream(sink, live, bye, awaiting)

(* A packet completes a frame.  It is delivered at once and the sink asks  *)
(* for the next one; or, when more packets are queued, its delivery is     *)
(* scheduled as a task of delay zero (MultiFramedRTPSource.cpp:194-203).   *)
FrameArrives(i) ==
  /\ pc = "select"
  /\ pc' = "alarm"
  /\ i \in awaiting \ deferred
  /\ deferred' \in {deferred, deferred \cup {i}}
  /\ UNCHANGED <<watch, sessionVars, sinkVars, shutdown, stale>>

(* playsubsessionByeHandler(): RTCP calls the handler once and forgets it. *)
ByeArrives(i) ==
  /\ pc = "select"
  /\ pc' = "alarm"
  /\ i \in bye
  /\ PlaySubsessionAfterPlaying(i, bye \ {i}, StopSource(i, awaiting))
  /\ UNCHANGED <<watch, sessionVars, deferred, stale>>

(* The source ends by itself (MPEG2TransportStreamFramer gives up on a     *)
(* packet that holds no transport packet): FramedSource::handleClosure,    *)
(* then MediaSink::onSourceClosure.                                        *)
SourceCloses(i) ==
  /\ pc = "select"
  /\ pc' = "alarm"
  /\ i \in awaiting \ deferred
  /\ PlaySubsessionAfterPlaying(i, bye, awaiting \ {i})
  /\ UNCHANGED <<watch, sessionVars, deferred, stale>>

(* handleAlarm() finds nothing due, or runs an alarm that is not ours (the *)
(* scheduler's tick, an RTCP report).                                      *)
OtherAlarm ==
  /\ pc = "alarm"
  /\ pc' = "check"
  /\ UNCHANGED <<watch, sessionVars, sinkVars, deferred, shutdown, stale>>

(* The deferred FramedSource::afterGetting(): the sink consumes the frame  *)
(* and asks for the next one, whose delivery may be deferred again; or the *)
(* source gives up on the data and ends.                                   *)
DeferredAfterGetting(i) ==
  /\ pc = "alarm"
  /\ pc' = "check"
  /\ i \in deferred \cap live
  /\ \/ /\ deferred' \in {deferred, deferred \ {i}}
        /\ UNCHANGED <<sinkVars, shutdown>>
     \/ /\ deferred' = deferred \ {i}
        /\ PlaySubsessionAfterPlaying(i, bye, awaiting \ {i})
  /\ UNCHANGED <<watch, sessionVars, stale>>

(* The same call when the sink was deleted meanwhile: stopGettingFrames()  *)
(* leaves the task scheduled.  Undefined behaviour: the freed sink still   *)
(* looks alive, without a source, or the process dies.                     *)
StaleAfterGetting(i) ==
  /\ pc = "alarm"
  /\ pc' \in {"check", "crashed"}
  /\ i \in deferred \ live
  /\ deferred' = deferred \ {i}
  /\ awaiting' = awaiting \ {i}
  /\ stale' = TRUE
  /\ UNCHANGED <<watch, sessionVars, sink, live, bye, shutdown>>

HandleResponse ==
  \E r \in requests : \/ PlayContinueAfterDESCRIBE(r)
                      \/ PlayContinueAfterSETUP(r)
                      \/ PlayContinueAfterPLAY(r)

HandleMedia ==
  \E i \in Subs : FrameArrives(i) \/ ByeArrives(i) \/ SourceCloses(i)

HandleAlarm ==
  \/ OtherAlarm
  \/ \E i \in Subs : DeferredAfterGetting(i) \/ StaleAfterGetting(i)

PlayThread ==
  \/ StartPlay \/ ContinueLoop \/ LeaveLoop
  \/ SelectTimeout \/ HandleResponse \/ HandleMedia \/ HandleAlarm

Next == StartRecv \/ Close \/ PlayThread

Spec == Init /\ [][Next]_vars

(* The operating system schedules the playback thread, and select() never  *)
(* blocks longer than the tick: the thread takes steps for ever.  Nothing  *)
(* is assumed about the server, the network or the user.                   *)
FairSpec == Spec /\ WF_vars(PlayThread)
-----------------------------------------------------------------------------
(* Correctness *)

(* The sink pointers of the subsessions and the sink objects of the media  *)
(* table agree: no pointer to a deleted sink is kept for a second close    *)
(* (playsubsessionAfterPlaying and playshutdownStream both reset it), and  *)
(* no sink is left running that nothing can close.                         *)
SinkPointersExact == sink = live

(* A source waits for data only on behalf of a sink that exists: whatever  *)
(* way a sink goes (BYE, closure, shutdown, leaving the loop), its source  *)
(* was stopped, so the network handler never calls into freed memory.      *)
ReadersAreLive == awaiting \subseteq live

(* The response handlers take the subsession from scs.subsession, not from *)
(* the request: whatever happens between a request and its answer, the     *)
(* answer meets the state the request was sent in.  And every handler goes *)
(* on to the next request, whichever subsessions were given up: a stream   *)
(* that waits for no answer has come to its PLAY or was shut down.         *)
AnswersMeetTheirRequest ==
  /\ \A r, q \in requests : r = q
  /\ \A r \in requests :
       /\ r.cmd = "DESCRIBE" => ~session /\ misc = {}
       /\ r.cmd = "SETUP" => /\ session
                            /\ r.sub = cur /\ iter = cur
                            /\ cur \in inited \ misc
       /\ r.cmd = "PLAY" => session /\ iter = N /\ cur = 0
  /\ pc \notin {"none", "failed", "created"} /\ requests = {} /\ ~shutdown =>
       session /\ iter = N /\ cur = 0

(* Every handler that finds the RTSPClient through miscPtr finds it set,   *)
(* and once a sink was opened, the moment none is open the stream has been *)
(* shut down - whichever of BYE, closure and setup comes last.             *)
LastSinkShutsDown ==
  /\ bye \cup sink \subseteq misc
  /\ misc # {} /\ sink = {} => shutdown

(* Once the user stopped the stream the thread leaves the event loop, from *)
(* any point of the handshake or the streaming and without an answer from  *)
(* the server, if there is a thread at all.                                *)
StopEndsThread == watch ~> pc \in {"exited", "crashed", "failed"}

Lifecycle == INSTANCE StreamLifecycle WITH
  stopAsked <- watch,
  run <- CASE pc \in {"none", "failed", "created"} -> "idle"
           [] pc \in {"check", "select", "alarm"} -> "running"
           [] pc = "exited" -> "ended"
           [] pc = "crashed" -> "dead",
  open <- sink,
  spent <- misc \ sink

(* A playback keeps the promises of StreamLifecycle: it ends only when     *)
(* asked to, with every sink closed, and no sink of it is opened twice.    *)
ImplementsLifecycle == Lifecycle!Spec

(* ipcam_rtsp_play.cpp:41 says of playshutdownStream() "Used to shut down  *)
(* and close a stream": once it has run, no sink is opened and no request  *)
(* is sent on the stream any more.                                         *)
ShutdownIsFinal ==
  [][shutdown => sink' \subseteq sink /\ requests' \subseteq requests]_vars

(* MediaSink.cpp:82-86 tells the source "we're no longer interested" and   *)
(* cancels "any pending tasks": no frame reaches a sink after its end.     *)
NoFrameAfterClose == ~stale
=============================================================================
