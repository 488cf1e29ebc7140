------------------------- MODULE PlaySessionProofs -------------------------
(***************************************************************************)
(* Proofs about PlaySession, for any number of subsessions and any choice  *)
(* of which of them have an RTCP instance.                                 *)
(*                                                                         *)
(* The safety invariants of PlaySession are not inductive one by one: that *)
(* a SETUP answer meets a subsession without a sink needs the iterator to  *)
(* bound miscPtr, and that nothing dangles needs the sinks, their sources  *)
(* and their BYE handlers together.  IInv is their conjunction with those  *)
(* links.                                                                  *)
(***************************************************************************)
EXTENDS PlaySession, TLAPS

USE NAssumption, RtpSubsAssumption

(* What the sinks s, sink objects l, BYE handlers b and awaiting sources a *)
(* owe each other, when miscPtr is set for the subsessions m.              *)
SinksOK(s, l, b, a, m) ==
  /\ m \in SUBSET Subs
  /\ s = l
  /\ s \subseteq m
  /\ b \subseteq m
  /\ a \subseteq s

(* The handshake: nothing happens before the thread and the session exist, *)
(* and miscPtr is set only for subsessions the iterator has passed.        *)
HandshakeOK ==
  /\ pc \in {"none", "failed", "created"} => requests = {} /\ ~session
  /\ ~session => misc = {} /\ iter = 0
  /\ \A i \in misc : i <= iter

IInv ==
  /\ TypeOK
  /\ SinksOK(sink, live, bye, awaiting, misc)
  /\ HandshakeOK
  /\ AnswersMeetTheirRequest
  /\ LastSinkShutsDown

-----------------------------------------------------------------------------
(* playshutdownStream() leaves nothing open, whatever it starts from.      *)
LEMMA ShutdownLemma ==
  ASSUME NEW s, NEW b, NEW a, NEW m,
         SinksOK(s, s, b, a, m),
         PlayShutdownStream(s, s, b, a)
  PROVE  /\ SinksOK(sink', live', bye', awaiting', m)
         /\ sink' = {} /\ awaiting' = {} /\ shutdown'
  BY DEF SinksOK, PlayShutdownStream

(* A handler that keeps streaming leaves the sinks as it found them.       *)
LEMMA KeepLemma ==
  ASSUME NEW s, NEW b, NEW a, NEW m,
         SinksOK(s, s, b, a, m),
         KeepStreaming(s, s, b, a)
  PROVE  /\ SinksOK(sink', live', bye', awaiting', m)
         /\ sink' = s /\ shutdown' = shutdown
  BY DEF SinksOK, KeepStreaming

(* The end of one subsession's stream: the others are untouched, and the   *)
(* last one shuts the stream down.                                         *)
LEMMA AfterPlayingLemma ==
  ASSUME IInv, NEW i \in Subs, NEW b, NEW a,
         b \subseteq bye, a \subseteq awaiting \ {i},
         PlaySubsessionAfterPlaying(i, b, a)
  PROVE  /\ SinksOK(sink', live', bye', awaiting', misc)
         /\ sink' = {} => shutdown'
         /\ shutdown' \in BOOLEAN
         /\ sink' = sink \ {i}
<1> DEFINE s == sink \ {i}
           l == IF i \in sink THEN live \ {i} ELSE live
<1>1. l = s
  BY DEF IInv, SinksOK
<1>2. SinksOK(s, s, b, a, misc)
  BY DEF IInv, SinksOK
<1>3. CASE s = {}
  <2>1. PlayShutdownStream(s, s, b, a)
    BY <1>1, <1>3 DEF PlaySubsessionAfterPlaying
  <2> QED
    BY <1>2, <1>3, <2>1, ShutdownLemma
<1>4. CASE s # {}
  <2>1. KeepStreaming(s, s, b, a)
    BY <1>1, <1>4 DEF PlaySubsessionAfterPlaying
  <2> QED
    BY <1>2, <1>4, <2>1, KeepLemma DEF IInv, TypeOK
<1> QED
  BY <1>3, <1>4

(* playsetupNextSubsession(), called with no request outstanding: the next *)
(* request names a subsession no handler has touched, or is the PLAY that  *)
(* ends the handshake.                                                     *)
LEMMA SetupNextLemma ==
  ASSUME TypeOK, NEW s, NEW b, NEW a,
         SinksOK(s, s, b, a, misc'),
         session' = TRUE,
         \A i \in misc' : i <= iter,
         misc' # {} /\ s = {} => shutdown,
         PlaySetupNextSubsession({}, s, s, b, a)
  PROVE  /\ requests' \in SUBSET Requests
         /\ iter' \in 0..N /\ cur' \in 0..N
         /\ inited' \in SUBSET Subs
         /\ shutdown' \in BOOLEAN
         /\ SinksOK(sink', live', bye', awaiting', misc')
         /\ \A i \in misc' : i <= iter'
         /\ AnswersMeetTheirRequest'
         /\ misc' # {} /\ sink' = {} => shutdown'
         /\ sink' = s \/ sink' = {}
<1>1. CASE \E q \in Subs :
             /\ iter < q
             /\ \E tried \in SUBSET ((iter + 1)..(q - 1)) :
                  inited' = inited \cup tried \cup {q}
             /\ iter' = q
             /\ cur' = q
             /\ requests' = {} \cup {[cmd |-> "SETUP", sub |-> q]}
             /\ KeepStreaming(s, s, b, a)
  <2>1. PICK q \in Subs :
             /\ iter < q
             /\ \E tried \in SUBSET ((iter + 1)..(q - 1)) :
                  inited' = inited \cup tried \cup {q}
             /\ iter' = q
             /\ cur' = q
             /\ requests' = {[cmd |-> "SETUP", sub |-> q]}
             /\ KeepStreaming(s, s, b, a)
    BY <1>1
  <2>2. q \in 1..N /\ iter \in 0..N
    BY DEF Subs, TypeOK
  <2>3. inited' \in SUBSET Subs /\ q \in inited'
    BY <2>1, <2>2 DEF TypeOK, Subs
  <2>4. SinksOK(sink', live', bye', awaiting', misc') /\ sink' = s /\ shutdown' = shutdown
    BY <2>1, KeepLemma
  <2>5. misc' \subseteq 1..N
    BY DEF SinksOK, Subs
  <2>6. (\A i \in misc' : i <= q) /\ q \notin misc'
    BY <2>1, <2>2, <2>5
  <2>7. requests' \in SUBSET Requests
    BY <2>1, <2>2 DEF Requests, Commands
  <2>8. AnswersMeetTheirRequest'
    <3>1. [cmd |-> "SETUP", sub |-> q] \in requests'
      BY <2>1
    <3>2. requests' # {}
      BY <3>1
    <3>3. /\ \A r, p \in requests' : r = p
          /\ \A r \in requests' :
               /\ r.cmd = "SETUP" /\ r.sub = q
               /\ r.cmd # "DESCRIBE" /\ r.cmd # "PLAY"
      BY <2>1
    <3>4. session' /\ cur' = q /\ iter' = q /\ q \in inited' \ misc'
      BY <2>1, <2>3, <2>6
    <3> QED
      BY <3>2, <3>3, <3>4 DEF AnswersMeetTheirRequest
  <2> QED
    BY <2>1, <2>2, <2>3, <2>4, <2>6, <2>7, <2>8 DEF TypeOK
<1>2. CASE /\ \E tried \in SUBSET ((iter + 1)..N) :
                inited' = inited \cup tried
           /\ iter' = N
           /\ cur' = 0
           /\ \/ /\ requests' = {} \cup {[cmd |-> "PLAY", sub |-> 0]}
                 /\ KeepStreaming(s, s, b, a)
              \/ /\ requests' = {}
                 /\ PlayShutdownStream(s, s, b, a)
  <2>1. inited' \in SUBSET Subs
    BY <1>2 DEF TypeOK, Subs
  <2>2. iter' \in 0..N /\ cur' \in 0..N
    BY <1>2
  <2>3. \A i \in misc' : i <= iter'
    BY <1>2 DEF SinksOK, Subs
  <2>4. requests' \in SUBSET Requests
    BY <1>2 DEF Requests, Commands
  <2>5. AnswersMeetTheirRequest'
    BY <1>2 DEF AnswersMeetTheirRequest
  <2>6. /\ SinksOK(sink', live', bye', awaiting', misc')
        /\ misc' # {} /\ sink' = {} => shutdown'
        /\ sink' = s \/ sink' = {}
        /\ shutdown' \in BOOLEAN
    BY <1>2, KeepLemma, ShutdownLemma DEF TypeOK, PlayShutdownStream
  <2> QED
    BY <2>1, <2>2, <2>3, <2>4, <2>5, <2>6
<1> QED
  BY <1>1, <1>2 DEF PlaySetupNextSubsession

-----------------------------------------------------------------------------
(* Initially nothing exists.                                               *)
LEMMA InitIInv == Init => IInv
<1> SUFFICES ASSUME Init PROVE IInv
  OBVIOUS
<1>0. 0 \in 0..N
  OBVIOUS
<1>1. TypeOK
  BY <1>0 DEF Init, TypeOK, PCs
<1>2. SinksOK(sink, live, bye, awaiting, misc)
  BY DEF Init, SinksOK
<1>3. HandshakeOK /\ AnswersMeetTheirRequest /\ LastSinkShutsDown
  BY DEF Init, HandshakeOK, AnswersMeetTheirRequest, LastSinkShutsDown
<1> QED
  BY <1>1, <1>2, <1>3 DEF IInv

(* Every step of either thread preserves the inductive invariant.          *)
LEMMA NextIInv == IInv /\ [Next]_vars => IInv'
<1> SUFFICES ASSUME IInv, [Next]_vars PROVE IInv'
  OBVIOUS
<1> USE DEF IInv
<1>1. CASE StartRecv
  BY <1>1 DEF StartRecv, sessionVars, sinkVars, TypeOK, PCs, SinksOK,
       HandshakeOK, AnswersMeetTheirRequest, LastSinkShutsDown
<1>2. CASE Close
  BY <1>2 DEF Close, sessionVars, sinkVars, TypeOK, PCs, SinksOK,
       HandshakeOK, AnswersMeetTheirRequest, LastSinkShutsDown
<1>3. CASE StartPlay
  <2>1. /\ pc = "created" /\ pc' = "check"
        /\ UNCHANGED <<watch, session, iter, cur, inited, misc, deferred, stale>>
        /\ ~session /\ misc = {} /\ iter = 0
    BY <1>3 DEF StartPlay, HandshakeOK
  <2>2. /\ SinksOK(sink', live', bye', awaiting', misc)
        /\ shutdown' \in BOOLEAN
        /\ requests' \subseteq {[cmd |-> "DESCRIBE", sub |-> 0]}
    BY <1>3, <2>1, ShutdownLemma
       DEF StartPlay, HandshakeOK, SinksOK, sinkVars, TypeOK, PlayShutdownStream
  <2>3. requests' = {} => shutdown'
    <3>1. CASE requests' = {[cmd |-> "DESCRIBE", sub |-> 0]}
      <4>1. [cmd |-> "DESCRIBE", sub |-> 0] \in requests'
        BY <3>1
      <4> QED
        BY <4>1
    <3>2. CASE PlayShutdownStream(sink, live, bye, awaiting)
      BY <3>2 DEF PlayShutdownStream
    <3> QED
      BY <1>3, <3>1, <3>2 DEF StartPlay
  <2>4. requests' \in SUBSET Requests
    BY <2>2 DEF Requests, Commands
  <2>5. TypeOK'
    BY <2>1, <2>2, <2>4 DEF TypeOK, PCs, SinksOK
  <2>6. HandshakeOK' /\ AnswersMeetTheirRequest' /\ LastSinkShutsDown'
    BY <2>1, <2>2, <2>3 DEF HandshakeOK, AnswersMeetTheirRequest,
         LastSinkShutsDown, SinksOK
  <2> QED
    BY <2>1, <2>2, <2>5, <2>6
<1>4. CASE ContinueLoop
  BY <1>4 DEF ContinueLoop, sessionVars, sinkVars, TypeOK, PCs, SinksOK,
       HandshakeOK, AnswersMeetTheirRequest, LastSinkShutsDown
<1>5. CASE LeaveLoop
  <2>0. /\ PlayShutdownStream(sink, sink, bye, awaiting)
        /\ SinksOK(sink, sink, bye, awaiting, misc)
    BY <1>5 DEF LeaveLoop, SinksOK
  <2>1. /\ SinksOK(sink', live', bye', awaiting', misc)
        /\ sink' = {} /\ shutdown'
    BY <2>0, ShutdownLemma
  <2>2. /\ shutdown' = TRUE
        /\ pc' = "exited" /\ UNCHANGED <<watch, sessionVars, deferred, stale>>
    BY <1>5 DEF LeaveLoop, PlayShutdownStream
  <2> QED
    BY <2>1, <2>2 DEF sessionVars, TypeOK, PCs, SinksOK,
         HandshakeOK, AnswersMeetTheirRequest, LastSinkShutsDown
<1>6. CASE SelectTimeout
  BY <1>6 DEF SelectTimeout, sessionVars, sinkVars, TypeOK, PCs, SinksOK,
       HandshakeOK, AnswersMeetTheirRequest, LastSinkShutsDown
<1>7. CASE HandleResponse
  <2>1. PICK r \in requests : \/ PlayContinueAfterDESCRIBE(r)
                             \/ PlayContinueAfterSETUP(r)
                             \/ PlayContinueAfterPLAY(r)
    BY <1>7 DEF HandleResponse
  <2>2. /\ requests \ {r} = {}
        /\ pc = "select" /\ pc' = "alarm"
        /\ UNCHANGED <<watch, deferred, stale>>
    BY <2>1 DEF AnswersMeetTheirRequest, Answer, PlayContinueAfterDESCRIBE,
         PlayContinueAfterSETUP, PlayContinueAfterPLAY
  <2>3. CASE PlayContinueAfterDESCRIBE(r)
    <3>1. misc = {} /\ misc' = misc /\ iter = 0
      BY <2>3 DEF PlayContinueAfterDESCRIBE, AnswersMeetTheirRequest, HandshakeOK
    <3>2. CASE /\ session' = TRUE
               /\ PlaySetupNextSubsession(requests \ {r}, sink, live, bye, awaiting)
      <4>1. PlaySetupNextSubsession({}, sink, sink, bye, awaiting)
        BY <2>2, <3>2 DEF SinksOK
      <4>2. SinksOK(sink, sink, bye, awaiting, misc')
        BY <3>1 DEF SinksOK
      <4> HIDE DEF IInv
      <4>3. TypeOK
        BY DEF IInv
      <4>4. /\ requests' \in SUBSET Requests
            /\ iter' \in 0..N /\ cur' \in 0..N
            /\ inited' \in SUBSET Subs
            /\ shutdown' \in BOOLEAN
            /\ SinksOK(sink', live', bye', awaiting', misc')
            /\ \A i \in misc' : i <= iter'
            /\ AnswersMeetTheirRequest'
            /\ misc' # {} /\ sink' = {} => shutdown'
        BY <3>1, <3>2, <4>1, <4>2, <4>3, SetupNextLemma
      <4>5. TypeOK'
        BY <2>2, <3>2, <4>3, <4>4 DEF TypeOK, PCs, SinksOK
      <4>6. HandshakeOK' /\ LastSinkShutsDown'
        BY <2>2, <3>2, <4>4 DEF HandshakeOK, LastSinkShutsDown, SinksOK
      <4> QED
        BY <4>4, <4>5, <4>6 DEF IInv
    <3>3. CASE /\ requests' = requests \ {r}
               /\ PlayShutdownStream(sink, live, bye, awaiting)
               /\ UNCHANGED <<session, iter, cur, inited>>
      <4>1. /\ SinksOK(sink', live', bye', awaiting', misc)
            /\ sink' = {} /\ shutdown' = TRUE
        BY <3>3, ShutdownLemma DEF SinksOK, PlayShutdownStream
      <4>2. TypeOK'
        BY <2>2, <3>1, <3>3, <4>1 DEF TypeOK, PCs, SinksOK
      <4> QED
        BY <2>2, <3>1, <3>3, <4>1, <4>2
           DEF HandshakeOK, AnswersMeetTheirRequest, LastSinkShutsDown, SinksOK
    <3> QED
      BY <2>3, <3>2, <3>3 DEF PlayContinueAfterDESCRIBE
  <2>4. CASE PlayContinueAfterSETUP(r)
    <3>1. /\ session /\ session' = session
          /\ iter = cur /\ cur \in Subs
      BY <2>4 DEF PlayContinueAfterSETUP, AnswersMeetTheirRequest, TypeOK
    <3>2. PICK s, b, a :
            /\ SinksOK(s, s, b, a, misc')
            /\ misc' # {} /\ s = {} => shutdown
            /\ misc' \in {misc, misc \cup {cur}}
            /\ PlaySetupNextSubsession({}, s, s, b, a)
      <4>1. CASE /\ misc' = misc \cup {cur}
                 /\ PlaySetupNextSubsession(requests \ {r},
                      sink \cup {cur}, live \cup {cur},
                      bye \cup ({cur} \cap RtpSubs), awaiting \cup {cur})
        <5>1. SinksOK(sink \cup {cur}, sink \cup {cur},
                bye \cup ({cur} \cap RtpSubs), awaiting \cup {cur}, misc')
          BY <3>1, <4>1 DEF SinksOK
        <5>2. sink \cup {cur} # {}
          OBVIOUS
        <5>3. PlaySetupNextSubsession({}, sink \cup {cur}, sink \cup {cur},
                bye \cup ({cur} \cap RtpSubs), awaiting \cup {cur})
          BY <2>2, <4>1 DEF SinksOK
        <5> QED
          BY <4>1, <5>1, <5>2, <5>3
      <4>2. CASE /\ UNCHANGED misc
                 /\ PlaySetupNextSubsession(requests \ {r}, sink, live, bye, awaiting)
        <5>1. PlaySetupNextSubsession({}, sink, sink, bye, awaiting)
          BY <2>2, <4>2 DEF SinksOK
        <5> QED
          BY <4>2, <5>1 DEF SinksOK, LastSinkShutsDown
      <4> QED
        BY <2>4, <4>1, <4>2 DEF PlayContinueAfterSETUP
    <3>3. \A i \in misc' : i <= iter
      BY <3>1, <3>2 DEF HandshakeOK, TypeOK
    <3>4. session' = TRUE
      BY <3>1 DEF TypeOK
    <3> HIDE DEF IInv
    <3>5. TypeOK
      BY DEF IInv
    <3>6. /\ requests' \in SUBSET Requests
          /\ iter' \in 0..N /\ cur' \in 0..N
          /\ inited' \in SUBSET Subs
          /\ shutdown' \in BOOLEAN
          /\ SinksOK(sink', live', bye', awaiting', misc')
          /\ \A i \in misc' : i <= iter'
          /\ AnswersMeetTheirRequest'
          /\ misc' # {} /\ sink' = {} => shutdown'
      BY <3>2, <3>3, <3>4, <3>5, SetupNextLemma
    <3>7. TypeOK'
      BY <2>2, <3>4, <3>5, <3>6 DEF TypeOK, PCs, SinksOK
    <3>8. HandshakeOK' /\ LastSinkShutsDown'
      BY <2>2, <3>4, <3>6 DEF HandshakeOK, LastSinkShutsDown, SinksOK
    <3> QED
      BY <3>6, <3>7, <3>8 DEF IInv
  <2>5. CASE PlayContinueAfterPLAY(r)
    <3>1. /\ requests' = {}
          /\ UNCHANGED <<session, iter, cur, inited, misc>>
          /\ session /\ iter = N /\ cur = 0
      BY <2>2, <2>5 DEF PlayContinueAfterPLAY, AnswersMeetTheirRequest
    <3>2. /\ SinksOK(sink', live', bye', awaiting', misc)
          /\ sink' = {} /\ misc # {} => shutdown'
          /\ shutdown' \in BOOLEAN
      <4>1. CASE UNCHANGED <<sinkVars, shutdown>>
        BY <4>1 DEF sinkVars, SinksOK, LastSinkShutsDown, TypeOK
      <4>2. CASE PlayShutdownStream(sink, live, bye, awaiting)
        BY <4>2, ShutdownLemma DEF SinksOK, PlayShutdownStream
      <4> QED
        BY <2>5, <4>1, <4>2 DEF PlayContinueAfterPLAY
    <3>3. TypeOK'
      BY <2>2, <3>1, <3>2 DEF TypeOK, PCs, SinksOK
    <3> QED
      BY <2>2, <3>1, <3>2, <3>3
         DEF HandshakeOK, AnswersMeetTheirRequest, LastSinkShutsDown, SinksOK
  <2> QED
    BY <2>1, <2>3, <2>4, <2>5
<1>8. CASE HandleMedia
  <2>1. PICK i \in Subs : FrameArrives(i) \/ ByeArrives(i) \/ SourceCloses(i)
    BY <1>8 DEF HandleMedia
  <2>2. CASE FrameArrives(i)
    BY <2>2 DEF FrameArrives, sessionVars, sinkVars, TypeOK, PCs, SinksOK,
         HandshakeOK, AnswersMeetTheirRequest, LastSinkShutsDown
  <2>3. CASE ByeArrives(i) \/ SourceCloses(i)
    <3>1. PICK b, a : /\ b \subseteq bye /\ a \subseteq awaiting \ {i}
                      /\ PlaySubsessionAfterPlaying(i, b, a)
      BY <2>3 DEF ByeArrives, SourceCloses, StopSource, SinksOK
    <3>2. /\ pc = "select" /\ pc' = "alarm"
          /\ UNCHANGED <<watch, sessionVars, deferred, stale>>
      BY <2>3 DEF ByeArrives, SourceCloses
    <3>3. /\ SinksOK(sink', live', bye', awaiting', misc)
          /\ sink' = {} => shutdown'
          /\ shutdown' \in BOOLEAN
      BY <3>1, AfterPlayingLemma
    <3>4. shutdown => shutdown'
      BY <3>1 DEF PlaySubsessionAfterPlaying, PlayShutdownStream, KeepStreaming
    <3> QED
      BY <3>2, <3>3, <3>4 DEF sessionVars, TypeOK, PCs, SinksOK,
           HandshakeOK, AnswersMeetTheirRequest, LastSinkShutsDown
  <2> QED
    BY <2>1, <2>2, <2>3
<1>9. CASE HandleAlarm
  <2>1. CASE OtherAlarm
    BY <2>1 DEF OtherAlarm, sessionVars, sinkVars, TypeOK, PCs, SinksOK,
         HandshakeOK, AnswersMeetTheirRequest, LastSinkShutsDown
  <2>2. ASSUME NEW i \in Subs, DeferredAfterGetting(i)
        PROVE  IInv'
    <3>1. /\ pc = "alarm" /\ pc' = "check"
          /\ deferred' \in SUBSET Subs
          /\ UNCHANGED <<watch, sessionVars, stale>>
      BY <2>2 DEF DeferredAfterGetting, TypeOK
    <3>2. /\ SinksOK(sink', live', bye', awaiting', misc)
          /\ misc # {} /\ sink' = {} => shutdown'
          /\ shutdown' \in BOOLEAN
      <4>1. CASE UNCHANGED <<sinkVars, shutdown>>
        BY <4>1 DEF sinkVars, SinksOK, LastSinkShutsDown, TypeOK
      <4>2. CASE PlaySubsessionAfterPlaying(i, bye, awaiting \ {i})
        BY <4>2, AfterPlayingLemma
      <4> QED
        BY <2>2, <4>1, <4>2 DEF DeferredAfterGetting
    <3>3. shutdown => shutdown'
      BY <2>2 DEF DeferredAfterGetting, PlaySubsessionAfterPlaying,
           PlayShutdownStream, KeepStreaming
    <3> QED
      BY <3>1, <3>2, <3>3 DEF sessionVars, TypeOK, PCs, SinksOK,
           HandshakeOK, AnswersMeetTheirRequest, LastSinkShutsDown
  <2>3. ASSUME NEW i \in Subs, StaleAfterGetting(i)
        PROVE  IInv'
    BY <2>3 DEF StaleAfterGetting, sessionVars, TypeOK, PCs, SinksOK,
         HandshakeOK, AnswersMeetTheirRequest, LastSinkShutsDown
  <2> QED
    BY <1>9, <2>1, <2>2, <2>3 DEF HandleAlarm
<1>10. CASE UNCHANGED vars
  BY <1>10 DEF vars, sessionVars, sinkVars, TypeOK, SinksOK,
       HandshakeOK, AnswersMeetTheirRequest, LastSinkShutsDown
<1> QED
  BY <1>1, <1>2, <1>3, <1>4, <1>5, <1>6, <1>7, <1>8, <1>9, <1>10
     DEF Next, PlayThread
-----------------------------------------------------------------------------
(* The inductive invariant holds in every reachable state.                 *)
THEOREM Invariance == Spec => []IInv
  BY InitIInv, NextIInv, PTL DEF Spec

(* The variables keep their types, for any number of subsessions.          *)
THEOREM TypeCorrect == Spec => []TypeOK
<1>1. IInv => TypeOK
  BY DEF IInv
<1> QED
  BY <1>1, Invariance, PTL

(* No sink pointer dangles and no sink is lost, and no source waits on     *)
(* behalf of a sink that was deleted, in any interleaving of answers,      *)
(* frames, BYEs, closures and the user's stop.                             *)
THEOREM SinksExact == Spec => [](SinkPointersExact /\ ReadersAreLive)
<1>1. IInv => SinkPointersExact /\ ReadersAreLive
  BY DEF IInv, SinksOK, SinkPointersExact, ReadersAreLive
<1> QED
  BY <1>1, Invariance, PTL

(* The network handler of a source never calls on behalf of a sink that    *)
(* was deleted, in any order of closing them.                              *)
THEOREM ReadersLive == Spec => []ReadersAreLive
<1>1. IInv => ReadersAreLive
  BY DEF IInv, SinksOK, ReadersAreLive
<1> QED
  BY <1>1, Invariance, PTL

(* An answer always meets the state its request was sent in: the shared    *)
(* scs.subsession is never stale.                                          *)
THEOREM AnswersMatch == Spec => []AnswersMeetTheirRequest
<1>1. IInv => AnswersMeetTheirRequest
  BY DEF IInv
<1> QED
  BY <1>1, Invariance, PTL

(* The last sink to go shuts the stream down.                              *)
THEOREM LastSink == Spec => []LastSinkShutsDown
<1>1. IInv => LastSinkShutsDown
  BY DEF IInv
<1> QED
  BY <1>1, Invariance, PTL
-----------------------------------------------------------------------------
(* Refinement of StreamLifecycle                                           *)

(* A step that lets sinks come and go, closing some for good, is a         *)
(* streaming step of the lifecycle, or no step of it at all.               *)
LEMMA StreamStep ==
  ASSUME pc \in {"check", "select", "alarm"}, pc' \in {"check", "select", "alarm"},
         watch' = watch,
         sink \subseteq misc, misc \subseteq misc',
         sink' \in SUBSET Subs, misc' \in SUBSET Subs,
         sink' \cap misc \subseteq sink
  PROVE  [Lifecycle!Next]_(Lifecycle!vars)
<1>1. Lifecycle!Stream
  BY DEF Lifecycle!Stream
<1> QED
  BY <1>1 DEF Lifecycle!Next

(* What a handler does to the sinks when it closes one subsession.         *)
LEMMA ClosedSinks ==
  ASSUME IInv, NEW i \in Subs, NEW b, NEW a,
         PlaySubsessionAfterPlaying(i, b, a)
  PROVE  sink' = sink \ {i}
  BY DEF PlaySubsessionAfterPlaying, PlayShutdownStream, KeepStreaming

(* Which sinks can be open after playsetupNextSubsession().                *)
LEMMA SetupSinks ==
  ASSUME NEW rest, NEW s, NEW l, NEW b, NEW a,
         PlaySetupNextSubsession(rest, s, l, b, a)
  PROVE  sink' \subseteq s
  BY DEF PlaySetupNextSubsession, PlayShutdownStream, KeepStreaming

LEMMA InitLifecycle == Init => Lifecycle!Init
  BY DEF Init, Lifecycle!Init

(* Every step of the session is a step of the lifecycle or a stutter.      *)
LEMMA NextLifecycle == IInv /\ IInv' /\ [Next]_vars => [Lifecycle!Next]_(Lifecycle!vars)
<1> SUFFICES ASSUME IInv, IInv', [Next]_vars
             PROVE  [Lifecycle!Next]_(Lifecycle!vars)
  OBVIOUS
<1>0. /\ sink \subseteq misc
      /\ sink' \in SUBSET Subs /\ misc' \in SUBSET Subs
  BY DEF IInv, TypeOK, SinksOK
<1>1. CASE StartRecv
  BY <1>1 DEF StartRecv, sessionVars, sinkVars, Lifecycle!vars
<1>2. CASE Close
  <2>1. /\ watch' = TRUE
        /\ UNCHANGED <<pc, misc, sink>>
    BY <1>2 DEF Close, sessionVars, sinkVars
  <2>2. Lifecycle!AskStop
    BY <2>1 DEF Lifecycle!AskStop
  <2> QED
    BY <2>2 DEF Lifecycle!Next
<1>3. CASE StartPlay
  <2>1. /\ pc = "created" /\ pc' = "check"
        /\ UNCHANGED <<watch, misc>>
        /\ misc = {}
    BY <1>3 DEF StartPlay, IInv, HandshakeOK
  <2>2. sink = {} /\ sink' = {}
    BY <2>1 DEF IInv, SinksOK
  <2>3. Lifecycle!Start
    BY <2>1, <2>2 DEF Lifecycle!Start
  <2> QED
    BY <2>3 DEF Lifecycle!Next
<1>4. CASE ContinueLoop \/ SelectTimeout \/ OtherAlarm
  BY <1>0, <1>4, StreamStep
     DEF ContinueLoop, SelectTimeout, OtherAlarm, sessionVars, sinkVars
<1>5. CASE LeaveLoop
  <2>1. /\ pc = "check" /\ pc' = "exited" /\ watch
        /\ UNCHANGED <<watch, misc>> /\ sink' = {}
    BY <1>5 DEF LeaveLoop, PlayShutdownStream, sessionVars
  <2>2. Lifecycle!End
    BY <1>0, <2>1 DEF Lifecycle!End
  <2> QED
    BY <2>2 DEF Lifecycle!Next
<1>6. CASE HandleResponse
  <2>1. PICK r \in requests : \/ PlayContinueAfterDESCRIBE(r)
                             \/ PlayContinueAfterSETUP(r)
                             \/ PlayContinueAfterPLAY(r)
    BY <1>6 DEF HandleResponse
  <2>2. pc = "select" /\ pc' = "alarm" /\ watch' = watch
    BY <2>1 DEF Answer, PlayContinueAfterDESCRIBE,
         PlayContinueAfterSETUP, PlayContinueAfterPLAY
  <2>3. CASE PlayContinueAfterDESCRIBE(r) \/ PlayContinueAfterPLAY(r)
    <3>1. misc' = misc /\ sink' \subseteq sink
      BY <2>3, SetupSinks DEF PlayContinueAfterDESCRIBE, PlayContinueAfterPLAY,
           PlayShutdownStream, sinkVars
    <3> QED
      BY <1>0, <2>2, <3>1, StreamStep
  <2>4. CASE PlayContinueAfterSETUP(r)
    <3>1. cur \notin misc
      BY <2>4 DEF PlayContinueAfterSETUP, IInv, AnswersMeetTheirRequest
    <3>2. CASE misc' = misc \cup {cur} /\ sink' \subseteq sink \cup {cur}
      BY <1>0, <2>2, <3>1, <3>2, StreamStep
    <3>3. CASE misc' = misc /\ sink' \subseteq sink
      BY <1>0, <2>2, <3>3, StreamStep
    <3> QED
      BY <2>4, <3>2, <3>3, SetupSinks DEF PlayContinueAfterSETUP
  <2> QED
    BY <2>1, <2>3, <2>4
<1>7. CASE HandleMedia
  <2>1. PICK i \in Subs : FrameArrives(i) \/ ByeArrives(i) \/ SourceCloses(i)
    BY <1>7 DEF HandleMedia
  <2>2. /\ pc = "select" /\ pc' = "alarm"
        /\ UNCHANGED <<watch, misc>> /\ sink' \subseteq sink
    BY <2>1, ClosedSinks DEF FrameArrives, ByeArrives, SourceCloses,
         sessionVars, sinkVars
  <2> QED
    BY <1>0, <2>2, StreamStep
<1>8. ASSUME NEW i \in Subs, DeferredAfterGetting(i)
      PROVE  [Lifecycle!Next]_(Lifecycle!vars)
  <2>1. /\ pc = "alarm" /\ pc' = "check"
        /\ UNCHANGED <<watch, misc>> /\ sink' \subseteq sink
    BY <1>8, ClosedSinks DEF DeferredAfterGetting, sessionVars, sinkVars
  <2> QED
    BY <1>0, <2>1, StreamStep
<1>9. ASSUME NEW i \in Subs, StaleAfterGetting(i)
      PROVE  [Lifecycle!Next]_(Lifecycle!vars)
  <2>1. /\ pc = "alarm" /\ pc' \in {"check", "crashed"}
        /\ UNCHANGED <<watch, misc, sink>>
    BY <1>9 DEF StaleAfterGetting, sessionVars
  <2>2. CASE pc' = "check"
    BY <1>0, <2>1, <2>2, StreamStep
  <2>3. CASE pc' = "crashed"
    <3>1. Lifecycle!Die
      BY <2>1, <2>3 DEF Lifecycle!Die
    <3> QED
      BY <3>1 DEF Lifecycle!Next
  <2> QED
    BY <2>1, <2>2, <2>3
<1>10. CASE UNCHANGED vars
  BY <1>10 DEF vars, sessionVars, sinkVars, Lifecycle!vars
<1> QED
  BY <1>1, <1>2, <1>3, <1>4, <1>5, <1>6, <1>7, <1>8, <1>9, <1>10
     DEF Next, PlayThread, HandleAlarm

(* The safety part of the lifecycle: a playback ends only when it was      *)
(* asked to, with every sink closed, and never opens a sink twice.         *)
THEOREM RefinesLifecycle == Spec => Lifecycle!SafeSpec
  BY InitLifecycle, NextLifecycle, Invariance, PTL
     DEF Spec, Lifecycle!SafeSpec
=============================================================================
