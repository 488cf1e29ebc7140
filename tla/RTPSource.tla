------------------------------ MODULE RTPSource ------------------------------
(***************************************************************************)
(* The RTP source of one subsession: MultiFramedRTPSource with its         *)
(* ReorderingPacketBuffer, as H264VideoRTPSource and MPEG4ESVideoRTPSource *)
(* use it.  Packets come from an unreliable network; the source puts them  *)
(* in the order of their 16-bit sequence numbers, assembles frames from    *)
(* them and hands each frame to the sink, which asks for the next one.     *)
(*                                                                         *)
(* The sender numbers its packets 1, 2, 3, ... (id); the packet carries    *)
(* the number modulo M.  The ids are history: no action of the source      *)
(* reads them, the properties do.  doGetNextFrame1's loop is one action    *)
(* per iteration; the event loop (pc = "idle") comes to its turn only when *)
(* the loop is left.                                                       *)
(***************************************************************************)
EXTENDS Integers, Sequences

CONSTANTS
  M,            \* sequence numbers are 0..M-1: 65536 in the code
  Window,       \* a packet comes less than this many numbers from the one expected
  Shapes,       \* senders: the kinds of packets each sends, over and over again
  MaxId,        \* bound: packets sent
  MaxChanges    \* bound: how often the sender changes its SSRC, numbering afresh

(* Complete frames in one packet; the pieces of a frame in several, where  *)
(* "again" is one in the middle that looks like the first; two frames in   *)
(* one packet.                                                             *)
Kinds == {"single", "start", "mid", "again", "end", "aggregate"}

ASSUME MAssumption == M \in Nat /\ M >= 4 /\ M % 2 = 0
ASSUME WindowAssumption == Window \in 1..(M \div 2)
ASSUME ShapesAssumption == \A s \in Shapes : s \in Seq(Kinds) /\ s # << >>
ASSUME MaxIdAssumption == MaxId \in Nat
ASSUME ChangesAssumption == MaxChanges \in Nat

Ids == 1..MaxId

VARIABLES
  shape,        \* the sender
  pc,           \* "idle": in the event loop, "loop": in doGetNextFrame1, "stopped"
  next,         \* fNextExpectedSeqNo
  seen,         \* fHaveSeenFirstPacket
  queue,        \* the packets from fHeadPacket to fTailPacket
  saved,        \* fSavedPacket: "none", "free" or "busy"
  need,         \* fNeedDelivery
  begins,       \* fCurrentPacketBeginsFrame
  completes,    \* fCurrentPacketCompletesFrame
  damaged,      \* fPacketLossInFragmentedFrame
  buffer,       \* the pieces between fSavedTo and fTo
  deferred,     \* an afterGetting() task is in the delay queue
  expect,       \* history: the id that next stands for
  lost,         \* history: ids given up since the frame before the last one
  out,          \* history: the last frame delivered, a sequence of pieces
  delivered,    \* history: how many frames were delivered, modulo 2
  changes       \* history: how often the sender changed its SSRC

bufferVars == <<next, seen, queue, saved, expect>>
frameVars == <<begins, completes, damaged, buffer>>
historyVars == <<lost, out, delivered>>
vars == <<shape, pc, bufferVars, need, frameVars, deferred, historyVars, changes>>

Kind(id) == shape[((id - 1) % Len(shape)) + 1]

(* nextEnclosedFrameSize() finds two frames in an aggregate; any other     *)
(* packet is one piece of a frame.                                         *)
Parts(id) == IF Kind(id) = "aggregate" THEN 2 ELSE 1

Packets == [id : Ids, seq : 0..(M - 1), first : BOOLEAN, saved : BOOLEAN,
            used : 0..1]

TypeOK ==
  /\ shape \in Shapes
  /\ pc \in {"idle", "loop", "stopped"}
  /\ next \in 0..(M - 1)
  /\ seen \in BOOLEAN
  /\ queue \in Seq(Packets)
  /\ saved \in {"none", "free", "busy"}
  /\ need \in BOOLEAN
  /\ begins \in BOOLEAN /\ completes \in BOOLEAN /\ damaged \in BOOLEAN
  /\ buffer \in Seq(Ids \X {1, 2})
  /\ deferred \in BOOLEAN
  /\ expect \in 0..(MaxId + 1)
  /\ lost \in SUBSET Ids
  /\ out \in Seq(Ids \X {1, 2})
  /\ delivered \in 0..1
  /\ changes \in 0..MaxChanges

(* The sink has asked for its first frame: doGetNextFrame() has turned on  *)
(* network reads.                                                          *)
Init ==
  /\ shape \in Shapes
  /\ pc = "idle"
  /\ next = 0
  /\ seen = FALSE
  /\ queue = << >>
  /\ saved = "none"
  /\ need = TRUE
  /\ begins = TRUE
  /\ completes = TRUE
  /\ damaged = FALSE
  /\ buffer = << >>
  /\ deferred = FALSE
  /\ expect = 0
  /\ lost = {}
  /\ out = << >>
  /\ delivered = 0
  /\ changes = 0

-----------------------------------------------------------------------------
(* ReorderingPacketBuffer *)

(* s1 comes before s2 on the circle of sequence numbers.                   *)
SeqNumLT(s1, s2) ==
  LET diff == s2 - s1 IN
  \/ diff > 0 /\ diff < M \div 2
  \/ diff < 0 /\ diff < -(M \div 2)

(* The packet goes to the end of the queue.                                *)
Younger(s) == queue # << >> => SeqNumLT(queue[Len(queue)].seq, s)

(* The position in front of which storePacket() links a packet: after the  *)
(* tail if it is younger, else before the first queued one it precedes.    *)
Position(s) ==
  IF Younger(s) THEN Len(queue) + 1
  ELSE CHOOSE i \in DOMAIN queue :
         /\ SeqNumLT(s, queue[i].seq)
         /\ \A j \in 1..(i - 1) : ~SeqNumLT(s, queue[j].seq)

(* Mutant: the walk does not notice a duplicate of a packet it passes.     *)
AcceptsDuplicates(s, expected) ==
  /\ ~SeqNumLT(s, expected)
  /\ ~Younger(s) => s # queue[Len(queue)].seq

(* Mutant: a packet older than the one expected is stored.                 *)
AcceptsLate(s, expected) ==
  ~Younger(s) => /\ s # queue[Len(queue)].seq
                 /\ \A j \in 1..(Position(s) - 1) : queue[j].seq # s

(* storePacket() takes a packet unless it is older than the one expected,  *)
(* or equals the tail or one passed on the way to its position.            *)
Accepts(s, expected) ==
  /\ ~SeqNumLT(s, expected)
  /\ ~Younger(s) => /\ s # queue[Len(queue)].seq
                    /\ \A j \in 1..(Position(s) - 1) : queue[j].seq # s

Insert(p) ==
  LET i == Position(p.seq) IN
  SubSeq(queue, 1, i - 1) \o <<p>> \o SubSeq(queue, i, Len(queue))

(* Mutant: the saved packet is handed out without marking it taken.        *)
SavedStaysFree(usesSaved) == "free"

(* getFreePacket() hands out the saved packet if it is free, freePacket()  *)
(* takes it back: so it is busy after one that uses it was queued.         *)
SavedAfter(usesSaved) == IF usesSaved THEN "busy" ELSE saved

(* Mutant: the expected number does not wrap around.                       *)
ReleaseWithoutWrap ==
  /\ queue' = Tail(queue)
  /\ saved' = IF queue[1].saved THEN "free" ELSE saved
  /\ next' = queue[1].seq + 1
  /\ expect' = queue[1].id + 1

(* releaseUsedPacket(): done with the head.  getNextCompletedPacket() has  *)
(* made the head the expected packet.                                      *)
ReleaseUsedPacket ==
  /\ queue' = Tail(queue)
  /\ saved' = IF queue[1].saved THEN "free" ELSE saved
  /\ next' = (queue[1].seq + 1) % M
  /\ expect' = queue[1].id + 1

(* networkReadHandler1(): a packet comes in, new or late, or a duplicate,  *)
(* and is stored or freed.  A new SSRC makes it the first packet again.    *)
NetworkRead(a, newSsrc) ==
  LET s == a % M
      isFirst == newSsrc \/ ~seen
      expected == IF isFirst THEN s ELSE next
      usesSaved == saved # "busy"
      p == [id |-> a, seq |-> s, first |-> isFirst, saved |-> usesSaved,
            used |-> 0]
  IN
  /\ pc = "idle"
  /\ isFirst \/ (expect - Window < a /\ a < expect + Window)
  /\ \A i \in DOMAIN queue : (queue[i].seq - s) % M # M \div 2
  /\ changes' = IF newSsrc THEN changes + 1 ELSE changes
  /\ changes' <= MaxChanges
  /\ pc' = "loop"
  /\ seen' = TRUE
  /\ next' = expected
  /\ expect' = IF isFirst THEN a ELSE expect
  /\ \/ /\ Accepts(s, expected)
        /\ queue' = Insert(p)
        /\ saved' = SavedAfter(usesSaved)
     \/ /\ ~Accepts(s, expected)
        /\ queue' = queue
        /\ saved' = IF usesSaved THEN "free" ELSE saved
  /\ UNCHANGED <<shape, need, frameVars, deferred, historyVars>>

-----------------------------------------------------------------------------
(* doGetNextFrame1: each action is one way through its loop *)

(* getNextCompletedPacket(): the head is the expected packet, or the one   *)
(* expected is given up because the head has waited for too long.          *)
PacketLossPreceded == queue[1].seq # next \/ queue[1].first

GivenUp == IF queue[1].seq = next THEN {} ELSE expect..(queue[1].id - 1)

(* processSpecialHeader(): what the first use of a packet makes of the     *)
(* flags.  H.264 reads them from the NAL header, and leaves them as they   *)
(* are for an aggregate (STAP, MTAP); MPEG-4 takes a packet that has a     *)
(* start code in front for the first of a frame, and the marker bit.       *)
Flags ==
  IF queue[1].used > 0 \/ Kind(queue[1].id) = "aggregate"
    THEN [begins |-> begins, completes |-> completes]
    ELSE [begins |-> Kind(queue[1].id) \in {"single", "start", "again"},
          completes |-> Kind(queue[1].id) \in {"single", "end"}]

(* Mutant: loss before a continuation is forgotten.                        *)
DamageForgotten == ~Flags.begins /\ damaged

(* Mutant: a packet that begins a frame is damaged by the loss before it.  *)
DamageSpreads == PacketLossPreceded \/ (~Flags.begins /\ damaged)

(* A loss inside a frame damages what is left of it.                       *)
DamagedNow == ~Flags.begins /\ (PacketLossPreceded \/ damaged)

(* After a loss, forget what the buffer holds of the frame before.         *)
BufferNow ==
  IF Flags.begins /\ (PacketLossPreceded \/ damaged) THEN << >> ELSE buffer

LastDelivered == IF out = << >> THEN 0 ELSE out[Len(out)][1]

(* The loop meets a packet it will use or reject.                          *)
TakePacket ==
  /\ pc = "loop"
  /\ need
  /\ queue # << >>
  /\ begins' = Flags.begins
  /\ completes' = Flags.completes
  /\ damaged' = DamagedNow
  /\ lost' = {x \in lost \cup GivenUp : x > LastDelivered}
  /\ UNCHANGED <<shape, seen, changes>>

(* Nothing to deliver, or nobody to deliver to: back to the event loop.    *)
LeaveLoop ==
  /\ pc = "loop"
  /\ need /\ queue # << >> => queue[1].seq # next
  /\ pc' = "idle"
  /\ UNCHANGED <<shape, bufferVars, need, frameVars, deferred, historyVars, changes>>

(* A piece of a frame that lacks another one: break out of the loop.       *)
RejectPacket ==
  /\ TakePacket
  /\ DamagedNow
  /\ ReleaseUsedPacket
  /\ pc' = "idle"
  /\ UNCHANGED <<need, buffer, deferred, out, delivered>>

UsePacket ==
  /\ TakePacket
  /\ ~DamagedNow
  /\ \/ /\ queue[1].used + 1 = Parts(queue[1].id)
        /\ ReleaseUsedPacket
     \/ /\ queue[1].used + 1 < Parts(queue[1].id)
        /\ queue' = [queue EXCEPT ![1].used = 1]
        /\ next' = queue[1].seq
        /\ expect' = queue[1].id
        /\ UNCHANGED saved

Filled == Append(BufferNow, <<queue[1].id, queue[1].used + 1>>)

UseFragment ==
  /\ UsePacket
  /\ ~Flags.completes
  /\ buffer' = Filled
  /\ UNCHANGED <<pc, need, deferred, out, delivered>>

(* The frame is complete.  If the queue is empty, afterGetting() calls the *)
(* sink at once, and the sink asks for the next frame; else the call goes  *)
(* through the event loop.                                                 *)
CompleteFrame ==
  /\ UsePacket
  /\ Flags.completes
  /\ out' = Filled
  /\ delivered' = 1 - delivered
  /\ buffer' = << >>
  /\ IF queue' = << >>
       THEN UNCHANGED <<pc, need, deferred>>
       ELSE pc' = "idle" /\ need' = FALSE /\ deferred' = TRUE

(* Mutant: the sink's request waits for a packet to arrive.                *)
AfterGettingWaits ==
  /\ pc = "idle"
  /\ deferred
  /\ deferred' = FALSE
  /\ need' = TRUE
  /\ UNCHANGED <<shape, pc, bufferVars, frameVars, historyVars, changes>>

(* The deferred afterGetting(): the sink asks for the next frame.          *)
AfterGetting ==
  /\ pc = "idle"
  /\ deferred
  /\ deferred' = FALSE
  /\ need' = TRUE
  /\ pc' = "loop"
  /\ UNCHANGED <<shape, bufferVars, frameVars, historyVars, changes>>

(* doStopGettingFrames(): reset() of the buffer and of the source.         *)
StopGettingFrames ==
  /\ pc = "idle"
  /\ pc' = "stopped"
  /\ seen' = FALSE
  /\ queue' = << >>
  /\ saved' = "none"
  /\ need' = FALSE
  /\ begins' = TRUE
  /\ completes' = TRUE
  /\ damaged' = FALSE
  /\ UNCHANGED <<shape, next, expect, buffer, deferred, historyVars, changes>>

DoGetNextFrame1 == LeaveLoop \/ RejectPacket \/ UseFragment \/ CompleteFrame

Next ==
  \/ \E a \in Ids, newSsrc \in BOOLEAN : NetworkRead(a, newSsrc)
  \/ DoGetNextFrame1
  \/ AfterGetting
  \/ StopGettingFrames

Spec == Init /\ [][Next]_vars

-----------------------------------------------------------------------------
(* Correctness, of the frames as long as the sender keeps its SSRC: after a *)
(* change the queue mixes packets of two numberings (see HeadNotPassed).   *)

(* The frames the sender sent, each as the sequence of its pieces.         *)
Run(i, j) == [k \in 1..(j - i + 1) |-> <<i + k - 1, 1>>]

Frames ==
  {Run(i, i) : i \in {k \in Ids : Kind(k) = "single"}} \cup
  {<<<<i, part>>>> : i \in {k \in Ids : Kind(k) = "aggregate"}, part \in {1, 2}} \cup
  {Run(ij[1], ij[2]) : ij \in
    {ij \in Ids \X Ids :
       /\ ij[1] < ij[2] /\ Kind(ij[1]) = "start" /\ Kind(ij[2]) = "end"
       /\ \A k \in (ij[1] + 1)..(ij[2] - 1) : Kind(k) \in {"mid", "again"}}}

(* What a sender must keep to for its frames to be told apart: no          *)
(* aggregates along with fragmented frames, and the pieces of a frame, of  *)
(* which only the first begins one, follow each other up to its end.       *)
SendsWholeFrames(s) ==
  LET kind(id) == s[((id - 1) % Len(s)) + 1] IN
  \/ \A id \in Ids : kind(id) \in {"single", "aggregate"}
  \/ \A id \in Ids :
       /\ kind(id) \in {"single", "start", "mid", "end"}
       /\ kind(id) \in {"start", "mid"} <=> kind(id + 1) \in {"mid", "end"}

(* MultiFramedRTPSource.cpp:573 "ASSERT: fHeadPacket->rtpSeqNo() >=        *)
(* fNextExpectedSeqNo", on the circle: the head is never a packet that the *)
(* buffer has passed already.  A change of SSRC refutes it; without one it *)
(* is part of what QueueInSendingOrder says.                               *)
HeadNotPassed == queue # << >> => ~SeqNumLT(queue[1].seq, next)

(* Across wrap-around of the numbers and any reordering, loss and          *)
(* duplication within the window, the queue holds what the sender sent in  *)
(* the order it was sent, once each, and nothing that was passed.          *)
QueueInSendingOrder ==
  changes = 0 =>
    /\ \A i \in DOMAIN queue : queue[i].id >= expect
    /\ \A i, j \in DOMAIN queue : i < j => queue[i].id < queue[j].id

(* Every frame the sink gets is one frame of the sender, whole: no piece   *)
(* missing, none of another frame.                                         *)
FramesWhole == changes = 0 /\ out # << >> => out \in Frames

(* Frames come in the order they were sent, none twice: every frame that   *)
(* is delivered lies behind the one delivered before it, so that one that  *)
(* comes again is seen, at once after itself too.                          *)
FramesInOrder ==
  [][changes' = 0 /\ delivered' # delivered /\ out # << >> =>
       \/ out'[1][1] > out[Len(out)][1]
       \/ out'[1][1] = out[Len(out)][1] /\ out'[1][2] > out[Len(out)][2]]_vars

(* A frame is skipped only if a packet of it was given up: what the source *)
(* rejects after a loss never takes an undamaged frame with it.            *)
OnlyDamagedFramesSkipped ==
  [][changes' = 0 /\ delivered' # delivered /\ out # << >> =>
       \A f \in Frames :
         f[1][1] > out[Len(out)][1] /\ f[Len(f)][1] < out'[1][1]
           => \E i \in DOMAIN f : f[i][1] \in lost']_vars

(* fSavedPacket is reused for the next read exactly while it is free, and  *)
(* then it is not queued: reset() deletes it once, either way              *)
(* (MultiFramedRTPSource.cpp:475-476).                                     *)
SavedPacketExact ==
  /\ saved = "busy" <=> \E i \in DOMAIN queue : queue[i].saved
  /\ \A i, j \in DOMAIN queue : queue[i].saved /\ queue[j].saved => i = j

(* MultiFramedRTPSource.cpp:131 "If we already have packet data available, *)
(* then deliver it now": back in the event loop, a packet that the sink    *)
(* waits for is left in the queue only when a piece of a damaged frame was *)
(* rejected before it, and then it is not lost but late, by one packet.    *)
OnlyDamageDelays ==
  pc = "idle" /\ need /\ ~damaged /\ queue # << >> => queue[1].seq # next
=============================================================================
