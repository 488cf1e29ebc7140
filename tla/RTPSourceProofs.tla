-------------------------- MODULE RTPSourceProofs --------------------------
(***************************************************************************)
(* Proofs about RTPSource, for any modulus of sequence numbers - 65536 in  *)
(* the code - any window up to half of it, and any sender: first that the  *)
(* queue is in the order the packets were sent (IInv), then, from it, that *)
(* frames are too (OrderInv), and, for a sender that keeps to              *)
(* SendsWholeFrames, that they are whole (WholeInv) and that none is       *)
(* skipped undamaged (SkipInv).                                            *)
(***************************************************************************)
EXTENDS RTPSource, Extrema, SequenceTheorems, TLAPS

USE MaxIdAssumption, ChangesAssumption

-----------------------------------------------------------------------------
(* Numbers on the circle *)

LEMMA ModRange == \A a \in Int : (a % M) \in 0..(M - 1)
BY MAssumption

LEMMA Half == M \div 2 \in Nat /\ M = 2 * (M \div 2) /\ M \div 2 >= 2
BY MAssumption

LEMMA DivMod ==
  ASSUME NEW a \in Int
  PROVE  a \div M \in Int /\ a = M * (a \div M) + (a % M)
BY MAssumption

(* The remainders of two numbers differ as the numbers do, or by M more or *)
(* less.                                                                   *)
LEMMA ModDiff ==
  ASSUME NEW a \in Int, NEW b \in Int, -M < b - a, b - a < M
  PROVE  (b % M) - (a % M) \in {b - a, b - a - M, b - a + M}
<1> DEFINE x == a \div M
           y == b \div M
           r == a % M
           s == b % M
           k == y - x
<1>1. /\ x \in Int /\ y \in Int /\ k \in Int
      /\ r \in 0..(M - 1) /\ s \in 0..(M - 1)
      /\ a = M * x + r /\ b = M * y + s
  BY DivMod, ModRange
<1> HIDE DEF x, y, r, s
<1>2. b - a = M * k + (s - r)
  <2>1. M * k = M * y - M * x
    BY <1>1, MAssumption
  <2>2. M * y \in Int /\ M * x \in Int /\ M * k \in Int
    BY <1>1, MAssumption
  <2>3. b - a = (M * y + s) - (M * x + r)
    BY <1>1
  <2> HIDE DEF k
  <2> QED
    BY <1>1, <2>1, <2>2, <2>3
<1> HIDE DEF k
<1>3. M * k > -(2 * M) /\ M * k < 2 * M
  BY <1>1, <1>2, MAssumption
<1>4. k < 2
  BY <1>1, <1>3, MAssumption
<1>5. k > -2
  BY <1>1, <1>3, MAssumption
<1>6. k \in {-1, 0, 1}
  BY <1>1, <1>4, <1>5
<1>7. (s - r) \in {b - a, b - a - M, b - a + M}
  BY <1>1, <1>2, <1>6, MAssumption
<1> QED
  BY <1>7 DEF r, s

(* The number after a wraps around with it.                                *)
LEMMA ModNext ==
  ASSUME NEW a \in Int
  PROVE  ((a % M) + 1) % M = (a + 1) % M
<1>1. PICK b \in Int : b = a + 1
  OBVIOUS
<1>2. (b % M) - (a % M) \in {1, 1 - M, 1 + M}
  <2>1. -M < b - a /\ b - a < M /\ b - a = 1
    BY <1>1, MAssumption
  <2>2. (b % M) - (a % M) \in {b - a, b - a - M, b - a + M}
    BY <2>1, ModDiff
  <2> QED
    BY <2>1, <2>2
<1>3. (a % M) \in 0..(M - 1) /\ (b % M) \in 0..(M - 1)
  BY ModRange
<1>4. \A r \in 0..(M - 2) : (r + 1) % M = r + 1
  BY MAssumption
<1>5. M % M = 0
  BY MAssumption
<1>6. CASE a % M = M - 1
  <2>1. ((a % M) + 1) % M = 0
    BY <1>5, <1>6, MAssumption
  <2>2. (b % M) = 0
    BY <1>2, <1>3, <1>6, MAssumption
  <2> QED
    BY <1>1, <2>1, <2>2
<1>7. CASE a % M # M - 1
  <2>1. (a % M) \in 0..(M - 2)
    BY <1>3, <1>7, MAssumption
  <2>2. ((a % M) + 1) % M = (a % M) + 1
    BY <2>1, <1>4
  <2>3. (b % M) = (a % M) + 1
    BY <1>2, <1>3, <2>1, MAssumption
  <2> QED
    BY <1>1, <2>2, <2>3
<1> QED
  BY <1>6, <1>7

(* Of two numbers less than half the circle apart, sequence numbers tell   *)
(* the order.                                                              *)
LEMMA CircleOrder ==
  ASSUME NEW a \in Int, NEW b \in Int, -Window < b - a, b - a < Window
  PROVE  /\ SeqNumLT(a % M, b % M) <=> a < b
         /\ a % M = b % M <=> a = b
<1> DEFINE r == a % M
           s == b % M
           h == M \div 2
<1>1. h \in Nat /\ M = 2 * h /\ -h < b - a /\ b - a < h
  BY Half, WindowAssumption
<1>2. r \in 0..(M - 1) /\ s \in 0..(M - 1)
  BY ModRange
<1>3. (s - r) \in {b - a, b - a - M, b - a + M}
  BY <1>1, ModDiff
<1> HIDE DEF r, s, h
<1>4. /\ SeqNumLT(r, s) <=> (s - r > 0 /\ s - r < h) \/ (s - r < 0 /\ s - r < -h)
  BY DEF SeqNumLT, h
<1>5. /\ SeqNumLT(r, s) <=> a < b
      /\ r = s <=> a = b
  BY <1>1, <1>2, <1>3, <1>4
<1> QED
  BY <1>5 DEF r, s

(* Numbers that are not opposite each other are equal or in order.         *)
LEMMA Trichotomy ==
  ASSUME NEW s \in 0..(M - 1), NEW t \in 0..(M - 1),
         s # t, ~SeqNumLT(t, s), (t - s) % M # M \div 2
  PROVE  SeqNumLT(s, t)
<1> DEFINE h == M \div 2
<1>1. h \in Nat /\ M = 2 * h /\ h >= 2
  BY Half
<1>2. h % M = h /\ (-h) % M = h
  <2>1. h % M = h
    BY <1>1, MAssumption
  <2>2. PICK g \in Int : g = -h
    BY <1>1
  <2>3. (g % M) \in 0..(M - 1) /\ g = M * (g \div M) + (g % M) /\ g \div M \in Int
    BY DivMod, ModRange
  <2>4. g \div M = -1
    BY <1>1, <2>2, <2>3
  <2> QED
    BY <1>1, <2>1, <2>2, <2>3, <2>4
<1>3. t - s # h /\ t - s # -h
  BY <1>2
<1> QED
  BY <1>1, <1>3, MAssumption DEF SeqNumLT

-----------------------------------------------------------------------------
(* The queue *)

LEMMA QueueElements ==
  ASSUME queue \in Seq(Packets)
  PROVE  /\ Len(queue) \in Nat /\ DOMAIN queue = 1..Len(queue)
         /\ \A i \in 1..Len(queue) :
              /\ queue[i] \in Packets
              /\ queue[i].id \in Ids /\ queue[i].seq \in 0..(M - 1)
              /\ queue[i].saved \in BOOLEAN /\ queue[i].used \in 0..1
         /\ queue # << >> => Len(queue) >= 1
<1>1. /\ Len(queue) \in Nat /\ DOMAIN queue = 1..Len(queue)
      /\ \A i \in 1..Len(queue) : queue[i] \in Packets
  BY LenProperties, ElementOfSeq
<1>2. queue # << >> => Len(queue) >= 1
  BY <1>1, EmptySeq
<1> QED
  BY <1>1, <1>2 DEF Packets

(* A packet that is accepted has a position: at the end, or in front of    *)
(* the first packet it precedes.                                           *)
LEMMA PositionLemma ==
  ASSUME queue \in Seq(Packets), NEW s \in 0..(M - 1), NEW expected,
         Accepts(s, expected),
         \A i \in DOMAIN queue : (queue[i].seq - s) % M # M \div 2
  PROVE  \/ Younger(s) /\ Position(s) = Len(queue) + 1
         \/ /\ ~Younger(s)
            /\ Position(s) \in DOMAIN queue
            /\ SeqNumLT(s, queue[Position(s)].seq)
            /\ \A j \in 1..(Position(s) - 1) : ~SeqNumLT(s, queue[j].seq)
<1> DEFINE n == Len(queue)
           T == {i \in DOMAIN queue : SeqNumLT(s, queue[i].seq)}
<1>1. n \in Nat /\ DOMAIN queue = 1..n /\ \A i \in 1..n : queue[i].seq \in 0..(M - 1)
  BY QueueElements
<1>2. SUFFICES ASSUME ~Younger(s) PROVE
        \E i \in DOMAIN queue : /\ SeqNumLT(s, queue[i].seq)
                                /\ \A j \in 1..(i - 1) : ~SeqNumLT(s, queue[j].seq)
  BY DEF Position
<1>3. n \in 1..n /\ ~SeqNumLT(queue[n].seq, s)
  BY <1>1, <1>2, QueueElements DEF Younger
<1>4. SeqNumLT(s, queue[n].seq)
  BY <1>1, <1>2, <1>3, Trichotomy DEF Accepts
<1>5. T \subseteq Nat /\ T # {}
  BY <1>1, <1>3, <1>4
<1>6. PICK i \in T : \A j \in T : i <= j
  <2> HIDE DEF T
  <2> QED
    BY <1>5, LeastExists
<1>7. \A j \in 1..(i - 1) : j \in DOMAIN queue /\ j \notin T
  BY SMTT(30), <1>1, <1>6
<1> QED
  BY <1>6, <1>7

LEMMA InsertLemma ==
  ASSUME queue \in Seq(Packets), NEW p \in Packets,
         Position(p.seq) \in 1..(Len(queue) + 1)
  PROVE  LET q == Insert(p)
             k == Position(p.seq) IN
         /\ q \in Seq(Packets)
         /\ Len(q) = Len(queue) + 1
         /\ \A i \in 1..(Len(queue) + 1) :
              q[i] = IF i < k THEN queue[i] ELSE IF i = k THEN p ELSE queue[i - 1]
<1> DEFINE k == Position(p.seq)
           n == Len(queue)
           a == SubSeq(queue, 1, k - 1)
           b == SubSeq(queue, k, n)
           c == a \o <<p>>
<1>1. n \in Nat /\ k \in 1..(n + 1) /\ \A i \in 1..n : queue[i] \in Packets
  BY QueueElements
<1>2. Insert(p) = c \o b
  BY DEF Insert
<1> HIDE DEF k, n
<1>3. a \in Seq(Packets) /\ Len(a) = k - 1 /\ \A i \in 1..(k - 1) : a[i] = queue[i]
  <2>1. k - 1 \in Int /\ 1..(k - 1) \subseteq 1..n /\ k - 1 >= 0
    BY <1>1
  <2>2. a \in Seq(Packets) /\ Len(a) = IF 1 <= k - 1 THEN (k - 1) - 1 + 1 ELSE 0
    BY <1>1, <2>1, SubSeqProperties
  <2>3. \A i \in 1..((k - 1) - 1 + 1) : a[i] = queue[1 + i - 1]
    BY <1>1, <2>1, SubSeqProperties
  <2> QED
    BY <1>1, <2>1, <2>2, <2>3
<1>4. b \in Seq(Packets) /\ Len(b) = n - k + 1 /\ \A i \in 1..(n - k + 1) : b[i] = queue[k + i - 1]
  <2>1. k \in Int /\ n \in Int /\ k..n \subseteq 1..n
    BY <1>1
  <2>2. b \in Seq(Packets) /\ Len(b) = IF k <= n THEN n - k + 1 ELSE 0
    BY <1>1, <2>1, SubSeqProperties
  <2>3. \A i \in 1..(n - k + 1) : b[i] = queue[k + i - 1]
    BY <1>1, <2>1, SubSeqProperties
  <2> QED
    BY <1>1, <2>2, <2>3
<1> HIDE DEF a, b
<1>5. /\ c \in Seq(Packets) /\ Len(c) = k
      /\ \A i \in 1..k : c[i] = IF i < k THEN queue[i] ELSE p
  <2>1. c = Append(a, p)
    BY <1>3, AppendIsConcat
  <2>2. /\ Append(a, p) \in Seq(Packets) /\ Len(Append(a, p)) = Len(a) + 1
        /\ \A i \in 1..Len(a) : Append(a, p)[i] = a[i]
        /\ Append(a, p)[Len(a) + 1] = p
    BY <1>3, AppendProperties
  <2> HIDE DEF c
  <2> QED
    BY <1>1, <1>3, <2>1, <2>2
<1> HIDE DEF c
<1>6. /\ c \o b \in Seq(Packets) /\ Len(c \o b) = Len(c) + Len(b)
      /\ \A i \in 1..(Len(c) + Len(b)) :
           (c \o b)[i] = IF i <= Len(c) THEN c[i] ELSE b[i - Len(c)]
  BY <1>4, <1>5, ConcatProperties
<1>7. Len(c) + Len(b) = n + 1
  BY <1>1, <1>4, <1>5
<1>8. ASSUME NEW i \in 1..(n + 1)
      PROVE  (c \o b)[i] = IF i < k THEN queue[i] ELSE IF i = k THEN p ELSE queue[i - 1]
  <2>1. CASE i <= k
    BY <1>1, <1>5, <1>6, <1>7, <2>1
  <2>2. CASE i > k
    <3>1. i - k \in 1..(n - k + 1) /\ ~(i <= k) /\ k + (i - k) - 1 = i - 1
      BY <1>1, <2>2
    <3>2. (c \o b)[i] = b[i - k]
      BY <1>5, <1>6, <1>7, <3>1
    <3> QED
      BY <1>1, <1>4, <2>2, <3>1, <3>2
  <2>3. i <= k \/ i > k
    BY <1>1
  <2> QED
    BY <2>1, <2>2, <2>3
<1> QED
  BY <1>2, <1>6, <1>7, <1>8 DEF k, n

(* releaseUsedPacket() takes the head.                                     *)
LEMMA TailLemma ==
  ASSUME queue \in Seq(Packets), queue # << >>, ReleaseUsedPacket
  PROVE  /\ queue' \in Seq(Packets)
         /\ Len(queue') = Len(queue) - 1
         /\ \A i \in 1..(Len(queue) - 1) : queue'[i] = queue[i + 1]
<1>1. queue' = Tail(queue)
  BY DEF ReleaseUsedPacket
<1>2. /\ Tail(queue) \in Seq(Packets)
      /\ Len(Tail(queue)) = Len(queue) - 1
      /\ \A i \in 1..Len(Tail(queue)) : Tail(queue)[i] = queue[i + 1]
  BY HeadTailProperties
<1> QED
  BY <1>1, <1>2

(* Half of an aggregate used: only that is noted.                          *)
LEMMA UsedLemma ==
  ASSUME queue \in Seq(Packets), queue # << >>,
         queue' = [queue EXCEPT ![1].used = 1]
  PROVE  /\ queue' \in Seq(Packets)
         /\ Len(queue') = Len(queue)
         /\ \A i \in 1..Len(queue) : /\ queue'[i].id = queue[i].id
                                     /\ queue'[i].seq = queue[i].seq
                                     /\ queue'[i].saved = queue[i].saved
<1> DEFINE e == [queue[1] EXCEPT !.used = 1]
<1>1. 1 \in 1..Len(queue) /\ queue[1] \in Packets
  BY QueueElements
<1>2. /\ e \in Packets
      /\ e.id = queue[1].id /\ e.seq = queue[1].seq /\ e.saved = queue[1].saved
  BY <1>1 DEF Packets
<1>3. queue' = [queue EXCEPT ![1] = e]
  OBVIOUS
<1> HIDE DEF e
<1>4. /\ queue' \in Seq(Packets)
      /\ Len(queue') = Len(queue)
      /\ \A i \in 1..Len(queue) : queue'[i] = IF i = 1 THEN e ELSE queue[i]
  BY <1>1, <1>2, <1>3, ExceptSeq
<1> QED
  BY <1>2, <1>4

-----------------------------------------------------------------------------
(* The inductive invariant *)

(* Sequence numbers are those of the ids they stand for; before the first  *)
(* packet nothing is queued.                                               *)
Numbered ==
  /\ next = expect % M
  /\ \A i \in DOMAIN queue : queue[i].seq = queue[i].id % M
  /\ ~seen => queue = << >>
  /\ seen => expect >= 1

(* What is queued was within the window when it came, and next only grows. *)
InWindow ==
  changes = 0 => \A i \in DOMAIN queue : queue[i].id < expect + Window

BufferTypes ==
  /\ next \in 0..(M - 1)
  /\ queue \in Seq(Packets)
  /\ saved \in {"none", "free", "busy"}
  /\ expect \in 0..(MaxId + 1)

BufferInv ==
  BufferTypes /\ Numbered /\ InWindow /\ QueueInSendingOrder /\ SavedPacketExact

IInv == TypeOK /\ BufferInv

LEMMA InvInit == Init => IInv
<1> SUFFICES ASSUME Init PROVE IInv
  OBVIOUS
<1>1. \A S : << >> \in Seq(S)
  BY EmptySeq
<1>2. 0 % M = 0 /\ 0 \in 0..(M - 1) /\ DOMAIN queue = {}
  BY MAssumption DEF Init
<1>3. TypeOK
  <2>1. queue \in Seq(Packets) /\ buffer \in Seq(Ids \X {1, 2}) /\ out \in Seq(Ids \X {1, 2})
    BY <1>1 DEF Init
  <2>2. next \in 0..(M - 1) /\ expect \in 0..(MaxId + 1) /\ changes \in 0..MaxChanges
    BY <1>2 DEF Init
  <2>3. shape \in Shapes /\ delivered \in 0..1 /\ lost \in SUBSET Ids
    BY DEF Init
  <2> QED
    BY <2>1, <2>2, <2>3 DEF Init, TypeOK
<1>4. BufferInv
  BY <1>1, <1>2 DEF Init, BufferInv, BufferTypes, Numbered, InWindow,
                    QueueInSendingOrder, SavedPacketExact
<1> QED
  BY <1>3, <1>4 DEF IInv

(* What the invariant says of positions.                                   *)
LEMMA BufferFacts ==
  ASSUME IInv
  PROVE  /\ Len(queue) \in Nat /\ DOMAIN queue = 1..Len(queue)
         /\ \A i \in 1..Len(queue) :
              /\ queue[i].id \in Ids /\ queue[i].saved \in BOOLEAN
              /\ queue[i].seq = queue[i].id % M
              /\ changes = 0 => expect <= queue[i].id /\ queue[i].id < expect + Window
         /\ changes = 0 =>
              \A i, j \in 1..Len(queue) : i < j => queue[i].id < queue[j].id
         /\ saved = "busy" <=> \E i \in 1..Len(queue) : queue[i].saved
         /\ \A i, j \in 1..Len(queue) : queue[i].saved /\ queue[j].saved => i = j
         /\ expect \in 0..(MaxId + 1) /\ Window \in Nat /\ Window >= 1
         /\ next = expect % M
<1>1. queue \in Seq(Packets) /\ expect \in 0..(MaxId + 1)
  BY DEF IInv, BufferInv, BufferTypes
<1>2. Window \in Nat /\ Window >= 1
  BY WindowAssumption, Half
<1>3. /\ Len(queue) \in Nat /\ DOMAIN queue = 1..Len(queue)
      /\ \A i \in 1..Len(queue) : queue[i].id \in Ids /\ queue[i].saved \in BOOLEAN
  BY <1>1, QueueElements
<1> QED
  BY <1>1, <1>2, <1>3 DEF IInv, BufferInv, Numbered, InWindow, QueueInSendingOrder,
                          SavedPacketExact, Ids

(* Shape of what follows: the new queue, by positions.                     *)
LEMMA BufferFrom ==
  ASSUME NEW m \in Nat, queue' \in Seq(Packets), Len(queue') = m,
         expect' \in 0..(MaxId + 1), next' = expect' % M,
         saved' \in {"none", "free", "busy"},
         \A i \in 1..m : queue'[i].seq = queue'[i].id % M,
         ~seen' => queue' = << >>, seen' => expect' >= 1,
         changes' = 0 => \A i \in 1..m :
           queue'[i].id >= expect' /\ queue'[i].id < expect' + Window,
         changes' = 0 => \A i, j \in 1..m : i < j => queue'[i].id < queue'[j].id,
         saved' = "busy" <=> \E i \in 1..m : queue'[i].saved,
         \A i, j \in 1..m : queue'[i].saved /\ queue'[j].saved => i = j
  PROVE  BufferInv'
<1>1. DOMAIN queue' = 1..m
  BY LenProperties
<1>2. next' \in 0..(M - 1)
  BY ModRange
<1> QED
  BY <1>1, <1>2 DEF BufferInv, BufferTypes, Numbered, InWindow, QueueInSendingOrder,
                    SavedPacketExact

-----------------------------------------------------------------------------
(* The steps of the buffer *)

LEMMA ReleaseStep ==
  ASSUME IInv, queue # << >>, ReleaseUsedPacket, UNCHANGED <<seen, changes>>
  PROVE  BufferInv'
<1> DEFINE n == Len(queue)
<1>1. /\ n \in Nat /\ n >= 1 /\ 1 \in 1..n
      /\ queue[1].id \in 1..MaxId /\ queue[1].seq = queue[1].id % M
  BY BufferFacts, QueueElements DEF IInv, BufferInv, BufferTypes, Ids
<1>2. /\ queue' \in Seq(Packets) /\ Len(queue') = n - 1
      /\ \A i \in 1..(n - 1) : /\ i + 1 \in 1..n /\ 1 < i + 1
                                /\ queue'[i] = queue[i + 1]
  <2>1. /\ queue' \in Seq(Packets) /\ Len(queue') = n - 1
        /\ \A i \in 1..(n - 1) : queue'[i] = queue[i + 1]
    BY TailLemma DEF IInv, BufferInv, BufferTypes
  <2>2. \A i \in 1..(n - 1) : i + 1 \in 1..n /\ 1 < i + 1
    BY <1>1
  <2> QED
    BY <2>1, <2>2
<1>3. /\ next' = (queue[1].seq + 1) % M
      /\ expect' = queue[1].id + 1
      /\ saved' = IF queue[1].saved THEN "free" ELSE saved
  BY DEF ReleaseUsedPacket
<1>4. expect' \in 0..(MaxId + 1) /\ next' = expect' % M /\ expect' >= 1
  <2>1. queue[1].id \in Int /\ expect' \in 0..(MaxId + 1) /\ expect' >= 1
    BY <1>1, <1>3
  <2>2. ((queue[1].id % M) + 1) % M = (queue[1].id + 1) % M
    BY <2>1, ModNext
  <2> QED
    BY <1>1, <1>3, <2>1, <2>2
<1> HIDE DEF n
<1>5. ASSUME changes = 0, NEW i \in 1..(n - 1)
      PROVE  queue'[i].id >= expect' /\ queue'[i].id < expect' + Window
  <2>1. i + 1 \in 1..n /\ 1 < i + 1
    BY <1>2
  <2>2. queue[1].id < queue[i + 1].id
    BY <1>1, <1>5, <2>1, BufferFacts DEF n
  <2>3. expect <= queue[1].id /\ queue[i + 1].id < expect + Window
    BY <1>1, <1>5, <2>1, BufferFacts DEF n
  <2>4. queue[i + 1].id \in 1..MaxId /\ expect \in Nat /\ Window \in Nat
    BY <2>1, BufferFacts DEF n, Ids
  <2>5. queue'[i].id = queue[i + 1].id /\ expect' = queue[1].id + 1
    BY <1>2, <1>3
  <2> QED
    BY SMTT(30), <1>1, <2>2, <2>3, <2>4, <2>5
<1>6. ASSUME changes = 0, NEW i \in 1..(n - 1), NEW j \in 1..(n - 1), i < j
      PROVE  queue'[i].id < queue'[j].id
  <2>1. i + 1 < j + 1 /\ i + 1 \in 1..n /\ j + 1 \in 1..n
    BY <1>2, <1>6
  <2> QED
    BY <1>2, <1>6, <2>1, BufferFacts DEF n
<1>7. \A i, j \in 1..(n - 1) : queue'[i].saved /\ queue'[j].saved => i = j
  <2> SUFFICES ASSUME NEW i \in 1..(n - 1), NEW j \in 1..(n - 1),
                      queue'[i].saved, queue'[j].saved
               PROVE  i = j
    OBVIOUS
  <2>1. i + 1 = j + 1
    BY <1>2, BufferFacts DEF n
  <2> QED
    BY <2>1
<1>8. saved' = "busy" <=> \E i \in 1..(n - 1) : queue'[i].saved
  <2>1. CASE queue[1].saved
    <3>1. \A i \in 1..(n - 1) : ~queue'[i].saved
      <4> SUFFICES ASSUME NEW i \in 1..(n - 1), queue'[i].saved PROVE FALSE
        OBVIOUS
      <4>1. i + 1 = 1
        BY <1>1, <1>2, <2>1, BufferFacts DEF n
      <4> QED
        BY <4>1
    <3> QED
      BY <1>3, <2>1, <3>1
  <2>2. CASE ~queue[1].saved
    <3>1. ASSUME NEW i \in 1..n, queue[i].saved PROVE \E j \in 1..(n - 1) : queue'[j].saved
      <4>1. i - 1 \in 1..(n - 1) /\ (i - 1) + 1 = i
        BY <1>1, <2>2, <3>1
      <4> QED
        BY <1>2, <3>1, <4>1
    <3>2. ASSUME NEW j \in 1..(n - 1), queue'[j].saved PROVE \E i \in 1..n : queue[i].saved
      BY <1>2, <3>2
    <3> QED
      BY <1>3, <2>2, <3>1, <3>2, BufferFacts DEF n
  <2> QED
    BY <2>1, <2>2
<1>9. \A i \in 1..(n - 1) : queue'[i].seq = queue'[i].id % M
  BY <1>2, BufferFacts DEF n
<1>10. ~seen' => queue' = << >>
  BY DEF IInv, BufferInv, Numbered
<1>11. saved' \in {"none", "free", "busy"} /\ n - 1 \in Nat
  BY <1>1, <1>3 DEF IInv, BufferInv, BufferTypes
<1> QED
  BY <1>2, <1>4, <1>5, <1>6, <1>7, <1>8, <1>9, <1>10, <1>11, BufferFrom

LEMMA UsedStep ==
  ASSUME IInv, queue # << >>, queue' = [queue EXCEPT ![1].used = 1],
         next' = queue[1].seq, expect' = queue[1].id,
         UNCHANGED <<saved, seen, changes>>
  PROVE  BufferInv'
<1> DEFINE n == Len(queue)
<1>1. /\ n \in Nat /\ n >= 1 /\ 1 \in 1..n
      /\ queue[1].id \in 1..MaxId /\ queue[1].seq = queue[1].id % M
  BY BufferFacts, QueueElements DEF IInv, BufferInv, BufferTypes, Ids
<1>2. /\ queue' \in Seq(Packets)
      /\ Len(queue') = n
      /\ \A i \in 1..n : /\ queue'[i].id = queue[i].id
                         /\ queue'[i].seq = queue[i].seq
                         /\ queue'[i].saved = queue[i].saved
  BY UsedLemma DEF IInv, BufferInv, BufferTypes
<1> HIDE DEF n
<1>3. expect' \in 0..(MaxId + 1) /\ next' = expect' % M /\ expect' >= 1
  BY <1>1
<1>4. ASSUME changes = 0, NEW i \in 1..n
      PROVE  queue'[i].id >= expect' /\ queue'[i].id < expect' + Window
  <2>1. /\ i = 1 \/ queue[1].id < queue[i].id
        /\ expect <= queue[1].id /\ queue[i].id < expect + Window
        /\ queue[i].id \in 1..MaxId /\ Window \in Nat /\ Window >= 1 /\ expect \in Nat
    BY SMTT(30), <1>1, <1>4, BufferFacts DEF n, Ids
  <2> QED
    BY <1>1, <1>2, <2>1
<1>5. changes = 0 => \A i, j \in 1..n : i < j => queue'[i].id < queue'[j].id
  BY <1>2, BufferFacts DEF n
<1>6. /\ saved' = "busy" <=> \E i \in 1..n : queue'[i].saved
      /\ \A i, j \in 1..n : queue'[i].saved /\ queue'[j].saved => i = j
      /\ \A i \in 1..n : queue'[i].seq = queue'[i].id % M
  BY <1>2, BufferFacts DEF n
<1>7. /\ seen' /\ saved' \in {"none", "free", "busy"}
  BY DEF IInv, BufferInv, BufferTypes, Numbered
<1> QED
  BY <1>1, <1>2, <1>3, <1>4, <1>5, <1>6, <1>7, BufferFrom

(* A packet that arrives is stored in its place.                           *)
LEMMA AcceptStep ==
  ASSUME IInv, NEW a \in Ids, NEW newSsrc \in BOOLEAN,
         NetworkRead(a, newSsrc),
         Accepts(a % M, next'), queue' = Insert([id |-> a, seq |-> a % M,
            first |-> newSsrc \/ ~seen, saved |-> saved # "busy", used |-> 0]),
         saved' = SavedAfter(saved # "busy")
  PROVE  BufferInv'
<1> DEFINE n == Len(queue)
           s == a % M
           k == Position(s)
           free == saved # "busy"
           isFirst == newSsrc \/ ~seen
           p == [id |-> a, seq |-> s, first |-> isFirst, saved |-> free, used |-> 0]
<1>1. /\ n \in Nat /\ DOMAIN queue = 1..n
      /\ queue \in Seq(Packets) /\ seen \in BOOLEAN
      /\ a \in 1..MaxId /\ a \in Int /\ s \in 0..(M - 1)
  BY BufferFacts, ModRange DEF IInv, BufferInv, BufferTypes, TypeOK, Ids
<1>2. p \in Packets /\ p.id = a /\ p.seq = s /\ p.saved = free
  BY <1>1 DEF Packets
<1>3. /\ seen'
      /\ next' = IF isFirst THEN s ELSE next
      /\ expect' = IF isFirst THEN a ELSE expect
      /\ isFirst \/ (expect - Window < a /\ a < expect + Window)
      /\ changes' = IF newSsrc THEN changes + 1 ELSE changes
      /\ \A i \in DOMAIN queue : (queue[i].seq - s) % M # M \div 2
  BY DEF NetworkRead
<1>4. \/ Younger(s) /\ k = n + 1
      \/ /\ ~Younger(s)
         /\ k \in DOMAIN queue
         /\ SeqNumLT(s, queue[k].seq)
         /\ \A j \in 1..(k - 1) : ~SeqNumLT(s, queue[j].seq)
  BY <1>1, <1>3, PositionLemma
<1>5. k \in 1..(n + 1)
  BY <1>1, <1>4
<1>6. /\ queue' \in Seq(Packets) /\ Len(queue') = n + 1
      /\ \A i \in 1..(n + 1) :
           queue'[i] = IF i < k THEN queue[i] ELSE IF i = k THEN p ELSE queue[i - 1]
  BY <1>1, <1>2, <1>5, InsertLemma
<1> HIDE DEF p, n, k, s, free, isFirst
<1>7. \A i \in 1..(n + 1) :
        \/ i = k /\ queue'[i] = p
        \/ i < k /\ i \in 1..n /\ queue'[i] = queue[i]
        \/ i > k /\ i - 1 \in 1..n /\ i - 1 >= k /\ queue'[i] = queue[i - 1]
  <2> SUFFICES ASSUME NEW i \in 1..(n + 1)
               PROVE  \/ i = k /\ queue'[i] = p
                      \/ i < k /\ i \in 1..n /\ queue'[i] = queue[i]
                      \/ i > k /\ i - 1 \in 1..n /\ i - 1 >= k /\ queue'[i] = queue[i - 1]
    OBVIOUS
  <2>1. CASE i = k
    BY <1>1, <1>5, <1>6, <2>1
  <2>2. CASE i < k
    BY <1>1, <1>5, <1>6, <2>2
  <2>3. CASE i > k
    BY <1>1, <1>5, <1>6, <2>3
  <2>4. i = k \/ i < k \/ i > k
    BY <1>1, <1>5
  <2> QED
    BY <2>1, <2>2, <2>3, <2>4
<1>8. \A i \in 1..(n + 1) : queue'[i].seq = queue'[i].id % M
  BY SMTT(30), <1>2, <1>7, BufferFacts DEF n, s
<1>9. \A i \in 1..n : \E j \in 1..(n + 1) : j # k /\ queue'[j] = queue[i]
  <2> SUFFICES ASSUME NEW i \in 1..n
               PROVE  \E j \in 1..(n + 1) : j # k /\ queue'[j] = queue[i]
    OBVIOUS
  <2>1. CASE i < k
    BY <1>1, <1>5, <1>6, <2>1
  <2>2. CASE i >= k
    <3>1. i + 1 \in 1..(n + 1) /\ ~(i + 1 < k) /\ i + 1 # k /\ (i + 1) - 1 = i
      BY <1>1, <1>5, <2>2
    <3>2. queue'[i + 1] = queue[i]
      BY <1>6, <3>1
    <3> QED
      BY <3>1, <3>2
  <2>3. i < k \/ i >= k
    BY <1>1, <1>5
  <2> QED
    BY <2>1, <2>2, <2>3
<1>10. saved' = "busy" /\ \E i \in 1..(n + 1) : queue'[i].saved
  <2>1. CASE free
    <3>1. saved' = "busy"
      BY <2>1 DEF SavedAfter, free
    <3>2. k \in 1..(n + 1) /\ queue'[k] = p
      BY <1>5, <1>6
    <3> QED
      BY <1>2, <2>1, <3>1, <3>2
  <2>2. CASE ~free
    <3>1. saved = "busy" /\ saved' = "busy"
      BY <2>2 DEF SavedAfter, free
    <3>2. PICK i \in 1..n : queue[i].saved
      BY <3>1, BufferFacts DEF n
    <3> QED
      BY <1>9, <3>1, <3>2
  <2> QED
    BY <2>1, <2>2
<1>11. ASSUME NEW i \in 1..(n + 1), NEW j \in 1..(n + 1), queue'[i].saved, queue'[j].saved
       PROVE  i = j
  <2>1. CASE free
    <3>1. \A m \in 1..n : ~queue[m].saved
      BY <2>1, BufferFacts DEF free, n
    <3> QED
      BY <1>7, <1>11, <3>1
  <2>2. CASE ~free
    <3>1. ~p.saved
      BY <1>2, <2>2
    <3>2. \A l, m \in 1..n : queue[l].saved /\ queue[m].saved => l = m
      BY BufferFacts DEF n
    <3>3. i # k /\ j # k
      BY <1>7, <1>11, <3>1
    <3>4. CASE i < k /\ j < k
      <4>1. i \in 1..n /\ j \in 1..n /\ queue'[i] = queue[i] /\ queue'[j] = queue[j]
        BY <1>1, <1>5, <1>6, <3>4
      <4> QED
        BY <1>11, <3>2, <4>1
    <3>5. CASE i > k /\ j > k
      <4>1. i - 1 = j - 1
        BY <1>5, <1>7, <1>11, <3>2, <3>5
      <4> QED
        BY <4>1
    <3>6. CASE i < k /\ j > k
      <4>1. i = j - 1 /\ j - 1 >= k
        BY <1>5, <1>7, <1>11, <3>2, <3>6
      <4> QED
        BY <1>5, <3>6, <4>1
    <3>7. CASE i > k /\ j < k
      <4>1. j = i - 1 /\ i - 1 >= k
        BY <1>5, <1>7, <1>11, <3>2, <3>7
      <4> QED
        BY <1>5, <3>7, <4>1
    <3> QED
      BY <1>5, <3>3, <3>4, <3>5, <3>6, <3>7
  <2> QED
    BY <2>1, <2>2
<1>12. ASSUME changes' = 0
       PROVE  /\ \A i \in 1..(n + 1) : queue'[i].id >= expect' /\ queue'[i].id < expect' + Window
              /\ \A i, j \in 1..(n + 1) : i < j => queue'[i].id < queue'[j].id
  <2>1. changes = 0 /\ ~newSsrc
    BY <1>3, <1>12 DEF IInv, TypeOK
  <2>2. /\ \A i \in 1..n : queue[i].id \in Ids /\ expect <= queue[i].id
                           /\ queue[i].id < expect + Window /\ queue[i].seq = queue[i].id % M
        /\ \A i, j \in 1..n : i < j => queue[i].id < queue[j].id
        /\ Window \in Nat /\ Window >= 1 /\ expect \in Nat
        /\ next = expect % M
    BY <2>1, BufferFacts DEF n
  <2>3. CASE ~seen
    <3>1. n = 0 /\ k = 1 /\ isFirst
      <4>1. queue = << >>
        BY <2>3 DEF IInv, BufferInv, Numbered
      <4>2. n = 0
        BY <4>1, EmptySeq DEF n
      <4> QED
        BY <1>5, <2>3, <4>2 DEF isFirst
    <3>2. \A i \in 1..(n + 1) : i = 1 /\ queue'[i].id = a
      BY <1>2, <1>7, <3>1
    <3> QED
      BY <1>1, <1>3, <2>2, <3>1, <3>2
  <2>4. CASE seen
    <3>1. ~isFirst /\ expect' = expect /\ next' = expect % M
          /\ expect - Window < a /\ a < expect + Window
      BY <1>3, <2>1, <2>2, <2>4 DEF isFirst
    <3>2. a >= expect
      <4>1. ~SeqNumLT(s, expect % M)
        BY <3>1 DEF Accepts, s
      <4>2. -Window < expect - a /\ expect - a < Window /\ expect \in Int
        BY <1>1, <2>2, <3>1
      <4>3. SeqNumLT(a % M, expect % M) <=> a < expect
        BY <1>1, <4>2, CircleOrder
      <4> QED
        BY <1>1, <2>2, <4>1, <4>3 DEF s
    <3>3. ASSUME NEW i \in 1..n
          PROVE  /\ SeqNumLT(s, queue[i].seq) <=> a < queue[i].id
                 /\ SeqNumLT(queue[i].seq, s) <=> queue[i].id < a
                 /\ queue[i].seq = s <=> queue[i].id = a
      <4> DEFINE b == queue[i].id
      <4>1. /\ b \in Int /\ queue[i].seq = b % M
            /\ -Window < b - a /\ b - a < Window /\ -Window < a - b /\ a - b < Window
        BY <1>1, <2>2, <3>1, <3>2 DEF Ids
      <4> HIDE DEF b
      <4>2. /\ SeqNumLT(a % M, b % M) <=> a < b
            /\ a % M = b % M <=> a = b
        BY <1>1, <4>1, CircleOrder
      <4>3. SeqNumLT(b % M, a % M) <=> b < a
        BY <1>1, <4>1, CircleOrder
      <4> QED
        BY <4>1, <4>2, <4>3 DEF b, s
    <3>4. /\ \A j \in 1..n : j < k => queue[j].id < a
          /\ \A j \in 1..n : j >= k => a < queue[j].id
      <4>1. CASE Younger(s)
        <5>1. k = n + 1
          BY <1>4, <4>1
        <5>2. ASSUME NEW j \in 1..n PROVE queue[j].id < a
          <6>1. n \in 1..n /\ queue # << >>
            <7>1. n >= 1 /\ n \in 1..n
              BY <1>1
            <7> QED
              BY <7>1, EmptySeq DEF n
          <6>2. queue[n].id < a
            BY <3>3, <4>1, <6>1 DEF Younger, n
          <6>3. j = n \/ queue[j].id < queue[n].id
            BY <1>1, <2>2, <6>1
          <6> QED
            BY <1>1, <2>2, <6>1, <6>2, <6>3 DEF Ids
        <5> QED
          BY <1>1, <5>1, <5>2
      <4>2. CASE ~Younger(s)
        <5>1. /\ k \in 1..n /\ SeqNumLT(s, queue[k].seq)
              /\ \A j \in 1..(k - 1) : ~SeqNumLT(s, queue[j].seq)
          BY <1>1, <1>4, <4>2
        <5>2. \A j \in 1..(k - 1) : queue[j].seq # s
          BY <4>2 DEF Accepts, k, s
        <5>3. ASSUME NEW j \in 1..n, j < k PROVE queue[j].id < a
          <6>1. j \in 1..(k - 1)
            BY <1>1, <5>1, <5>3
          <6>2. ~(a < queue[j].id) /\ queue[j].id # a
            BY <3>3, <5>1, <5>2, <6>1
          <6> QED
            BY <1>1, <2>2, <6>2 DEF Ids
        <5>4. ASSUME NEW j \in 1..n, j >= k PROVE a < queue[j].id
          <6>1. a < queue[k].id
            BY <3>3, <5>1
          <6>2. j = k \/ queue[k].id < queue[j].id
            BY <1>1, <2>2, <5>1, <5>4
          <6> QED
            BY <1>1, <2>2, <5>1, <6>1, <6>2 DEF Ids
        <5> QED
          BY <5>3, <5>4
      <4> QED
        BY <4>1, <4>2
    <3>5. ASSUME NEW i \in 1..(n + 1)
          PROVE  queue'[i].id >= expect' /\ queue'[i].id < expect' + Window
      BY <1>2, <1>7, <2>2, <3>1, <3>2
    <3>6. ASSUME NEW i \in 1..(n + 1), NEW j \in 1..(n + 1), i < j
          PROVE  queue'[i].id < queue'[j].id
      <4>1. CASE j = k
        <5>1. i < k /\ i \in 1..n /\ queue'[i] = queue[i] /\ queue'[j] = p
          BY <1>5, <1>7, <3>6, <4>1
        <5> QED
          BY <1>2, <3>4, <5>1
      <4>2. CASE i = k
        <5>1. j - 1 >= k /\ j - 1 \in 1..n /\ queue'[j] = queue[j - 1] /\ queue'[i] = p
          BY <1>5, <1>7, <3>6, <4>2
        <5> QED
          BY <1>2, <3>4, <5>1
      <4>3. CASE i < k /\ j < k
        BY <1>5, <1>7, <2>2, <3>6, <4>3
      <4>4. CASE i > k /\ j > k
        <5>1. /\ i - 1 \in 1..n /\ queue'[i] = queue[i - 1]
              /\ j - 1 \in 1..n /\ queue'[j] = queue[j - 1] /\ i - 1 < j - 1
          BY <1>5, <1>7, <3>6, <4>4
        <5> QED
          BY <2>2, <5>1
      <4>5. CASE i < k /\ j > k
        <5>1. /\ i \in 1..n /\ queue'[i] = queue[i]
              /\ j - 1 \in 1..n /\ queue'[j] = queue[j - 1] /\ i < j - 1
          BY <1>5, <1>7, <3>6, <4>5
        <5> QED
          BY <2>2, <5>1
      <4> QED
        BY <1>5, <3>6, <4>1, <4>2, <4>3, <4>4, <4>5
    <3> QED
      BY <3>5, <3>6
  <2> QED
    BY <1>1, <2>3, <2>4
<1>13. expect' \in 0..(MaxId + 1) /\ next' = expect' % M /\ expect' >= 1
  <2>1. CASE isFirst
    BY <1>1, <1>3, <2>1 DEF s
  <2>2. CASE ~isFirst
    <3>1. expect >= 1 /\ expect' = expect /\ next' = next
      BY <1>3, <2>2 DEF isFirst, IInv, BufferInv, Numbered
    <3> QED
      BY <3>1, BufferFacts
  <2> QED
    BY <2>1, <2>2
<1>14. n + 1 \in Nat /\ saved' \in {"none", "free", "busy"}
  BY <1>1, <1>10
<1> QED
  BY <1>3, <1>6, <1>8, <1>10, <1>11, <1>12, <1>13, <1>14, BufferFrom

LEMMA ReadStep ==
  ASSUME IInv, NEW a \in Ids, NEW newSsrc \in BOOLEAN, NetworkRead(a, newSsrc)
  PROVE  BufferInv'
<1> DEFINE s == a % M
           expected == IF newSsrc \/ ~seen THEN s ELSE next
<1>1. next' = expected
  BY DEF NetworkRead
<1>2. CASE /\ Accepts(s, expected)
           /\ queue' = Insert([id |-> a, seq |-> s, first |-> newSsrc \/ ~seen,
                               saved |-> saved # "busy", used |-> 0])
           /\ saved' = SavedAfter(saved # "busy")
  BY <1>1, <1>2, AcceptStep
<1>3. CASE /\ ~Accepts(s, expected)
           /\ queue' = queue
           /\ saved' = IF saved # "busy" THEN "free" ELSE saved
  <2> DEFINE n == Len(queue)
  <2>1. n \in Nat /\ queue' \in Seq(Packets) /\ Len(queue') = n /\ seen'
    BY <1>3, BufferFacts DEF IInv, BufferInv, BufferTypes, NetworkRead
  <2>2. expect' \in 0..(MaxId + 1) /\ next' = expect' % M /\ expect' >= 1
    <3>1. CASE newSsrc \/ ~seen
      BY <1>1, <3>1 DEF NetworkRead, Ids
    <3>2. CASE ~(newSsrc \/ ~seen)
      <4>1. expect >= 1 /\ expect' = expect /\ next' = next
        BY <3>2 DEF NetworkRead, IInv, BufferInv, Numbered
      <4> QED
        BY <4>1, BufferFacts
    <3> QED
      BY <3>1, <3>2
  <2>3. ASSUME changes' = 0
        PROVE  /\ \A i \in 1..n : queue'[i].id >= expect' /\ queue'[i].id < expect' + Window
               /\ \A i, j \in 1..n : i < j => queue'[i].id < queue'[j].id
    <3>1. changes = 0 /\ ~newSsrc
      BY <2>3 DEF NetworkRead, IInv, TypeOK
    <3>2. CASE seen
      <4>1. expect' = expect
        BY <3>1, <3>2 DEF NetworkRead
      <4> QED
        BY <1>3, <3>1, <4>1, BufferFacts DEF Ids
    <3>3. CASE ~seen
      <4>1. queue = << >>
        BY <3>3 DEF IInv, BufferInv, Numbered
      <4>2. 1..n = {}
        BY <4>1, EmptySeq
      <4> QED
        BY <4>2
    <3> QED
      BY <3>2, <3>3
  <2>4. /\ saved' = "busy" <=> \E i \in 1..n : queue'[i].saved
        /\ \A i, j \in 1..n : queue'[i].saved /\ queue'[j].saved => i = j
        /\ \A i \in 1..n : queue'[i].seq = queue'[i].id % M
    BY <1>3, BufferFacts
  <2>5. saved' \in {"none", "free", "busy"}
    BY <1>3
  <2> HIDE DEF n
  <2> QED
    BY <2>1, <2>2, <2>3, <2>4, <2>5, BufferFrom
<1> QED
  <2>1. \/ /\ Accepts(s, expected)
           /\ queue' = Insert([id |-> a, seq |-> s, first |-> newSsrc \/ ~seen,
                               saved |-> saved # "busy", used |-> 0])
           /\ saved' = SavedAfter(saved # "busy")
        \/ /\ ~Accepts(s, expected)
           /\ queue' = queue
           /\ saved' = IF saved # "busy" THEN "free" ELSE saved
    BY DEF NetworkRead
  <2> QED
    BY <1>2, <1>3, <2>1

LEMMA BufferStep == IInv /\ [Next]_vars => BufferInv'
<1> SUFFICES ASSUME IInv, [Next]_vars PROVE BufferInv'
  OBVIOUS
<1>1. CASE UNCHANGED <<bufferVars, changes>>
  BY <1>1 DEF bufferVars, IInv, BufferInv, BufferTypes, Numbered, InWindow,
              QueueInSendingOrder, SavedPacketExact
<1>2. CASE \E a \in Ids, newSsrc \in BOOLEAN : NetworkRead(a, newSsrc)
  BY <1>2, ReadStep
<1>3. CASE LeaveLoop \/ AfterGetting \/ UNCHANGED vars
  <2>1. UNCHANGED <<bufferVars, changes>>
    BY <1>3 DEF LeaveLoop, AfterGetting, vars
  <2> QED
    BY <1>1, <2>1
<1>4. CASE RejectPacket
  <2>1. queue # << >> /\ ReleaseUsedPacket /\ UNCHANGED <<seen, changes>>
    BY <1>4 DEF RejectPacket, TakePacket
  <2> QED
    BY <2>1, ReleaseStep
<1>5. CASE UsePacket
  <2>1. queue # << >> /\ UNCHANGED <<seen, changes>>
    BY <1>5 DEF UsePacket, TakePacket
  <2>2. CASE ReleaseUsedPacket
    BY <2>1, <2>2, ReleaseStep
  <2>3. CASE /\ queue' = [queue EXCEPT ![1].used = 1]
             /\ next' = queue[1].seq
             /\ expect' = queue[1].id
             /\ UNCHANGED saved
    BY <2>1, <2>3, UsedStep
  <2> QED
    BY <1>5, <2>2, <2>3 DEF UsePacket
<1>6. CASE UseFragment \/ CompleteFrame
  BY <1>5, <1>6 DEF UseFragment, CompleteFrame
<1>7. CASE StopGettingFrames
  <2>1. /\ queue' = << >> /\ ~seen' /\ saved' = "none"
        /\ next' = next /\ expect' = expect
    BY <1>7 DEF StopGettingFrames
  <2>2. << >> \in Seq(Packets) /\ DOMAIN << >> = {}
    BY EmptySeq
  <2> QED
    BY <2>1, <2>2 DEF IInv, BufferInv, BufferTypes, Numbered, InWindow,
                      QueueInSendingOrder, SavedPacketExact
<1> QED
  BY <1>2, <1>3, <1>4, <1>6, <1>7 DEF Next, DoGetNextFrame1

LEMMA TypeStep == IInv /\ [Next]_vars => TypeOK'
<1> SUFFICES ASSUME IInv, [Next]_vars PROVE TypeOK'
  OBVIOUS
<1>1. /\ next' \in 0..(M - 1) /\ queue' \in Seq(Packets)
      /\ saved' \in {"none", "free", "busy"} /\ expect' \in 0..(MaxId + 1)
  BY BufferStep DEF BufferInv, BufferTypes
<1>2. TypeOK
  BY DEF IInv
<1>3. CASE UNCHANGED vars
  BY <1>1, <1>2, <1>3 DEF TypeOK, vars, bufferVars, frameVars, historyVars
<1>4. ASSUME NEW a \in Ids, NEW newSsrc \in BOOLEAN, NetworkRead(a, newSsrc)
      PROVE  TypeOK'
  <2>1. changes' \in 0..MaxChanges
    BY <1>2, <1>4 DEF NetworkRead, TypeOK
  <2> QED
    BY <1>1, <1>2, <1>4, <2>1 DEF NetworkRead, TypeOK, frameVars, historyVars
<1>5. CASE LeaveLoop \/ AfterGetting
  <2>1. pc' \in {"idle", "loop", "stopped"} /\ need' \in BOOLEAN /\ deferred' \in BOOLEAN
    BY <1>2, <1>5 DEF LeaveLoop, AfterGetting, TypeOK
  <2>2. UNCHANGED <<shape, bufferVars, frameVars, historyVars, changes>>
    BY <1>5 DEF LeaveLoop, AfterGetting
  <2> QED
    BY <1>1, <1>2, <2>1, <2>2 DEF TypeOK, bufferVars, frameVars, historyVars
<1>6. CASE StopGettingFrames
  BY <1>1, <1>2, <1>6 DEF StopGettingFrames, TypeOK, historyVars
<1>7. ASSUME TakePacket
      PROVE  /\ queue[1].id \in Ids /\ queue[1].used \in 0..1
             /\ begins' \in BOOLEAN /\ completes' \in BOOLEAN /\ damaged' \in BOOLEAN
             /\ lost' \in SUBSET Ids
             /\ UNCHANGED <<shape, seen, changes>>
             /\ BufferNow \in Seq(Ids \X {1, 2})
  <2>1. queue \in Seq(Packets) /\ queue # << >> /\ expect >= 1 /\ expect \in Nat
    BY <1>7 DEF TakePacket, IInv, BufferInv, BufferTypes, Numbered
  <2>2. queue[1].id \in 1..MaxId /\ queue[1].used \in 0..1
    BY <2>1, QueueElements DEF Ids
  <2>3. GivenUp \subseteq Ids
    BY <2>1, <2>2 DEF GivenUp, Ids
  <2>4. Flags.begins \in BOOLEAN /\ Flags.completes \in BOOLEAN
    <3>1. begins \in BOOLEAN /\ completes \in BOOLEAN
      BY <1>2 DEF TypeOK
    <3>2. CASE queue[1].used > 0 \/ Kind(queue[1].id) = "aggregate"
      <4>1. Flags = [begins |-> begins, completes |-> completes]
        BY <3>2 DEF Flags
      <4> QED
        BY <3>1, <4>1
    <3>3. CASE ~(queue[1].used > 0 \/ Kind(queue[1].id) = "aggregate")
      <4>1. Flags = [begins |-> Kind(queue[1].id) \in {"single", "start", "again"},
                     completes |-> Kind(queue[1].id) \in {"single", "end"}]
        BY <3>3 DEF Flags
      <4> QED
        BY <4>1
    <3> QED
      BY <3>2, <3>3
  <2>5. DamagedNow \in BOOLEAN
    BY DEF DamagedNow
  <2>6. BufferNow \in Seq(Ids \X {1, 2})
    BY <1>2, EmptySeq DEF BufferNow, TypeOK
  <2> QED
    BY <1>2, <1>7, <2>2, <2>3, <2>4, <2>5, <2>6 DEF TakePacket, TypeOK, Ids
<1>8. CASE RejectPacket
  BY <1>1, <1>2, <1>7, <1>8 DEF RejectPacket, TypeOK
<1>9. CASE UseFragment \/ CompleteFrame
  <2>1. TakePacket
    BY <1>9 DEF UseFragment, CompleteFrame, UsePacket
  <2>2. Filled \in Seq(Ids \X {1, 2})
    <3>1. <<queue[1].id, queue[1].used + 1>> \in Ids \X {1, 2}
      BY <1>7, <2>1
    <3> QED
      BY <1>7, <2>1, <3>1, AppendProperties DEF Filled
  <2>3. CASE UseFragment
    BY <1>1, <1>2, <1>7, <2>1, <2>2, <2>3 DEF UseFragment, TypeOK
  <2>4. CASE CompleteFrame
    <3>1. /\ out' \in Seq(Ids \X {1, 2}) /\ buffer' \in Seq(Ids \X {1, 2})
          /\ delivered' \in 0..1
      BY <1>2, <2>2, <2>4, EmptySeq DEF CompleteFrame, TypeOK
    <3>2. pc' \in {"idle", "loop", "stopped"} /\ need' \in BOOLEAN /\ deferred' \in BOOLEAN
      BY <1>2, <2>4 DEF CompleteFrame, TypeOK
    <3> QED
      BY <1>1, <1>2, <1>7, <2>1, <3>1, <3>2 DEF TypeOK
  <2> QED
    BY <1>9, <2>3, <2>4
<1> QED
  BY <1>3, <1>4, <1>5, <1>6, <1>8, <1>9 DEF Next, DoGetNextFrame1, UseFragment, CompleteFrame

LEMMA Invariance == Spec => []IInv
<1>1. IInv /\ [Next]_vars => IInv'
  BY TypeStep, BufferStep DEF IInv
<1> QED
  BY InvInit, <1>1, PTL DEF Spec

(* Type correctness: TypeOK is an invariant.                               *)
THEOREM TypeCorrect == Spec => []TypeOK
<1>1. IInv => TypeOK
  BY DEF IInv
<1> QED
  BY Invariance, <1>1, PTL

(* Whatever is lost, duplicated and reordered within the window, and       *)
(* however often the numbers wrap around, the queue holds packets in the   *)
(* order they were sent, once each, and none that was passed.              *)
THEOREM InSendingOrder == Spec => []QueueInSendingOrder
<1>1. IInv => QueueInSendingOrder
  BY DEF IInv, BufferInv
<1> QED
  BY Invariance, <1>1, PTL

(* MultiFramedRTPSource.cpp:573 "ASSERT: fHeadPacket->rtpSeqNo() >=        *)
(* fNextExpectedSeqNo" holds as long as the sender keeps its SSRC.         *)
THEOREM AssertionHolds == Spec => [](changes = 0 => HeadNotPassed)
<1>1. IInv => (changes = 0 => HeadNotPassed)
  <2> SUFFICES ASSUME IInv, changes = 0, queue # << >>
               PROVE  ~SeqNumLT(queue[1].seq, next)
    BY DEF HeadNotPassed
  <2> DEFINE b == queue[1].id
  <2>1. 1 \in 1..Len(queue)
    BY BufferFacts, QueueElements DEF IInv, BufferInv, BufferTypes
  <2>2. /\ queue[1].seq = b % M /\ next = expect % M /\ b \in Int /\ expect \in Int
        /\ Window \in Nat /\ Window >= 1 /\ expect <= b /\ b < expect + Window
    BY <2>1, BufferFacts DEF Ids
  <2> HIDE DEF b
  <2>3. -Window < expect - b /\ expect - b < Window /\ ~(b < expect)
    BY <2>2
  <2> QED
    BY <2>2, <2>3, CircleOrder
<1> QED
  BY Invariance, <1>1, PTL

(* The saved packet is busy exactly while it is queued, and it is queued   *)
(* once: it is never handed out twice, nor deleted twice.                  *)
THEOREM SavedExact == Spec => []SavedPacketExact
<1>1. IInv => SavedPacketExact
  BY DEF IInv, BufferInv
<1> QED
  BY Invariance, <1>1, PTL

-----------------------------------------------------------------------------
(* The sender's packets *)

Of(kind) == {id \in Ids : Kind(id) = kind}

LEMMA SenderStays ==
  ASSUME shape' = shape
  PROVE  /\ \A kind \in Kinds : Of(kind)' = Of(kind)
         /\ Frames' = Frames
         /\ SendsWholeFrames(shape)' <=> SendsWholeFrames(shape)
<1>1. \A kind \in Kinds : Of(kind)' = Of(kind)
  BY DEF Of, Kind
<1>2. Frames' = Frames
  BY DEF Frames, Kind, Run
<1>3. SendsWholeFrames(shape)' <=> SendsWholeFrames(shape)
  OBVIOUS
<1> QED
  BY <1>1, <1>2, <1>3

-----------------------------------------------------------------------------
(* Frames in the order they were sent *)

(* The claims are about a source that runs, of a sender that keeps its     *)
(* SSRC.                                                                   *)
Running == changes = 0 /\ pc # "stopped"

Fresh == ~seen => buffer = << >> /\ out = << >> /\ ~damaged

(* Only an aggregate is half used.                                         *)
PartsLeft ==
  \A i \in 1..Len(queue) : queue[i].used = 1 => queue[i].id \in Of("aggregate")

(* The packet that was the first of all is the one expected, until it is   *)
(* used.                                                                   *)
FirstExpected ==
  \A i \in 1..Len(queue) :
    queue[i].first => queue[i].id = expect /\ (out # << >> => queue[i].used = 1)

(* The source is done with a piece: its packet was passed, or is an        *)
(* aggregate at the head whose first part was used.                        *)
Passed(p) ==
  \/ p[1] < expect
  \/ /\ p[1] = expect /\ p[2] = 1
     /\ queue # << >> /\ queue[1].id = expect /\ queue[1].used = 1

Later(p, q) == p[1] > q[1] \/ (p[1] = q[1] /\ p[2] > q[2])

FramesLater ==
  /\ buffer # << >> => Passed(buffer[1])
  /\ out # << >> => Passed(out[Len(out)])
  /\ buffer # << >> /\ out # << >> => Later(buffer[1], out[Len(out)])

OrderInv == Running => Fresh /\ PartsLeft /\ FirstExpected /\ FramesLater

(* A packet that arrives goes somewhere behind those the source is at.     *)
LEMMA StoreShape ==
  ASSUME IInv, NEW a \in Ids, NEW newSsrc \in BOOLEAN, NetworkRead(a, newSsrc),
         NEW p \in Packets, p.seq = a % M, Accepts(a % M, next'), queue' = Insert(p)
  PROVE  \E k \in 1..(Len(queue) + 1) :
           /\ Len(queue') = Len(queue) + 1
           /\ queue'[k] = p
           /\ \A i \in 1..(k - 1) : queue'[i] = queue[i]
           /\ \A i \in k..Len(queue) : queue'[i + 1] = queue[i]
<1> DEFINE n == Len(queue)
           s == a % M
           k == Position(s)
<1>1. /\ n \in Nat /\ DOMAIN queue = 1..n /\ queue \in Seq(Packets) /\ s \in 0..(M - 1)
  BY BufferFacts, ModRange DEF IInv, BufferInv, BufferTypes, Ids
<1>2. \A i \in DOMAIN queue : (queue[i].seq - s) % M # M \div 2
  BY DEF NetworkRead
<1>3. k \in 1..(n + 1)
  <2>1. k = n + 1 \/ k \in DOMAIN queue
    BY <1>1, <1>2, PositionLemma
  <2> QED
    BY <1>1, <2>1
<1>4. /\ Len(queue') = n + 1
      /\ \A i \in 1..(n + 1) :
           queue'[i] = IF i < k THEN queue[i] ELSE IF i = k THEN p ELSE queue[i - 1]
  BY <1>1, <1>3, InsertLemma
<1> HIDE DEF k, n
<1>5. queue'[k] = p
  BY <1>1, <1>3, <1>4
<1>6. \A i \in 1..(k - 1) : queue'[i] = queue[i]
  BY <1>1, <1>3, <1>4
<1>7. \A i \in k..n : queue'[i + 1] = queue[i]
  <2> SUFFICES ASSUME NEW i \in k..n PROVE queue'[i + 1] = queue[i]
    OBVIOUS
  <2>1. i + 1 \in 1..(n + 1) /\ ~(i + 1 < k) /\ i + 1 # k /\ (i + 1) - 1 = i
    BY <1>1, <1>3
  <2> QED
    BY <1>4, <2>1
<1> QED
  BY <1>3, <1>4, <1>5, <1>6, <1>7 DEF n

(* What a read leaves: the packets there were, the head among them if it   *)
(* is the one expected; a packet that is the first of all is at the head.  *)
LEMMA ReadLemma ==
  ASSUME IInv, NEW a \in Ids, NEW newSsrc \in BOOLEAN, NetworkRead(a, newSsrc),
         changes' = 0
  PROVE  /\ changes = 0 /\ ~newSsrc /\ seen' /\ pc = "idle"
         /\ UNCHANGED <<shape, frameVars, lost, out>>
         /\ seen => expect' = expect
         /\ \A i \in 1..Len(queue') :
              \/ \E j \in 1..Len(queue) : queue'[i] = queue[j]
              \/ queue'[i].used = 0 /\ (queue'[i].first <=> ~seen)
         /\ seen /\ queue # << >> /\ queue[1].id = expect =>
              queue' # << >> /\ queue'[1] = queue[1]
         /\ ~seen => /\ Len(queue') = 1 /\ queue'[1].first /\ queue'[1].used = 0
                     /\ queue'[1].id = expect'
<1> DEFINE n == Len(queue)
           s == a % M
           p == [id |-> a, seq |-> s, first |-> newSsrc \/ ~seen,
                 saved |-> saved # "busy", used |-> 0]
<1>1. /\ n \in Nat /\ queue \in Seq(Packets) /\ seen \in BOOLEAN /\ s \in 0..(M - 1)
  BY BufferFacts, ModRange DEF IInv, BufferInv, BufferTypes, TypeOK, Ids
<1>2. changes = 0 /\ ~newSsrc
  BY DEF NetworkRead, IInv, TypeOK
<1>3. p \in Packets /\ p.seq = a % M /\ p.used = 0 /\ p.id = a /\ (p.first <=> ~seen)
  <2>1. p \in Packets /\ p.seq = a % M /\ p.used = 0 /\ p.id = a
    BY <1>1 DEF Packets
  <2>2. p.first = (newSsrc \/ ~seen)
    OBVIOUS
  <2> HIDE DEF p
  <2> QED
    BY <1>2, <2>1, <2>2
<1>4. /\ seen' /\ pc = "idle" /\ UNCHANGED <<shape, frameVars, lost, out>>
      /\ next' = IF ~seen THEN s ELSE next
      /\ expect' = IF ~seen THEN a ELSE expect
      /\ \/ Accepts(s, next') /\ queue' = Insert(p)
         \/ ~Accepts(s, next') /\ queue' = queue
  BY <1>2 DEF NetworkRead, historyVars
<1> HIDE DEF p, n
<1>5. CASE ~Accepts(s, next') /\ queue' = queue
  <2>1. seen
    <3> SUFFICES ASSUME ~seen PROVE FALSE
      OBVIOUS
    <3>1. queue = << >> /\ next' = s
      BY <1>4 DEF IInv, BufferInv, Numbered
    <3>2. ~SeqNumLT(s, s)
      BY <1>1, Half DEF SeqNumLT
    <3>3. Accepts(s, next')
      BY <3>1, <3>2 DEF Accepts, Younger
    <3> QED
      BY <1>5, <3>3
  <2> QED
    BY <1>2, <1>4, <1>5, <2>1
<1>6. CASE Accepts(s, next') /\ queue' = Insert(p)
  <2>1. PICK k \in 1..(n + 1) :
           /\ Len(queue') = n + 1
           /\ queue'[k] = p
           /\ \A i \in 1..(k - 1) : queue'[i] = queue[i]
           /\ \A i \in k..n : queue'[i + 1] = queue[i]
    BY <1>3, <1>6, StoreShape DEF n
  <2>2. ASSUME NEW i \in 1..Len(queue')
        PROVE  \/ \E j \in 1..n : queue'[i] = queue[j]
               \/ queue'[i].used = 0 /\ (queue'[i].first <=> ~seen)
    <3>1. CASE i = k
      BY <1>3, <2>1, <3>1
    <3>2. CASE i < k
      <4>1. i \in 1..(k - 1) /\ i \in 1..n
        BY <1>1, <2>1, <3>2
      <4> QED
        BY <2>1, <4>1
    <3>3. CASE i > k
      <4>1. i - 1 \in k..n /\ i - 1 \in 1..n /\ (i - 1) + 1 = i
        BY <1>1, <2>1, <3>3
      <4>2. queue'[i] = queue[i - 1]
        BY <2>1, <4>1
      <4> QED
        BY <4>1, <4>2
    <3> QED
      BY <1>1, <2>1, <3>1, <3>2, <3>3
  <2>3. queue' # << >>
    BY <1>1, <2>1, EmptySeq
  <2>4. ASSUME seen, queue # << >>, queue[1].id = expect PROVE queue'[1] = queue[1]
    <3>1. n >= 1
      BY <1>1, <2>4, QueueElements DEF n
    <3>2. BufferInv' /\ expect' = expect
      BY <1>4, <2>4, BufferStep DEF Next
    <3>3. DOMAIN queue' = 1..(n + 1)
      BY <2>1, <3>2, LenProperties DEF BufferInv, BufferTypes
    <3>4. CASE k = 1
      <4>1. 1 \in k..n /\ 1 \in 1..(n + 1) /\ 2 \in 1..(n + 1) /\ 1 + 1 = 2
        BY <1>1, <3>1, <3>4
      <4>2. queue'[2] = queue[1]
        BY <2>1, <4>1
      <4>3. queue'[1].id >= expect /\ queue'[1].id < queue'[2].id
        BY <3>2, <3>3, <4>1 DEF BufferInv, QueueInSendingOrder
      <4>4. queue'[1].id \in Int /\ expect \in Int
        BY <1>3, <2>1, <3>4, BufferFacts DEF Ids
      <4> QED
        BY <2>4, <4>2, <4>3, <4>4
    <3>5. CASE k # 1
      BY <1>1, <2>1, <3>5
    <3> QED
      BY <3>4, <3>5
  <2>5. ASSUME ~seen
        PROVE  Len(queue') = 1 /\ queue'[1].first /\ queue'[1].used = 0 /\ queue'[1].id = expect'
    <3>1. n = 0
      BY <2>5, EmptySeq DEF IInv, BufferInv, Numbered, n
    <3>2. k = 1
      BY <2>1, <3>1
    <3> QED
      BY <1>3, <1>4, <2>1, <2>5, <3>1, <3>2
  <2> QED
    BY <1>2, <1>4, <2>2, <2>3, <2>4, <2>5 DEF n
<1> QED
  BY <1>4, <1>5, <1>6

(* The loop takes the packet at the head; what it gives up is what lies    *)
(* between it and the one expected.                                        *)
LEMMA TakeLemma ==
  ASSUME IInv, OrderInv, Running, TakePacket
  PROVE  /\ queue \in Seq(Packets) /\ queue # << >> /\ Len(queue) \in Nat /\ Len(queue) >= 1
         /\ queue[1].id \in Nat /\ queue[1].id \in Ids /\ expect \in Nat /\ expect <= queue[1].id
         /\ queue[1].used \in 0..1
         /\ \A i \in 2..Len(queue) : queue[i].id \in Nat /\ queue[1].id < queue[i].id
         /\ queue[1].seq = next <=> queue[1].id = expect
         /\ GivenUp = expect..(queue[1].id - 1)
         /\ PacketLossPreceded <=> queue[1].id # expect \/ queue[1].first
         /\ seen /\ pc = "loop" /\ UNCHANGED <<shape, seen, changes>>
<1> DEFINE a == queue[1].id
<1>1. /\ queue \in Seq(Packets) /\ queue # << >> /\ pc = "loop"
      /\ UNCHANGED <<shape, seen, changes>>
  BY DEF TakePacket, IInv, BufferInv, BufferTypes
<1>2. Len(queue) \in Nat /\ Len(queue) >= 1 /\ queue[1].used \in 0..1
  BY <1>1, QueueElements
<1>3. /\ a \in Nat /\ a \in Ids /\ expect \in Nat /\ expect <= a /\ a < expect + Window
      /\ Window \in Nat /\ queue[1].seq = a % M /\ next = expect % M
  BY <1>2, BufferFacts DEF Running, Ids
<1>4. \A i \in 2..Len(queue) : queue[i].id \in Nat /\ a < queue[i].id
  <2> SUFFICES ASSUME NEW i \in 2..Len(queue) PROVE queue[i].id \in Nat /\ a < queue[i].id
    OBVIOUS
  <2>1. i \in 1..Len(queue) /\ 1 \in 1..Len(queue) /\ 1 < i
    BY <1>2
  <2> QED
    BY <2>1, BufferFacts DEF Running, Ids
<1> HIDE DEF a
<1>5. queue[1].seq = next <=> a = expect
  <2>1. -Window < a - expect /\ a - expect < Window
    BY <1>2, <1>3, BufferFacts
  <2> QED
    BY <1>3, <2>1, CircleOrder
<1>6. GivenUp = expect..(a - 1)
  BY <1>3, <1>5 DEF GivenUp, a
<1>7. seen
  BY <1>1 DEF IInv, BufferInv, Numbered
<1>8. PacketLossPreceded <=> a # expect \/ queue[1].first
  BY <1>5 DEF PacketLossPreceded
<1> QED
  BY <1>1, <1>2, <1>3, <1>4, <1>5, <1>6, <1>7, <1>8 DEF a

(* It is done with the packet, or with the first part of an aggregate.     *)
Released ==
  /\ expect' = queue[1].id + 1
  /\ \A i \in 1..Len(queue') : \E j \in 2..Len(queue) : queue'[i] = queue[j]

HalfUsed ==
  /\ expect' = queue[1].id
  /\ queue[1].used = 0 /\ queue[1].id \in Of("aggregate")
  /\ queue' # << >> /\ Len(queue') = Len(queue)
  /\ queue'[1].id = queue[1].id /\ queue'[1].used = 1
  /\ \A i \in 2..Len(queue) : queue'[i] = queue[i]

LEMMA ReleaseLemma ==
  ASSUME IInv, OrderInv, Running, TakePacket, ReleaseUsedPacket
  PROVE  Released
<1>1. queue \in Seq(Packets) /\ queue # << >> /\ Len(queue) \in Nat
  BY TakeLemma
<1>2. /\ Len(queue') = Len(queue) - 1
      /\ \A i \in 1..(Len(queue) - 1) : queue'[i] = queue[i + 1]
  BY <1>1, TailLemma
<1>3. \A i \in 1..(Len(queue) - 1) : i + 1 \in 2..Len(queue)
  BY <1>1
<1>4. expect' = queue[1].id + 1
  BY DEF ReleaseUsedPacket
<1> QED
  BY <1>2, <1>3, <1>4 DEF Released

LEMMA UseLemma ==
  ASSUME IInv, OrderInv, Running, UsePacket
  PROVE  Released \/ HalfUsed
<1>1. TakePacket
  BY DEF UsePacket
<1>2. CASE ReleaseUsedPacket
  BY <1>1, <1>2, ReleaseLemma
<1>3. CASE /\ queue[1].used + 1 < Parts(queue[1].id)
           /\ queue' = [queue EXCEPT ![1].used = 1]
           /\ expect' = queue[1].id
  <2>1. /\ queue \in Seq(Packets) /\ queue # << >> /\ 1 \in 1..Len(queue)
        /\ queue[1] \in Packets /\ queue[1].used \in 0..1 /\ queue[1].id \in Ids
        /\ Len(queue) \in Nat
    BY <1>1, TakeLemma, QueueElements
  <2>2. queue[1].used = 0 /\ Kind(queue[1].id) = "aggregate"
    BY <1>3, <2>1 DEF Parts
  <2> DEFINE e == [queue[1] EXCEPT !.used = 1]
  <2>3. e \in Packets /\ e.id = queue[1].id /\ e.used = 1
    BY <2>1 DEF Packets
  <2>4. queue' = [queue EXCEPT ![1] = e]
    BY <1>3
  <2> HIDE DEF e
  <2>5. /\ Len(queue') = Len(queue)
        /\ \A i \in 1..Len(queue) : queue'[i] = IF i = 1 THEN e ELSE queue[i]
    BY <2>1, <2>3, <2>4, ExceptSeq
  <2>6. queue' # << >>
    BY <2>1, <2>5, EmptySeq
  <2>7. \A i \in 2..Len(queue) : queue'[i] = queue[i]
    BY <2>1, <2>5
  <2> QED
    BY <1>3, <2>1, <2>2, <2>3, <2>5, <2>6, <2>7 DEF HalfUsed, Of
<1> QED
  BY <1>2, <1>3 DEF UsePacket

(* What is filled in ends with the piece taken, and begins with it unless  *)
(* the buffer is kept.                                                     *)
LEMMA FilledLemma ==
  ASSUME IInv, OrderInv, Running, TakePacket
  PROVE  LET p == <<queue[1].id, queue[1].used + 1>> IN
         /\ BufferNow = << >> \/ BufferNow = buffer
         /\ BufferNow \in Seq(Ids \X {1, 2}) /\ p \in Ids \X {1, 2}
         /\ Filled # << >> /\ Filled[Len(Filled)] = p
         /\ Filled[1] = IF BufferNow = << >> THEN p ELSE buffer[1]
         /\ buffer # << >> => buffer[1] \in Ids \X {1, 2}
<1> DEFINE p == <<queue[1].id, queue[1].used + 1>>
           b == BufferNow
<1>1. p \in Ids \X {1, 2}
  BY TakeLemma
<1>2. buffer \in Seq(Ids \X {1, 2})
  BY DEF IInv, TypeOK
<1>3. b = << >> \/ b = buffer
  BY DEF BufferNow
<1>4. b \in Seq(Ids \X {1, 2})
  BY <1>2, <1>3, EmptySeq
<1>5. Filled = Append(b, p)
  BY DEF Filled
<1> HIDE DEF p, b
<1>6. /\ Len(Filled) = Len(b) + 1 /\ Filled[Len(b) + 1] = p
      /\ \A i \in 1..Len(b) : Filled[i] = b[i]
      /\ Filled \in Seq(Ids \X {1, 2})
  BY <1>1, <1>4, <1>5, AppendProperties
<1>7. Len(b) \in Nat /\ (b = << >> <=> Len(b) = 0)
  BY <1>4, EmptySeq, LenProperties
<1>8. Filled # << >>
  BY <1>6, <1>7, EmptySeq
<1>9. Filled[1] = IF b = << >> THEN p ELSE buffer[1]
  BY <1>3, <1>6, <1>7
<1>10. buffer # << >> => buffer[1] \in Ids \X {1, 2}
  <2>1. Len(buffer) \in Nat /\ (buffer = << >> <=> Len(buffer) = 0)
    BY <1>2, EmptySeq, LenProperties
  <2> QED
    BY <1>2, <2>1, ElementOfSeq
<1> QED
  BY <1>1, <1>3, <1>4, <1>6, <1>8, <1>9, <1>10 DEF p, b

(* What was passed, and the piece taken now, is passed then.               *)
LEMMA PassedLemma ==
  ASSUME IInv, OrderInv, Running, TakePacket, Released \/ HalfUsed,
         NEW p \in Ids \X {1, 2}, Passed(p) \/ p = <<queue[1].id, queue[1].used + 1>>
  PROVE  \/ p[1] < expect'
         \/ /\ p[1] = expect' /\ p[2] = 1
            /\ queue' # << >> /\ queue'[1].id = expect' /\ queue'[1].used = 1
<1> DEFINE a == queue[1].id
<1>1. /\ a \in Nat /\ expect \in Nat /\ expect <= a /\ p[1] \in Nat
  BY TakeLemma DEF Ids
<1>2. p[1] <= a
  BY <1>1 DEF Passed
<1>3. CASE Released
  BY <1>1, <1>2, <1>3 DEF Released
<1>4. CASE HalfUsed
  <2>1. CASE p[1] < expect
    BY <1>1, <1>4, <2>1 DEF HalfUsed
  <2>2. CASE p[1] = expect /\ queue[1].used = 1
    BY <1>4, <2>2 DEF HalfUsed
  <2>3. CASE p = <<queue[1].id, queue[1].used + 1>>
    BY <1>4, <2>3 DEF HalfUsed
  <2> QED
    BY <2>1, <2>2, <2>3 DEF Passed
<1> QED
  BY <1>3, <1>4

LEMMA LaterLemma ==
  ASSUME IInv, OrderInv, Running, TakePacket, NEW p \in Ids \X {1, 2}, Passed(p)
  PROVE  Later(<<queue[1].id, queue[1].used + 1>>, p)
<1> DEFINE a == queue[1].id
<1>1. /\ a \in Nat /\ expect \in Nat /\ expect <= a /\ p[1] \in Nat
  BY TakeLemma DEF Ids
<1>2. CASE p[1] < expect
  BY <1>1, <1>2 DEF Later
<1>3. CASE p[1] = expect /\ p[2] = 1 /\ a = expect /\ queue[1].used = 1
  BY <1>3 DEF Later
<1> QED
  BY <1>2, <1>3 DEF Passed

LEMMA LastPiece ==
  ASSUME IInv, out # << >>
  PROVE  out[Len(out)] \in Ids \X {1, 2} /\ Len(out) \in Nat /\ Len(out) >= 1
<1>1. out \in Seq(Ids \X {1, 2})
  BY DEF IInv, TypeOK
<1>2. Len(out) \in Nat \ {0}
  BY <1>1, EmptySeq
<1> QED
  BY <1>1, <1>2, ElementOfSeq

(* Taking a packet keeps what is said of the queue.                        *)
LEMMA TakeQueue ==
  ASSUME IInv, OrderInv, Running, TakePacket, Released \/ HalfUsed
  PROVE  /\ PartsLeft'
         /\ \A i \in 1..Len(queue') :
              queue'[i].first => queue'[i].id = expect' /\ queue'[i].used = 1
<1> DEFINE a == queue[1].id
           n == Len(queue)
<1>1. /\ a \in Nat /\ expect \in Nat /\ expect <= a /\ n \in Nat /\ n >= 1
      /\ \A i \in 2..n : queue[i].id \in Nat /\ a < queue[i].id
  BY TakeLemma
<1>2. Of("aggregate")' = Of("aggregate")
  BY TakeLemma, SenderStays DEF Kinds
<1>3. PartsLeft /\ FirstExpected
  BY DEF OrderInv
<1>4. ASSUME NEW j \in 2..n
      PROVE  ~queue[j].first /\ (queue[j].used = 1 => queue[j].id \in Of("aggregate"))
  <2>1. j \in 1..n
    BY <1>1
  <2>2. queue[j].id # expect
    BY <1>1
  <2> QED
    BY <1>3, <2>1, <2>2 DEF PartsLeft, FirstExpected
<1>5. CASE Released
  <2>1. \A i \in 1..Len(queue') : \E j \in 2..n : queue'[i] = queue[j]
    BY <1>5 DEF Released
  <2> QED
    BY <1>2, <1>4, <2>1 DEF PartsLeft
<1>6. CASE HalfUsed
  <2>1. /\ Len(queue') = n /\ expect' = a /\ a \in Of("aggregate")
        /\ queue'[1].id = a /\ queue'[1].used = 1
        /\ \A i \in 2..n : queue'[i] = queue[i]
    BY <1>6 DEF HalfUsed
  <2>2. \A i \in 1..n : i = 1 \/ i \in 2..n
    BY <1>1
  <2> QED
    BY <1>2, <1>4, <2>1, <2>2 DEF PartsLeft
<1> QED
  BY <1>5, <1>6

LEMMA RejectOrder ==
  ASSUME IInv, OrderInv, Running, RejectPacket
  PROVE  OrderInv'
<1>1. TakePacket /\ Released /\ buffer' = buffer /\ out' = out
  BY ReleaseLemma DEF RejectPacket
<1>2. PartsLeft' /\ FirstExpected'
  BY <1>1, TakeQueue DEF FirstExpected
<1>3. Fresh'
  BY <1>1, TakeLemma DEF Fresh
<1>4. FramesLater
  BY DEF OrderInv
<1>5. buffer # << >> => buffer[1] \in Ids \X {1, 2}
  BY <1>1, FilledLemma
<1>6. buffer # << >> => Passed(buffer[1])'
  BY <1>1, <1>4, <1>5, PassedLemma DEF FramesLater, Passed
<1>7. out # << >> => Passed(out[Len(out)])'
  BY <1>1, <1>4, LastPiece, PassedLemma DEF FramesLater, Passed
<1>8. FramesLater'
  BY <1>1, <1>4, <1>6, <1>7 DEF FramesLater, Later
<1> QED
  BY <1>2, <1>3, <1>8 DEF OrderInv

LEMMA FragmentOrder ==
  ASSUME IInv, OrderInv, Running, UseFragment
  PROVE  OrderInv'
<1> DEFINE p == <<queue[1].id, queue[1].used + 1>>
<1>1. TakePacket /\ (Released \/ HalfUsed) /\ buffer' = Filled /\ out' = out
  BY UseLemma DEF UseFragment, UsePacket
<1>2. PartsLeft' /\ FirstExpected'
  BY <1>1, TakeQueue DEF FirstExpected
<1>3. Fresh'
  BY <1>1, TakeLemma DEF Fresh
<1>4. FramesLater
  BY DEF OrderInv
<1>5. /\ p \in Ids \X {1, 2} /\ Filled # << >>
      /\ Filled[1] = p \/ (buffer # << >> /\ Filled[1] = buffer[1])
      /\ buffer # << >> => buffer[1] \in Ids \X {1, 2}
  <2>1. /\ p \in Ids \X {1, 2} /\ Filled # << >>
        /\ buffer # << >> => buffer[1] \in Ids \X {1, 2}
    BY <1>1, FilledLemma
  <2>2. /\ BufferNow = << >> \/ BufferNow = buffer
        /\ Filled[1] = IF BufferNow = << >> THEN p ELSE buffer[1]
    BY <1>1, FilledLemma
  <2> HIDE DEF p
  <2> QED
    BY <2>1, <2>2
<1>6. Filled[1] \in Ids \X {1, 2} /\ (Passed(Filled[1]) \/ Filled[1] = p)
  BY <1>4, <1>5 DEF FramesLater
<1> HIDE DEF p
<1>7. Passed(buffer[1])'
  <2> DEFINE q == Filled[1]
  <2>1. q \in Ids \X {1, 2} /\ (Passed(q) \/ q = p)
    BY <1>6
  <2>2. buffer'[1] = q
    BY <1>1
  <2> HIDE DEF q
  <2>3. \/ q[1] < expect'
        \/ /\ q[1] = expect' /\ q[2] = 1
           /\ queue' # << >> /\ queue'[1].id = expect' /\ queue'[1].used = 1
    BY <1>1, <2>1, PassedLemma DEF p
  <2> QED
    BY <2>2, <2>3 DEF Passed
<1>8. out # << >> => Passed(out[Len(out)])'
  BY <1>1, <1>4, LastPiece, PassedLemma DEF FramesLater, Passed
<1>9. out # << >> => Later(Filled[1], out[Len(out)])
  BY <1>1, <1>4, <1>5, LastPiece, LaterLemma DEF FramesLater, p
<1>10. FramesLater'
  BY <1>1, <1>7, <1>8, <1>9 DEF FramesLater, Later
<1> QED
  BY <1>2, <1>3, <1>10 DEF OrderInv

LEMMA CompleteOrder ==
  ASSUME IInv, OrderInv, Running, CompleteFrame
  PROVE  OrderInv'
<1> DEFINE p == <<queue[1].id, queue[1].used + 1>>
<1>1. TakePacket /\ (Released \/ HalfUsed) /\ buffer' = << >> /\ out' = Filled
  BY UseLemma DEF CompleteFrame, UsePacket
<1>2. PartsLeft' /\ FirstExpected'
  BY <1>1, TakeQueue DEF FirstExpected
<1>3. Fresh'
  BY <1>1, TakeLemma DEF Fresh
<1>4. p \in Ids \X {1, 2} /\ Filled[Len(Filled)] = p
  BY <1>1, FilledLemma
<1>5. \/ p[1] < expect'
      \/ /\ p[1] = expect' /\ p[2] = 1
         /\ queue' # << >> /\ queue'[1].id = expect' /\ queue'[1].used = 1
  BY <1>1, <1>4, PassedLemma
<1> HIDE DEF p
<1>6. out'[Len(out')] = p
  BY <1>1, <1>4
<1>7. Passed(out[Len(out)])'
  BY <1>5, <1>6 DEF Passed
<1>8. FramesLater'
  BY <1>1, <1>7 DEF FramesLater
<1> QED
  BY <1>2, <1>3, <1>8 DEF OrderInv

LEMMA ReadOrder ==
  ASSUME IInv, OrderInv, pc # "stopped", NEW a \in Ids, NEW newSsrc \in BOOLEAN,
         NetworkRead(a, newSsrc), changes' = 0
  PROVE  OrderInv'
<1>1. /\ Running /\ Fresh /\ PartsLeft /\ FirstExpected /\ FramesLater
      /\ seen' /\ UNCHANGED <<shape, frameVars, lost, out>>
      /\ seen => expect' = expect
      /\ \A i \in 1..Len(queue') :
           \/ \E j \in 1..Len(queue) : queue'[i] = queue[j]
           \/ queue'[i].used = 0 /\ (queue'[i].first <=> ~seen)
      /\ seen /\ queue # << >> /\ queue[1].id = expect =>
           queue' # << >> /\ queue'[1] = queue[1]
      /\ ~seen => /\ Len(queue') = 1 /\ queue'[1].first /\ queue'[1].used = 0
                  /\ queue'[1].id = expect'
  BY ReadLemma DEF OrderInv, Running
<1>2. out' = out /\ buffer' = buffer
  BY <1>1 DEF frameVars
<1>3. Fresh'
  BY <1>1 DEF Fresh
<1>4. PartsLeft'
  <2>1. Of("aggregate")' = Of("aggregate")
    BY <1>1, SenderStays DEF Kinds
  <2>2. ASSUME NEW i \in 1..Len(queue'), queue'[i].used = 1
        PROVE  queue'[i].id \in Of("aggregate")
    <3>1. PICK j \in 1..Len(queue) : queue'[i] = queue[j]
      BY <1>1, <2>2
    <3> QED
      BY <1>1, <2>2, <3>1 DEF PartsLeft
  <2> QED
    BY <2>1, <2>2 DEF PartsLeft
<1>5. CASE ~seen
  <2>1. out = << >> /\ buffer = << >>
    BY <1>1, <1>5 DEF Fresh
  <2>2. FirstExpected'
    <3>0. Len(queue') = 1
      BY <1>1, <1>5
    <3>1. \A i \in 1..Len(queue') : i = 1
      BY <3>0
    <3>2. queue'[1].id = expect' /\ out' = << >>
      BY <1>1, <1>2, <1>5, <2>1
    <3> QED
      BY <3>1, <3>2 DEF FirstExpected
  <2>3. FramesLater'
    BY <1>2, <2>1 DEF FramesLater
  <2> QED
    BY <1>3, <1>4, <2>2, <2>3 DEF OrderInv
<1>6. CASE seen
  <2>1. FirstExpected'
    <3>1. ASSUME NEW i \in 1..Len(queue'), queue'[i].first
          PROVE  queue'[i].id = expect /\ (out # << >> => queue'[i].used = 1)
      <4>1. PICK j \in 1..Len(queue) : queue'[i] = queue[j]
        BY <1>1, <1>6, <3>1
      <4> QED
        BY <1>1, <3>1, <4>1 DEF FirstExpected
    <3> QED
      BY <1>1, <1>2, <1>6, <3>1 DEF FirstExpected
  <2>2. \A p : Passed(p) =>
          \/ p[1] < expect'
          \/ /\ p[1] = expect' /\ p[2] = 1
             /\ queue' # << >> /\ queue'[1].id = expect' /\ queue'[1].used = 1
    BY <1>1, <1>6 DEF Passed
  <2>3. FramesLater'
    BY <1>1, <1>2, <2>2 DEF FramesLater, Later, Passed
  <2> QED
    BY <1>3, <1>4, <2>1, <2>3 DEF OrderInv
<1> QED
  BY <1>5, <1>6

LEMMA InitOrder == Init => OrderInv
<1> SUFFICES ASSUME Init PROVE OrderInv
  OBVIOUS
<1>1. Len(queue) = 0
  BY EmptySeq DEF Init
<1> QED
  BY <1>1 DEF Init, OrderInv, Fresh, PartsLeft, FirstExpected, FramesLater

(* A source that runs has been running, with the same sender.              *)
LEMMA RunningBefore ==
  ASSUME IInv, [Next]_vars
  PROVE  (changes' = 0 => changes = 0) /\ (Running' => Running) /\ shape' = shape
<1>1. CASE UNCHANGED vars
  BY <1>1 DEF Running, vars
<1>2. ASSUME NEW a \in Ids, NEW newSsrc \in BOOLEAN, NetworkRead(a, newSsrc)
      PROVE  (changes' = 0 => changes = 0) /\ (Running' => Running) /\ shape' = shape
  <2>1. pc = "idle" /\ shape' = shape
    BY <1>2 DEF NetworkRead
  <2> QED
    BY <1>2, <2>1, ReadLemma DEF Running
<1>3. CASE LeaveLoop
  BY <1>3 DEF Running, LeaveLoop
<1>4. CASE RejectPacket \/ UseFragment \/ CompleteFrame
  BY <1>4 DEF Running, RejectPacket, UseFragment, CompleteFrame, UsePacket, TakePacket
<1>5. CASE AfterGetting \/ StopGettingFrames
  BY <1>5 DEF Running, AfterGetting, StopGettingFrames
<1> QED
  BY <1>1, <1>2, <1>3, <1>4, <1>5 DEF Next, DoGetNextFrame1

LEMMA OrderStep == IInv /\ OrderInv /\ [Next]_vars => OrderInv'
<1> SUFFICES ASSUME IInv, OrderInv, [Next]_vars, Running' PROVE OrderInv'
  BY DEF OrderInv
<1>1. Running
  BY RunningBefore
<1>2. CASE LeaveLoop \/ AfterGetting \/ UNCHANGED vars
  <2>1. UNCHANGED <<shape, bufferVars, frameVars, out>>
    BY <1>2 DEF LeaveLoop, AfterGetting, vars, historyVars
  <2>2. Of("aggregate")' = Of("aggregate")
    BY <2>1, SenderStays DEF Kinds
  <2>3. Fresh /\ PartsLeft /\ FirstExpected /\ FramesLater
    BY <1>1 DEF OrderInv
  <2>4. Fresh' /\ FirstExpected' /\ FramesLater'
    BY <2>1, <2>3 DEF bufferVars, frameVars, Fresh, FirstExpected, FramesLater, Passed, Later
  <2>5. PartsLeft'
    BY <2>1, <2>2, <2>3 DEF bufferVars, PartsLeft
  <2> QED
    BY <2>4, <2>5 DEF OrderInv
<1>3. ASSUME NEW a \in Ids, NEW newSsrc \in BOOLEAN, NetworkRead(a, newSsrc)
      PROVE  OrderInv'
  BY <1>1, <1>3, ReadOrder DEF Running
<1>4. CASE RejectPacket
  BY <1>1, <1>4, RejectOrder
<1>5. CASE UseFragment
  BY <1>1, <1>5, FragmentOrder
<1>6. CASE CompleteFrame
  BY <1>1, <1>6, CompleteOrder
<1>7. CASE StopGettingFrames
  BY <1>7 DEF StopGettingFrames, Running
<1> QED
  BY <1>2, <1>3, <1>4, <1>5, <1>6, <1>7 DEF Next, DoGetNextFrame1

LEMMA OrderInvariance == Spec => [](IInv /\ OrderInv)
<1>1. Init => IInv /\ OrderInv
  BY InvInit, InitOrder
<1>2. IInv /\ OrderInv /\ [Next]_vars => (IInv /\ OrderInv)'
  BY TypeStep, BufferStep, OrderStep DEF IInv
<1> QED
  BY <1>1, <1>2, PTL DEF Spec

(* Frames come in the order they were sent, none twice - not at once after *)
(* itself either - from any sender that keeps its SSRC.                    *)
THEOREM InSendingOrderFrames == Spec => FramesInOrder
<1> DEFINE InOrder ==
      changes' = 0 /\ delivered' # delivered /\ out # << >> =>
        \/ out'[1][1] > out[Len(out)][1]
        \/ out'[1][1] = out[Len(out)][1] /\ out'[1][2] > out[Len(out)][2]
<1>1. IInv /\ OrderInv /\ [Next]_vars => [InOrder]_vars
  <2> SUFFICES ASSUME IInv, OrderInv, Next, changes' = 0, delivered' # delivered, out # << >>
               PROVE  Later(out'[1], out[Len(out)])
    BY DEF Later
  <2>1. CompleteFrame
    BY DEF Next, DoGetNextFrame1, NetworkRead, LeaveLoop, RejectPacket, UseFragment,
           AfterGetting, StopGettingFrames, historyVars
  <2>2. TakePacket /\ out' = Filled
    BY <2>1 DEF CompleteFrame, UsePacket
  <2>3. Running
    BY <2>2 DEF Running, TakePacket
  <2>4. \/ Filled[1] = <<queue[1].id, queue[1].used + 1>>
        \/ buffer # << >> /\ Filled[1] = buffer[1]
    BY <2>2, <2>3, FilledLemma
  <2>5. FramesLater
    BY <2>3 DEF OrderInv
  <2>6. Later(<<queue[1].id, queue[1].used + 1>>, out[Len(out)])
    BY <2>2, <2>3, <2>5, LastPiece, LaterLemma DEF FramesLater
  <2> QED
    BY <2>2, <2>4, <2>5, <2>6 DEF FramesLater
<1> QED
  BY <1>1, OrderInvariance, PTL DEF Spec, FramesInOrder

(* MultiFramedRTPSource.cpp:131 "If we already have packet data available, *)
(* then deliver it now": a packet that the sink waits for stays in the     *)
(* queue only when a piece of a damaged frame was rejected before it.      *)
THEOREM OnlyDamage == Spec => []OnlyDamageDelays
<1>1. Init => OnlyDamageDelays
  BY DEF Init, OnlyDamageDelays
<1>2. OnlyDamageDelays /\ [Next]_vars => OnlyDamageDelays'
  <2> SUFFICES ASSUME OnlyDamageDelays, [Next]_vars PROVE OnlyDamageDelays'
    OBVIOUS
  <2>1. CASE \E a \in Ids, newSsrc \in BOOLEAN : NetworkRead(a, newSsrc)
    BY <2>1 DEF NetworkRead, OnlyDamageDelays
  <2>2. CASE LeaveLoop
    BY <2>2 DEF LeaveLoop, bufferVars, frameVars, OnlyDamageDelays
  <2>3. CASE RejectPacket
    BY <2>3 DEF RejectPacket, TakePacket, OnlyDamageDelays
  <2>4. CASE UseFragment
    BY <2>4 DEF UseFragment, UsePacket, TakePacket, OnlyDamageDelays
  <2>5. CASE CompleteFrame
    BY <2>5 DEF CompleteFrame, UsePacket, TakePacket, OnlyDamageDelays
  <2>6. CASE AfterGetting \/ StopGettingFrames
    BY <2>6 DEF AfterGetting, StopGettingFrames, OnlyDamageDelays
  <2>7. CASE UNCHANGED vars
    BY <2>7 DEF vars, bufferVars, frameVars, OnlyDamageDelays
  <2> QED
    BY <2>1, <2>2, <2>3, <2>4, <2>5, <2>6, <2>7 DEF Next, DoGetNextFrame1
<1> QED
  BY <1>1, <1>2, PTL DEF Spec
-----------------------------------------------------------------------------
(* Whole frames, from a sender that keeps to SendsWholeFrames: either it   *)
(* sends complete frames only, or it never sends an aggregate.             *)

AggregateSender == Ids = Of("single") \cup Of("aggregate")

FragmentSender ==
  /\ Ids = Of("single") \cup Of("start") \cup Of("mid") \cup Of("end")
  /\ \A id \in Ids : id + 1 \in Ids =>
       (id \in Of("start") \cup Of("mid") <=> id + 1 \in Of("mid") \cup Of("end"))

LEMMA SenderKinds ==
  ASSUME SendsWholeFrames(shape)
  PROVE  AggregateSender \/ FragmentSender
<1>1. \/ \A id \in Ids : Kind(id) \in {"single", "aggregate"}
      \/ \A id \in Ids :
           /\ Kind(id) \in {"single", "start", "mid", "end"}
           /\ Kind(id) \in {"start", "mid"} <=> Kind(id + 1) \in {"mid", "end"}
  BY DEF SendsWholeFrames, Kind
<1>2. CASE \A id \in Ids : Kind(id) \in {"single", "aggregate"}
  BY <1>2 DEF AggregateSender, Of
<1>3. CASE \A id \in Ids :
             /\ Kind(id) \in {"single", "start", "mid", "end"}
             /\ Kind(id) \in {"start", "mid"} <=> Kind(id + 1) \in {"mid", "end"}
  <2>1. Ids = Of("single") \cup Of("start") \cup Of("mid") \cup Of("end")
    BY <1>3 DEF Of
  <2>2. ASSUME NEW id \in Ids, id + 1 \in Ids
        PROVE  id \in Of("start") \cup Of("mid") <=> id + 1 \in Of("mid") \cup Of("end")
    <3> DEFINE n == id + 1
    <3>1. Kind(id) \in {"start", "mid"} <=> Kind(n) \in {"mid", "end"}
      BY <1>3
    <3>2. n \in Ids
      BY <2>2
    <3> HIDE DEF n
    <3>3. id \in Of("start") \cup Of("mid") <=> n \in Of("mid") \cup Of("end")
      BY <3>1, <3>2 DEF Of
    <3> QED
      BY <3>3 DEF n
  <2> QED
    BY <2>1, <2>2 DEF FragmentSender
<1> QED
  BY <1>1, <1>2, <1>3

(* A packet is of one kind.                                                *)
LEMMA OneKind ==
  /\ Of("aggregate") \cap (Of("start") \cup Of("mid") \cup Of("end") \cup Of("single")) = {}
  /\ Of("single") \cap (Of("start") \cup Of("mid") \cup Of("end")) = {}
  /\ Of("start") \cap (Of("mid") \cup Of("end")) = {}
  /\ Of("mid") \cap Of("end") = {}
BY DEF Of

LEMMA RunExtended ==
  ASSUME NEW i \in Ids, NEW a \in Ids, i <= a
  PROVE  /\ Run(i, a) = Append(Run(i, a - 1), <<a, 1>>)
         /\ Run(a, a) = Append(<< >>, <<a, 1>>)
         /\ Run(i, a)[1] = <<i, 1>>
<1> DEFINE S == Nat \X {1, 2}
<1>1. i \in Nat /\ a \in Nat
  BY DEF Ids
<1>2. ASSUME NEW j \in Ids, j <= a
      PROVE  Run(j, a) = Append(Run(j, a - 1), <<a, 1>>)
  <2>1. PICK n \in Nat : n = a - j
    BY <1>1, <1>2 DEF Ids
  <2> DEFINE s == Run(j, a - 1)
             t == Run(j, a)
             p == <<a, 1>>
  <2>2. j \in Nat /\ (a - 1) - j + 1 = n /\ a - j + 1 = n + 1
    BY <1>1, <2>1 DEF Ids
  <2>3. \A k \in 1..(n + 1) : j + k - 1 \in Nat
    BY <2>2
  <2>4. s \in Seq(S) /\ Len(s) = n /\ \A k \in 1..n : s[k] = <<j + k - 1, 1>>
    <3>1. s = [k \in 1..n |-> <<j + k - 1, 1>>]
      BY <2>2 DEF Run
    <3>2. s \in [1..n -> S]
      BY <2>1, <2>3, <3>1
    <3>3. s \in Seq(S)
      BY <2>1, <3>2, SeqDef
    <3> QED
      BY <2>1, <3>1, <3>3
  <2>5. t \in Seq(S) /\ Len(t) = n + 1 /\ \A k \in 1..(n + 1) : t[k] = <<j + k - 1, 1>>
    <3>1. t = [k \in 1..(n + 1) |-> <<j + k - 1, 1>>]
      BY <2>2 DEF Run
    <3>2. t \in [1..(n + 1) -> S]
      BY <2>1, <2>3, <3>1
    <3>3. t \in Seq(S)
      BY <2>1, <3>2, SeqDef
    <3> QED
      BY <2>1, <3>1, <3>3
  <2>6. p \in S /\ p = <<j + (n + 1) - 1, 1>>
    BY <1>1, <2>1, <2>2
  <2> HIDE DEF s, t, p, S
  <2> DEFINE u == Append(s, p)
  <2>7. u \in Seq(S) /\ Len(u) = n + 1 /\ u[n + 1] = p /\ \A k \in 1..n : u[k] = s[k]
    BY <2>4, <2>6, AppendProperties
  <2> HIDE DEF u
  <2>8. \A k \in 1..(n + 1) : t[k] = u[k]
    <3> SUFFICES ASSUME NEW k \in 1..(n + 1) PROVE t[k] = u[k]
      OBVIOUS
    <3>1. CASE k = n + 1
      BY <2>5, <2>6, <2>7, <3>1
    <3>2. CASE k # n + 1
      <4>1. k \in 1..n
        BY <2>1, <3>2
      <4> QED
        BY <2>4, <2>5, <2>7, <4>1
    <3> QED
      BY <3>1, <3>2
  <2>9. t = u
    BY <2>5, <2>7, <2>8, SeqEqual
  <2> QED
    BY <2>9 DEF t, u, s, p
<1>3. Run(a, a - 1) = << >>
  <2>1. 1..((a - 1) - a + 1) = {}
    BY <1>1
  <2>2. Run(a, a - 1) = [k \in {} |-> <<a + k - 1, 1>>]
    BY <2>1 DEF Run
  <2> QED
    BY <2>2
<1>4. Run(i, a)[1] = <<i, 1>>
  BY <1>1 DEF Run
<1>5. a <= a
  BY <1>1
<1> QED
  BY <1>2, <1>3, <1>4, <1>5

(* The buffer holds the pieces from the start of a frame to the packet     *)
(* used last.                                                              *)
Opened ==
  \E i \in Of("start") :
    /\ i < expect
    /\ \A k \in (i + 1)..(expect - 1) : k \in Of("mid")
    /\ buffer = Run(i, expect - 1)

(* The expected packet is the first of all, and waits.                     *)
FirstWaits == queue # << >> /\ queue[1].first /\ queue[1].id = expect

(* Without damage, the buffer is what the packet passed last leaves to be  *)
(* completed.                                                              *)
BufferFits ==
  ~damaged =>
    /\ buffer # << >> => Opened
    /\ buffer = << >> /\ seen /\ ~FirstWaits => expect - 1 \in Of("single") \cup Of("end")

WholeInv ==
  Running =>
    /\ AggregateSender => begins /\ completes /\ ~damaged /\ buffer = << >>
    /\ FragmentSender => BufferFits

LEMMA AggregateTaken ==
  ASSUME IInv, OrderInv, Running, WholeInv, TakePacket, AggregateSender
  PROVE  /\ Flags.begins /\ Flags.completes /\ ~DamagedNow
         /\ Filled = <<<<queue[1].id, queue[1].used + 1>>>> /\ Filled \in Frames
<1> DEFINE a == queue[1].id
           u == queue[1].used
<1>1. a \in Ids /\ a \in Nat /\ u \in 0..1 /\ queue # << >> /\ 1 \in 1..Len(queue)
  BY TakeLemma
<1>2. begins /\ completes /\ ~damaged /\ buffer = << >>
  BY DEF WholeInv
<1>3. a \in Of("single") \/ a \in Of("aggregate")
  BY <1>1 DEF AggregateSender
<1>4. Flags.begins /\ Flags.completes
  BY <1>2, <1>3 DEF Flags, Of
<1>5. Filled = Append(<< >>, <<a, u + 1>>)
  BY <1>2 DEF Filled, BufferNow
<1>6. Filled = <<<<a, u + 1>>>>
  BY <1>5
<1>7. Filled \in Frames
  <2>1. CASE a \in Of("single")
    <3>1. u = 0
      <4>1. u = 1 => a \in Of("aggregate")
        BY <1>1 DEF OrderInv, PartsLeft
      <4> QED
        BY <1>1, <2>1, <4>1, OneKind
    <3>2. Filled = Run(a, a)
      <4>1. a <= a /\ u + 1 = 1
        BY <1>1, <3>1
      <4> QED
        BY <1>1, <1>5, <4>1, RunExtended
    <3> QED
      BY <1>1, <2>1, <3>2 DEF Frames, Of
  <2>2. CASE a \in Of("aggregate")
    <3>1. u + 1 \in {1, 2} /\ Kind(a) = "aggregate"
      BY <1>1, <2>2 DEF Of
    <3> QED
      BY <1>1, <1>6, <3>1 DEF Frames
  <2> QED
    BY <1>3, <2>1, <2>2
<1> QED
  BY <1>4, <1>6, <1>7 DEF DamagedNow

LEMMA FragmentTaken ==
  ASSUME IInv, OrderInv, Running, TakePacket, FragmentSender
  PROVE  /\ queue[1].used = 0
         /\ Flags.begins <=> queue[1].id \in Of("single") \cup Of("start")
         /\ Flags.completes <=> queue[1].id \in Of("single") \cup Of("end")
         /\ queue[1].first => out = << >> /\ queue[1].id = expect
         /\ ~HalfUsed
<1> DEFINE a == queue[1].id
<1>1. a \in Ids /\ queue[1].used \in 0..1 /\ 1 \in 1..Len(queue)
  BY TakeLemma
<1>2. a \notin Of("aggregate")
  BY <1>1, OneKind DEF FragmentSender
<1>3. queue[1].used = 0
  BY <1>1, <1>2 DEF OrderInv, PartsLeft
<1>4. /\ Flags.begins = (Kind(a) \in {"single", "start", "again"})
      /\ Flags.completes = (Kind(a) \in {"single", "end"})
  <2>1. Kind(a) # "aggregate" /\ ~(queue[1].used > 0)
    BY <1>1, <1>2, <1>3 DEF Of
  <2> QED
    BY <2>1 DEF Flags
<1>5. Kind(a) # "again"
  BY <1>1 DEF FragmentSender, Of
<1>6. queue[1].first => out = << >> /\ a = expect
  BY <1>1, <1>3 DEF OrderInv, FirstExpected
<1>7. ~HalfUsed
  BY <1>2 DEF HalfUsed
<1> QED
  BY <1>1, <1>3, <1>4, <1>5, <1>6, <1>7 DEF Of

(* What is filled in begins a frame, or continues the one in the buffer.   *)
OpenedWith(a) ==
  \/ a \in Of("single") \cup Of("start") /\ Filled = Run(a, a)
  \/ /\ a \in Of("mid") \cup Of("end") /\ BufferNow = buffer /\ buffer # << >>
     /\ a = expect
     /\ \E i \in Of("start") :
          /\ i < a /\ Filled = Run(i, a)
          /\ \A k \in (i + 1)..(a - 1) : k \in Of("mid")

LEMMA FragmentFilled ==
  ASSUME IInv, OrderInv, Running, WholeInv, TakePacket, ~DamagedNow, FragmentSender
  PROVE  OpenedWith(queue[1].id)
<1> DEFINE a == queue[1].id
<1>1. /\ a \in Ids /\ a \in Nat /\ expect \in Nat /\ seen /\ queue[1].used = 0
      /\ PacketLossPreceded <=> a # expect \/ queue[1].first
  BY TakeLemma, FragmentTaken
<1>2. /\ Flags.begins <=> a \in Of("single") \cup Of("start")
      /\ a \in Of("single") \cup Of("start") \cup Of("mid") \cup Of("end")
  BY <1>1, FragmentTaken DEF FragmentSender
<1>3. BufferFits
  BY DEF WholeInv
<1>4. Filled = Append(BufferNow, <<a, 1>>)
  BY <1>1 DEF Filled
<1>5. \A id \in Ids : id + 1 \in Ids =>
        (id \in Of("start") \cup Of("mid") <=> id + 1 \in Of("mid") \cup Of("end"))
  BY DEF FragmentSender
<1> HIDE DEF a
<1>6. a = expect => a - 1 \in Int /\ (a - 1) + 1 = a
  BY <1>1
<1>7. CASE Flags.begins
  <2>1. BufferNow = << >>
    <3> SUFFICES ASSUME ~PacketLossPreceded, ~damaged, buffer # << >> PROVE FALSE
      BY <1>7 DEF BufferNow
    <3>1. a = expect
      BY <1>1
    <3>2. PICK i \in Of("start") :
             /\ i < a
             /\ \A k \in (i + 1)..(a - 1) : k \in Of("mid")
      BY <1>3, <3>1 DEF BufferFits, Opened
    <3>3. i \in Ids /\ i \in Nat
      BY <3>2 DEF Of, Ids
    <3>4. a - 1 = i \/ a - 1 \in (i + 1)..(a - 1)
      BY <1>1, <3>2, <3>3
    <3>5. a - 1 \in Of("start") \cup Of("mid")
      BY <3>2, <3>4
    <3>6. a - 1 \in Ids
      BY <3>5 DEF Of
    <3>7. a \in Of("mid") \cup Of("end")
      BY <1>1, <1>5, <1>6, <3>1, <3>5, <3>6
    <3> QED
      BY <1>2, <1>7, <3>7, OneKind
  <2>2. Filled = Run(a, a)
    <3>1. a <= a
      BY <1>1
    <3> QED
      BY <1>1, <1>4, <2>1, <3>1, RunExtended
  <2> QED
    BY <1>2, <1>7, <2>2 DEF OpenedWith, a
<1>8. CASE ~Flags.begins
  <2>1. a = expect /\ ~queue[1].first /\ ~damaged /\ BufferNow = buffer
    BY <1>1, <1>8 DEF DamagedNow, BufferNow
  <2>2. a \in Of("mid") \cup Of("end")
    BY <1>2, <1>8
  <2>3. buffer # << >>
    <3> SUFFICES ASSUME buffer = << >> PROVE FALSE
      OBVIOUS
    <3>1. ~FirstWaits
      BY <2>1 DEF FirstWaits
    <3>2. a - 1 \in Of("single") \cup Of("end")
      BY <1>1, <1>3, <2>1, <3>1 DEF BufferFits
    <3>3. a - 1 \in Ids
      BY <3>2 DEF Of
    <3>4. a - 1 \in Of("start") \cup Of("mid")
      BY <1>1, <1>5, <1>6, <2>1, <2>2, <3>3
    <3> QED
      BY <3>2, <3>4, OneKind
  <2>4. PICK i \in Of("start") :
           /\ i < a
           /\ \A k \in (i + 1)..(a - 1) : k \in Of("mid")
           /\ buffer = Run(i, a - 1)
    BY <1>3, <2>1, <2>3 DEF BufferFits, Opened
  <2>5. i \in Ids /\ i <= a
    <3>1. i \in Ids /\ i \in Nat
      BY <2>4 DEF Of, Ids
    <3> QED
      BY <1>1, <2>4, <3>1
  <2>6. Filled = Run(i, a)
    <3>1. Run(i, a) = Append(Run(i, a - 1), <<a, 1>>)
      BY <1>1, <2>5, RunExtended
    <3>2. Filled = Append(buffer, <<a, 1>>)
      BY <1>4, <2>1
    <3> QED
      BY <2>4, <3>1, <3>2
  <2>7. OpenedWith(a)
    BY <2>1, <2>2, <2>3, <2>4, <2>6 DEF OpenedWith
  <2> QED
    BY <2>7 DEF a
<1> QED
  BY <1>7, <1>8

LEMMA SenderSame ==
  ASSUME shape' = shape
  PROVE  /\ \A kind \in Kinds : Of(kind)' = Of(kind)
         /\ Of("single")' = Of("single") /\ Of("start")' = Of("start")
         /\ Of("mid")' = Of("mid") /\ Of("end")' = Of("end")
         /\ AggregateSender' <=> AggregateSender
         /\ FragmentSender' <=> FragmentSender
         /\ Frames' = Frames
<1>1. \A kind \in Kinds : Of(kind)' = Of(kind)
  BY SenderStays
<1>2. /\ Of("single")' = Of("single") /\ Of("aggregate")' = Of("aggregate")
      /\ Of("start")' = Of("start") /\ Of("mid")' = Of("mid") /\ Of("end")' = Of("end")
  BY <1>1 DEF Kinds
<1>3. Frames' = Frames
  BY SenderStays
<1>4. AggregateSender' <=> AggregateSender
  BY <1>2 DEF AggregateSender, Ids
<1>5. FragmentSender' <=> FragmentSender
  BY <1>2 DEF FragmentSender, Ids
<1> QED
  BY <1>1, <1>2, <1>3, <1>4, <1>5

LEMMA RejectWhole ==
  ASSUME IInv, OrderInv, Running, WholeInv, RejectPacket
  PROVE  WholeInv'
<1>1. /\ TakePacket /\ DamagedNow /\ out' = out /\ shape' = shape
      /\ damaged' = DamagedNow
  BY DEF RejectPacket, TakePacket
<1>2. ~AggregateSender
  BY <1>1, AggregateTaken
<1>3. BufferFits'
  BY <1>1 DEF BufferFits
<1> QED
  BY <1>1, <1>2, <1>3, SenderSame DEF WholeInv

LEMMA FragmentWhole ==
  ASSUME IInv, OrderInv, Running, WholeInv, UseFragment
  PROVE  WholeInv'
<1> DEFINE a == queue[1].id
<1>1. /\ TakePacket /\ ~DamagedNow /\ ~Flags.completes /\ out' = out /\ shape' = shape
      /\ buffer' = Filled /\ damaged' = DamagedNow /\ (Released \/ HalfUsed)
  BY UseLemma DEF UseFragment, UsePacket, TakePacket
<1>2. ~AggregateSender
  BY <1>1, AggregateTaken
<1>3. ASSUME FragmentSender PROVE BufferFits'
  <2>1. /\ a \in Ids /\ a \in Nat
        /\ a \in Of("single") \cup Of("start") \cup Of("mid") \cup Of("end")
    BY <1>1, <1>3, TakeLemma DEF FragmentSender
  <2>2. a \notin Of("single") \cup Of("end") /\ expect' = a + 1
    BY <1>1, <1>3, FragmentTaken DEF Released
  <2>3. OpenedWith(a)
    BY <1>1, <1>3, FragmentFilled
  <2>4. Filled # << >>
    BY <1>1, FilledLemma
  <2> HIDE DEF a
  <2>5. expect' - 1 = a /\ a < expect'
    BY <2>1, <2>2
  <2>6. Opened'
    <3>1. CASE a \in Of("start") /\ Filled = Run(a, a)
      <4>1. \A k \in (a + 1)..a : k \in Of("mid")
        BY <2>1
      <4>2. \E i \in Of("start") :
              /\ i < expect'
              /\ \A k \in (i + 1)..(expect' - 1) : k \in Of("mid")
              /\ buffer' = Run(i, expect' - 1)
        BY <1>1, <2>5, <3>1, <4>1
      <4> QED
        BY <1>1, <4>2, SenderSame DEF Opened, Run
    <3>2. CASE a \in Of("mid") /\ \E i \in Of("start") :
                 /\ i < a /\ Filled = Run(i, a)
                 /\ \A k \in (i + 1)..(a - 1) : k \in Of("mid")
      <4>1. PICK i \in Of("start") :
               /\ i < a /\ Filled = Run(i, a)
               /\ \A k \in (i + 1)..(a - 1) : k \in Of("mid")
        BY <3>2
      <4>2. i \in Nat
        BY DEF Of, Ids
      <4>3. \A k \in (i + 1)..a : k \in Of("mid")
        <5> SUFFICES ASSUME NEW k \in (i + 1)..a PROVE k \in Of("mid")
          OBVIOUS
        <5>1. k = a \/ k \in (i + 1)..(a - 1)
          BY <2>1, <4>2
        <5> QED
          BY <3>2, <4>1, <5>1
      <4>4. i < expect'
        BY <2>1, <2>2, <4>1, <4>2
      <4>5. /\ \A k \in (i + 1)..(expect' - 1) : k \in Of("mid")
            /\ buffer' = Run(i, expect' - 1)
        BY <1>1, <2>5, <4>1, <4>3
      <4> QED
        BY <1>1, <4>4, <4>5, SenderSame DEF Opened, Run
    <3> QED
      BY <2>2, <2>3, <3>1, <3>2 DEF OpenedWith
  <2> QED
    BY <1>1, <2>4, <2>6 DEF BufferFits
<1> QED
  BY <1>1, <1>2, <1>3, SenderSame DEF WholeInv

LEMMA CompleteWhole ==
  ASSUME IInv, OrderInv, Running, WholeInv, SendsWholeFrames(shape), CompleteFrame
  PROVE  WholeInv' /\ out' \in Frames'
<1> DEFINE a == queue[1].id
<1>1. /\ TakePacket /\ ~DamagedNow /\ Flags.completes /\ out' = Filled /\ shape' = shape
      /\ buffer' = << >> /\ damaged' = DamagedNow /\ (Released \/ HalfUsed)
      /\ begins' = Flags.begins /\ completes' = Flags.completes
  BY UseLemma DEF CompleteFrame, UsePacket, TakePacket
<1>2. a \in Ids /\ a \in Nat
  BY <1>1, TakeLemma
<1>3. ASSUME AggregateSender PROVE Filled \in Frames /\ Flags.begins
  BY <1>1, <1>3, AggregateTaken
<1>4. ASSUME FragmentSender PROVE Filled \in Frames /\ BufferFits'
  <2>1. a \in Of("single") \cup Of("end") /\ expect' = a + 1
    BY <1>1, <1>4, FragmentTaken DEF Released
  <2>2. OpenedWith(a)
    BY <1>1, <1>4, FragmentFilled
  <2> HIDE DEF a
  <2>3. BufferFits'
    <3>1. expect' - 1 = a
      BY <1>2, <2>1
    <3> QED
      BY <1>1, <2>1, <3>1, SenderSame DEF BufferFits
  <2>4. CASE a \in Of("single") /\ Filled = Run(a, a)
    BY <2>3, <2>4 DEF Frames, Of
  <2>5. CASE a \in Of("end") /\ \E i \in Of("start") :
               /\ i < a /\ Filled = Run(i, a)
               /\ \A k \in (i + 1)..(a - 1) : k \in Of("mid")
    <3>1. PICK i \in Of("start") :
             /\ i < a /\ Filled = Run(i, a)
             /\ \A k \in (i + 1)..(a - 1) : k \in Of("mid")
      BY <2>5
    <3>2. /\ i \in Ids /\ a \in Ids /\ Kind(i) = "start" /\ Kind(a) = "end"
          /\ \A k \in (i + 1)..(a - 1) : Kind(k) \in {"mid", "again"}
      BY <2>5, <3>1 DEF Of
    <3> DEFINE ij == <<i, a>>
    <3>3. /\ ij \in Ids \X Ids /\ ij[1] = i /\ ij[2] = a
      BY <3>2
    <3> HIDE DEF ij
    <3>4. Filled = Run(ij[1], ij[2])
      BY <3>1, <3>3
    <3>5. /\ ij[1] < ij[2] /\ Kind(ij[1]) = "start" /\ Kind(ij[2]) = "end"
          /\ \A k \in (ij[1] + 1)..(ij[2] - 1) : Kind(k) \in {"mid", "again"}
      BY <3>1, <3>2, <3>3
    <3>6. Filled \in Frames
      BY <3>3, <3>4, <3>5 DEF Frames
    <3> QED
      BY <2>3, <3>6
  <2> QED
    BY <2>1, <2>2, <2>3, <2>4, <2>5, OneKind DEF OpenedWith
<1>5. Filled \in Frames
  BY <1>3, <1>4, SenderKinds
<1> QED
  BY <1>1, <1>3, <1>4, <1>5, SenderSame DEF WholeInv

LEMMA ReadWhole ==
  ASSUME IInv, OrderInv, Running, WholeInv, NEW a \in Ids, NEW newSsrc \in BOOLEAN,
         NetworkRead(a, newSsrc), changes' = 0
  PROVE  WholeInv'
<1>1. /\ seen' /\ shape' = shape /\ out' = out
      /\ begins' = begins /\ completes' = completes
      /\ damaged' = damaged /\ buffer' = buffer
      /\ seen => expect' = expect
      /\ seen /\ queue # << >> /\ queue[1].id = expect =>
           queue' # << >> /\ queue'[1] = queue[1]
  BY ReadLemma DEF frameVars
<1>2. ~seen => Len(queue') = 1 /\ queue'[1].first /\ queue'[1].id = expect'
  BY ReadLemma
<1>3. ~seen => buffer = << >>
  BY DEF OrderInv, Fresh
<1>4. ASSUME FragmentSender PROVE BufferFits'
  <2>1. BufferFits
    BY <1>4 DEF WholeInv
  <2>2. CASE seen
    <3>1. FirstWaits => FirstWaits'
      BY <1>1, <2>2 DEF FirstWaits
    <3>2. Opened => Opened'
      BY <1>1, <2>2, SenderSame DEF Opened, Run
    <3> QED
      BY <1>1, <2>1, <2>2, <3>1, <3>2, SenderSame DEF BufferFits
  <2>3. CASE ~seen
    <3>1. queue' # << >>
      BY <1>2, <2>3, EmptySeq
    <3>2. FirstWaits'
      BY <1>2, <2>3, <3>1 DEF FirstWaits
    <3> QED
      BY <1>1, <1>3, <2>3, <3>2 DEF BufferFits
  <2> QED
    BY <2>2, <2>3
<1>5. AggregateSender => begins /\ completes /\ ~damaged /\ buffer = << >>
  BY DEF WholeInv
<1> QED
  BY <1>1, <1>4, <1>5, SenderSame DEF WholeInv

LEMMA InitWhole == Init => WholeInv
BY DEF Init, WholeInv, BufferFits

FrameInv == IInv /\ OrderInv /\ SendsWholeFrames(shape) /\ WholeInv /\ FramesWhole

LEMMA WholeStep == FrameInv /\ [Next]_vars => WholeInv'
<1> SUFFICES ASSUME IInv, OrderInv, SendsWholeFrames(shape), WholeInv, [Next]_vars, Running'
             PROVE  WholeInv'
  BY DEF FrameInv, WholeInv
<1>1. Running
  BY RunningBefore
<1>2. CASE LeaveLoop \/ AfterGetting \/ UNCHANGED vars
  <2>1. UNCHANGED <<shape, seen, queue, expect, begins, completes, damaged, buffer, out>>
    BY <1>2 DEF LeaveLoop, AfterGetting, vars, bufferVars, frameVars, historyVars
  <2>2. Opened' <=> Opened
    BY <2>1, SenderSame DEF Opened, Run
  <2>3. BufferFits' <=> BufferFits
    BY <2>1, <2>2, SenderSame DEF BufferFits, FirstWaits
  <2> QED
    BY <1>1, <2>1, <2>3, SenderSame DEF WholeInv
<1>3. ASSUME NEW a \in Ids, NEW newSsrc \in BOOLEAN, NetworkRead(a, newSsrc)
      PROVE  WholeInv'
  BY <1>1, <1>3, ReadWhole DEF Running
<1>4. CASE RejectPacket
  BY <1>1, <1>4, RejectWhole
<1>5. CASE UseFragment
  BY <1>1, <1>5, FragmentWhole
<1>6. CASE CompleteFrame
  BY <1>1, <1>6, CompleteWhole
<1>7. CASE StopGettingFrames
  BY <1>7 DEF StopGettingFrames, Running
<1> QED
  BY <1>2, <1>3, <1>4, <1>5, <1>6, <1>7 DEF Next, DoGetNextFrame1

LEMMA FramesStep == FrameInv /\ [Next]_vars => FramesWhole'
<1> SUFFICES ASSUME FrameInv, [Next]_vars, changes' = 0, out' # << >>
             PROVE  out' \in Frames'
  BY DEF FramesWhole
<1>1. CASE CompleteFrame
  <2>1. Running
    BY <1>1 DEF CompleteFrame, UsePacket, TakePacket, Running
  <2> QED
    BY <1>1, <2>1, CompleteWhole DEF FrameInv
<1>2. CASE ~CompleteFrame
  <2>1. out' = out
    BY <1>2 DEF Next, DoGetNextFrame1, NetworkRead, LeaveLoop, RejectPacket, UseFragment,
           AfterGetting, StopGettingFrames, vars, historyVars
  <2>2. changes = 0
    BY RunningBefore DEF FrameInv
  <2>3. Frames' = Frames
    BY RunningBefore, SenderStays DEF FrameInv
  <2> QED
    BY <2>1, <2>2, <2>3 DEF FrameInv, FramesWhole
<1> QED
  BY <1>1, <1>2

LEMMA FrameInvariance == Spec /\ SendsWholeFrames(shape) => []FrameInv
<1>1. Init /\ SendsWholeFrames(shape) => FrameInv
  BY InvInit, InitOrder, InitWhole DEF FrameInv, FramesWhole, Init
<1>2. FrameInv /\ [Next]_vars => FrameInv'
  <2> SUFFICES ASSUME FrameInv, [Next]_vars PROVE FrameInv'
    OBVIOUS
  <2>1. IInv' /\ OrderInv'
    BY TypeStep, BufferStep, OrderStep DEF IInv, FrameInv
  <2>2. SendsWholeFrames(shape)'
    BY RunningBefore, SenderStays DEF FrameInv
  <2>3. WholeInv'
    BY WholeStep
  <2>4. FramesWhole'
    BY FramesStep
  <2> QED
    BY <2>1, <2>2, <2>3, <2>4 DEF FrameInv
<1> QED
  BY <1>1, <1>2, PTL DEF Spec

(* Every frame the sink gets is one frame of the sender, whole: no piece   *)
(* missing, none of another frame.                                         *)
THEOREM Whole == Spec /\ SendsWholeFrames(shape) => []FramesWhole
<1>1. FrameInv => FramesWhole
  BY DEF FrameInv
<1> QED
  BY <1>1, FrameInvariance, PTL
-----------------------------------------------------------------------------
(* What is skipped is damaged *)

(* A frame of the sender lies in the packets from i to j.                  *)
Spans(i, j) ==
  \/ i = j /\ i \in Of("single") \cup Of("aggregate")
  \/ /\ i < j /\ i \in Of("start") /\ j \in Of("end")
     /\ \A k \in (i + 1)..(j - 1) : k \in Of("mid") \cup Of("again")

LEMMA FrameSpans ==
  ASSUME NEW f \in Frames
  PROVE  \E i, j \in Ids : /\ Spans(i, j) /\ i <= j
                           /\ f[1][1] = i /\ f[Len(f)][1] = j
                           /\ \A k \in i..j : \E n \in DOMAIN f : f[n][1] = k
<1>1. ASSUME NEW i \in Ids, NEW j \in Ids, i <= j, f = Run(i, j)
      PROVE  /\ f[1][1] = i /\ f[Len(f)][1] = j
             /\ \A k \in i..j : \E n \in DOMAIN f : f[n][1] = k
  <2>1. PICK n \in Nat : n = j - i
    BY <1>1 DEF Ids
  <2>2. i \in Nat /\ j \in Nat /\ j = i + n /\ j - i + 1 = n + 1
    BY <2>1 DEF Ids
  <2>3. f = [k \in 1..(n + 1) |-> <<i + k - 1, 1>>]
    BY <1>1, <2>2 DEF Run
  <2>4. DOMAIN f = 1..(n + 1) /\ \A k \in 1..(n + 1) : f[k][1] = i + k - 1
    BY <2>3
  <2>5. Len(f) = n + 1
    <3>1. f \in [1..(n + 1) -> Nat \X {1, 2}]
      BY <2>1, <2>2, <2>3
    <3>2. f \in Seq(Nat \X {1, 2})
      BY <2>1, <3>1, SeqDef
    <3>3. DOMAIN f = 1..Len(f) /\ Len(f) \in Nat
      BY <3>2, LenProperties
    <3> QED
      BY <2>1, <2>4, <3>3
  <2>6. 1 \in 1..(n + 1) /\ n + 1 \in 1..(n + 1) /\ i + 1 - 1 = i /\ i + (n + 1) - 1 = j
    BY <2>1, <2>2
  <2>7. f[1][1] = i /\ f[Len(f)][1] = j
    BY <2>4, <2>5, <2>6
  <2>8. ASSUME NEW k \in i..j PROVE \E m \in DOMAIN f : f[m][1] = k
    <3>1. k - i + 1 \in 1..(n + 1) /\ i + (k - i + 1) - 1 = k
      BY <2>1, <2>2
    <3> QED
      BY <2>4, <3>1
  <2> QED
    BY <2>7, <2>8
<1>2. CASE \E i \in Of("single") : f = Run(i, i)
  <2>1. PICK i \in Of("single") : f = Run(i, i)
    BY <1>2
  <2>2. i \in Ids /\ i <= i
    BY DEF Of, Ids
  <2> QED
    BY <1>1, <2>1, <2>2 DEF Spans
<1>3. CASE \E i \in Of("aggregate"), part \in {1, 2} : f = <<<<i, part>>>>
  <2>1. PICK i \in Of("aggregate"), part \in {1, 2} : f = <<<<i, part>>>>
    BY <1>3
  <2>2. i \in Ids /\ i <= i /\ \A k \in i..i : k = i
    BY DEF Of, Ids
  <2>3. DOMAIN f = {1} /\ Len(f) = 1 /\ f[1][1] = i
    BY <2>1
  <2> QED
    BY <2>1, <2>2, <2>3 DEF Spans
<1>4. CASE \E i, j \in Ids :
             /\ i < j /\ i \in Of("start") /\ j \in Of("end") /\ f = Run(i, j)
             /\ \A k \in (i + 1)..(j - 1) : k \in Of("mid") \cup Of("again")
  <2>1. PICK i \in Ids, j \in Ids :
             /\ i < j /\ i \in Of("start") /\ j \in Of("end") /\ f = Run(i, j)
             /\ \A k \in (i + 1)..(j - 1) : k \in Of("mid") \cup Of("again")
    BY <1>4
  <2>2. i <= j
    BY <2>1 DEF Ids
  <2>3. Spans(i, j)
    BY <2>1 DEF Spans
  <2> QED
    BY <1>1, <2>1, <2>2, <2>3
<1>5. \/ \E i \in Of("single") : f = Run(i, i)
      \/ \E i \in Of("aggregate"), part \in {1, 2} : f = <<<<i, part>>>>
      \/ \E i, j \in Ids :
           /\ i < j /\ i \in Of("start") /\ j \in Of("end") /\ f = Run(i, j)
           /\ \A k \in (i + 1)..(j - 1) : k \in Of("mid") \cup Of("again")
  <2>1. CASE f \in {Run(i, i) : i \in {k \in Ids : Kind(k) = "single"}}
    BY <2>1 DEF Of
  <2>2. CASE f \in {<<<<i, part>>>> : i \in {k \in Ids : Kind(k) = "aggregate"}, part \in {1, 2}}
    BY <2>2 DEF Of
  <2>3. CASE f \in {Run(ij[1], ij[2]) : ij \in
          {ij \in Ids \X Ids :
             /\ ij[1] < ij[2] /\ Kind(ij[1]) = "start" /\ Kind(ij[2]) = "end"
             /\ \A k \in (ij[1] + 1)..(ij[2] - 1) : Kind(k) \in {"mid", "again"}}}
    <3>1. PICK ij \in Ids \X Ids :
             /\ ij[1] < ij[2] /\ Kind(ij[1]) = "start" /\ Kind(ij[2]) = "end"
             /\ \A k \in (ij[1] + 1)..(ij[2] - 1) : Kind(k) \in {"mid", "again"}
             /\ f = Run(ij[1], ij[2])
      BY <2>3
    <3>2. PICK i \in Ids, j \in Ids : i = ij[1] /\ j = ij[2]
      OBVIOUS
    <3>3. /\ i < j /\ i \in Of("start") /\ j \in Of("end") /\ f = Run(i, j)
      BY <3>1, <3>2 DEF Of
    <3>4. \A k \in (i + 1)..(j - 1) : k \in Of("mid") \cup Of("again")
      <4> SUFFICES ASSUME NEW k \in (i + 1)..(j - 1) PROVE k \in Of("mid") \cup Of("again")
        OBVIOUS
      <4>1. k \in Ids
        BY <3>2, MaxIdAssumption DEF Ids
      <4>2. Kind(k) \in {"mid", "again"}
        BY <3>1, <3>2
      <4> QED
        BY <4>1, <4>2 DEF Of
    <3> QED
      BY <3>3, <3>4
  <2> QED
    BY <2>1, <2>2, <2>3 DEF Frames
<1> QED
  BY <1>2, <1>3, <1>4, <1>5

(* The source is amid the frame that begins with i.                        *)
Amid(i, j) == j >= expect /\ ~damaged /\ buffer # << >> /\ buffer[1][1] = i

SkipInv ==
  Running /\ out # << >> =>
    \A i, j \in Ids :
      Spans(i, j) /\ i > LastDelivered /\ i < expect
        => Amid(i, j) \/ \E k \in i..j : k \in lost

LEMMA SpansSame ==
  ASSUME shape' = shape
  PROVE  \A i, j : Spans(i, j)' <=> Spans(i, j)
<1>1. /\ Of("single")' = Of("single") /\ Of("aggregate")' = Of("aggregate")
      /\ Of("start")' = Of("start") /\ Of("end")' = Of("end")
      /\ Of("mid")' = Of("mid") /\ Of("again")' = Of("again")
  BY SenderStays DEF Kinds
<1> QED
  BY <1>1 DEF Spans

(* A frame that ends before the packet taken, and is not amid, or that the *)
(* packet taken is not the next packet of, is given up with it.            *)
LEMMA GivenUpLemma ==
  ASSUME IInv, OrderInv, Running, SkipInv, TakePacket, out # << >>,
         NEW i \in Ids, NEW j \in Ids, Spans(i, j), i > LastDelivered
  PROVE  \/ \E k \in i..j : k \in lost'
         \/ i = queue[1].id
         \/ i > queue[1].id
         \/ i < expect /\ queue[1].id = expect /\ Amid(i, j)
<1> DEFINE a == queue[1].id
<1>1. a \in Nat /\ expect \in Nat /\ expect <= a /\ GivenUp = expect..(a - 1)
  BY TakeLemma
<1>2. i \in Nat /\ j \in Nat /\ i <= j
  BY DEF Ids, Spans
<1>3. LastDelivered \in Nat
  BY LastPiece DEF LastDelivered, Ids
<1>4. lost' = {x \in lost \cup GivenUp : x > LastDelivered}
  BY DEF TakePacket
<1> HIDE DEF a
<1>5. ASSUME NEW k \in i..j, k \in lost \cup GivenUp PROVE k \in lost'
  BY <1>2, <1>3, <1>4, <1>5
<1>6. CASE i < expect
  <2>1. Amid(i, j) \/ \E k \in i..j : k \in lost
    BY <1>6 DEF SkipInv
  <2>2. CASE \E k \in i..j : k \in lost
    BY <1>5, <2>2
  <2>3. CASE Amid(i, j) /\ a # expect
    <3>1. expect \in i..j /\ expect \in GivenUp
      BY <1>1, <1>2, <1>6, <2>3 DEF Amid
    <3> QED
      BY <1>5, <3>1
  <2> QED
    BY <1>6, <2>1, <2>2, <2>3 DEF a
<1>7. CASE expect <= i /\ i < a
  <2>1. i \in i..j /\ i \in GivenUp
    BY <1>1, <1>2, <1>7
  <2> QED
    BY <1>5, <2>1
<1> QED
  BY <1>1, <1>2, <1>6, <1>7 DEF a

LEMMA RejectSkip ==
  ASSUME IInv, OrderInv, Running, WholeInv, SendsWholeFrames(shape), SkipInv, RejectPacket
  PROVE  SkipInv'
<1> DEFINE a == queue[1].id
<1>1. /\ TakePacket /\ DamagedNow /\ Released /\ out' = out /\ shape' = shape
  BY ReleaseLemma DEF RejectPacket, TakePacket
<1>2. FragmentSender
  BY <1>1, AggregateTaken, SenderKinds
<1>3. /\ a \in Nat /\ expect' = a + 1
      /\ PacketLossPreceded <=> a # expect \/ queue[1].first
  BY <1>1, TakeLemma DEF Released
<1>4. /\ a \notin Of("single") \cup Of("start")
      /\ queue[1].first => out = << >>
  BY <1>1, <1>2, FragmentTaken DEF DamagedNow
<1>5. ASSUME out # << >>, NEW i \in Ids, NEW j \in Ids, Spans(i, j),
             i > LastDelivered, i < expect'
      PROVE  \E k \in i..j : k \in lost'
  <2>1. \/ \E k \in i..j : k \in lost'
        \/ i = a
        \/ i > a
        \/ i < expect /\ a = expect /\ Amid(i, j)
    BY <1>1, <1>5, GivenUpLemma
  <2>2. i # a
    <3>1. i \in Of("single") \cup Of("aggregate") \cup Of("start")
      BY <1>5 DEF Spans
    <3>2. i \notin Of("aggregate")
      BY <1>2, OneKind DEF FragmentSender
    <3> QED
      BY <1>4, <3>1, <3>2
  <2>3. ~(i > a)
    BY <1>3, <1>5 DEF Ids
  <2>4. ~(a = expect /\ Amid(i, j))
    BY <1>1, <1>3, <1>4, <1>5 DEF Amid, DamagedNow
  <2> QED
    BY <2>1, <2>2, <2>3, <2>4
<1>6. LastDelivered' = LastDelivered
  BY <1>1 DEF LastDelivered
<1> QED
  BY <1>1, <1>5, <1>6, SpansSame DEF SkipInv, Ids

LEMMA FragmentSkip ==
  ASSUME IInv, OrderInv, Running, WholeInv, SendsWholeFrames(shape), SkipInv, UseFragment
  PROVE  SkipInv'
<1> DEFINE a == queue[1].id
<1>1. /\ TakePacket /\ ~DamagedNow /\ ~Flags.completes /\ out' = out /\ shape' = shape
      /\ buffer' = Filled /\ damaged' = DamagedNow /\ (Released \/ HalfUsed)
  BY UseLemma DEF UseFragment, UsePacket, TakePacket
<1>2. FragmentSender
  BY <1>1, AggregateTaken, SenderKinds
<1>3. a \in Nat /\ a \in Ids
  BY <1>1, TakeLemma
<1>4. a \notin Of("single") \cup Of("end") /\ expect' = a + 1
  BY <1>1, <1>2, FragmentTaken DEF Released
<1>5. OpenedWith(a)
  BY <1>1, <1>2, FragmentFilled
<1>6. /\ Filled # << >>
      /\ Filled[1] = IF BufferNow = << >> THEN <<a, queue[1].used + 1>> ELSE buffer[1]
  BY <1>1, FilledLemma
<1> HIDE DEF a
<1>7. ASSUME out # << >>, NEW i \in Ids, NEW j \in Ids, Spans(i, j),
             i > LastDelivered, i < expect'
      PROVE  \/ j >= expect' /\ Filled[1][1] = i
             \/ \E k \in i..j : k \in lost'
  <2>1. \/ \E k \in i..j : k \in lost'
        \/ i = a
        \/ i > a
        \/ i < expect /\ a = expect /\ Amid(i, j)
    BY <1>1, <1>7, GivenUpLemma DEF a
  <2>2. i \in Nat /\ j \in Nat /\ ~(i > a)
    BY <1>3, <1>4, <1>7 DEF Ids
  <2>3. CASE i = a
    <3>1. i # j /\ i < j /\ a \in Of("start")
      <4>1. a \notin Of("single") \cup Of("aggregate")
        BY <1>2, <1>3, <1>4, OneKind DEF FragmentSender
      <4> QED
        BY <1>7, <2>2, <2>3, <4>1 DEF Spans
    <3>2. Filled = Run(a, a)
      BY <1>5, <3>1, OneKind DEF OpenedWith
    <3>3. Filled[1] = <<a, 1>>
      <4>1. a <= a
        BY <1>3
      <4> QED
        BY <1>3, <3>2, <4>1, RunExtended
    <3> QED
      BY <1>3, <1>4, <2>2, <2>3, <3>1, <3>3
  <2>4. CASE i < expect /\ a = expect /\ Amid(i, j)
    <3>1. i < a /\ a <= j
      BY <2>4 DEF Amid
    <3>2. /\ i < j /\ j \in Of("end")
          /\ \A k \in (i + 1)..(j - 1) : k \in Of("mid") \cup Of("again")
      BY <1>3, <1>7, <2>2, <3>1 DEF Spans
    <3>3. a < j /\ a \in Of("mid") \cup Of("again")
      <4>1. a # j
        BY <1>4, <3>2
      <4>2. a \in (i + 1)..(j - 1) /\ a < j
        BY <1>3, <2>2, <3>1, <4>1
      <4> QED
        BY <3>2, <4>2
    <3>4. a \notin Of("single") \cup Of("start")
      BY <3>3 DEF Of
    <3>5. BufferNow = buffer /\ buffer # << >>
      BY <1>5, <3>4 DEF OpenedWith
    <3>6. Filled[1][1] = i
      BY <1>6, <2>4, <3>5 DEF Amid
    <3> QED
      BY <1>3, <1>4, <2>2, <3>3, <3>6
  <2> QED
    BY <2>1, <2>2, <2>3, <2>4
<1>8. LastDelivered' = LastDelivered
  BY <1>1 DEF LastDelivered
<1>9. \A i, j : j >= expect' /\ Filled[1][1] = i => Amid(i, j)'
  BY <1>1, <1>6 DEF Amid
<1> QED
  BY <1>1, <1>7, <1>8, <1>9, SpansSame DEF SkipInv, Ids

LEMMA CompleteSkip ==
  ASSUME IInv, OrderInv, Running, CompleteFrame
  PROVE  SkipInv'
<1> DEFINE a == queue[1].id
<1>1. TakePacket /\ out' = Filled /\ (Released \/ HalfUsed)
  BY UseLemma DEF CompleteFrame, UsePacket
<1>2. a \in Nat /\ expect' \in Nat /\ expect' <= a + 1
  BY <1>1, TakeLemma DEF Released, HalfUsed
<1>3. Filled # << >> /\ Filled[Len(Filled)][1] = a
  BY <1>1, FilledLemma
<1> HIDE DEF a
<1>4. LastDelivered' = a
  BY <1>1, <1>3 DEF LastDelivered
<1>5. \A i \in Ids : ~(i > a /\ i < expect')
  BY <1>2 DEF Ids
<1> QED
  BY <1>4, <1>5 DEF SkipInv, Ids

LEMMA SkipStep == FrameInv /\ SkipInv /\ [Next]_vars => SkipInv'
<1> SUFFICES ASSUME IInv, OrderInv, SendsWholeFrames(shape), WholeInv, SkipInv,
                    [Next]_vars, Running'
             PROVE  SkipInv'
  BY DEF FrameInv, SkipInv
<1>1. Running /\ shape' = shape
  BY RunningBefore
<1>2. CASE LeaveLoop \/ AfterGetting \/ UNCHANGED vars
  <2>1. UNCHANGED <<expect, damaged, buffer, lost, out>>
    BY <1>2 DEF LeaveLoop, AfterGetting, vars, bufferVars, frameVars, historyVars
  <2> QED
    BY <1>1, <2>1, SpansSame DEF SkipInv, Amid, LastDelivered, Ids
<1>3. ASSUME NEW a \in Ids, NEW newSsrc \in BOOLEAN, NetworkRead(a, newSsrc)
      PROVE  SkipInv'
  <2>1. /\ UNCHANGED <<damaged, buffer, lost, out>>
        /\ seen => expect' = expect
    BY <1>3, ReadLemma DEF Running, frameVars
  <2>2. out # << >> => expect' = expect
    BY <1>1, <2>1 DEF OrderInv, Fresh
  <2> QED
    BY <1>1, <2>1, <2>2, SpansSame DEF SkipInv, Amid, LastDelivered, Ids
<1>4. CASE RejectPacket
  BY <1>1, <1>4, RejectSkip
<1>5. CASE UseFragment
  BY <1>1, <1>5, FragmentSkip
<1>6. CASE CompleteFrame
  BY <1>1, <1>6, CompleteSkip
<1>7. CASE StopGettingFrames
  BY <1>7 DEF StopGettingFrames, Running
<1> QED
  BY <1>2, <1>3, <1>4, <1>5, <1>6, <1>7 DEF Next, DoGetNextFrame1

(* A frame is skipped only if a packet of it was given up: what the source *)
(* rejects after a loss never takes an undamaged frame with it.            *)
THEOREM OnlyDamagedSkipped == Spec /\ SendsWholeFrames(shape) => OnlyDamagedFramesSkipped
<1> DEFINE Skips ==
      changes' = 0 /\ delivered' # delivered /\ out # << >> =>
        \A f \in Frames :
          f[1][1] > out[Len(out)][1] /\ f[Len(f)][1] < out'[1][1]
            => \E i \in DOMAIN f : f[i][1] \in lost'
<1>1. FrameInv /\ SkipInv /\ [Next]_vars => [Skips]_vars
  <2> SUFFICES ASSUME FrameInv, SkipInv, Next, changes' = 0, delivered' # delivered, out # << >>,
                      NEW f \in Frames,
                      f[1][1] > out[Len(out)][1], f[Len(f)][1] < out'[1][1]
               PROVE  \E i \in DOMAIN f : f[i][1] \in lost'
    OBVIOUS
  <2> DEFINE a == queue[1].id
  <2>1. CompleteFrame
    BY DEF Next, DoGetNextFrame1, NetworkRead, LeaveLoop, RejectPacket, UseFragment,
           AfterGetting, StopGettingFrames, historyVars
  <2>2. TakePacket /\ out' = Filled
    BY <2>1 DEF CompleteFrame, UsePacket
  <2>3. IInv /\ OrderInv /\ Running
    BY <2>2 DEF FrameInv, Running, TakePacket
  <2>4. PICK i \in Ids, j \in Ids :
           /\ Spans(i, j) /\ i <= j /\ f[1][1] = i /\ f[Len(f)][1] = j
           /\ \A k \in i..j : \E n \in DOMAIN f : f[n][1] = k
    BY FrameSpans
  <2>5. /\ i \in Nat /\ j \in Nat /\ i > LastDelivered /\ j < Filled[1][1]
        /\ a \in Nat /\ expect \in Nat /\ expect <= a
    BY <2>2, <2>3, <2>4, TakeLemma DEF LastDelivered, Ids
  <2>6. Filled[1][1] \in Nat /\ Filled[1][1] <= a
    <3>1. \/ Filled[1] = <<a, queue[1].used + 1>>
          \/ buffer # << >> /\ Filled[1] = buffer[1]
      BY <2>2, <2>3, FilledLemma
    <3>2. CASE Filled[1] = <<a, queue[1].used + 1>>
      BY <2>5, <3>2
    <3>3. CASE buffer # << >> /\ Filled[1] = buffer[1]
      <4>1. Passed(buffer[1]) /\ buffer[1] \in Ids \X {1, 2}
        BY <2>2, <2>3, <3>3, FilledLemma DEF OrderInv, FramesLater
      <4>2. buffer[1][1] \in Nat
        BY <4>1 DEF Ids
      <4> QED
        BY <2>5, <3>3, <4>1, <4>2 DEF Passed
    <3> QED
      BY <3>1, <3>2, <3>3
  <2>7. j < a
    BY <2>5, <2>6
  <2>8. \E k \in i..j : k \in lost'
    <3>1. \/ \E k \in i..j : k \in lost'
          \/ i = a
          \/ i > a
          \/ i < expect /\ a = expect /\ Amid(i, j)
      BY <2>2, <2>3, <2>4, <2>5, GivenUpLemma
    <3> QED
      BY <2>4, <2>5, <2>7, <3>1 DEF Amid
  <2> QED
    BY <2>4, <2>8
<1>2. Init => SkipInv
  BY DEF Init, SkipInv
<1> QED
  BY <1>1, <1>2, SkipStep, FrameInvariance, PTL DEF Spec, OnlyDamagedFramesSkipped
=============================================================================
