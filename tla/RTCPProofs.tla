----------------------------- MODULE RTCPProofs -----------------------------
(***************************************************************************)
(* Proofs about RTCP, for any set of participants, reaping period and      *)
(* report intervals.                                                       *)
(***************************************************************************)
EXTENDS RTCP, Extrema, SequenceTheorems, TLAPS

USE BoundsAssumption

-----------------------------------------------------------------------------
(* The inductive invariant *)

(* One timer for the next report; time since the last report is never      *)
(* overestimated.                                                          *)
TimesOK ==
  /\ closed => timers = << >>
  /\ ~closed =>
       /\ Len(timers) = 1
       /\ timers[1] <= wait
       /\ wait - (MaxSetback - budget.setbacks) <= timers[1]
       /\ elapsed + wait <= Longest
  /\ elapsed <= since
  /\ elapsed >= -(MaxSetback - budget.setbacks)

(* A member that was due at the last reaping is gone.                      *)
AgesOK == \A s \in SSRCs : age[s] <= ReapPeriod + phase

(* Who sent media has a record until it is reaped, which takes a report.   *)
FreshOK == fresh \subseteq stats

IInv == TypeOK /\ TimesOK /\ AgesOK /\ FreshOK

(* How far the instance's time since the last report may lag behind.       *)
LagOK == since - elapsed <= Longest * shrinks + (MaxSetback - budget.setbacks)

LEMMA Extremes ==
  /\ Longest \in Nat \ {0}
  /\ \A t \in Intervals \cup InitialIntervals : t \in Nat \ {0} /\ t <= Longest
  /\ ShortestOf(Intervals) \in Nat
  /\ \A t \in Intervals : ShortestOf(Intervals) <= t
  /\ ShortestOf(InitialIntervals) \in Nat
  /\ \A t \in InitialIntervals : ShortestOf(InitialIntervals) <= t
<1> DEFINE S == Intervals \cup InitialIntervals
<1>1. S \subseteq Nat \ {0} /\ IsFiniteSet(S) /\ S # {} /\ S \subseteq Int
  <2>1. IsFiniteSet(Intervals) /\ IsFiniteSet(InitialIntervals)
    BY IntervalsAssumption
  <2>2. IsFiniteSet(S)
    BY <2>1, FS_Union
  <2>3. S \subseteq Nat \ {0} /\ S # {}
    BY IntervalsAssumption
  <2> QED
    BY <2>2, <2>3
<1>2. \E n \in S : \A m \in S : m <= n
  <2> HIDE DEF S
  <2> QED
    BY <1>1, GreatestExists
<1>3. LongestOf(S) \in S /\ \A m \in S : m <= LongestOf(S)
  BY <1>2 DEF LongestOf
<1>4. \A T : T \subseteq Nat /\ T # {} =>
        ShortestOf(T) \in Nat /\ \A m \in T : ShortestOf(T) <= m
  <2> SUFFICES ASSUME NEW T, T \subseteq Nat, T # {}
               PROVE  ShortestOf(T) \in Nat /\ \A m \in T : ShortestOf(T) <= m
    OBVIOUS
  <2>1. \E n \in T : \A m \in T : n <= m
    BY LeastExists
  <2> QED
    BY <2>1 DEF ShortestOf
<1> QED
  BY <1>1, <1>3, <1>4, IntervalsAssumption DEF Longest

LEMMA Group ==
  ASSUME NEW T \in SUBSET SSRCs
  PROVE  /\ Cardinality(T) \in Nat /\ Cardinality(T) <= Cardinality(SSRCs)
         /\ Cardinality(SSRCs) \in Nat
         /\ \A s \in T : Cardinality(T) >= 1
<1>1. IsFiniteSet(T) /\ Cardinality(T) <= Cardinality(SSRCs)
  BY SSRCsAssumption, FS_Subset
<1>2. Cardinality(T) \in Nat /\ Cardinality(SSRCs) \in Nat
  BY <1>1, SSRCsAssumption, FS_CardinalityType
<1>3. ASSUME NEW s \in T PROVE Cardinality(T) >= 1
  <2>1. Cardinality(T \ {s}) = Cardinality(T) - 1
    BY <1>1, FS_RemoveElement
  <2>2. IsFiniteSet(T \ {s})
    BY <1>1, FS_RemoveElement
  <2>3. Cardinality(T \ {s}) \in Nat
    BY <2>2, FS_CardinalityType
  <2> QED
    BY <1>2, <2>1, <2>3
<1> QED
  BY <1>1, <1>2, <1>3

(* A time scaled down: not longer, and not further in the past.            *)
LEMMA ScaledLemma ==
  ASSUME prevMembers \in Nat, NEW left \in Nat, left < prevMembers,
         NEW t \in Int
  PROVE  /\ Scaled(t, left) \in Int
         /\ prevMembers * Scaled(t, left) <= t * left
         /\ t >= 0 => Scaled(t, left) \in 0..t
         /\ t <= 0 => Scaled(t, left) \in t..0
<1> DEFINE p == prevMembers
           q == Scaled(t, left)
<1>1. p \in Nat /\ p > 0 /\ t * left \in Int
  OBVIOUS
<1>2. q \in Int /\ t * left = p * q + ((t * left) % p) /\ ((t * left) % p) \in 0..(p - 1)
  BY <1>1 DEF Scaled
<1> HIDE DEF q
<1>3. p * q <= t * left /\ t * left < p * q + p
  <2>1. p * q \in Int
    BY <1>1, <1>2
  <2> QED
    BY <1>1, <1>2, <2>1
<1>4. CASE t >= 0
  <2>1. t * left >= 0 /\ t * left <= p * t
    BY <1>1, <1>4
  <2>2. q >= 0 /\ q <= t
    BY <1>1, <1>2, <1>3, <2>1
  <2> QED
    BY <1>1, <1>2, <1>3, <1>4, <2>2 DEF q
<1>5. CASE t <= 0
  <2>1. t * left <= 0 /\ t * left >= p * t
    BY <1>1, <1>5
  <2>2. q <= 0 /\ q >= t
    BY <1>1, <1>2, <1>3, <2>1
  <2> QED
    BY <1>1, <1>2, <1>3, <1>5, <2>2 DEF q
<1> QED
  BY <1>4, <1>5

(* Two times scaled down have not a longer sum.                            *)
LEMMA ScaledSum ==
  ASSUME prevMembers \in Nat, NEW left \in Nat, left < prevMembers,
         NEW t \in Int, NEW u \in Int, NEW L \in Nat, t + u <= L
  PROVE  Scaled(t, left) + Scaled(u, left) <= L
<1> DEFINE p == prevMembers
           x == Scaled(t, left)
           y == Scaled(u, left)
<1>1. /\ x \in Int /\ y \in Int /\ p \in Nat /\ p > 0
      /\ p * x <= t * left /\ p * y <= u * left
  <2>1. x \in Int /\ p * x <= t * left
    BY ScaledLemma
  <2>2. y \in Int /\ p * y <= u * left
    BY ScaledLemma
  <2>3. p \in Nat /\ p > 0
    OBVIOUS
  <2> HIDE DEF x, y
  <2> QED
    BY <2>1, <2>2, <2>3
<1> HIDE DEF x, y
<1>2. t * left + u * left = (t + u) * left
  OBVIOUS
<1>3. (t + u) * left <= L * left /\ L * left <= L * p
  OBVIOUS
<1>4. p * (x + y) = p * x + p * y
  BY <1>1
<1>5. p * (x + y) <= p * L
  BY <1>1, <1>2, <1>3, <1>4
<1>6. x + y <= L
  BY <1>1, <1>5
<1> QED
  BY <1>6 DEF x, y

(* A list of one timer.                                                    *)
LEMMA OneTimer ==
  ASSUME NEW f \in Seq(0..(Longest + MaxSetback)), Len(f) = 1
  PROVE  /\ DOMAIN f = {1} /\ f[1] \in 0..(Longest + MaxSetback)
         /\ SubSeq(f, 1, Len(f) - 1) = << >>
         /\ SubSeq(f, 1, 1 - 1) \o SubSeq(f, 1 + 1, Len(f)) = << >>
<1>1. DOMAIN f = 1..1 /\ f[1] \in 0..(Longest + MaxSetback)
  <2>1. DOMAIN f = 1..Len(f) /\ 1 \in 1..Len(f)
    BY LenProperties
  <2> QED
    BY <2>1, ElementOfSeq
<1>2. SubSeq(f, 1, 0) = << >> /\ SubSeq(f, 2, 1) = << >>
  BY SubSeqEmpty
<1>3. << >> \o << >> = << >>
  BY EmptySeq, ConcatEmptySeq
<1> QED
  BY <1>1, <1>2, <1>3

LEMMA ScheduleLemma ==
  ASSUME NEW t \in Int, t <= Longest + MaxSetback, Schedule(<< >>, t)
  PROVE  /\ wait' = t
         /\ timers' \in Seq(0..(Longest + MaxSetback))
         /\ Len(timers') = 1
         /\ timers'[1] = IF t < 0 THEN 0 ELSE t
<1> DEFINE e == IF t < 0 THEN 0 ELSE t
           T == 0..(Longest + MaxSetback)
<1>1. e \in T
  BY Extremes
<1>2. wait' = t /\ timers' = Append(<< >>, e)
  BY DEF Schedule
<1> HIDE DEF e
<1>3. /\ Append(<< >>, e) \in Seq(T)
      /\ Len(Append(<< >>, e)) = Len(<< >>) + 1
      /\ Append(<< >>, e)[Len(<< >>) + 1] = e
  BY <1>1, EmptySeq, AppendProperties
<1> HIDE DEF T
<1>4. Len(<< >>) = 0
  BY EmptySeq
<1> QED
  BY <1>2, <1>3, <1>4 DEF e, T

-----------------------------------------------------------------------------
(* The invariant is inductive *)

Ticks == 0..(Longest + MaxSetback)

LEMMA Facts ==
  ASSUME IInv
  PROVE  /\ elapsed \in Int /\ wait \in Nat /\ since \in Nat /\ Longest \in Nat \ {0}
         /\ phase \in 0..(ReapPeriod - 1) /\ ReapPeriod \in Nat \ {0}
         /\ prevMembers \in Nat \ {0} /\ prevMembers <= Cardinality(SSRCs) + 1
         /\ members \in SUBSET SSRCs
         /\ timers \in Seq(Ticks)
         /\ budget.setbacks \in 0..MaxSetback /\ budget.byes \in 0..MaxByes
         /\ ~closed => /\ Len(timers) = 1
                       /\ DOMAIN timers = {1} /\ timers[1] \in Ticks
                       /\ SubSeq(timers, 1, Len(timers) - 1) = << >>
                       /\ WithoutTimer(1) = << >>
<1>1. TypeOK /\ timers \in Seq(Ticks)
  BY DEF IInv, TypeOK, Ticks
<1>2. Cardinality(SSRCs) \in Nat
  BY Group
<1>3. ~closed => /\ Len(timers) = 1
                 /\ DOMAIN timers = {1} /\ timers[1] \in Ticks
                 /\ SubSeq(timers, 1, Len(timers) - 1) = << >>
                 /\ WithoutTimer(1) = << >>
  BY <1>1, OneTimer DEF IInv, TimesOK, WithoutTimer, Ticks
<1> QED
  BY <1>1, <1>2, <1>3, Extremes, PeriodAssumption DEF TypeOK

LEMMA InvInit == Init => IInv
<1> SUFFICES ASSUME Init PROVE IInv
  OBVIOUS
<1>1. wait \in Nat \ {0} /\ wait <= Longest /\ Longest \in Nat
  BY Extremes DEF Init
<1>2. timers = <<wait>> /\ <<wait>> \in Seq(Ticks) /\ Len(<<wait>>) = 1 /\ <<wait>>[1] = wait
  <2>1. wait \in Ticks
    BY <1>1 DEF Ticks
  <2> QED
    BY <2>1 DEF Init
<1>3. phase \in 0..(ReapPeriod - 1) /\ ReapPeriod \in Nat \ {0}
  BY PeriodAssumption DEF Init
<1>4. Cardinality(SSRCs) \in Nat
  BY Group
<1>5. TypeOK
  <2>1. age \in [SSRCs -> 0..(2 * ReapPeriod - 1)]
    BY <1>3 DEF Init
  <2>2. prevMembers \in 1..(Cardinality(SSRCs) + 1)
    BY <1>4 DEF Init
  <2>3. /\ elapsed \in (-MaxSetback)..Longest /\ wait \in 0..(Longest + MaxSetback)
    BY <1>1 DEF Init
  <2>4. budget \in [byes : 0..MaxByes, setbacks : 0..MaxSetback]
    BY DEF Init
  <2>5. since \in Nat /\ shrinks \in Nat /\ sent \in 0..1
    BY DEF Init
  <2> QED
    BY <1>2, <1>3, <2>1, <2>2, <2>3, <2>4, <2>5 DEF Init, TypeOK, Ticks
<1>6. TimesOK
  BY <1>1, <1>2 DEF Init, TimesOK
<1>7. AgesOK /\ FreshOK
  BY <1>3 DEF Init, AgesOK, FreshOK
<1> QED
  BY <1>5, <1>6, <1>7 DEF IInv

(* The ages after a report.                                                *)
LEMMA ReportAges ==
  ASSUME IInv, SendReport
  PROVE  /\ phase' \in 0..(ReapPeriod - 1)
         /\ members' \in SUBSET SSRCs /\ stats' \in SUBSET SSRCs
         /\ age' \in [SSRCs -> 0..(2 * ReapPeriod - 1)]
         /\ AgesOK'
<1>1. /\ phase \in 0..(ReapPeriod - 1) /\ ReapPeriod \in Nat \ {0}
      /\ \A s \in SSRCs : age[s] \in Nat /\ age[s] <= ReapPeriod + phase
  BY Facts DEF IInv, TypeOK, AgesOK
<1>2. phase' = IF phase + 1 = ReapPeriod THEN 0 ELSE phase + 1
  <2>1. CASE phase + 1 = ReapPeriod
    <3>1. ReapPeriod % ReapPeriod = 0
      BY <1>1
    <3> QED
      BY <2>1, <3>1 DEF SendReport
  <2>2. CASE phase + 1 # ReapPeriod
    <3>1. phase + 1 \in 0..(ReapPeriod - 1)
      BY <1>1, <2>2
    <3>2. (phase + 1) % ReapPeriod = phase + 1
      BY <1>1, <3>1
    <3> QED
      BY <2>2, <3>2 DEF SendReport
  <2> QED
    BY <2>1, <2>2
<1>3. members' \in SUBSET SSRCs /\ stats' \in SUBSET SSRCs
  BY DEF SendReport, IInv, TypeOK
<1>4. \A s \in SSRCs :
        age'[s] = IF s \notin members' THEN 0
                  ELSE IF age[s] < 2 * ReapPeriod THEN age[s] + 1 ELSE age[s]
  BY DEF SendReport
<1>5. ASSUME NEW s \in SSRCs
      PROVE  age'[s] \in 0..(2 * ReapPeriod - 1) /\ age'[s] <= ReapPeriod + phase'
  <2>1. CASE s \notin members'
    BY <1>1, <1>2, <1>4, <2>1
  <2>2. CASE s \in members' /\ phase' = 0
    <3>1. s \in members /\ s \notin OldMembers
      BY <2>2 DEF SendReport
    <3>2. age[s] + 1 <= ReapPeriod
      BY <1>1, <3>1 DEF OldMembers
    <3> QED
      BY <1>1, <1>4, <2>2, <3>2
  <2>3. CASE s \in members' /\ phase' # 0
    <3>1. phase' = phase + 1 /\ phase + 1 < ReapPeriod
      BY <1>1, <1>2, <2>3
    <3> QED
      BY <1>1, <1>4, <2>3, <3>1
  <2> QED
    BY <2>1, <2>2, <2>3
<1>6. age' \in [SSRCs -> 0..(2 * ReapPeriod - 1)]
  <2>1. age' = [s \in SSRCs |-> age'[s]]
    BY DEF SendReport
  <2> QED
    BY <1>5, <2>1
<1>7. phase' \in 0..(ReapPeriod - 1)
  BY <1>1, <1>2
<1> QED
  BY <1>3, <1>5, <1>6, <1>7 DEF AgesOK

LEMMA ExpireStep == ASSUME IInv, OnExpire PROVE IInv'
<1>1. ~closed /\ ~closed' /\ byeHandler' \in BOOLEAN /\ closed' \in BOOLEAN /\ budget' = budget
  BY DEF OnExpire, IInv, TypeOK
<1>2. PICK t \in IntervalsNow :
        \/ /\ t <= elapsed
           /\ SendReport
           /\ elapsed' = 0
           /\ \E u \in IntervalsNow : Schedule(<< >>, u)
           /\ initial' = FALSE
        \/ /\ t > elapsed
           /\ Schedule(<< >>, t - elapsed)
           /\ UNCHANGED <<members, age, phase, stats, elapsed, initial, fresh, reportVars>>
  <2>1. \A i \in DOMAIN timers : WithoutTimer(i) = << >>
    BY <1>1, Facts
  <2> QED
    BY <2>1 DEF OnExpire
<1>3. \A u \in IntervalsNow : u \in Nat \ {0} /\ u <= Longest
  BY Extremes DEF IntervalsNow
<1>4. prevMembers' \in 1..(Cardinality(SSRCs) + 1)
  <2>1. Cardinality(members) \in Nat /\ Cardinality(members) <= Cardinality(SSRCs)
        /\ Cardinality(SSRCs) \in Nat
    BY Facts, Group
  <2> QED
    BY <2>1 DEF OnExpire, NumMembers
<1>5. budget' \in [byes : 0..MaxByes, setbacks : 0..MaxSetback]
  BY <1>1 DEF IInv, TypeOK
<1>6. CASE /\ t <= elapsed
           /\ SendReport
           /\ elapsed' = 0
           /\ \E u \in IntervalsNow : Schedule(<< >>, u)
           /\ initial' = FALSE
  <2>1. PICK u \in IntervalsNow : Schedule(<< >>, u)
    BY <1>6
  <2>2. u \in Nat \ {0} /\ u <= Longest /\ Longest \in Nat /\ u \in Int /\ u <= Longest + MaxSetback
    BY <1>3, Facts
  <2>3. /\ wait' = u /\ timers' \in Seq(Ticks) /\ Len(timers') = 1
        /\ timers'[1] = u
    BY <2>1, <2>2, ScheduleLemma DEF Ticks
  <2>4. fresh' = {} /\ since' = 0 /\ shrinks' = 0 /\ sent' \in 0..1
    BY <1>6 DEF SendReport, IInv, TypeOK
  <2>5. TimesOK'
    BY SMTT(30), <1>1, <1>6, <2>2, <2>3, <2>4, Facts DEF TimesOK
  <2>6. /\ elapsed' \in (-MaxSetback)..Longest /\ wait' \in 0..(Longest + MaxSetback)
    BY <1>6, <2>2, <2>3, <2>4
  <2>7. TypeOK'
    BY <1>1, <1>4, <1>5, <1>6, <2>3, <2>4, <2>6, ReportAges DEF TypeOK, Ticks
  <2>8. FreshOK'
    BY <2>4 DEF FreshOK
  <2> QED
    BY <1>6, <2>5, <2>7, <2>8, ReportAges DEF IInv
<1>7. CASE /\ t > elapsed
           /\ Schedule(<< >>, t - elapsed)
           /\ UNCHANGED <<members, age, phase, stats, elapsed, initial, fresh, reportVars>>
  <2>1. /\ elapsed \in Int /\ elapsed >= -(MaxSetback - budget.setbacks)
        /\ budget.setbacks \in 0..MaxSetback
        /\ t \in Nat /\ t <= Longest /\ Longest \in Nat
    BY <1>3, Facts DEF IInv, TimesOK
  <2>2. t - elapsed \in Nat /\ t - elapsed <= Longest + MaxSetback /\ t - elapsed > 0
    BY <1>7, <2>1
  <2>3. /\ wait' = t - elapsed /\ timers' \in Seq(Ticks) /\ Len(timers') = 1
        /\ timers'[1] = t - elapsed
    BY <1>7, <2>2, ScheduleLemma DEF Ticks
  <2>4. TimesOK'
    <3>1. elapsed' = elapsed /\ since' = since /\ elapsed <= since
      BY <1>7 DEF IInv, TimesOK, reportVars
    <3>2. wait' \in Int /\ elapsed + wait' <= Longest
      BY <2>1, <2>2, <2>3
    <3> QED
      BY <1>1, <2>1, <2>2, <2>3, <3>1, <3>2 DEF TimesOK
  <2>5. wait' \in 0..(Longest + MaxSetback)
    BY <2>1, <2>2, <2>3
  <2>6. TypeOK'
    BY <1>1, <1>4, <1>5, <1>7, <2>3, <2>5 DEF TypeOK, IInv, Ticks, reportVars
  <2>7. AgesOK' /\ FreshOK'
    BY <1>7 DEF IInv, AgesOK, FreshOK
  <2> QED
    BY <2>4, <2>6, <2>7 DEF IInv
<1> QED
  BY <1>2, <1>6, <1>7

(* Membership after a report or a BYE.                                     *)
LEMMA NoteLemma ==
  ASSUME IInv, NEW s \in SSRCs, UNCHANGED phase,
         members' \in {members \cup {s}, members \ {s}},
         age' = [age EXCEPT ![s] = 0]
  PROVE  /\ members' \in SUBSET SSRCs
         /\ age' \in [SSRCs -> 0..(2 * ReapPeriod - 1)]
         /\ AgesOK'
<1>1. ReapPeriod \in Nat \ {0} /\ phase \in Nat
  BY Facts
<1>2. age \in [SSRCs -> 0..(2 * ReapPeriod - 1)] /\ members \in SUBSET SSRCs
  BY DEF IInv, TypeOK
<1>3. 0 \in 0..(2 * ReapPeriod - 1) /\ 0 <= ReapPeriod + phase
  BY <1>1
<1> QED
  BY <1>2, <1>3 DEF IInv, AgesOK

LEMMA ByeStep ==
  ASSUME IInv, ~closed, NEW s \in SSRCs, OnReceiveBye(s), UNCHANGED phase
  PROVE  /\ members' \in SUBSET SSRCs
         /\ age' \in [SSRCs -> 0..(2 * ReapPeriod - 1)]
         /\ AgesOK'
         /\ prevMembers' \in 1..(Cardinality(SSRCs) + 1)
         /\ since' = since /\ shrinks' \in Nat /\ sent' \in 0..1
         /\ timers' \in Seq(Ticks) /\ Len(timers') = 1
         /\ elapsed' \in Int /\ wait' \in Nat
         /\ timers'[1] <= wait'
         /\ wait' - (MaxSetback - budget.setbacks) <= timers'[1]
         /\ elapsed' + wait' <= Longest
         /\ elapsed' <= since
         /\ elapsed' >= -(MaxSetback - budget.setbacks)
<1> DEFINE left == IF s \in members THEN NumMembers - 1 ELSE NumMembers
           d == MaxSetback - budget.setbacks
<1>1. /\ elapsed \in Int /\ wait \in Nat /\ since \in Nat /\ Longest \in Nat \ {0}
      /\ prevMembers \in Nat \ {0} /\ prevMembers <= Cardinality(SSRCs) + 1
      /\ Cardinality(SSRCs) \in Nat
      /\ d \in 0..MaxSetback
      /\ timers \in Seq(Ticks) /\ Len(timers) = 1 /\ timers[1] \in Int
      /\ SubSeq(timers, 1, Len(timers) - 1) = << >>
  BY SMTT(30), Facts, Group DEF Ticks
<1>2. /\ timers[1] <= wait /\ wait - d <= timers[1]
      /\ elapsed + wait <= Longest /\ elapsed <= since /\ elapsed >= -d
  BY DEF IInv, TimesOK
<1>3. members' \in SUBSET SSRCs /\ age' \in [SSRCs -> 0..(2 * ReapPeriod - 1)] /\ AgesOK'
  <2>1. members' \in {members \cup {s}, members \ {s}} /\ age' = [age EXCEPT ![s] = 0]
    BY DEF OnReceiveBye, NoteMembership
  <2> QED
    BY <2>1, NoteLemma
<1>4. left \in Nat \ {0}
  <2>1. Cardinality(members) \in Nat /\ (s \in members => Cardinality(members) >= 1)
    BY Facts, Group
  <2> QED
    BY <2>1 DEF NumMembers
<1>5. since' = since /\ shrinks' \in Nat /\ sent' \in 0..1
  BY DEF OnReceiveBye, IInv, TypeOK
<1>6. CASE left < prevMembers
  <2> DEFINE e == Scaled(elapsed, left)
             w == Scaled(wait, left)
  <2>1. /\ elapsed' = e /\ prevMembers' = left
        /\ Schedule(<< >>, w)
    BY <1>1, <1>6 DEF OnReceiveBye, Reschedule
  <2> HIDE DEF left
  <2>02. prevMembers \in Nat /\ left \in Nat /\ wait \in Int /\ wait >= 0
    BY <1>1, <1>4
  <2>03. w \in 0..wait
    BY <1>6, <2>02, ScaledLemma
  <2>2. w \in Nat /\ w <= wait
    BY <1>1, <2>03
  <2>3. e \in Int /\ (elapsed >= 0 => e \in 0..elapsed) /\ (elapsed <= 0 => e \in elapsed..0)
    BY <1>1, <1>4, <1>6, ScaledLemma
  <2>4. e + w <= Longest
    <3>1. elapsed + wait <= Longest /\ elapsed \in Int /\ Longest \in Nat
      BY <1>1, <1>2
    <3> QED
      BY <1>6, <2>02, <3>1, ScaledSum
  <2> HIDE DEF e, w
  <2>5. wait <= Longest + MaxSetback
    BY <1>1, <1>2
  <2>6. w \in Int /\ w <= Longest + MaxSetback
    BY <1>1, <2>2, <2>5
  <2>7. wait' = w /\ timers' \in Seq(Ticks) /\ Len(timers') = 1 /\ timers'[1] = w
    BY <2>1, <2>2, <2>6, ScheduleLemma DEF Ticks
  <2>8. e <= since /\ e >= -d
    BY <1>1, <1>2, <2>3
  <2>9. left \in 1..(Cardinality(SSRCs) + 1)
    BY <1>1, <1>4, <1>6
  <2>10. /\ elapsed' \in Int /\ elapsed' + wait' <= Longest
         /\ elapsed' <= since /\ elapsed' >= -(MaxSetback - budget.setbacks)
    BY <2>1, <2>3, <2>4, <2>7, <2>8
  <2>11. /\ wait' \in Nat /\ timers'[1] <= wait'
         /\ wait' - (MaxSetback - budget.setbacks) <= timers'[1]
    <3>1. w \in Nat /\ d \in Nat
      BY <1>1, <2>2
    <3> QED
      BY <2>7, <3>1
  <2>12. prevMembers' \in 1..(Cardinality(SSRCs) + 1)
    BY <2>1, <2>9
  <2> QED
    BY <1>3, <1>5, <2>7, <2>10, <2>11, <2>12
<1>7. CASE ~(left < prevMembers)
  <2>1. UNCHANGED <<elapsed, wait, timers, prevMembers>>
    BY <1>7 DEF OnReceiveBye
  <2>2. prevMembers \in 1..(Cardinality(SSRCs) + 1)
    BY <1>1
  <2> QED
    BY <1>1, <1>2, <1>3, <1>5, <2>1, <2>2
<1> QED
  BY <1>6, <1>7

LEMMA IncomingStep ==
  ASSUME IInv, NEW p \in Packets, IncomingReport(p)
  PROVE  IInv'
<1>1. p.sender \in SSRCs /\ (p.bye # None => p.bye \in SSRCs)
  BY DEF Packets
<1>2. /\ ~closed /\ UNCHANGED <<phase, initial, closed>>
      /\ stats' \in {stats, stats \cup {p.sender}}
      /\ fresh' = IF p.pt = "SR" THEN fresh \cup {p.sender} ELSE fresh
      /\ stats' = IF p.pt = "SR" THEN stats \cup {p.sender} ELSE stats
  BY DEF IncomingReport
<1>3. FreshOK' /\ stats' \in SUBSET SSRCs /\ fresh' \in SUBSET SSRCs
  BY <1>1, <1>2 DEF IInv, TypeOK, FreshOK
<1>4. byeHandler' \in BOOLEAN
  BY DEF IncomingReport, IInv, TypeOK
<1>5. /\ budget' \in [byes : 0..MaxByes, setbacks : 0..MaxSetback]
      /\ budget'.setbacks = budget.setbacks
  <2>1. budget \in [byes : 0..MaxByes, setbacks : 0..MaxSetback]
    BY DEF IInv, TypeOK
  <2>2. budget' = budget \/ (budget.byes > 0 /\ budget' = [budget EXCEPT !.byes = @ - 1])
    BY DEF IncomingReport
  <2> QED
    BY <2>1, <2>2
<1>6. CASE UNCHANGED <<memberVars, timeVars>>
  <2>1. TypeOK'
    BY <1>2, <1>3, <1>4, <1>5, <1>6 DEF IInv, TypeOK, memberVars, timeVars, reportVars
  <2>2. TimesOK' /\ AgesOK'
    BY <1>2, <1>5, <1>6 DEF IInv, TimesOK, AgesOK, memberVars, timeVars, reportVars
  <2> QED
    BY <1>3, <2>1, <2>2 DEF IInv
<1>7. CASE OnReceiveReport(p.sender)
  <2>1. UNCHANGED <<prevMembers, timeVars>>
    BY <1>7 DEF OnReceiveReport
  <2>2. /\ members' \in SUBSET SSRCs
        /\ age' \in [SSRCs -> 0..(2 * ReapPeriod - 1)]
        /\ AgesOK'
    BY <1>1, <1>2, <1>7, NoteLemma DEF OnReceiveReport, NoteMembership
  <2>3. TypeOK'
    BY <1>2, <1>3, <1>4, <1>5, <2>1, <2>2 DEF IInv, TypeOK, timeVars, reportVars
  <2>4. TimesOK'
    BY <1>2, <1>5, <2>1 DEF IInv, TimesOK, timeVars, reportVars
  <2> QED
    BY <1>3, <2>2, <2>3, <2>4 DEF IInv
<1>8. CASE p.bye # None /\ OnReceiveBye(p.bye)
  <2>1. /\ members' \in SUBSET SSRCs
        /\ age' \in [SSRCs -> 0..(2 * ReapPeriod - 1)]
        /\ AgesOK'
        /\ prevMembers' \in 1..(Cardinality(SSRCs) + 1)
        /\ since' = since /\ shrinks' \in Nat /\ sent' \in 0..1
        /\ timers' \in Seq(Ticks) /\ Len(timers') = 1
        /\ elapsed' \in Int /\ wait' \in Nat
        /\ timers'[1] <= wait'
        /\ wait' - (MaxSetback - budget.setbacks) <= timers'[1]
        /\ elapsed' + wait' <= Longest
        /\ elapsed' <= since
        /\ elapsed' >= -(MaxSetback - budget.setbacks)
    BY <1>1, <1>2, <1>8, ByeStep
  <2>2. TimesOK'
    BY <1>2, <1>5, <2>1 DEF TimesOK
  <2>3. /\ elapsed' \in (-MaxSetback)..Longest
        /\ wait' \in 0..(Longest + MaxSetback)
    <3>1. /\ elapsed' \in Int /\ wait' \in Nat /\ elapsed' + wait' <= Longest
          /\ elapsed' >= -(MaxSetback - budget.setbacks)
      BY <2>1
    <3>2. Longest \in Nat /\ budget.setbacks \in 0..MaxSetback
      BY Facts
    <3>3. elapsed' >= -MaxSetback
      BY <3>1, <3>2
    <3>4. \A e \in Int, w \in Nat, L \in Nat, m \in Nat :
            e + w <= L /\ e >= -m => e \in (-m)..L /\ w \in 0..(L + m)
      OBVIOUS
    <3> QED
      BY <3>1, <3>2, <3>3, <3>4
  <2>4. TypeOK'
    BY <1>2, <1>3, <1>4, <1>5, <2>1, <2>3 DEF IInv, TypeOK, Ticks
  <2> QED
    BY <1>3, <2>1, <2>2, <2>4 DEF IInv
<1> QED
  BY <1>6, <1>7, <1>8 DEF IncomingReport

LEMMA TickStep == ASSUME IInv, Tick PROVE IInv'
<1>1. /\ ~closed /\ DOMAIN timers = {1} /\ Len(timers) = 1 /\ timers \in Seq(Ticks)
      /\ timers[1] \in Ticks /\ timers[1] > 0
      /\ elapsed \in Int /\ wait \in Nat /\ since \in Nat /\ Longest \in Nat \ {0}
      /\ budget.setbacks \in 0..MaxSetback
  BY Facts DEF Tick
<1>2. /\ timers' = [i \in {1} |-> timers[1] - 1]
      /\ elapsed' = elapsed + 1 /\ wait' = wait - 1
      /\ since' = since + 1
      /\ UNCHANGED <<memberVars, phase, initial, shrinks, sent, stats, byeHandler,
                     closed, fresh, budget>>
  BY <1>1 DEF Tick
<1>3. timers' \in Seq(Ticks) /\ Len(timers') = 1 /\ timers'[1] = timers[1] - 1
  <2>1. timers[1] - 1 \in Ticks
    BY <1>1 DEF Ticks
  <2>2. timers' = <<timers[1] - 1>>
    BY <1>2
  <2> QED
    BY <2>1, <2>2
<1>4. /\ timers[1] <= wait /\ wait - (MaxSetback - budget.setbacks) <= timers[1]
      /\ elapsed + wait <= Longest /\ elapsed <= since
      /\ elapsed >= -(MaxSetback - budget.setbacks)
  BY <1>1 DEF IInv, TimesOK
<1>5. timers[1] \in Nat
  BY <1>1 DEF Ticks
<1>6. TimesOK'
  <2>1. elapsed' <= since'
    BY <1>1, <1>2, <1>4, <1>5
  <2>2. /\ timers'[1] <= wait' /\ wait' - (MaxSetback - budget.setbacks) <= timers'[1]
        /\ elapsed' + wait' <= Longest /\ elapsed' >= -(MaxSetback - budget.setbacks)
    <3>1. timers'[1] = timers[1] - 1 /\ elapsed' = elapsed + 1 /\ wait' = wait - 1
      BY <1>2, <1>3
    <3> QED
      BY <1>1, <1>4, <1>5, <3>1
  <2> QED
    BY <1>1, <1>2, <1>3, <2>1, <2>2 DEF TimesOK
<1>7. TypeOK'
  <2>1. /\ elapsed' \in (-MaxSetback)..Longest /\ wait' \in 0..(Longest + MaxSetback)
        /\ since' \in Nat
    <3>1. wait \in 0..(Longest + MaxSetback)
      BY DEF IInv, TypeOK
    <3> QED
      BY <1>1, <1>2, <1>4, <1>5, <3>1
  <2> QED
    BY <1>2, <1>3, <2>1 DEF IInv, TypeOK, memberVars, Ticks
<1>8. AgesOK' /\ FreshOK'
  BY <1>2 DEF IInv, AgesOK, FreshOK, memberVars
<1> QED
  BY <1>6, <1>7, <1>8 DEF IInv

LEMMA SetbackStep == ASSUME IInv, SetClockBack PROVE IInv'
<1>1. /\ ~closed /\ Len(timers) = 1 /\ timers[1] \in Ticks
      /\ elapsed \in Int /\ wait \in Nat /\ since \in Nat /\ Longest \in Nat \ {0}
      /\ budget.setbacks \in 0..MaxSetback /\ budget.setbacks > 0
  BY Facts DEF SetClockBack
<1>2. /\ budget \in [byes : 0..MaxByes, setbacks : 0..MaxSetback]
      /\ budget' = [budget EXCEPT !.setbacks = @ - 1]
      /\ elapsed' = elapsed - 1 /\ wait' = wait + 1
      /\ UNCHANGED <<memberVars, phase, initial, timers, since, shrinks, sent, stats,
                     byeHandler, closed, fresh>>
  BY DEF SetClockBack, IInv, TypeOK, reportVars
<1>3. /\ budget' \in [byes : 0..MaxByes, setbacks : 0..MaxSetback]
      /\ budget'.setbacks = budget.setbacks - 1
  BY <1>1, <1>2
<1>4. /\ timers[1] <= wait /\ wait - (MaxSetback - budget.setbacks) <= timers[1]
      /\ elapsed + wait <= Longest /\ elapsed <= since
      /\ elapsed >= -(MaxSetback - budget.setbacks)
  BY <1>1 DEF IInv, TimesOK
<1>5. timers[1] \in Nat
  BY <1>1 DEF Ticks
<1>6. TimesOK'
  <2>1. /\ timers[1] <= wait' /\ wait' - (MaxSetback - (budget.setbacks - 1)) <= timers[1]
        /\ elapsed' + wait' <= Longest /\ elapsed' <= since
        /\ elapsed' >= -(MaxSetback - (budget.setbacks - 1))
    BY <1>1, <1>2, <1>4, <1>5
  <2> QED
    BY <1>1, <1>2, <1>3, <2>1 DEF TimesOK
<1>7. TypeOK'
  <2>1. elapsed' \in (-MaxSetback)..Longest /\ wait' \in 0..(Longest + MaxSetback)
    BY <1>1, <1>2, <1>4, <1>5
  <2> QED
    BY <1>2, <1>3, <2>1 DEF IInv, TypeOK, memberVars
<1>8. AgesOK' /\ FreshOK'
  BY <1>2 DEF IInv, AgesOK, FreshOK, memberVars
<1> QED
  BY <1>6, <1>7, <1>8 DEF IInv

LEMMA Step == IInv /\ [Next]_vars => IInv'
<1> SUFFICES ASSUME IInv, [Next]_vars PROVE IInv'
  OBVIOUS
<1>1. CASE OnExpire
  BY <1>1, ExpireStep
<1>2. CASE \E s \in SSRCs : DataArrives(s)
  BY <1>2 DEF DataArrives, IInv, TypeOK, TimesOK, AgesOK, FreshOK, memberVars, timeVars, reportVars
<1>3. CASE \E p \in Packets : IncomingReport(p)
  BY <1>3, IncomingStep
<1>4. CASE \E set \in BOOLEAN : SetByeHandler(set)
  BY <1>4 DEF SetByeHandler, IInv, TypeOK, TimesOK, AgesOK, FreshOK, memberVars, timeVars, reportVars
<1>5. CASE Close
  <2>1. timers' = << >> /\ << >> \in Seq(Ticks)
    BY <1>5, Facts, EmptySeq DEF Close
  <2>2. TypeOK'
    BY <1>5, <2>1 DEF Close, IInv, TypeOK, memberVars, reportVars, Ticks
  <2>3. TimesOK' /\ AgesOK' /\ FreshOK'
    BY <1>5, <2>1 DEF Close, IInv, TimesOK, AgesOK, FreshOK, memberVars, reportVars
  <2> QED
    BY <2>2, <2>3 DEF IInv
<1>6. CASE Tick
  BY <1>6, TickStep
<1>7. CASE SetClockBack
  BY <1>7, SetbackStep
<1>8. CASE UNCHANGED vars
  BY <1>8 DEF vars, IInv, TypeOK, TimesOK, AgesOK, FreshOK, memberVars, timeVars, reportVars
<1> QED
  BY <1>1, <1>2, <1>3, <1>4, <1>5, <1>6, <1>7, <1>8 DEF Next

(* A BYE that shrinks the group makes the instance forget part of the time *)
(* that it took to have passed, which is an interval at most; nothing else *)
(* but a setback of the clock does.                                        *)
LEMMA LagStep == IInv /\ LagOK /\ [Next]_vars => LagOK'
<1> SUFFICES ASSUME IInv, LagOK, [Next]_vars PROVE LagOK'
  OBVIOUS
<1>1. /\ elapsed \in Int /\ wait \in Nat /\ since \in Nat /\ Longest \in Nat
      /\ shrinks \in Nat /\ budget.setbacks \in 0..MaxSetback
      /\ Longest * shrinks \in Int /\ Longest * 0 = 0
  <2>1. /\ elapsed \in Int /\ wait \in Nat /\ since \in Nat /\ Longest \in Nat
        /\ shrinks \in Nat /\ budget.setbacks \in 0..MaxSetback
    BY Facts DEF IInv, TypeOK
  <2> QED
    BY <2>1
<1>2. since - elapsed <= Longest * shrinks + (MaxSetback - budget.setbacks)
  BY DEF LagOK
<1>3. CASE UNCHANGED <<elapsed, since, shrinks, budget>>
  BY <1>2, <1>3 DEF LagOK
<1>4. CASE OnExpire
  <2>1. CASE SendReport /\ elapsed' = 0
    <3>1. since' = 0 /\ shrinks' = 0 /\ budget' = budget
      BY <1>4, <2>1 DEF SendReport, OnExpire
    <3>2. Longest * shrinks' = 0
      BY <1>1, <3>1
    <3> QED
      BY <1>1, <2>1, <3>1, <3>2 DEF LagOK
  <2> QED
    BY <1>3, <1>4, <2>1 DEF OnExpire, reportVars
<1>5. CASE Tick
  <2>1. elapsed' = elapsed + 1 /\ since' = since + 1 /\ UNCHANGED <<shrinks, budget>>
    BY <1>5 DEF Tick
  <2> QED
    BY <1>1, <1>2, <2>1 DEF LagOK
<1>6. CASE SetClockBack
  <2>1. /\ elapsed' = elapsed - 1 /\ UNCHANGED <<since, shrinks>>
        /\ budget' = [budget EXCEPT !.setbacks = @ - 1]
    BY <1>6 DEF SetClockBack, reportVars
  <2>2. budget'.setbacks = budget.setbacks - 1
    BY <2>1 DEF IInv, TypeOK
  <2> QED
    BY <1>1, <1>2, <2>1, <2>2 DEF LagOK
<1>7. ASSUME NEW p \in Packets, IncomingReport(p)
      PROVE  LagOK'
  <2>1. CASE p.bye = None \/ p.malformed
    <3>1. UNCHANGED <<timeVars, budget>>
      BY <1>7, <2>1 DEF IncomingReport, OnReceiveReport, Packets
    <3> QED
      BY <1>3, <3>1 DEF timeVars, reportVars
  <2>2. CASE p.bye # None /\ ~p.malformed
    <3> DEFINE left == IF p.bye \in members THEN NumMembers - 1 ELSE NumMembers
    <3>1. OnReceiveBye(p.bye) /\ budget'.setbacks = budget.setbacks /\ since' = since
      <4>1. /\ OnReceiveBye(p.bye) /\ since' = since
            /\ budget' = [budget EXCEPT !.byes = @ - 1]
        BY <1>7, <2>2 DEF IncomingReport, OnReceiveBye
      <4> QED
        BY <4>1 DEF IInv, TypeOK
    <3>2. CASE ~(left < prevMembers)
      <4>1. UNCHANGED <<elapsed, shrinks>>
        BY <3>1, <3>2 DEF OnReceiveBye
      <4> QED
        BY <1>2, <3>1, <4>1 DEF LagOK
    <3>3. CASE left < prevMembers
      <4>1. elapsed' = Scaled(elapsed, left) /\ shrinks' = shrinks + 1
        BY <3>1, <3>3 DEF OnReceiveBye
      <4>2. left \in Nat /\ prevMembers \in Nat
        <5>1. Cardinality(members) \in Nat /\ (p.bye \in members => Cardinality(members) >= 1)
          BY Facts, Group
        <5>2. left \in Nat
          BY <5>1 DEF NumMembers
        <5> QED
          BY <5>2, Facts
      <4> HIDE DEF left
      <4>3. elapsed' \in Int /\ (elapsed' >= elapsed \/ elapsed' >= 0)
        BY <1>1, <3>3, <4>1, <4>2, ScaledLemma
      <4>4. elapsed <= Longest
        <5>1. ~closed
          BY <1>7 DEF IncomingReport
        <5>2. elapsed + wait <= Longest
          BY <5>1 DEF IInv, TimesOK
        <5> QED
          BY <1>1, <5>2
      <4>5. Longest * shrinks' = Longest * shrinks + Longest
        BY <1>1, <4>1
      <4> QED
        BY <1>1, <1>2, <3>1, <4>3, <4>4, <4>5 DEF LagOK
    <3> QED
      BY <3>2, <3>3
  <2> QED
    BY <2>1, <2>2
<1>8. CASE \/ \E s \in SSRCs : DataArrives(s)
           \/ \E set \in BOOLEAN : SetByeHandler(set)
           \/ Close \/ UNCHANGED vars
  <2>1. UNCHANGED <<elapsed, since, shrinks, budget>>
    BY <1>8 DEF DataArrives, SetByeHandler, Close, vars, timeVars, reportVars
  <2> QED
    BY <1>3, <2>1
<1> QED
  BY <1>4, <1>5, <1>6, <1>7, <1>8 DEF Next

LEMMA Invariance == Spec => [](IInv /\ LagOK)
<1>1. Init => IInv /\ LagOK
  <2> SUFFICES ASSUME Init PROVE LagOK
    BY InvInit
  <2>1. Longest \in Nat /\ since = 0 /\ elapsed = 0 /\ shrinks = 0
        /\ budget.setbacks = MaxSetback
    BY Extremes DEF Init
  <2> QED
    BY <2>1 DEF LagOK
<1> QED
  BY <1>1, Step, LagStep, PTL DEF Spec

-----------------------------------------------------------------------------
(* Type correctness: TypeOK is an invariant; so no member gets older than  *)
(* twice the reaping period.                                               *)
THEOREM TypeCorrect == Spec => []TypeOK
<1>1. IInv => TypeOK
  BY DEF IInv
<1> QED
  BY Invariance, <1>1, PTL

(* One timer is set for the next report, whatever BYEs rescheduled and     *)
(* however the clock was set back, and for a time that is never too late   *)
(* after the last report; none is left behind.                             *)
THEOREM OneTimerOnly == Spec => []OneReportTimer
<1>1. IInv /\ LagOK => OneReportTimer
  <2> SUFFICES ASSUME IInv, LagOK PROVE OneReportTimer
    OBVIOUS
  <2>1. CASE closed
    BY <2>1 DEF IInv, TimesOK, OneReportTimer
  <2>2. CASE ~closed
    <3>1. /\ wait \in Nat /\ timers[1] \in Nat /\ budget.setbacks \in 0..MaxSetback
          /\ elapsed \in Int /\ since \in Nat /\ Longest \in Nat /\ shrinks \in Nat
      BY <2>2, Facts DEF Ticks, IInv, TypeOK
    <3>2. Longest * (1 + shrinks) = Longest + Longest * shrinks /\ Longest * shrinks \in Int
      BY <3>1
    <3>3. /\ Len(timers) = 1 /\ timers[1] <= wait
          /\ wait - (MaxSetback - budget.setbacks) <= timers[1]
          /\ elapsed + wait <= Longest
      BY <2>2 DEF IInv, TimesOK
    <3>4. since + wait <= Longest * (1 + shrinks) + (MaxSetback - budget.setbacks)
      BY <3>1, <3>2, <3>3 DEF LagOK
    <3>5. timers[1] \in (wait - MaxSetback)..wait
      BY <3>1, <3>3
    <3> QED
      BY <2>2, <3>3, <3>4, <3>5 DEF OneReportTimer
  <2> QED
    BY <2>1, <2>2
<1> QED
  BY Invariance, <1>1, PTL

(* Reports are spaced by the shortest interval at least: the time since    *)
(* the last one is never overestimated, however BYEs scale it.             *)
THEOREM Spaced == Spec => ReportsSpaced
<1> DEFINE A == sent' # sent =>
                  since >= IF initial THEN ShortestOf(InitialIntervals)
                                      ELSE ShortestOf(Intervals)
<1>1. IInv /\ [Next]_vars => [A]_vars
  <2> SUFFICES ASSUME IInv, Next, sent' # sent
               PROVE  since >= IF initial THEN ShortestOf(InitialIntervals)
                                          ELSE ShortestOf(Intervals)
    OBVIOUS
  <2>1. CASE OnExpire
    <3>1. PICK t \in IntervalsNow : t <= elapsed
      BY <2>1 DEF OnExpire, reportVars
    <3>2. t \in Nat /\ elapsed \in Int /\ since \in Nat /\ elapsed <= since
      BY Extremes, Facts DEF IInv, TimesOK, IntervalsNow
    <3>3. CASE initial
      <4>1. t \in InitialIntervals /\ ShortestOf(InitialIntervals) <= t /\ ShortestOf(InitialIntervals) \in Nat
        BY <3>3, Extremes DEF IntervalsNow
      <4> QED
        BY <3>1, <3>2, <3>3, <4>1
    <3>4. CASE ~initial
      <4>1. t \in Intervals /\ ShortestOf(Intervals) <= t /\ ShortestOf(Intervals) \in Nat
        BY <3>4, Extremes DEF IntervalsNow
      <4> QED
        BY <3>1, <3>2, <3>4, <4>1
    <3> QED
      BY <3>3, <3>4
  <2>2. CASE ~OnExpire
    <3>1. sent' = sent
      BY <2>2 DEF Next, DataArrives, IncomingReport, OnReceiveReport, OnReceiveBye,
                  SetByeHandler, Close, Tick, SetClockBack, timeVars, reportVars
    <3> QED
      BY <3>1
  <2> QED
    BY <2>1, <2>2
<1>2. Spec => [][A]_vars
  BY Invariance, <1>1, PTL DEF Spec
<1> QED
  BY <1>2 DEF ReportsSpaced

(* A BYE of whoever was heard since the last report calls the handler:     *)
(* reaping takes no record of somebody heard since.                        *)
THEOREM Heeded == Spec => ByeHeeded
<1> DEFINE A == \A p \in {q \in Packets : q.bye # None} :
                  IncomingReport(p) /\ p.bye \in fresh' => ~byeHandler'
<1>1. IInv /\ [Next]_vars => [A]_vars
  <2> SUFFICES ASSUME IInv, Next, NEW p \in Packets, p.bye # None,
                      IncomingReport(p), p.bye \in fresh'
               PROVE  ~byeHandler'
    OBVIOUS
  <2>1. fresh' \subseteq stats'
    BY DEF IncomingReport, IInv, FreshOK
  <2>2. ByeHeard(p)
    BY <2>1 DEF ByeHeard
  <2>3. ~p.malformed
    BY DEF Packets
  <2>4. byeHandler' = (byeHandler /\ ~ByeHeard(p))
    BY <2>3 DEF IncomingReport
  <2> QED
    BY <2>2, <2>4
<1> QED
  BY Invariance, <1>1, PTL DEF Spec, ByeHeeded
=============================================================================
