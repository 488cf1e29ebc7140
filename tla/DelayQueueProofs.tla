--------------------------- MODULE DelayQueueProofs ---------------------------
(***************************************************************************)
(* Proofs about DelayQueue, for any delays, any course of the clock and    *)
(* any number of tasks.                                                    *)
(*                                                                         *)
(* Everything here is about when entries come due, which the queue stores  *)
(* only as differences: Remaining adds them up, by a recursive function.   *)
(* Induction along the queue is by the least position at which a claim     *)
(* fails (LeastExists).  The first lemmas say what the three operations do *)
(* to the sums; the invariant then relates the sums to the real times.     *)
(***************************************************************************)
EXTENDS DelayQueue, Extrema, SequenceTheorems

-----------------------------------------------------------------------------
(* Sums of deltas *)

(* The recursive definition of Remaining has a solution: one for the first *)
(* m - 1 entries extends to one for m.                                     *)
LEMMA SumExists ==
  ASSUME NEW q \in Seq(Entries), NEW n \in 0..Len(q)
  PROVE  \E f : f = [i \in 0..n |-> IF i = 0 THEN 0 ELSE f[i - 1] + q[i].delta]
<1> DEFINE Sum(m) == \E f : f = [i \in 0..m |-> IF i = 0 THEN 0 ELSE f[i - 1] + q[i].delta]
           T == {m \in 0..Len(q) : ~Sum(m)}
<1>1. SUFFICES ASSUME T # {} PROVE FALSE
  OBVIOUS
<1>2. T \subseteq Nat
  OBVIOUS
<1>3. PICK m \in T : \A k \in T : m <= k
  <2> HIDE DEF T
  <2> QED
    BY <1>1, <1>2, LeastExists
<1>4. m # 0
  <2>1. [i \in 0..0 |-> 0]
          = [i \in 0..0 |-> IF i = 0 THEN 0 ELSE [j \in 0..0 |-> 0][i - 1] + q[i].delta]
    OBVIOUS
  <2>2. Sum(0)
    BY <2>1
  <2>3. m \in T /\ ~Sum(m)
    BY <1>3
  <2> HIDE DEF Sum, T
  <2> QED
    BY <2>2, <2>3
<1>5. m - 1 \in 0..Len(q) /\ m - 1 \notin T
  BY <1>2, <1>3, <1>4
<1>6. PICK g : g = [i \in 0..(m - 1) |-> IF i = 0 THEN 0 ELSE g[i - 1] + q[i].delta]
  BY <1>5
<1> DEFINE f == [i \in 0..m |-> IF i = m THEN g[m - 1] + q[m].delta ELSE g[i]]
<1>7. f = [i \in 0..m |-> IF i = 0 THEN 0 ELSE f[i - 1] + q[i].delta]
  <2>1. ASSUME NEW i \in 0..m
        PROVE  f[i] = IF i = 0 THEN 0 ELSE f[i - 1] + q[i].delta
    <3>1. CASE i = m
      BY <1>2, <1>3, <1>4, <3>1
    <3>2. CASE i # m
      <4>1. i \in 0..(m - 1) /\ f[i] = g[i] /\ (i # 0 => f[i - 1] = g[i - 1])
        BY <1>2, <1>3, <3>2
      <4>2. g[i] = IF i = 0 THEN 0 ELSE g[i - 1] + q[i].delta
        BY <1>6, <4>1
      <4> QED
        BY <4>1, <4>2
    <3> QED
      BY <3>1, <3>2
  <2> QED
    BY <2>1
<1>8. Sum(m)
  BY <1>7
<1> QED
  BY <1>3, <1>8

LEMMA RemainingDef ==
  ASSUME NEW q \in Seq(Entries)
  PROVE  /\ Remaining(q)[0] = 0
         /\ \A i \in 1..Len(q) : Remaining(q)[i] = Remaining(q)[i - 1] + q[i].delta
<1>1. Len(q) \in 0..Len(q)
  OBVIOUS
<1>2. \E f : f = [i \in 0..Len(q) |-> IF i = 0 THEN 0 ELSE f[i - 1] + q[i].delta]
  BY <1>1, SumExists
<1>3. Remaining(q)
        = [i \in 0..Len(q) |-> IF i = 0 THEN 0 ELSE Remaining(q)[i - 1] + q[i].delta]
  BY <1>2 DEF Remaining
<1> HIDE DEF Remaining
<1> DEFINE R == Remaining(q)
<1>4. \A i \in 0..Len(q) : R[i] = IF i = 0 THEN 0 ELSE R[i - 1] + q[i].delta
  <2> HIDE DEF R
  <2> QED
    BY <1>3 DEF R
<1> QED
  BY <1>1, <1>4

(* Whatever begins and grows as Remaining does, is Remaining.              *)
LEMMA SumIs ==
  ASSUME NEW q \in Seq(Entries), NEW g, g[0] = 0,
         \A i \in 1..Len(q) : g[i] = g[i - 1] + q[i].delta
  PROVE  \A i \in 0..Len(q) : Remaining(q)[i] = g[i]
<1> DEFINE R == Remaining(q)
           T == {i \in 0..Len(q) : R[i] # g[i]}
<1>1. R[0] = 0 /\ \A i \in 1..Len(q) : R[i] = R[i - 1] + q[i].delta
  BY RemainingDef
<1>2. SUFFICES ASSUME T # {} PROVE FALSE
  OBVIOUS
<1> HIDE DEF R
<1>3. T \subseteq Nat
  OBVIOUS
<1>4. PICK m \in T : \A k \in T : m <= k
  <2> HIDE DEF T
  <2> QED
    BY <1>2, <1>3, LeastExists
<1>5. m \in 1..Len(q)
  BY <1>1, <1>4
<1>6. m - 1 \in 0..Len(q) /\ m - 1 \notin T
  BY <1>4, <1>5
<1>7. R[m] = g[m]
  BY <1>1, <1>5, <1>6
<1> QED
  BY <1>4, <1>7

LEMMA EntryFields ==
  ASSUME NEW q \in Seq(Entries), NEW i \in 1..Len(q)
  PROVE  /\ q[i] \in Entries
         /\ q[i].delta \in Nat /\ q[i].due \in Nat /\ q[i].token \in 1..MaxTasks
         /\ q[i] = [token |-> q[i].token, delta |-> q[i].delta, due |-> q[i].due]
<1>1. q[i] \in Entries
  OBVIOUS
<1> QED
  BY <1>1 DEF Entries

(* Entries come due in the order of the queue.                             *)
LEMMA RemainingGrows ==
  ASSUME NEW q \in Seq(Entries)
  PROVE  /\ \A i \in 0..Len(q) : Remaining(q)[i] \in Nat
         /\ \A i, j \in 0..Len(q) : i <= j => Remaining(q)[i] <= Remaining(q)[j]
<1> DEFINE R == Remaining(q)
<1>1. R[0] = 0 /\ \A i \in 1..Len(q) : R[i] = R[i - 1] + q[i].delta
  BY RemainingDef
<1>2. \A i \in 1..Len(q) : q[i].delta \in Nat
  BY EntryFields
<1>3. Len(q) \in Nat
  OBVIOUS
<1> HIDE DEF R
<1>4. \A j \in 0..Len(q) : R[j] \in Nat /\ \A i \in 0..j : R[i] <= R[j]
  <2> DEFINE T == {j \in 0..Len(q) : ~(R[j] \in Nat /\ \A i \in 0..j : R[i] <= R[j])}
  <2>1. SUFFICES ASSUME T # {} PROVE FALSE
    OBVIOUS
  <2>2. T \subseteq Nat
    OBVIOUS
  <2>3. PICK m \in T : \A k \in T : m <= k
    <3> HIDE DEF T
    <3> QED
      BY <2>1, <2>2, LeastExists
  <2>4. m # 0
    BY <1>1, <2>3
  <2>5. m \in 1..Len(q) /\ m - 1 \in 0..Len(q) /\ m - 1 \notin T
    BY <1>3, <2>3, <2>4
  <2>6. R[m - 1] \in Nat /\ \A i \in 0..(m - 1) : R[i] <= R[m - 1]
    BY <2>5
  <2>7. R[m] \in Nat /\ R[m - 1] <= R[m]
    BY <1>1, <1>2, <2>5, <2>6
  <2>8. ASSUME NEW i \in 0..m PROVE R[i] <= R[m]
    <3>1. CASE i = m
      BY <2>7, <3>1
    <3>2. CASE i \in 0..(m - 1)
      <4>1. R[i] \in Nat
        BY <1>3, <2>3, <2>5, <3>2
      <4> QED
        BY <2>6, <2>7, <3>2, <4>1
    <3> QED
      BY <2>5, <3>1, <3>2
  <2> QED
    BY <2>3, <2>7, <2>8
<1> QED
  BY <1>3, <1>4 DEF R

-----------------------------------------------------------------------------
(* The operations *)

LEMMA PlaceLemma ==
  ASSUME NEW q \in Seq(Entries), NEW delay \in Nat
  PROVE  /\ Place(q, delay) \in 0..Len(q)
         /\ \A i \in 1..Place(q, delay) : Remaining(q)[i] <= delay
         /\ \A i \in (Place(q, delay) + 1)..Len(q) : Remaining(q)[i] > delay
<1> DEFINE R == Remaining(q)
           Is(n) == /\ \A i \in 1..n : R[i] <= delay
                    /\ n < Len(q) => R[n + 1] > delay
           T == {i \in 1..Len(q) : R[i] > delay}
<1>1. /\ \A i \in 0..Len(q) : R[i] \in Nat
      /\ \A i, j \in 0..Len(q) : i <= j => R[i] <= R[j]
  BY RemainingGrows
<1>2. Len(q) \in Nat
  OBVIOUS
<1>3. Place(q, delay) = CHOOSE n \in 0..Len(q) : Is(n)
  BY DEF Place
<1> HIDE DEF R
<1>4. \E n \in 0..Len(q) : Is(n)
  <2>1. CASE T = {}
    <3>1. \A i \in 1..Len(q) : R[i] <= delay
      BY <1>1, <1>2, <2>1
    <3>2. Is(Len(q)) /\ Len(q) \in 0..Len(q)
      BY <1>2, <3>1
    <3> QED
      BY <3>2
  <2>2. CASE T # {}
    <3>1. T \subseteq Nat
      OBVIOUS
    <3>2. PICK m \in T : \A k \in T : m <= k
      <4> HIDE DEF T
      <4> QED
        BY <2>2, <3>1, LeastExists
    <3>3. m \in 1..Len(q) /\ R[m] > delay
      OBVIOUS
    <3>4. \A i \in 1..(m - 1) : R[i] <= delay
      <4> SUFFICES ASSUME NEW i \in 1..(m - 1) PROVE R[i] <= delay
        OBVIOUS
      <4>1. i \in 1..Len(q) /\ i \in 0..Len(q) /\ i < m
        BY <1>2, <3>3
      <4>2. i \notin T
        BY <1>2, <3>2, <3>3, <4>1
      <4> QED
        BY <1>1, <4>1, <4>2
    <3>5. m - 1 \in 0..Len(q) /\ (m - 1) + 1 = m
      BY <1>2, <3>3
    <3>6. Is(m - 1)
      BY <3>3, <3>4, <3>5
    <3> QED
      BY <3>5, <3>6
  <2> QED
    BY <2>1, <2>2
<1> DEFINE n == CHOOSE k \in 0..Len(q) : Is(k)
<1>5. n \in 0..Len(q) /\ Is(n)
  <2> HIDE DEF Is
  <2> QED
    BY <1>4
<1> HIDE DEF n
<1>6. \A i \in (n + 1)..Len(q) : R[i] > delay
  <2> SUFFICES ASSUME NEW i \in (n + 1)..Len(q) PROVE R[i] > delay
    OBVIOUS
  <2>1. n + 1 \in 0..Len(q) /\ i \in 0..Len(q) /\ n + 1 <= i /\ n < Len(q)
    BY <1>2, <1>5
  <2>2. R[n + 1] > delay /\ R[n + 1] \in Nat /\ R[i] \in Nat /\ R[n + 1] <= R[i]
    BY <1>1, <1>5, <2>1
  <2> QED
    BY <2>2
<1> QED
  BY <1>3, <1>5, <1>6 DEF R, n

(* synchronize() takes the time that passed off every sum, down to zero.   *)
LEMMA SynchronizeLemma ==
  ASSUME time \in Int, back \in Int, lastSync \in Int, NEW q \in Seq(Entries)
  PROVE  /\ Synchronize(q) \in Seq(Entries)
         /\ Len(Synchronize(q)) = Len(q)
         /\ \A i \in 1..Len(q) :
              /\ Synchronize(q)[i].token = q[i].token
              /\ Synchronize(q)[i].due = q[i].due
              /\ Remaining(Synchronize(q))[i] = Bigger(0, Remaining(q)[i] - Elapsed)
<1> DEFINE R == Remaining(q)
           left(i) == Bigger(0, R[i] - Elapsed)
           delta(i) == left(i) - (IF i = 1 THEN 0 ELSE left(i - 1))
           s == Synchronize(q)
<1>1. Elapsed \in Nat
  BY DEF Elapsed, Clock
<1>2. /\ \A i \in 0..Len(q) : R[i] \in Nat
      /\ \A i, j \in 0..Len(q) : i <= j => R[i] <= R[j]
      /\ R[0] = 0
  BY RemainingGrows, RemainingDef
<1>3. Len(q) \in Nat
  OBVIOUS
<1>4. s = [i \in 1..Len(q) |-> [q[i] EXCEPT !.delta = delta(i)]]
  BY DEF Synchronize
<1> HIDE DEF R, s
<1>5. left(0) = 0 /\ \A i \in 0..Len(q) : left(i) \in Nat
  BY <1>1, <1>2, <1>3 DEF Bigger
<1>6. \A i \in 1..Len(q) : left(i - 1) <= left(i) /\ delta(i) = left(i) - left(i - 1)
  <2> SUFFICES ASSUME NEW i \in 1..Len(q)
               PROVE  left(i - 1) <= left(i) /\ delta(i) = left(i) - left(i - 1)
    OBVIOUS
  <2>1. i \in 0..Len(q) /\ i - 1 \in 0..Len(q) /\ i - 1 <= i
    BY <1>3
  <2>2. R[i - 1] \in Nat /\ R[i] \in Nat /\ R[i - 1] <= R[i]
    BY <1>2, <2>1
  <2>3. left(i - 1) <= left(i)
    BY <1>1, <2>2 DEF Bigger
  <2>4. CASE i = 1
    <3>1. left(i - 1) = 0
      BY <1>5, <2>4
    <3> QED
      BY <2>3, <2>4, <3>1
  <2>5. CASE i # 1
    BY <2>3, <2>5
  <2> QED
    BY <2>4, <2>5
<1> HIDE DEF left
<1>7. \A i \in 1..Len(q) : delta(i) \in Nat /\ left(i) = left(i - 1) + delta(i)
  <2> SUFFICES ASSUME NEW i \in 1..Len(q)
               PROVE  delta(i) \in Nat /\ left(i) = left(i - 1) + delta(i)
    OBVIOUS
  <2>1. i \in 0..Len(q) /\ i - 1 \in 0..Len(q)
    BY <1>3
  <2> HIDE DEF delta
  <2> QED
    BY <1>5, <1>6, <2>1
<1> HIDE DEF delta
<1>8. \A i \in 1..Len(q) :
        s[i] = [token |-> q[i].token, delta |-> delta(i), due |-> q[i].due]
  <2> SUFFICES ASSUME NEW i \in 1..Len(q)
               PROVE  s[i] = [token |-> q[i].token, delta |-> delta(i), due |-> q[i].due]
    OBVIOUS
  <2>1. s[i] = [q[i] EXCEPT !.delta = delta(i)]
    BY <1>4
  <2>2. q[i] = [token |-> q[i].token, delta |-> q[i].delta, due |-> q[i].due]
    BY EntryFields
  <2> QED
    BY <2>1, <2>2
<1>9. \A i \in 1..Len(q) : s[i] \in Entries
  <2> SUFFICES ASSUME NEW i \in 1..Len(q) PROVE s[i] \in Entries
    OBVIOUS
  <2>1. q[i].token \in 1..MaxTasks /\ q[i].due \in Nat
    BY EntryFields
  <2>2. delta(i) \in Nat
    BY <1>7
  <2>3. s[i] = [token |-> q[i].token, delta |-> delta(i), due |-> q[i].due]
    BY <1>8
  <2> QED
    BY <2>1, <2>2, <2>3 DEF Entries
<1>10. s \in Seq(Entries) /\ Len(s) = Len(q)
  <2>1. s \in [1..Len(q) -> Entries]
    BY <1>4, <1>9
  <2> QED
    BY <1>3, <2>1
<1>11. \A i \in 1..Len(q) :
        s[i].token = q[i].token /\ s[i].delta = delta(i) /\ s[i].due = q[i].due
  <2> SUFFICES ASSUME NEW i \in 1..Len(q)
               PROVE  /\ s[i].token = q[i].token
                      /\ s[i].delta = delta(i)
                      /\ s[i].due = q[i].due
    OBVIOUS
  <2>1. s[i] = [token |-> q[i].token, delta |-> delta(i), due |-> q[i].due]
    BY <1>8
  <2> QED
    BY <2>1
<1> DEFINE g == [i \in 0..Len(q) |-> left(i)]
<1>12. g[0] = 0 /\ \A i \in 1..Len(s) : g[i] = g[i - 1] + s[i].delta
  <2>1. \A i \in 1..Len(q) : i \in 0..Len(q) /\ i - 1 \in 0..Len(q)
    BY <1>3
  <2>2. 0 \in 0..Len(q)
    BY <1>3
  <2> QED
    BY <1>5, <1>7, <1>10, <1>11, <2>1, <2>2
<1> HIDE DEF g
<1>13. \A i \in 0..Len(s) : Remaining(s)[i] = g[i]
  BY <1>10, <1>12, SumIs
<1>14. \A i \in 1..Len(q) : Remaining(s)[i] = left(i)
  <2>1. \A i \in 1..Len(q) : i \in 0..Len(q)
    BY <1>3
  <2> QED
    BY <1>10, <1>13, <2>1 DEF g
<1> QED
  BY <1>10, <1>11, <1>14 DEF left, R, s

(* removeEntry() leaves the other entries due when they were.              *)
LEMMA RemoveLemma ==
  ASSUME NEW q \in Seq(Entries), NEW n \in 1..Len(q)
  PROVE  /\ RemoveEntry(q, n) \in Seq(Entries)
         /\ Len(RemoveEntry(q, n)) = Len(q) - 1
         /\ \A i \in 1..(Len(q) - 1) :
              LET k == IF i < n THEN i ELSE i + 1 IN
              /\ RemoveEntry(q, n)[i].token = q[k].token
              /\ RemoveEntry(q, n)[i].due = q[k].due
              /\ Remaining(RemoveEntry(q, n))[i] = Remaining(q)[k]
<1> DEFINE R == Remaining(q)
           s == RemoveEntry(q, n)
           k(i) == IF i < n THEN i ELSE i + 1
           d(i) == q[k(i)].delta + (IF i = n THEN q[n].delta ELSE 0)
           g == [i \in 0..(Len(q) - 1) |-> R[k(i)]]
<1>1. Len(q) \in Nat /\ n \in Nat /\ 1 <= n /\ n <= Len(q)
  OBVIOUS
<1>2. s = [i \in 1..(Len(q) - 1) |->
             CASE i < n -> q[i]
               [] i = n -> [q[i + 1] EXCEPT !.delta = @ + q[n].delta]
               [] i > n -> q[i + 1]]
  BY DEF RemoveEntry
<1>3. R[0] = 0 /\ \A i \in 1..Len(q) : R[i] = R[i - 1] + q[i].delta
  BY RemainingDef
<1>4. \A i \in 0..Len(q) : R[i] \in Nat
  BY RemainingGrows
<1> HIDE DEF R, s
<1>5. ASSUME NEW i \in 1..(Len(q) - 1)
      PROVE  /\ k(i) \in 1..Len(q)
             /\ s[i] \in Entries
             /\ s[i].token = q[k(i)].token /\ s[i].due = q[k(i)].due
             /\ s[i].delta = d(i)
  <2>1. k(i) \in 1..Len(q)
    BY <1>1
  <2>2. /\ q[k(i)] = [token |-> q[k(i)].token, delta |-> q[k(i)].delta,
                      due |-> q[k(i)].due]
        /\ q[k(i)].token \in 1..MaxTasks /\ q[k(i)].delta \in Nat
        /\ q[k(i)].due \in Nat /\ q[n].delta \in Nat
    <3> HIDE DEF k
    <3> QED
      BY <2>1, EntryFields
  <2>3. s[i] = [token |-> q[k(i)].token, delta |-> d(i), due |-> q[k(i)].due]
    <3>1. CASE i < n
      BY <1>1, <1>2, <2>2, <3>1
    <3>2. CASE i = n
      <4>1. s[i] = [q[i + 1] EXCEPT !.delta = @ + q[n].delta] /\ k(i) = i + 1
        BY <1>1, <1>2, <3>2
      <4>2. d(i) = q[k(i)].delta + q[n].delta
        BY <3>2
      <4>3. s[i] = [q[k(i)] EXCEPT !.delta = @ + q[n].delta]
        BY <4>1
      <4> HIDE DEF k, d
      <4> QED
        BY <2>2, <4>2, <4>3
    <3>3. CASE i > n
      <4>1. s[i] = q[i + 1] /\ k(i) = i + 1
        BY <1>1, <1>2, <3>3
      <4> QED
        BY <1>1, <2>2, <3>3, <4>1
    <3> QED
      BY <1>1, <3>1, <3>2, <3>3
  <2>4. d(i) \in Nat
    BY <2>2
  <2> HIDE DEF d, k
  <2>5. s[i].token = q[k(i)].token /\ s[i].due = q[k(i)].due /\ s[i].delta = d(i)
    BY <2>3
  <2>6. s[i] \in Entries
    BY SMTT(30), <2>2, <2>3, <2>4 DEF Entries
  <2> QED
    BY <2>1, <2>5, <2>6
<1>6. s \in Seq(Entries) /\ Len(s) = Len(q) - 1
  <2>1. DOMAIN s = 1..(Len(q) - 1) /\ s = [i \in 1..(Len(q) - 1) |-> s[i]]
    BY <1>2
  <2>2. s \in [1..(Len(q) - 1) -> Entries]
    BY <1>5, <2>1
  <2> QED
    BY <1>1, <2>2
<1>7. g[0] = 0 /\ \A i \in 1..Len(s) : g[i] = g[i - 1] + s[i].delta
  <2>1. g[0] = 0
    BY <1>1, <1>3
  <2>2. ASSUME NEW i \in 1..(Len(q) - 1) PROVE g[i] = g[i - 1] + s[i].delta
    <3>1. g[i] = R[k(i)] /\ g[i - 1] = R[k(i - 1)] /\ s[i].delta = d(i)
      BY <1>1, <1>5
    <3>2. i + 1 \in 1..Len(q) /\ i \in 1..Len(q) /\ i - 1 \in 0..Len(q)
      BY <1>1
    <3>3. /\ R[i] = R[i - 1] + q[i].delta /\ R[i + 1] = R[i] + q[i + 1].delta
          /\ R[i - 1] \in Nat /\ R[i] \in Nat /\ R[i + 1] \in Nat
          /\ q[i].delta \in Nat /\ q[i + 1].delta \in Nat
      <4>1. (i + 1) - 1 = i /\ i + 1 \in 0..Len(q) /\ i \in 0..Len(q)
        BY <3>2
      <4>2. R[i + 1] = R[(i + 1) - 1] + q[i + 1].delta
        BY <1>3, <3>2
      <4> QED
        BY <1>3, <1>4, <3>2, <4>1, <4>2, EntryFields
    <3>4. CASE i < n
      BY <1>1, <3>1, <3>3, <3>4
    <3>5. CASE i = n
      <4>1. k(i) = i + 1 /\ k(i - 1) = i - 1 /\ d(i) = q[i + 1].delta + q[i].delta
        BY <1>1, <3>5
      <4> QED
        BY SMTT(30), <3>1, <3>3, <4>1
    <3>6. CASE i > n
      <4>1. k(i) = i + 1 /\ k(i - 1) = i /\ d(i) = q[i + 1].delta
        BY SMTT(30), <1>1, <3>3, <3>6
      <4> QED
        BY <3>1, <3>3, <4>1
    <3> QED
      BY <1>1, <3>4, <3>5, <3>6
  <2> HIDE DEF g
  <2> QED
    BY <1>6, <2>1, <2>2
<1> HIDE DEF g
<1>8. \A i \in 0..Len(s) : Remaining(s)[i] = g[i]
  BY <1>6, <1>7, SumIs
<1>9. \A i \in 1..(Len(q) - 1) : Remaining(s)[i] = R[k(i)]
  BY <1>1, <1>6, <1>8 DEF g
<1> QED
  BY <1>5, <1>6, <1>9 DEF R, s

(* Queue s is q with an entry put in after the first n, the others due     *)
(* when they were; and these n are those due no later than the new one.    *)
Added(s, q, n, token, delay) ==
  /\ s \in Seq(Entries)
  /\ Len(s) = Len(q) + 1
  /\ n \in 0..Len(q)
  /\ /\ s[n + 1].token = token
     /\ s[n + 1].due = time + delay
     /\ Remaining(s)[n + 1] = delay
  /\ \A i \in 1..Len(q) :
       LET k == IF i <= n THEN i ELSE i + 1 IN
       /\ s[k].token = q[i].token
       /\ s[k].due = q[i].due
       /\ Remaining(s)[k] = Remaining(q)[i]
       /\ Remaining(q)[i] <= delay <=> i <= n

(* addEntry() puts the new entry behind those due no later than it.        *)
LEMMA AddLemma ==
  ASSUME time \in Nat, NEW q \in Seq(Entries), NEW token \in 1..MaxTasks,
         NEW delay \in Nat
  PROVE  Added(AddEntry(q, token, delay), q, Place(q, delay), token, delay)
<1> DEFINE n == Place(q, delay)
           R == Remaining(q)
           delta == delay - R[n]
           new == [token |-> token, delta |-> delta, due |-> time + delay]
           rest == [i \in 1..(Len(q) - n) |->
                      IF i = 1 THEN [q[n + 1] EXCEPT !.delta = @ - delta] ELSE q[n + i]]
           a == SubSeq(q, 1, n)
           s == AddEntry(q, token, delay)
<1>1. /\ n \in 0..Len(q)
      /\ \A i \in 1..n : R[i] <= delay
      /\ \A i \in (n + 1)..Len(q) : R[i] > delay
  BY PlaceLemma
<1>2. Len(q) \in Nat /\ n \in Nat /\ n <= Len(q)
  BY <1>1
<1>3. R[0] = 0 /\ \A i \in 1..Len(q) : R[i] = R[i - 1] + q[i].delta
  BY RemainingDef
<1>4. \A i \in 0..Len(q) : R[i] \in Nat
  BY RemainingGrows
<1>5. s = a \o <<new>> \o rest
  BY DEF AddEntry
<1> HIDE DEF n, R, s
<1>6. delta \in Nat /\ R[n] \in Nat /\ R[n] + delta = delay
  <2>1. R[n] \in Nat /\ R[n] <= delay
    <3>1. CASE n = 0
      BY <1>3, <3>1
    <3>2. CASE n # 0
      BY <1>1, <1>2, <1>4, <3>2
    <3> QED
      BY <3>1, <3>2
  <2> QED
    BY <2>1
<1>7. ASSUME n < Len(q)
      PROVE  /\ R[n + 1] = R[n] + q[n + 1].delta
             /\ R[n + 1] > delay /\ R[n + 1] \in Nat
             /\ q[n + 1].delta \in Nat /\ q[n + 1].delta - delta \in Nat
             /\ delta + (q[n + 1].delta - delta) = q[n + 1].delta
  <2>1. n + 1 \in 1..Len(q) /\ n + 1 \in (n + 1)..Len(q) /\ n + 1 \in 0..Len(q)
        /\ (n + 1) - 1 = n
    BY <1>2, <1>7
  <2>2. R[n + 1] = R[(n + 1) - 1] + q[n + 1].delta
    BY <1>3, <2>1
  <2>3. /\ R[n + 1] = R[n] + q[n + 1].delta
        /\ R[n + 1] > delay /\ R[n + 1] \in Nat /\ q[n + 1].delta \in Nat
    BY <1>1, <1>4, <2>1, <2>2, EntryFields
  <2> HIDE DEF delta
  <2>4. q[n + 1].delta > delta
    BY <1>6, <2>3
  <2>5. q[n + 1].delta - delta \in Nat /\ delta + (q[n + 1].delta - delta) = q[n + 1].delta
    BY SMTT(30), <1>6, <2>3, <2>4
  <2> QED
    BY <2>3, <2>5
<1> HIDE DEF delta
<1>8. new \in Entries
  BY <1>6 DEF Entries
<1>9. ASSUME NEW i \in 1..(Len(q) - n)
      PROVE  /\ rest[i] \in Entries
             /\ rest[i].token = q[n + i].token /\ rest[i].due = q[n + i].due
             /\ rest[i].delta = IF i = 1 THEN q[n + i].delta - delta ELSE q[n + i].delta
  <2>1. n + i \in 1..Len(q)
    BY <1>2
  <2>2. /\ q[n + i] = [token |-> q[n + i].token, delta |-> q[n + i].delta,
                       due |-> q[n + i].due]
        /\ q[n + i] \in Entries
        /\ q[n + i].token \in 1..MaxTasks /\ q[n + i].due \in Nat
    BY <2>1, EntryFields
  <2>3. CASE i = 1
    <3>1. rest[i] = [q[n + i] EXCEPT !.delta = @ - delta]
      BY <2>3
    <3>2. rest[i] = [token |-> q[n + i].token, delta |-> q[n + i].delta - delta,
                     due |-> q[n + i].due]
      BY <2>2, <3>1
    <3>3. q[n + i].delta - delta \in Nat
      BY <1>2, <1>7, <2>3
    <3> HIDE DEF rest
    <3>4. rest[i] \in Entries
      BY <2>2, <3>2, <3>3 DEF Entries
    <3> QED
      BY <2>3, <3>2, <3>4
  <2>4. CASE i # 1
    <3>1. rest[i] = q[n + i]
      BY <2>4
    <3> QED
      BY <2>2, <2>4, <3>1
  <2> QED
    BY <2>3, <2>4
<1>10. rest \in Seq(Entries) /\ Len(rest) = Len(q) - n
  <2>1. rest \in [1..(Len(q) - n) -> Entries]
    <3>1. rest = [i \in 1..(Len(q) - n) |-> rest[i]]
      OBVIOUS
    <3> HIDE DEF rest
    <3> QED
      BY <1>9, <3>1
  <2> HIDE DEF rest
  <2> QED
    BY <1>2, <2>1
<1>11. a \in Seq(Entries) /\ Len(a) = n /\ \A i \in 1..n : a[i] = q[i]
  <2>1. \A i \in 1..n : q[i] \in Entries
    BY <1>2
  <2> QED
    BY <1>2, <2>1, SubSeqProperties
<1> HIDE DEF rest, new, a
<1>12. <<new>> \in Seq(Entries) /\ Len(<<new>>) = 1 /\ <<new>>[1] = new
  BY <1>8
<1>13. /\ a \o <<new>> \in Seq(Entries)
       /\ Len(a \o <<new>>) = n + 1
       /\ \A i \in 1..(n + 1) : (a \o <<new>>)[i] = IF i <= n THEN a[i] ELSE <<new>>[i - n]
  <2>1. /\ a \o <<new>> \in Seq(Entries)
        /\ Len(a \o <<new>>) = Len(a) + Len(<<new>>)
        /\ \A i \in 1..(Len(a) + Len(<<new>>)) :
             (a \o <<new>>)[i] = IF i <= Len(a) THEN a[i] ELSE <<new>>[i - Len(a)]
    BY <1>11, <1>12, ConcatProperties
  <2> QED
    BY <1>11, <1>12, <2>1
<1>14. /\ s \in Seq(Entries)
       /\ Len(s) = Len(q) + 1
       /\ \A i \in 1..(Len(q) + 1) :
            s[i] = IF i <= n + 1 THEN (a \o <<new>>)[i] ELSE rest[i - (n + 1)]
  <2> DEFINE b == a \o <<new>>
  <2>1. b \in Seq(Entries) /\ Len(b) = n + 1
    BY <1>13
  <2> HIDE DEF b
  <2>2. /\ b \o rest \in Seq(Entries)
        /\ Len(b \o rest) = Len(b) + Len(rest)
        /\ \A i \in 1..(Len(b) + Len(rest)) :
             (b \o rest)[i] = IF i <= Len(b) THEN b[i] ELSE rest[i - Len(b)]
    BY <1>10, <2>1, ConcatProperties
  <2>3. Len(b) + Len(rest) = Len(q) + 1
    BY <1>2, <1>10, <2>1
  <2> QED
    BY <1>5, <2>1, <2>2, <2>3 DEF b
<1>15. \A i \in 1..n : s[i] = q[i]
  <2> SUFFICES ASSUME NEW i \in 1..n PROVE s[i] = q[i]
    OBVIOUS
  <2>1. i \in 1..(Len(q) + 1) /\ i <= n + 1 /\ i \in 1..(n + 1) /\ i <= n
    BY <1>2
  <2> QED
    BY <1>11, <1>13, <1>14, <2>1
<1>16. s[n + 1] = new
  <2>1. n + 1 \in 1..(Len(q) + 1) /\ n + 1 \in 1..(n + 1) /\ ~(n + 1 <= n)
        /\ (n + 1) - n = 1
    BY <1>2
  <2> QED
    BY <1>12, <1>13, <1>14, <2>1
<1>17. \A i \in (n + 1)..Len(q) : s[i + 1] = rest[i - n] /\ i - n \in 1..(Len(q) - n)
                                 /\ n + (i - n) = i
  <2> SUFFICES ASSUME NEW i \in (n + 1)..Len(q)
               PROVE  /\ s[i + 1] = rest[i - n] /\ i - n \in 1..(Len(q) - n)
                      /\ n + (i - n) = i
    OBVIOUS
  <2>1. i + 1 \in 1..(Len(q) + 1) /\ ~(i + 1 <= n + 1) /\ (i + 1) - (n + 1) = i - n
        /\ i - n \in 1..(Len(q) - n) /\ n + (i - n) = i
    BY <1>2
  <2> QED
    BY <1>14, <2>1
<1>18. \A i \in (n + 1)..Len(q) :
         /\ s[i + 1].token = q[i].token /\ s[i + 1].due = q[i].due
         /\ s[i + 1].delta = IF i = n + 1 THEN q[i].delta - delta ELSE q[i].delta
  <2> SUFFICES ASSUME NEW i \in (n + 1)..Len(q)
               PROVE  /\ s[i + 1].token = q[i].token /\ s[i + 1].due = q[i].due
                      /\ s[i + 1].delta = IF i = n + 1 THEN q[i].delta - delta
                                                       ELSE q[i].delta
    OBVIOUS
  <2>1. s[i + 1] = rest[i - n] /\ i - n \in 1..(Len(q) - n) /\ n + (i - n) = i
        /\ (i - n = 1 <=> i = n + 1)
    BY <1>2, <1>17
  <2> QED
    BY <1>9, <2>1
<1> DEFINE g == [i \in 0..(Len(q) + 1) |->
                   IF i <= n THEN R[i] ELSE IF i = n + 1 THEN delay ELSE R[i - 1]]
<1>19. g[0] = 0 /\ \A i \in 1..Len(s) : g[i] = g[i - 1] + s[i].delta
  <2>1. g[0] = 0
    BY <1>2, <1>3
  <2>2. ASSUME NEW i \in 1..(Len(q) + 1) PROVE g[i] = g[i - 1] + s[i].delta
    <3>1. CASE i <= n
      <4>1. g[i] = R[i] /\ g[i - 1] = R[i - 1] /\ i \in 1..Len(q) /\ i \in 1..n
        BY <1>2, <3>1
      <4> HIDE DEF g
      <4> QED
        BY <1>3, <1>15, <4>1
    <3>2. CASE i = n + 1
      <4>1. g[i] = delay /\ g[i - 1] = R[n]
        BY <1>2, <3>2
      <4>2. s[i].delta = delta
        BY <1>16, <3>2 DEF new
      <4> HIDE DEF g
      <4> QED
        BY <1>6, <4>1, <4>2
    <3>3. CASE i = n + 2
      <4>1. g[i] = R[n + 1] /\ g[i - 1] = delay /\ n < Len(q) /\ i - 1 = n + 1
            /\ n + 1 \in (n + 1)..Len(q) /\ i = (n + 1) + 1
        BY <1>2, <3>3
      <4>2. s[i].delta = q[n + 1].delta - delta
        BY <1>18, <4>1
      <4>3. R[n + 1] = R[n] + q[n + 1].delta /\ q[n + 1].delta \in Nat
        BY <1>7, <4>1
      <4> HIDE DEF g
      <4> QED
        BY SMTT(30), <1>6, <4>1, <4>2, <4>3
    <3>4. CASE i > n + 2
      <4>1. /\ g[i] = R[i - 1] /\ g[i - 1] = R[(i - 1) - 1]
            /\ i - 1 \in 1..Len(q) /\ i - 1 \in (n + 1)..Len(q) /\ i = (i - 1) + 1
            /\ i - 1 # n + 1
        BY <1>2, <3>4
      <4>2. s[i].delta = q[i - 1].delta
        BY <1>18, <4>1
      <4> HIDE DEF g
      <4> QED
        BY <1>3, <4>1, <4>2
    <3> QED
      BY <1>2, <3>1, <3>2, <3>3, <3>4
  <2> HIDE DEF g
  <2> QED
    BY <1>14, <2>1, <2>2
<1> HIDE DEF g
<1>20. \A i \in 0..(Len(q) + 1) : Remaining(s)[i] = g[i]
  BY <1>14, <1>19, SumIs
<1>21. /\ s[n + 1].token = token /\ s[n + 1].due = time + delay
       /\ Remaining(s)[n + 1] = delay
  <2>1. n + 1 \in 0..(Len(q) + 1) /\ ~(n + 1 <= n)
    BY <1>2
  <2> QED
    BY <1>16, <1>20, <2>1 DEF new, g
<1>22. ASSUME NEW i \in 1..Len(q)
       PROVE  LET k == IF i <= n THEN i ELSE i + 1 IN
              /\ s[k].token = q[i].token /\ s[k].due = q[i].due
              /\ Remaining(s)[k] = R[i]
              /\ R[i] <= delay <=> i <= n
  <2>1. CASE i <= n
    <3>1. i \in 1..n /\ i \in 0..(Len(q) + 1)
      BY <1>2, <2>1
    <3>2. Remaining(s)[i] = R[i]
      BY <1>20, <2>1, <3>1 DEF g
    <3> QED
      BY <1>1, <1>15, <2>1, <3>1, <3>2
  <2>2. CASE ~(i <= n)
    <3>1. i \in (n + 1)..Len(q) /\ i + 1 \in 0..(Len(q) + 1) /\ ~(i + 1 <= n)
          /\ i + 1 # n + 1 /\ (i + 1) - 1 = i /\ i \in 0..Len(q)
      BY <1>2, <2>2
    <3>2. Remaining(s)[i + 1] = R[i]
      BY <1>20, <3>1 DEF g
    <3>3. R[i] > delay /\ R[i] \in Nat
      BY <1>1, <1>4, <3>1
    <3> QED
      BY <1>18, <2>2, <3>1, <3>2, <3>3
  <2> QED
    BY <2>1, <2>2
<1> QED
  BY <1>1, <1>14, <1>21, <1>22 DEF n, R, s, Added

-----------------------------------------------------------------------------
(* The invariant *)

(* The queued entries have tokens of their own, none newer than upTo.      *)
Distinct(q, upTo) ==
  \A i, j \in 1..Len(q) :
    /\ q[i].token <= upTo
    /\ q[i].token = q[j].token => i = j

(* TimersAccurate of queue q synchronized at sync, with setBack for back.  *)
(* The second conjunct is what carries it over a synchronize() that finds  *)
(* the clock set back to before the last one: no time is then taken off,   *)
(* while the clock reads less.                                             *)
InTime(q, sync, setBack) ==
  \A i \in 1..Len(q) :
    /\ q[i].due - setBack <= sync + Remaining(q)[i]
    /\ q[i].due <= time + Remaining(q)[i]
    /\ sync + Remaining(q)[i] <= Bigger(q[i].due, sync)

(* An entry was scheduled for no later than those behind it, as far as the *)
(* clock was not set back in between.                                      *)
Ordered(q, setBack) ==
  \A i, j \in 1..Len(q) :
    i < j => \/ q[i].due < q[j].due + setBack
             \/ /\ q[i].due = q[j].due + setBack
                /\ setBack = 0 => q[i].token < q[j].token

IInv ==
  /\ TypeOK
  /\ Distinct(queue, tokens)
  /\ InTime(queue, lastSync, back)
  /\ Ordered(queue, back)

(* A synchronized queue is as good as it was, and in time by the clock of  *)
(* now.                                                                    *)
LEMMA SynchronizeKeeps ==
  ASSUME IInv
  PROVE  /\ Synchronize(queue) \in Seq(Entries)
         /\ Distinct(Synchronize(queue), tokens)
         /\ InTime(Synchronize(queue), Clock, back)
         /\ Ordered(Synchronize(queue), back)
<1> DEFINE s == Synchronize(queue)
<1>1. /\ time \in Int /\ back \in Int /\ lastSync \in Int /\ queue \in Seq(Entries)
  BY BoundsAssumption DEF IInv, TypeOK
<1>2. /\ s \in Seq(Entries) /\ Len(s) = Len(queue)
      /\ \A i \in 1..Len(queue) :
           /\ s[i].token = queue[i].token /\ s[i].due = queue[i].due
           /\ Remaining(s)[i] = Bigger(0, Remaining(queue)[i] - Elapsed)
  BY <1>1, SynchronizeLemma
<1> HIDE DEF s
<1>3. Distinct(s, tokens)
  BY <1>2 DEF IInv, Distinct
<1>4. Ordered(s, back)
  BY <1>2 DEF IInv, Ordered
<1>5. ASSUME NEW i \in 1..Len(queue)
      PROVE  /\ s[i].due - back <= Clock + Remaining(s)[i]
             /\ s[i].due <= time + Remaining(s)[i]
             /\ Clock + Remaining(s)[i] <= Bigger(s[i].due, Clock)
  <2> DEFINE r == Remaining(queue)[i]
             due == queue[i].due
  <2>1. r \in Nat
    <3>1. i \in 0..Len(queue)
      BY <1>1
    <3> QED
      BY <1>1, <3>1, RemainingGrows
  <2>2. due \in Nat
    BY <1>1, EntryFields
  <2>3. /\ due - back <= lastSync + r /\ due <= time + r
        /\ lastSync + r <= Bigger(due, lastSync)
    BY DEF IInv, InTime
  <2>4. s[i].due = due /\ Remaining(s)[i] = Bigger(0, r - Elapsed)
    BY <1>2
  <2> HIDE DEF r, due
  <2>5. CASE Clock < lastSync
    <3>1. Remaining(s)[i] = r
      BY <2>1, <2>4, <2>5 DEF Elapsed, Bigger
    <3>2. time = Clock + back /\ Clock \in Int
      BY <1>1 DEF Clock
    <3>3. Clock + r <= Bigger(due, Clock)
      BY <1>1, <2>1, <2>2, <2>3, <2>5, <3>2 DEF Bigger
    <3> QED
      BY <1>1, <2>1, <2>2, <2>3, <2>4, <3>1, <3>2, <3>3
  <2>6. CASE ~(Clock < lastSync)
    <3>1. time = Clock + back /\ Clock \in Int /\ Elapsed = Clock - lastSync
      BY <1>1, <2>6 DEF Clock, Elapsed
    <3>2. Remaining(s)[i] = IF lastSync + r > Clock THEN lastSync + r - Clock ELSE 0
      BY <1>1, <2>1, <2>4, <3>1 DEF Bigger
    <3> HIDE DEF Clock, Elapsed
    <3> QED
      BY <1>1, <2>1, <2>2, <2>3, <2>4, <2>6, <3>1, <3>2 DEF Bigger
  <2> QED
    BY <2>5, <2>6
<1>6. InTime(s, Clock, back)
  BY <1>2, <1>5 DEF InTime
<1> QED
  BY <1>2, <1>3, <1>4, <1>6 DEF s

(* An entry taken out leaves the others as they were.                      *)
LEMMA RemoveKeeps ==
  ASSUME NEW q \in Seq(Entries), NEW n \in 1..Len(q), NEW sync \in Int,
         Distinct(q, tokens), InTime(q, sync, back), Ordered(q, back)
  PROVE  /\ RemoveEntry(q, n) \in Seq(Entries)
         /\ Distinct(RemoveEntry(q, n), tokens)
         /\ InTime(RemoveEntry(q, n), sync, back)
         /\ Ordered(RemoveEntry(q, n), back)
<1> DEFINE s == RemoveEntry(q, n)
           k(i) == IF i < n THEN i ELSE i + 1
<1>1. /\ s \in Seq(Entries) /\ Len(s) = Len(q) - 1
      /\ \A i \in 1..(Len(q) - 1) :
           /\ s[i].token = q[k(i)].token /\ s[i].due = q[k(i)].due
           /\ Remaining(s)[i] = Remaining(q)[k(i)]
  BY RemoveLemma
<1>2. \A i \in 1..(Len(q) - 1) : k(i) \in 1..Len(q)
  OBVIOUS
<1>3. \A i, j \in 1..(Len(q) - 1) :
        (i < j => k(i) < k(j)) /\ (k(i) = k(j) => i = j)
  OBVIOUS
<1> HIDE DEF s, k
<1>4. Distinct(s, tokens)
  <2> SUFFICES ASSUME NEW i \in 1..(Len(q) - 1), NEW j \in 1..(Len(q) - 1)
               PROVE  s[i].token <= tokens /\ (s[i].token = s[j].token => i = j)
    BY <1>1 DEF Distinct
  <2>1. /\ k(i) \in 1..Len(q) /\ k(j) \in 1..Len(q) /\ (k(i) = k(j) => i = j)
        /\ s[i].token = q[k(i)].token /\ s[j].token = q[k(j)].token
    BY <1>1, <1>2, <1>3
  <2>2. q[k(i)].token <= tokens /\ (q[k(i)].token = q[k(j)].token => k(i) = k(j))
    BY <2>1 DEF Distinct
  <2> QED
    BY <2>1, <2>2
<1>5. InTime(s, sync, back)
  BY <1>1, <1>2 DEF InTime
<1>6. Ordered(s, back)
  <2> SUFFICES ASSUME NEW i \in 1..(Len(q) - 1), NEW j \in 1..(Len(q) - 1), i < j
               PROVE  \/ s[i].due < s[j].due + back
                      \/ /\ s[i].due = s[j].due + back
                         /\ back = 0 => s[i].token < s[j].token
    BY <1>1 DEF Ordered
  <2>1. /\ k(i) \in 1..Len(q) /\ k(j) \in 1..Len(q) /\ k(i) < k(j)
        /\ s[i].token = q[k(i)].token /\ s[j].token = q[k(j)].token
        /\ s[i].due = q[k(i)].due /\ s[j].due = q[k(j)].due
    BY <1>1, <1>2, <1>3
  <2>2. \/ q[k(i)].due < q[k(j)].due + back
        \/ /\ q[k(i)].due = q[k(j)].due + back
           /\ back = 0 => q[k(i)].token < q[k(j)].token
    BY <2>1 DEF Ordered
  <2> QED
    BY <2>1, <2>2
<1> QED
  BY <1>1, <1>4, <1>5, <1>6 DEF s

(* An entry added to a queue synchronized now.                             *)
LEMMA AddKeeps ==
  ASSUME NEW q \in Seq(Entries), NEW delay \in Nat,
         time \in Nat, back \in Nat, tokens \in Nat, NEW token \in 1..MaxTasks,
         token = tokens + 1,
         Distinct(q, tokens), InTime(q, Clock, back), Ordered(q, back)
  PROVE  LET s == AddEntry(q, token, delay) IN
         /\ s \in Seq(Entries)
         /\ Distinct(s, token)
         /\ InTime(s, Clock, back)
         /\ Ordered(s, back)
<1> DEFINE s == AddEntry(q, token, delay)
           n == Place(q, delay)
           k(i) == IF i <= n THEN i ELSE i + 1
           old(i) == IF i <= n THEN i ELSE i - 1
<1>1. /\ s \in Seq(Entries) /\ Len(s) = Len(q) + 1 /\ n \in 0..Len(q)
      /\ s[n + 1].token = token /\ s[n + 1].due = time + delay
      /\ Remaining(s)[n + 1] = delay
      /\ \A i \in 1..Len(q) :
           /\ s[k(i)].token = q[i].token /\ s[k(i)].due = q[i].due
           /\ Remaining(s)[k(i)] = Remaining(q)[i]
           /\ Remaining(q)[i] <= delay <=> i <= n
  <2>1. Added(s, q, n, token, delay)
    BY AddLemma
  <2> HIDE DEF s, n
  <2> QED
    BY <2>1 DEF Added
<1> HIDE DEF s, n
<1>2. Len(q) \in Nat /\ n \in Nat /\ n <= Len(q)
  BY <1>1
<1>3. ASSUME NEW i \in 1..Len(s), i # n + 1
      PROVE  /\ old(i) \in 1..Len(q) /\ (old(i) <= n <=> i <= n)
             /\ s[i].token = q[old(i)].token /\ s[i].due = q[old(i)].due
             /\ Remaining(s)[i] = Remaining(q)[old(i)]
             /\ Remaining(q)[old(i)] <= delay <=> i <= n
  <2>1. old(i) \in 1..Len(q) /\ k(old(i)) = i /\ (old(i) <= n <=> i <= n)
    BY <1>1, <1>2, <1>3
  <2> HIDE DEF old, k
  <2> QED
    BY <1>1, <2>1
<1>4. \A i, j \in 1..Len(s) : i # n + 1 /\ j # n + 1 =>
        (i < j => old(i) < old(j)) /\ (old(i) = old(j) => i = j)
  BY <1>1, <1>2
<1> HIDE DEF old, k
<1>5. \A i \in 1..Len(q) :
        /\ q[i].token \in Nat /\ q[i].token <= tokens
        /\ q[i].due \in Nat /\ Remaining(q)[i] \in Nat
        /\ q[i].due <= Clock + back + Remaining(q)[i]
        /\ Clock + Remaining(q)[i] <= Bigger(q[i].due, Clock)
  <2> SUFFICES ASSUME NEW i \in 1..Len(q)
               PROVE  /\ q[i].token \in Nat /\ q[i].token <= tokens
                      /\ q[i].due \in Nat /\ Remaining(q)[i] \in Nat
                      /\ q[i].due <= Clock + back + Remaining(q)[i]
                      /\ Clock + Remaining(q)[i] <= Bigger(q[i].due, Clock)
    OBVIOUS
  <2>1. q[i].token \in Nat /\ q[i].due \in Nat
    <3>1. q[i].token \in 1..MaxTasks /\ q[i].due \in Nat
      BY EntryFields
    <3> QED
      BY <3>1, BoundsAssumption
  <2>2. Remaining(q)[i] \in Nat
    <3>1. i \in 0..Len(q)
      BY <1>2
    <3> QED
      BY <3>1, RemainingGrows
  <2>3. q[i].token <= tokens
    BY DEF Distinct
  <2>4. /\ q[i].due - back <= Clock + Remaining(q)[i]
        /\ Clock + Remaining(q)[i] <= Bigger(q[i].due, Clock)
    BY DEF InTime
  <2>5. Clock \in Int
    BY DEF Clock
  <2> QED
    BY <2>1, <2>2, <2>3, <2>4, <2>5
<1>6. Clock \in Int /\ time = Clock + back
  BY DEF Clock
<1>7. Distinct(s, token)
  <2> SUFFICES ASSUME NEW i \in 1..Len(s), NEW j \in 1..Len(s)
               PROVE  s[i].token <= token /\ (s[i].token = s[j].token => i = j)
    BY DEF Distinct
  <2>1. \A h \in 1..Len(s) : h # n + 1 => s[h].token \in Nat /\ s[h].token <= tokens
    BY <1>3, <1>5
  <2>2. CASE i = n + 1 \/ j = n + 1
    <3>1. s[n + 1].token = token /\ \A t \in Nat : t <= tokens => t < token
      BY <1>1
    <3>2. \A h \in 1..Len(s) : h # n + 1 => s[h].token < s[n + 1].token
      BY <2>1, <3>1
    <3>3. token \in Int
      OBVIOUS
    <3> QED
      BY SMTT(30), <2>1, <2>2, <3>1, <3>2, <3>3
  <2>3. CASE i # n + 1 /\ j # n + 1
    <3>1. /\ old(i) \in 1..Len(q) /\ old(j) \in 1..Len(q)
          /\ s[i].token = q[old(i)].token /\ s[j].token = q[old(j)].token
          /\ (old(i) = old(j) => i = j)
      BY <1>3, <1>4, <2>3
    <3>2. q[old(i)].token = q[old(j)].token => old(i) = old(j)
      BY <3>1 DEF Distinct
    <3> QED
      BY <2>1, <2>3, <3>1, <3>2
  <2> QED
    BY <2>2, <2>3
<1>8. InTime(s, Clock, back)
  <2> SUFFICES ASSUME NEW i \in 1..Len(s)
               PROVE  /\ s[i].due - back <= Clock + Remaining(s)[i]
                      /\ s[i].due <= time + Remaining(s)[i]
                      /\ Clock + Remaining(s)[i] <= Bigger(s[i].due, Clock)
    BY DEF InTime
  <2>1. CASE i = n + 1
    <3>1. s[i].due = Clock + back + delay /\ Remaining(s)[i] = delay
      BY <1>1, <1>6, <2>1
    <3>2. Clock + delay <= Bigger(Clock + back + delay, Clock)
      BY <1>6 DEF Bigger
    <3> QED
      BY <1>6, <3>1, <3>2
  <2>2. CASE i # n + 1
    <3>1. /\ old(i) \in 1..Len(q) /\ s[i].due = q[old(i)].due
          /\ Remaining(s)[i] = Remaining(q)[old(i)]
      BY <1>3, <2>2
    <3> QED
      BY <3>1 DEF InTime
  <2> QED
    BY <2>1, <2>2
<1>9. Ordered(s, back)
  <2> SUFFICES ASSUME NEW i \in 1..Len(s), NEW j \in 1..Len(s), i < j
               PROVE  \/ s[i].due < s[j].due + back
                      \/ /\ s[i].due = s[j].due + back
                         /\ back = 0 => s[i].token < s[j].token
    BY DEF Ordered
  <2>1. CASE i = n + 1
    <3>1. /\ j # n + 1 /\ ~(j <= n) /\ s[i].due = Clock + back + delay
      BY SMTT(30), <1>1, <1>2, <1>6, <2>1
    <3>2. /\ old(j) \in 1..Len(q) /\ s[j].due = q[old(j)].due
          /\ ~(Remaining(q)[old(j)] <= delay)
      BY <1>3, <3>1
    <3>3. /\ q[old(j)].due \in Nat /\ Remaining(q)[old(j)] \in Nat
          /\ Clock + Remaining(q)[old(j)] <= Bigger(q[old(j)].due, Clock)
      BY <1>5, <3>2
    <3>4. Clock + Remaining(q)[old(j)] <= q[old(j)].due
      BY SMTT(30), <1>6, <3>2, <3>3 DEF Bigger
    <3> QED
      BY SMTT(30), <1>6, <3>1, <3>2, <3>3, <3>4
  <2>2. CASE j = n + 1
    <3>1. /\ i # n + 1 /\ i <= n /\ s[j].due = Clock + back + delay
          /\ s[j].token = token
      BY <1>1, <1>2, <1>6, <2>2
    <3>2. /\ old(i) \in 1..Len(q) /\ s[i].due = q[old(i)].due
          /\ s[i].token = q[old(i)].token /\ Remaining(q)[old(i)] <= delay
      BY <1>3, <3>1
    <3>3. /\ q[old(i)].due \in Nat /\ Remaining(q)[old(i)] \in Nat
          /\ q[old(i)].due <= Clock + back + Remaining(q)[old(i)]
          /\ q[old(i)].token \in Nat /\ q[old(i)].token <= tokens
      BY <1>5, <3>2
    <3>4. \A r \in Nat, d \in Nat :
            r <= delay /\ d <= Clock + back + r => d <= Clock + back + delay
      BY <1>6
    <3>5. q[old(i)].due <= Clock + back + delay
      BY <3>2, <3>3, <3>4
    <3>6. q[old(i)].token < token
      BY <3>3
    <3>7. \/ q[old(i)].due < Clock + back + delay + back
          \/ q[old(i)].due = Clock + back + delay + back
      BY SMTT(30), <1>6, <3>3, <3>5
    <3> QED
      BY <3>1, <3>2, <3>6, <3>7
  <2>3. CASE i # n + 1 /\ j # n + 1
    <3>1. /\ old(i) \in 1..Len(q) /\ old(j) \in 1..Len(q) /\ old(i) < old(j)
          /\ s[i].token = q[old(i)].token /\ s[j].token = q[old(j)].token
          /\ s[i].due = q[old(i)].due /\ s[j].due = q[old(j)].due
      BY <1>3, <1>4, <2>3
    <3>2. \/ q[old(i)].due < q[old(j)].due + back
          \/ /\ q[old(i)].due = q[old(j)].due + back
             /\ back = 0 => q[old(i)].token < q[old(j)].token
      BY <3>1 DEF Ordered
    <3> QED
      BY <3>1, <3>2
  <2> QED
    BY <2>1, <2>2, <2>3
<1> QED
  BY <1>1, <1>7, <1>8, <1>9 DEF s

-----------------------------------------------------------------------------
(* The steps *)

LEMMA InitHolds == Init => IInv
<1> SUFFICES ASSUME Init PROVE IInv
  OBVIOUS
<1>1. queue \in Seq(Entries) /\ Len(queue) = 0
  BY DEF Init
<1>2. TypeOK
  BY <1>1, BoundsAssumption DEF Init, TypeOK
<1> QED
  BY <1>1, <1>2 DEF IInv, Distinct, InTime, Ordered

LEMMA TypeFacts ==
  ASSUME IInv
  PROVE  /\ time \in Nat /\ back \in Nat /\ tokens \in Nat /\ lastSync \in Int
         /\ queue \in Seq(Entries) /\ Len(queue) \in Nat
         /\ Clock \in (-MaxBack)..MaxTime
<1>1. time \in 0..MaxTime /\ back \in 0..MaxBack /\ tokens \in 0..MaxTasks
      /\ lastSync \in (-MaxBack)..MaxTime /\ queue \in Seq(Entries)
  BY DEF IInv, TypeOK
<1>2. Clock \in (-MaxBack)..MaxTime
  BY <1>1, BoundsAssumption DEF Clock
<1> QED
  BY <1>1, <1>2, BoundsAssumption

(* A step after which the queue is s, synchronized at sync.                *)
LEMMA QueueStep ==
  ASSUME IInv, NEW s \in Seq(Entries), NEW sync \in (-MaxBack)..MaxTime,
         NEW upTo \in 0..MaxTasks,
         Distinct(s, upTo), InTime(s, sync, back), Ordered(s, back),
         queue' = s, lastSync' = sync, tokens' = upTo, time' = time, back' = back,
         fired'.entry \in Entries \cup {NoEntry}, fired'.waiting \in SUBSET (1..MaxTasks)
  PROVE  IInv'
<1>1. TypeOK'
  BY DEF IInv, TypeOK
<1>2. \A i \in 1..Len(s) :
        /\ s[i].due - back <= sync + Remaining(s)[i]
        /\ s[i].due <= time + Remaining(s)[i]
        /\ sync + Remaining(s)[i] <= Bigger(s[i].due, sync)
  BY DEF InTime
<1>3. InTime(queue, lastSync, back)'
  BY <1>2 DEF InTime
<1>4. Distinct(queue', tokens') /\ Ordered(queue', back')
  OBVIOUS
<1> QED
  BY <1>1, <1>3, <1>4 DEF IInv

LEMMA ScheduleStep ==
  ASSUME IInv, NEW delay \in Delays, ScheduleDelayedTask(delay)
  PROVE  IInv'
<1> DEFINE q == Synchronize(queue)
           new == tokens + 1
           s == AddEntry(q, new, delay)
<1>1. q \in Seq(Entries) /\ Distinct(q, tokens) /\ InTime(q, Clock, back) /\ Ordered(q, back)
  BY SynchronizeKeeps
<1>2. delay \in Nat /\ time \in Nat /\ back \in Nat /\ tokens \in Nat
      /\ new \in 1..MaxTasks /\ new \in 0..MaxTasks /\ Clock \in (-MaxBack)..MaxTime
  BY TypeFacts, DelaysAssumption, BoundsAssumption DEF ScheduleDelayedTask
<1>5. new = tokens + 1
  OBVIOUS
<1> HIDE DEF q, new
<1>3. s \in Seq(Entries) /\ Distinct(s, new) /\ InTime(s, Clock, back) /\ Ordered(s, back)
  BY <1>1, <1>2, <1>5, AddKeeps
<1> HIDE DEF s
<1>4. /\ queue' = s /\ tokens' = new /\ lastSync' = Clock
      /\ time' = time /\ back' = back /\ fired' = fired
  BY DEF ScheduleDelayedTask, q, s, new
<1>6. fired'.entry \in Entries \cup {NoEntry} /\ fired'.waiting \in SUBSET (1..MaxTasks)
  BY <1>4 DEF IInv, TypeOK
<1> QED
  BY <1>2, <1>3, <1>4, <1>6, QueueStep

LEMMA UnscheduleStep ==
  ASSUME IInv, NEW n \in DOMAIN queue, UnscheduleDelayedTask(n)
  PROVE  IInv'
<1> DEFINE s == RemoveEntry(queue, n)
<1>1. n \in 1..Len(queue) /\ queue \in Seq(Entries) /\ lastSync \in Int
  BY TypeFacts
<1>2. Distinct(queue, tokens) /\ InTime(queue, lastSync, back) /\ Ordered(queue, back)
  BY DEF IInv
<1>3. s \in Seq(Entries) /\ Distinct(s, tokens) /\ InTime(s, lastSync, back) /\ Ordered(s, back)
  BY <1>1, <1>2, RemoveKeeps
<1> HIDE DEF s
<1>4. /\ queue' = s /\ tokens' = tokens /\ lastSync' = lastSync
      /\ time' = time /\ back' = back /\ fired' = fired
  BY DEF UnscheduleDelayedTask, s
<1>5. /\ lastSync \in (-MaxBack)..MaxTime /\ tokens \in 0..MaxTasks
      /\ fired'.entry \in Entries \cup {NoEntry} /\ fired'.waiting \in SUBSET (1..MaxTasks)
  BY <1>4 DEF IInv, TypeOK
<1> QED
  BY <1>3, <1>4, <1>5, QueueStep

(* The queue handleAlarm() looks at: synchronized, unless its head was     *)
(* known to be due.                                                        *)
Seen == IF HeadDue(queue) THEN queue ELSE Synchronize(queue)
SeenSync == IF HeadDue(queue) THEN lastSync ELSE Clock

LEMMA SeenFacts ==
  ASSUME IInv
  PROVE  /\ Seen \in Seq(Entries) /\ SeenSync \in (-MaxBack)..MaxTime
         /\ Distinct(Seen, tokens) /\ InTime(Seen, SeenSync, back) /\ Ordered(Seen, back)
         /\ Len(Seen) = Len(queue)
         /\ \A i \in 1..Len(queue) :
              Seen[i].token = queue[i].token /\ Seen[i].due = queue[i].due
<1>1. CASE HeadDue(queue)
  BY <1>1, TypeFacts DEF Seen, SeenSync, IInv, TypeOK
<1>2. CASE ~HeadDue(queue)
  <2>1. Seen = Synchronize(queue) /\ SeenSync = Clock
    BY <1>2 DEF Seen, SeenSync
  <2>2. time \in Int /\ back \in Int /\ lastSync \in Int /\ queue \in Seq(Entries)
        /\ Clock \in (-MaxBack)..MaxTime
    BY TypeFacts
  <2>3. /\ Len(Seen) = Len(queue)
        /\ \A i \in 1..Len(queue) :
             Seen[i].token = queue[i].token /\ Seen[i].due = queue[i].due
    BY <2>1, <2>2, SynchronizeLemma
  <2> QED
    BY <2>1, <2>2, <2>3, SynchronizeKeeps
<1> QED
  BY <1>1, <1>2

LEMMA TimeToNextAlarmStep ==
  ASSUME IInv, TimeToNextAlarm
  PROVE  IInv'
<1>1. /\ queue' = Seen /\ tokens' = tokens /\ lastSync' = SeenSync
      /\ time' = time /\ back' = back /\ fired' = fired
  BY DEF TimeToNextAlarm, Seen, SeenSync
<1>2. /\ tokens \in 0..MaxTasks
      /\ fired'.entry \in Entries \cup {NoEntry} /\ fired'.waiting \in SUBSET (1..MaxTasks)
  BY <1>1 DEF IInv, TypeOK
<1> QED
  BY <1>1, <1>2, SeenFacts, QueueStep

LEMMA HandleAlarmStep ==
  ASSUME IInv, HandleAlarm
  PROVE  IInv'
<1>1. /\ tokens' = tokens /\ lastSync' = SeenSync /\ time' = time /\ back' = back
      /\ tokens \in 0..MaxTasks
  BY DEF HandleAlarm, SeenSync, IInv, TypeOK
<1>2. /\ Seen \in Seq(Entries) /\ SeenSync \in (-MaxBack)..MaxTime
      /\ Distinct(Seen, tokens) /\ InTime(Seen, SeenSync, back) /\ Ordered(Seen, back)
  BY SeenFacts
<1>3. CASE HeadDue(Seen)
  <2> DEFINE s == RemoveEntry(Seen, 1)
  <2>1. 1 \in 1..Len(Seen) /\ SeenSync \in Int
    BY <1>2, <1>3, BoundsAssumption DEF HeadDue
  <2>2. s \in Seq(Entries) /\ Distinct(s, tokens) /\ InTime(s, SeenSync, back)
        /\ Ordered(s, back)
    BY <1>2, <2>1, RemoveKeeps
  <2>3. /\ queue' = s
        /\ fired' = [entry |-> Seen[1], waiting |-> {Seen[i].token : i \in 2..Len(Seen)}]
    BY <1>3 DEF HandleAlarm, Seen
  <2>4. Seen[1] \in Entries /\ \A i \in 2..Len(Seen) : Seen[i].token \in 1..MaxTasks
    <3>1. \A i \in 2..Len(Seen) : i \in 1..Len(Seen)
      BY <2>1
    <3> QED
      BY <1>2, <2>1, <3>1, EntryFields
  <2> HIDE DEF s
  <2>5. fired'.entry \in Entries \cup {NoEntry} /\ fired'.waiting \in SUBSET (1..MaxTasks)
    BY <2>3, <2>4
  <2> QED
    BY <1>1, <1>2, <2>2, <2>3, <2>5, QueueStep
<1>4. CASE ~HeadDue(Seen)
  <2>1. queue' = Seen /\ fired' = fired
    BY <1>4 DEF HandleAlarm, Seen
  <2>2. fired'.entry \in Entries \cup {NoEntry} /\ fired'.waiting \in SUBSET (1..MaxTasks)
    BY <2>1 DEF IInv, TypeOK
  <2> QED
    BY <1>1, <1>2, <2>1, <2>2, QueueStep
<1> QED
  BY <1>3, <1>4

(* Time that passes makes nothing early; a clock set back makes nothing    *)
(* late by more.                                                           *)
LEMMA ClockStep ==
  ASSUME IInv, TimePasses \/ ClockSetBack
  PROVE  IInv'
<1>1. queue' = queue /\ lastSync' = lastSync /\ tokens' = tokens /\ fired' = fired
  BY DEF TimePasses, ClockSetBack
<1>2. /\ time \in Nat /\ back \in Nat /\ time' \in Nat /\ back' \in Nat
      /\ time' >= time /\ back' >= back
      /\ time' \in 0..MaxTime /\ back' \in 0..MaxBack
  BY BoundsAssumption DEF IInv, TypeOK, TimePasses, ClockSetBack
<1>3. lastSync \in Int /\ queue \in Seq(Entries)
  BY TypeFacts
<1>4. ASSUME NEW i \in 1..Len(queue)
      PROVE  queue[i].due \in Nat /\ queue[i].token \in Nat /\ Remaining(queue)[i] \in Nat
  <2>1. queue[i].due \in Nat /\ queue[i].token \in 1..MaxTasks
    BY <1>3, EntryFields
  <2>2. i \in 0..Len(queue)
    BY <1>3
  <2> QED
    BY <1>3, <2>1, <2>2, RemainingGrows, BoundsAssumption
<1>5. TypeOK'
  BY <1>1, <1>2 DEF IInv, TypeOK
<1>6. InTime(queue, lastSync, back)'
  <2> SUFFICES ASSUME NEW i \in 1..Len(queue)
               PROVE  /\ queue[i].due - back' <= lastSync + Remaining(queue)[i]
                      /\ queue[i].due <= time' + Remaining(queue)[i]
                      /\ lastSync + Remaining(queue)[i] <= Bigger(queue[i].due, lastSync)
    BY <1>1 DEF InTime
  <2>1. /\ queue[i].due - back <= lastSync + Remaining(queue)[i]
        /\ queue[i].due <= time + Remaining(queue)[i]
        /\ lastSync + Remaining(queue)[i] <= Bigger(queue[i].due, lastSync)
    BY DEF IInv, InTime
  <2>2. queue[i].due \in Nat /\ Remaining(queue)[i] \in Nat
    BY <1>4
  <2> QED
    BY SMTT(30), <1>2, <1>3, <2>1, <2>2
<1>7. Ordered(queue, back)'
  <2> SUFFICES ASSUME NEW i \in 1..Len(queue), NEW j \in 1..Len(queue), i < j
               PROVE  \/ queue[i].due < queue[j].due + back'
                      \/ /\ queue[i].due = queue[j].due + back'
                         /\ back' = 0 => queue[i].token < queue[j].token
    BY <1>1 DEF Ordered
  <2>1. \/ queue[i].due < queue[j].due + back
        \/ /\ queue[i].due = queue[j].due + back
           /\ back = 0 => queue[i].token < queue[j].token
    BY DEF IInv, Ordered
  <2>2. queue[i].due \in Nat /\ queue[j].due \in Nat
    BY <1>4
  <2> QED
    BY SMTT(30), <1>2, <2>1, <2>2
<1>8. Distinct(queue, tokens)'
  BY <1>1 DEF IInv, Distinct
<1> QED
  BY <1>5, <1>6, <1>7, <1>8 DEF IInv

LEMMA NextKeeps == IInv /\ [Next]_vars => IInv'
<1> SUFFICES ASSUME IInv, [Next]_vars PROVE IInv'
  OBVIOUS
<1>1. CASE TimePasses \/ ClockSetBack
  BY <1>1, ClockStep
<1>2. CASE \E delay \in Delays : ScheduleDelayedTask(delay)
  BY <1>2, ScheduleStep
<1>3. CASE \E n \in DOMAIN queue : UnscheduleDelayedTask(n)
  BY <1>3, UnscheduleStep
<1>4. CASE TimeToNextAlarm
  BY <1>4, TimeToNextAlarmStep
<1>5. CASE HandleAlarm
  BY <1>5, HandleAlarmStep
<1>6. CASE UNCHANGED vars
  BY <1>6 DEF vars, IInv, TypeOK, Distinct, InTime, Ordered
<1> QED
  BY <1>1, <1>2, <1>3, <1>4, <1>5, <1>6 DEF Next

LEMMA Invariant == Spec => []IInv
BY InitHolds, NextKeeps, PTL DEF Spec

-----------------------------------------------------------------------------
(* The queue keeps its shape: no delta is negative, however entries are    *)
(* added, removed and synchronized.                                        *)
THEOREM TypeCorrect == Spec => []TypeOK
<1>1. IInv => TypeOK
  BY DEF IInv
<1> QED
  BY <1>1, Invariant, PTL

(* No task is early, or late by more than the clock was set back, whatever *)
(* is scheduled, unscheduled or run before it.                             *)
THEOREM Accurate == Spec => []TimersAccurate
<1>1. IInv => TimersAccurate
  BY TypeFacts DEF IInv, InTime, TimersAccurate
<1> QED
  BY <1>1, Invariant, PTL

(* Tasks run in the order of their due times, as far as the clock was not  *)
(* set back, and in the order they were scheduled when due at once.        *)
THEOREM DueOrder == Spec => RunsInDueOrder
<1> DEFINE InOrder ==
      fired' # fired =>
        \A i \in DOMAIN queue :
          queue[i].token \in fired'.waiting =>
            \/ fired'.entry.due < queue[i].due + back
            \/ fired'.entry.due = queue[i].due + back
               /\ (back = 0 => fired'.entry.token < queue[i].token)
<1>1. IInv /\ [Next]_vars => [InOrder]_vars
  <2> SUFFICES ASSUME IInv, Next, fired' # fired, NEW i \in DOMAIN queue,
                      queue[i].token \in fired'.waiting
               PROVE  \/ fired'.entry.due < queue[i].due + back
                      \/ fired'.entry.due = queue[i].due + back
                         /\ (back = 0 => fired'.entry.token < queue[i].token)
    OBVIOUS
  <2>1. HandleAlarm
    BY DEF Next, TimePasses, ClockSetBack, ScheduleDelayedTask, UnscheduleDelayedTask,
           TimeToNextAlarm
  <2>2. /\ HeadDue(Seen)
        /\ fired' = [entry |-> Seen[1], waiting |-> {Seen[k].token : k \in 2..Len(Seen)}]
    BY <2>1 DEF HandleAlarm, Seen
  <2>3. PICK k \in 2..Len(Seen) : Seen[k].token = queue[i].token
    BY <2>2
  <2>4. Len(Seen) \in Nat /\ i \in 1..Len(Seen) /\ 1 \in 1..Len(Seen) /\ k \in 1..Len(Seen)
        /\ 1 < k
    BY <2>3, SeenFacts, TypeFacts
  <2>5. Seen[i].token = queue[i].token /\ Seen[i].due = queue[i].due
    BY <2>4, SeenFacts
  <2>6. k = i
    BY <2>3, <2>4, <2>5, SeenFacts DEF Distinct
  <2>7. \/ Seen[1].due < Seen[i].due + back
        \/ Seen[1].due = Seen[i].due + back /\ (back = 0 => Seen[1].token < Seen[i].token)
    BY <2>4, <2>6, SeenFacts DEF Ordered
  <2>8. fired'.entry = Seen[1]
    BY <2>2
  <2> QED
    BY <2>5, <2>7, <2>8
<1> QED
  BY <1>1, Invariant, PTL DEF Spec, RunsInDueOrder
=============================================================================
