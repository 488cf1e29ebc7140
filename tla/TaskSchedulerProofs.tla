------------------------ MODULE TaskSchedulerProofs ------------------------
(***************************************************************************)
(* Proofs about TaskScheduler, for any number of sockets, conditions and   *)
(* event triggers.                                                         *)
(*                                                                         *)
(* That no socket is overtaken twice is a matter of positions in the list  *)
(* of handlers: whoever was handled while a socket waits is searched for   *)
(* only after it (PassedAreLater), however handlers that are set, cleared  *)
(* and moved shift the list.                                               *)
(***************************************************************************)
EXTENDS TaskScheduler, Extrema, SequenceTheorems, TLAPS

USE SocketsAssumption, TriggersAssumption, ChangesAssumption

-----------------------------------------------------------------------------
LEMMA LeastOfLemma ==
  ASSUME NEW T, T \subseteq Nat, T # {}
  PROVE  LeastOf(T) \in T /\ \A m \in T : LeastOf(T) <= m
BY LeastExists DEF LeastOf

(* The search for a trigger finds one of those it looks for.               *)
LEMMA FirstOfLemma ==
  ASSUME fLastUsedTriggerNum \in Triggers, NEW T, T \subseteq Triggers, T # {}
  PROVE  FirstOf(T) \in T
<1> DEFINE D == {Distance(t) : t \in T}
<1>1. \A t \in T : Distance(t) \in Nat
  BY DEF Distance, Triggers
<1>2. PICK n \in D : \A m \in D : n <= m
  <2>1. D \subseteq Nat /\ D # {}
    BY <1>1
  <2> QED
    BY <2>1, LeastExists
<1>3. \E t \in T : \A u \in T : Distance(t) <= Distance(u)
  BY <1>2
<1> QED
  BY <1>3 DEF FirstOf

(* A new handler is put in front of the others.                            *)
LEMMA AssignNewLemma ==
  ASSUME fHandlers \in Seq(Handler), NEW s \in Sockets, s \notin Registered,
         NEW conditions \in SUBSET Conditions, conditions # {}
  PROVE  LET t == AssignHandler(s, conditions) IN
         /\ t \in Seq(Handler)
         /\ Len(t) = Len(fHandlers) + 1
         /\ t[1] = [socketNum |-> s, conditionSet |-> conditions]
         /\ \A i \in 1..Len(fHandlers) : t[i + 1] = fHandlers[i]
<1> DEFINE h == [socketNum |-> s, conditionSet |-> conditions]
<1>1. h \in Handler
  BY DEF Handler
<1>2. <<h>> \in Seq(Handler) /\ Len(<<h>>) = 1 /\ <<h>>[1] = h
  BY <1>1
<1>3. AssignHandler(s, conditions) = <<h>> \o fHandlers
  BY DEF AssignHandler
<1> HIDE DEF h
<1>4. /\ <<h>> \o fHandlers \in Seq(Handler)
      /\ Len(<<h>> \o fHandlers) = 1 + Len(fHandlers)
      /\ \A i \in 1..(1 + Len(fHandlers)) :
           (<<h>> \o fHandlers)[i] = IF i <= 1 THEN <<h>>[i] ELSE fHandlers[i - 1]
  BY <1>2, ConcatProperties
<1>5. Len(fHandlers) \in Nat
  BY LenProperties
<1> QED
  BY <1>2, <1>3, <1>4, <1>5 DEF h

(* The handler of a socket is taken out of the list.                       *)
LEMMA ClearLemma ==
  ASSUME fHandlers \in Seq(Handler), NEW s \in Registered
  PROVE  LET t == ClearHandler(s) IN
         \E i \in DOMAIN fHandlers :
           /\ fHandlers[i].socketNum = s
           /\ t \in Seq(Handler)
           /\ Len(t) = Len(fHandlers) - 1
           /\ \A j \in 1..(Len(fHandlers) - 1) :
                t[j] = IF j < i THEN fHandlers[j] ELSE fHandlers[j + 1]
<1> DEFINE i == CHOOSE n \in DOMAIN fHandlers : fHandlers[n].socketNum = s
           n == Len(fHandlers)
           a == SubSeq(fHandlers, 1, i - 1)
           b == SubSeq(fHandlers, i + 1, n)
<1>1. n \in Nat /\ DOMAIN fHandlers = 1..n /\ \A j \in 1..n : fHandlers[j] \in Handler
  BY LenProperties, ElementOfSeq
<1>2. i \in 1..n /\ fHandlers[i].socketNum = s
  BY <1>1 DEF Registered
<1>3. ClearHandler(s) = a \o b
  BY DEF ClearHandler
<1> HIDE DEF i, n
<1>4. a \in Seq(Handler) /\ Len(a) = i - 1 /\ \A j \in 1..(i - 1) : a[j] = fHandlers[j]
  <2>1. i - 1 \in Nat /\ i - 1 <= n /\ 1 \in Int /\ i - 1 \in Int /\ 1..(i - 1) \subseteq 1..n
    BY <1>1, <1>2
  <2>2. a \in Seq(Handler) /\ Len(a) = i - 1
    BY <2>1, <1>1, <1>2, SubSeqProperties
  <2> QED
    BY <2>1, <2>2, <1>1, <1>2, SubSeqProperties
<1>5. b \in Seq(Handler) /\ Len(b) = n - i /\ \A j \in 1..(n - i) : b[j] = fHandlers[i + j]
  BY <1>1, <1>2, SubSeqProperties
<1> HIDE DEF a, b
<1>6. /\ a \o b \in Seq(Handler) /\ Len(a \o b) = Len(a) + Len(b)
      /\ \A j \in 1..(Len(a) + Len(b)) :
           (a \o b)[j] = IF j <= Len(a) THEN a[j] ELSE b[j - Len(a)]
  BY <1>4, <1>5, ConcatProperties
<1>7. /\ Len(a) + Len(b) = n - 1
      /\ \A j \in 1..(n - 1) :
           (a \o b)[j] = IF j < i THEN fHandlers[j] ELSE fHandlers[j + 1]
  <2>1. Len(a) + Len(b) = n - 1
    BY <1>1, <1>2, <1>4, <1>5
  <2> SUFFICES ASSUME NEW j \in 1..(n - 1)
               PROVE  (a \o b)[j] = IF j < i THEN fHandlers[j] ELSE fHandlers[j + 1]
    BY <2>1
  <2>2. CASE j < i
    BY <2>1, <2>2, <1>1, <1>2, <1>4, <1>6
  <2>3. CASE ~(j < i)
    <3>1. j - (i - 1) \in 1..(n - i) /\ ~(j <= i - 1) /\ i + (j - (i - 1)) = j + 1
      BY <2>3, <1>1, <1>2
    <3>2. (a \o b)[j] = b[j - (i - 1)]
      BY <2>1, <3>1, <1>4, <1>6
    <3> QED
      BY <3>1, <3>2, <2>3, <1>5
  <2> QED
    BY <2>2, <2>3
<1> QED
  BY <1>1, <1>2, <1>3, <1>6, <1>7 DEF n
(* A function from 1..n to handlers is a list of n handlers.               *)
LEMMA ListLemma ==
  ASSUME NEW n \in Nat, NEW t \in [1..n -> Handler]
  PROVE  t \in Seq(Handler) /\ Len(t) = n /\ DOMAIN t = 1..n
<1>1. t \in Seq(Handler)
  BY SeqDef
<1> QED
  BY <1>1, LenProperties

(* The handler of a socket that has one is set in place.                   *)
LEMMA AssignLemma ==
  ASSUME fHandlers \in Seq(Handler), NEW s \in Sockets, s \in Registered,
         NEW conditions \in SUBSET Conditions, conditions # {}
  PROVE  LET t == AssignHandler(s, conditions) IN
         /\ t \in Seq(Handler)
         /\ Len(t) = Len(fHandlers)
         /\ \A i \in 1..Len(fHandlers) :
              t[i] = IF fHandlers[i].socketNum = s
                       THEN [socketNum |-> s, conditionSet |-> conditions]
                       ELSE fHandlers[i]
<1> DEFINE h == [socketNum |-> s, conditionSet |-> conditions]
           t == AssignHandler(s, conditions)
<1>1. h \in Handler
  BY DEF Handler
<1>2. /\ Len(fHandlers) \in Nat /\ DOMAIN fHandlers = 1..Len(fHandlers)
      /\ \A i \in 1..Len(fHandlers) : fHandlers[i] \in Handler
  BY LenProperties, ElementOfSeq
<1>3. t = [i \in 1..Len(fHandlers) |-> IF fHandlers[i].socketNum = s THEN h
                                                                 ELSE fHandlers[i]]
  BY <1>2 DEF AssignHandler
<1>4. t \in [1..Len(fHandlers) -> Handler]
  BY <1>1, <1>2, <1>3
<1> HIDE DEF t
<1>5. t \in Seq(Handler) /\ Len(t) = Len(fHandlers)
  BY <1>2, <1>4, ListLemma
<1>6. \A i \in 1..Len(fHandlers) :
        t[i] = IF fHandlers[i].socketNum = s THEN h ELSE fHandlers[i]
  BY <1>3
<1> QED
  BY <1>5, <1>6 DEF t

(* Moving a socket's handler renames it in place.                          *)
LEMMA MoveLemma ==
  ASSUME fHandlers \in Seq(Handler), NEW old \in Sockets, NEW new \in Sockets,
         MoveSocketHandling(old, new)
  PROVE  /\ fHandlers' \in Seq(Handler)
         /\ Len(fHandlers') = Len(fHandlers)
         /\ \A i \in 1..Len(fHandlers) :
              /\ fHandlers'[i].socketNum =
                   IF fHandlers[i].socketNum = old THEN new ELSE fHandlers[i].socketNum
              /\ fHandlers'[i].conditionSet = fHandlers[i].conditionSet
<1>2. /\ Len(fHandlers) \in Nat /\ DOMAIN fHandlers = 1..Len(fHandlers)
      /\ \A i \in 1..Len(fHandlers) : fHandlers[i] \in Handler
  BY LenProperties, ElementOfSeq
<1>3. fHandlers' = [i \in 1..Len(fHandlers) |->
        IF fHandlers[i].socketNum = old
          THEN [fHandlers[i] EXCEPT !.socketNum = new] ELSE fHandlers[i]]
  BY <1>2 DEF MoveSocketHandling
<1>4. \A h \in Handler : /\ [h EXCEPT !.socketNum = new] \in Handler
                         /\ [h EXCEPT !.socketNum = new].socketNum = new
                         /\ [h EXCEPT !.socketNum = new].conditionSet = h.conditionSet
  BY DEF Handler
<1>5. fHandlers' \in [1..Len(fHandlers) -> Handler]
  BY <1>2, <1>3, <1>4
<1>6. fHandlers' \in Seq(Handler) /\ Len(fHandlers') = Len(fHandlers)
  BY <1>2, <1>5, ListLemma
<1> QED
  BY <1>2, <1>3, <1>4, <1>6

(* The position SingleStep chooses is a hit.                               *)
LEMMA ChosenLemma ==
  ASSUME fHandlers \in Seq(Handler), HitPositions # {}
  PROVE  Chosen \in HitPositions /\ Chosen \in DOMAIN fHandlers
<1>1. DOMAIN fHandlers = 1..Len(fHandlers) /\ Len(fHandlers) \in Nat
  BY LenProperties
<1>2. HitPositions \subseteq Nat
  BY <1>1 DEF HitPositions
<1> DEFINE firstScan == {i \in HitPositions : i >= ScanFrom}
           S == IF firstScan # {} THEN firstScan ELSE HitPositions
<1>3. S \subseteq HitPositions /\ S # {}
  OBVIOUS
<1> HIDE DEF S
<1>4. LeastOf(S) \in S
  BY <1>2, <1>3, LeastOfLemma
<1> QED
  BY <1>3, <1>4 DEF Chosen, S, HitPositions

-----------------------------------------------------------------------------
(* Type correctness *)

LEMMA TypeInit == Init => TypeOK
<1> SUFFICES ASSUME Init PROVE TypeOK
  OBVIOUS
<1>1. fHandlers \in Seq(Handler)
  BY EmptySeq DEF Init
<1> QED
  BY <1>1 DEF Init, TypeOK, Triggers

LEMMA TypeSet ==
  ASSUME TypeOK, NEW s \in Sockets, NEW conditions \in SUBSET Conditions,
         SetBackgroundHandling(s, conditions)
  PROVE  TypeOK'
<1> USE DEF TypeOK
<1>1. fdSet' \in [Conditions -> SUBSET Sockets]
  BY DEF SetBackgroundHandling
<1>2. changes' \in 0..MaxChanges
  BY DEF SetBackgroundHandling, Counted
<1>3. fHandlers' \in Seq(Handler)
  <2>1. CASE conditions # {} /\ s \in Registered
    <3>1. AssignHandler(s, conditions) \in Seq(Handler)
      BY <2>1, AssignLemma
    <3> QED
      BY <2>1, <3>1 DEF SetBackgroundHandling
  <2>2. CASE conditions # {} /\ s \notin Registered
    <3>1. AssignHandler(s, conditions) \in Seq(Handler)
      BY <2>2, AssignNewLemma
    <3> QED
      BY <2>2, <3>1 DEF SetBackgroundHandling
  <2>3. CASE conditions = {} /\ s \in Registered
    BY <2>3, ClearLemma DEF SetBackgroundHandling
  <2>4. CASE conditions = {} /\ s \notin Registered
    BY <2>4 DEF SetBackgroundHandling, ClearHandler
  <2> QED
    BY <2>1, <2>2, <2>3, <2>4
<1>4. fMaxNumSockets' \in 0..MaxSockets
  BY DEF SetBackgroundHandling, Sockets
<1>5. passed' \in [Sockets -> SUBSET Sockets]
  BY DEF SetBackgroundHandling, PassedWithout
<1> QED
  BY <1>1, <1>2, <1>3, <1>4, <1>5 DEF SetBackgroundHandling, eventVars

LEMMA TypeMove ==
  ASSUME TypeOK, NEW old \in Sockets, NEW new \in Sockets,
         MoveSocketHandling(old, new)
  PROVE  TypeOK'
<1> USE DEF TypeOK
<1>1. fdSet' \in [Conditions -> SUBSET Sockets]
  BY DEF MoveSocketHandling
<1>2. changes' \in 0..MaxChanges
  BY DEF MoveSocketHandling, Counted
<1>3. fHandlers' \in Seq(Handler)
  BY MoveLemma
<1>4. fMaxNumSockets' \in 0..MaxSockets
  BY DEF MoveSocketHandling, Sockets
<1>5. passed' \in [Sockets -> SUBSET Sockets]
  BY DEF MoveSocketHandling, PassedWithout
<1> QED
  BY <1>1, <1>2, <1>3, <1>4, <1>5 DEF MoveSocketHandling, eventVars

LEMMA TypeStep == TypeOK /\ [Next]_vars => TypeOK'
<1> SUFFICES ASSUME TypeOK, [Next]_vars PROVE TypeOK'
  OBVIOUS
<1> USE DEF socketVars, eventVars
<1>1. CASE \E s \in Sockets, c \in Conditions : SocketReady(s, c)
  BY <1>1 DEF TypeOK, SocketReady
<1>2. CASE Call
  <2>1. CASE \E s \in Sockets, conditions \in SUBSET Conditions :
               SetBackgroundHandling(s, conditions)
    BY <2>1, TypeSet
  <2>2. CASE \E old, new \in Sockets : MoveSocketHandling(old, new)
    BY <2>2, TypeMove
  <2>3. CASE CreateEventTrigger
    <3>1. fLastUsedTriggerNum' \in Triggers \ events
      <4>1. Triggers \ events # {} /\ Triggers \ events \subseteq Triggers
        BY <2>3 DEF TypeOK, CreateEventTrigger
      <4> QED
        BY <2>3, <4>1, FirstOfLemma DEF TypeOK, CreateEventTrigger
    <3>2. changes' \in 0..MaxChanges
      BY <2>3 DEF TypeOK, CreateEventTrigger, Counted
    <3> QED
      BY <2>3, <3>1, <3>2 DEF TypeOK, CreateEventTrigger
  <2>4. ASSUME NEW t \in Triggers, DeleteEventTrigger(t) PROVE TypeOK'
    <3>1. changes' \in 0..MaxChanges
      BY <2>4 DEF TypeOK, DeleteEventTrigger, Counted
    <3> QED
      BY <2>4, <3>1 DEF TypeOK, DeleteEventTrigger
  <2>5. ASSUME NEW t \in Triggers, TriggerEvent(t) PROVE TypeOK'
    BY <2>5 DEF TypeOK, TriggerEvent
  <2> QED
    BY <1>2, <2>1, <2>2, <2>3, <2>4, <2>5 DEF Call
<1>3. CASE CallSocketHandler
  <2>1. called' \in Sockets
    <3>1. Chosen \in DOMAIN fHandlers
      BY <1>3, ChosenLemma DEF CallSocketHandler, TypeOK
    <3>2. fHandlers[Chosen] \in Handler
      BY <3>1, LenProperties, ElementOfSeq DEF TypeOK
    <3> QED
      BY <1>3, <3>2 DEF CallSocketHandler, Handler
  <2>2. passed' \in [Sockets -> SUBSET Sockets]
    BY <1>3, <2>1 DEF CallSocketHandler, TypeOK
  <2>3. ready' \in SUBSET (Sockets \X Conditions)
    BY <1>3 DEF CallSocketHandler, TypeOK
  <2> QED
    BY <1>3, <2>1, <2>2, <2>3 DEF CallSocketHandler, TypeOK
<1>4. CASE NoSocketReady
  BY <1>4 DEF TypeOK, NoSocketReady
<1>5. CASE CallEventHandler
  <2>1. CASE awaiting = {fLastUsedTriggerNum}
    BY <1>5, <2>1 DEF TypeOK, CallEventHandler
  <2>2. CASE awaiting # {fLastUsedTriggerNum}
    <3>1. awaiting \subseteq Triggers
      BY DEF TypeOK
    <3>2. found' \in awaiting
      BY <1>5, <2>2, <3>1, FirstOfLemma DEF TypeOK, CallEventHandler
    <3> QED
      BY <1>5, <2>2, <3>1, <3>2 DEF TypeOK, CallEventHandler
  <2> QED
    BY <2>1, <2>2
<1>6. CASE NoEvent
  BY <1>6 DEF TypeOK, NoEvent
<1>7. CASE EventReturns
  BY <1>7 DEF TypeOK, EventReturns
<1>8. CASE AlarmReturns
  BY <1>8 DEF TypeOK, AlarmReturns
<1>9. CASE UNCHANGED vars
  BY <1>9 DEF TypeOK, vars
<1> QED
  BY <1>1, <1>2, <1>3, <1>4, <1>5, <1>6, <1>7, <1>8, <1>9 DEF Next, SingleStep

(* Type correctness: TypeOK is an invariant.                               *)
THEOREM TypeCorrect == Spec => []TypeOK
<1>1. Init => TypeOK
  BY TypeInit
<1>2. TypeOK /\ [Next]_vars => TypeOK'
  BY TypeStep
<1> QED
  BY <1>1, <1>2, PTL DEF Spec
-----------------------------------------------------------------------------
(* select() sees every handler *)

(* A list of handlers, by its positions.                                   *)
LEMMA Positions ==
  ASSUME NEW f \in Seq(Handler)
  PROVE  /\ Len(f) \in Nat /\ DOMAIN f = 1..Len(f)
         /\ \A i \in 1..Len(f) :
              f[i].socketNum \in Sockets /\ f[i].conditionSet \subseteq Conditions
<1>1. /\ Len(f) \in Nat /\ DOMAIN f = 1..Len(f)
      /\ \A i \in 1..Len(f) : f[i] \in Handler
  BY LenProperties, ElementOfSeq
<1> QED
  BY <1>1 DEF Handler

LEMMA SeesSet ==
  ASSUME TypeOK, SelectSeesEveryHandler, TypeOK',
         NEW s \in Sockets, NEW conditions \in SUBSET Conditions,
         SetBackgroundHandling(s, conditions)
  PROVE  SelectSeesEveryHandler'
<1> DEFINE n == Len(fHandlers)
           h == [socketNum |-> s, conditionSet |-> conditions]
           f == fHandlers'
<1>1. /\ n \in Nat /\ DOMAIN fHandlers = 1..n
      /\ \A i \in 1..n : fHandlers[i].socketNum \in Sockets
  BY Positions DEF TypeOK
<1>2. /\ Len(f) \in Nat /\ DOMAIN f = 1..Len(f)
      /\ \A i \in 1..Len(f) : f[i].socketNum \in Sockets
  BY Positions DEF TypeOK
<1>3. /\ fMaxNumSockets \in Nat /\ fdSet \in [Conditions -> SUBSET Sockets]
      /\ s \in Nat /\ Sockets \subseteq Nat
  BY DEF TypeOK, Sockets
<1>4. /\ \A c \in Conditions :
           fdSet'[c] = IF c \in conditions THEN fdSet[c] \cup {s} ELSE fdSet[c] \ {s}
  BY DEF SetBackgroundHandling
<1>5. /\ \A i \in 1..n :
           /\ fHandlers[i].socketNum < fMaxNumSockets
           /\ fHandlers[i].conditionSet =
                {c \in Conditions : fHandlers[i].socketNum \in fdSet[c]}
           /\ \A j \in 1..n : fHandlers[j].socketNum = fHandlers[i].socketNum => i = j
  BY <1>1 DEF SelectSeesEveryHandler
<1>6. \A c \in Conditions : \A u \in fdSet[c] : \E i \in 1..n : fHandlers[i].socketNum = u
  BY <1>1 DEF SelectSeesEveryHandler, Registered
<1>9. SUFFICES
        /\ \A i \in 1..Len(f) :
             /\ f[i].socketNum < fMaxNumSockets'
             /\ f[i].conditionSet = {c \in Conditions : f[i].socketNum \in fdSet'[c]}
             /\ \A j \in 1..Len(f) : f[j].socketNum = f[i].socketNum => i = j
        /\ \A c \in Conditions : \A u \in fdSet'[c] : \E i \in 1..Len(f) : f[i].socketNum = u
  BY <1>2 DEF SelectSeesEveryHandler, Registered
<1>7. CASE conditions # {}
  <2>1. f = AssignHandler(s, conditions)
    BY <1>7 DEF SetBackgroundHandling
  <2>2. fMaxNumSockets' = IF s + 1 > fMaxNumSockets THEN s + 1 ELSE fMaxNumSockets
    BY <1>7 DEF SetBackgroundHandling
  <2>3. conditions = {c \in Conditions : s \in fdSet'[c]}
    BY <1>3, <1>4
  <2>4. CASE s \in Registered
    <3>1. /\ Len(f) = n
          /\ \A i \in 1..n : f[i] = IF fHandlers[i].socketNum = s THEN h ELSE fHandlers[i]
      BY <1>7, <2>1, <2>4, AssignLemma DEF TypeOK
    <3>2. \A i \in 1..n : f[i].socketNum = fHandlers[i].socketNum
      BY <3>1
    <3>3. PICK k \in 1..n : fHandlers[k].socketNum = s
      BY <1>1, <2>4 DEF Registered
    <3> HIDE DEF n, f
    <3>4. ASSUME NEW i \in 1..n
          PROVE  f[i].conditionSet = {c \in Conditions : f[i].socketNum \in fdSet'[c]}
      <4>1. CASE fHandlers[i].socketNum = s
        BY <2>3, <3>1, <3>2, <4>1
      <4>2. CASE fHandlers[i].socketNum # s
        <5>1. f[i] = fHandlers[i]
          BY <3>1, <4>2
        <5>2. \A c \in Conditions :
                fHandlers[i].socketNum \in fdSet'[c] <=> fHandlers[i].socketNum \in fdSet[c]
          BY <1>4, <4>2
        <5>3. fHandlers[i].conditionSet = {c \in Conditions : fHandlers[i].socketNum \in fdSet[c]}
          BY <1>5
        <5> QED
          BY <5>1, <5>2, <5>3
      <4> QED
        BY <4>1, <4>2
    <3>5. ASSUME NEW i \in 1..n PROVE f[i].socketNum < fMaxNumSockets'
      <4>1. /\ fHandlers[i].socketNum \in Nat /\ fHandlers[i].socketNum < fMaxNumSockets
            /\ f[i].socketNum = fHandlers[i].socketNum
        BY <1>1, <1>3, <1>5, <3>2
      <4> QED
        BY <1>3, <2>2, <4>1
    <3>6. ASSUME NEW c \in Conditions, NEW u \in fdSet'[c]
          PROVE  \E i \in 1..n : f[i].socketNum = u
      <4>1. u = s \/ u \in fdSet[c]
        BY <1>4
      <4>2. CASE u = s
        BY <3>2, <3>3, <4>2
      <4>3. CASE u \in fdSet[c]
        BY <1>6, <3>2, <4>3
      <4> QED
        BY <4>1, <4>2, <4>3
    <3> QED
      BY <1>5, <3>1, <3>2, <3>4, <3>5, <3>6
  <2>5. CASE s \notin Registered
    <3>1. /\ Len(f) = n + 1
          /\ f[1] = h
          /\ \A i \in 1..n : f[i + 1] = fHandlers[i]
      BY SMTT(30), <1>7, <2>1, <2>5, AssignNewLemma DEF TypeOK
    <3>2. \A i \in 1..n : fHandlers[i].socketNum # s
      BY <1>1, <2>5 DEF Registered
    <3> HIDE DEF n, f
    <3>3. \A i \in 1..Len(f) :
            i = 1 \/ (i - 1 \in 1..n /\ f[i] = fHandlers[i - 1])
      <4> SUFFICES ASSUME NEW i \in 1..Len(f), i # 1
                   PROVE  i - 1 \in 1..n /\ f[i] = fHandlers[i - 1]
        OBVIOUS
      <4>1. i - 1 \in 1..n /\ (i - 1) + 1 = i
        BY <1>1, <3>1
      <4> QED
        BY <3>1, <4>1
    <3>4. ASSUME NEW i \in 1..Len(f)
          PROVE  /\ f[i].socketNum < fMaxNumSockets'
                 /\ f[i].conditionSet = {c \in Conditions : f[i].socketNum \in fdSet'[c]}
      <4>1. CASE i = 1
        BY <1>3, <2>2, <2>3, <3>1, <4>1
      <4>2. CASE i - 1 \in 1..n /\ f[i] = fHandlers[i - 1]
        <5> DEFINE u == fHandlers[i - 1].socketNum
        <5>1. u \in Nat /\ u < fMaxNumSockets /\ u # s
          BY <1>1, <1>3, <1>5, <3>2, <4>2
        <5>2. \A c \in Conditions : u \in fdSet'[c] <=> u \in fdSet[c]
          BY <1>4, <5>1
        <5>3. fHandlers[i - 1].conditionSet = {c \in Conditions : u \in fdSet[c]}
          BY <1>5, <4>2
        <5>4. u < fMaxNumSockets'
          BY <1>3, <2>2, <5>1
        <5> QED
          BY <4>2, <5>2, <5>3, <5>4
      <4> QED
        BY <3>3, <4>1, <4>2
    <3>5. ASSUME NEW i \in 1..Len(f), NEW j \in 1..Len(f), f[j].socketNum = f[i].socketNum
          PROVE  i = j
      BY <1>5, <3>1, <3>2, <3>3, <3>5
    <3>6. ASSUME NEW c \in Conditions, NEW u \in fdSet'[c]
          PROVE  \E i \in 1..Len(f) : f[i].socketNum = u
      <4>1. CASE u = s
        BY <1>1, <3>1, <4>1
      <4>2. CASE u # s
        <5>1. PICK i \in 1..n : fHandlers[i].socketNum = u
          <6>1. u \in fdSet[c]
            BY <1>4, <4>2
          <6> QED
            BY <1>6, <6>1
        <5>2. i + 1 \in 1..Len(f) /\ f[i + 1].socketNum = u
          BY <1>1, <3>1, <5>1
        <5> QED
          BY <5>2
      <4> QED
        BY <4>1, <4>2
    <3> QED
      BY <3>4, <3>5, <3>6
  <2> QED
    BY <2>4, <2>5
<1>8. CASE conditions = {}
  <2>1. f = ClearHandler(s)
    BY <1>8 DEF SetBackgroundHandling
  <2>2. fMaxNumSockets' = IF s + 1 = fMaxNumSockets THEN fMaxNumSockets - 1 ELSE fMaxNumSockets
    BY <1>8 DEF SetBackgroundHandling
  <2>3. \A c \in Conditions : fdSet'[c] = fdSet[c] \ {s}
    BY <1>4, <1>8
  <2>4. CASE s \in Registered
    <3>1. PICK k \in 1..n :
            /\ fHandlers[k].socketNum = s
            /\ Len(f) = n - 1
            /\ \A j \in 1..(n - 1) : f[j] = IF j < k THEN fHandlers[j] ELSE fHandlers[j + 1]
      BY <1>1, <2>1, <2>4, ClearLemma DEF TypeOK
    <3> HIDE DEF n, f
    <3> DEFINE at(j) == IF j < k THEN j ELSE j + 1
    <3>2. \A j \in 1..(n - 1) : at(j) \in 1..n /\ at(j) # k /\ f[j] = fHandlers[at(j)]
      BY <1>1, <3>1
    <3>3. \A j \in 1..(n - 1) : f[j].socketNum # s
      BY <1>5, <3>1, <3>2
    <3>4. \A i, j \in 1..(n - 1) : at(i) = at(j) => i = j
      OBVIOUS
    <3>5. ASSUME NEW i \in 1..n, i # k PROVE \E j \in 1..(n - 1) : at(j) = i
      <4>1. CASE i < k
        <5>1. i \in 1..(n - 1) /\ at(i) = i
          BY <1>1, <4>1
        <5> QED
          BY <5>1
      <4>2. CASE ~(i < k)
        <5>1. i - 1 \in 1..(n - 1) /\ at(i - 1) = i
          BY <1>1, <3>5, <4>2
        <5> QED
          BY <5>1
      <4> QED
        BY <4>1, <4>2
    <3> HIDE DEF at
    <3>6. ASSUME NEW i \in 1..(n - 1)
          PROVE  /\ f[i].socketNum < fMaxNumSockets'
                 /\ f[i].conditionSet = {c \in Conditions : f[i].socketNum \in fdSet'[c]}
      <4>1. fHandlers[at(i)].socketNum \in Nat /\ fHandlers[at(i)].socketNum < fMaxNumSockets
        BY <1>1, <1>3, <1>5, <3>2
      <4>2. f[i].socketNum < fMaxNumSockets'
        BY <1>3, <2>2, <3>2, <3>3, <4>1
      <4> QED
        BY <1>5, <2>3, <3>2, <3>3, <4>2
    <3>7. ASSUME NEW i \in 1..(n - 1), NEW j \in 1..(n - 1), f[j].socketNum = f[i].socketNum
          PROVE  i = j
      BY <1>5, <3>2, <3>4, <3>7
    <3>8. ASSUME NEW c \in Conditions, NEW u \in fdSet'[c]
          PROVE  \E i \in 1..(n - 1) : f[i].socketNum = u
      <4>1. PICK i \in 1..n : fHandlers[i].socketNum = u
        BY <1>6, <2>3
      <4>2. i # k
        BY <2>3, <3>1, <4>1
      <4>3. PICK j \in 1..(n - 1) : at(j) = i
        BY <3>5, <4>2
      <4> QED
        BY <3>2, <4>1, <4>3
    <3> QED
      BY <3>1, <3>6, <3>7, <3>8
  <2>5. CASE s \notin Registered
    <3>1. f = fHandlers
      BY <2>1, <2>5 DEF ClearHandler
    <3>2. \A i \in 1..n : fHandlers[i].socketNum # s
      BY <1>1, <2>5 DEF Registered
    <3>3. ASSUME NEW i \in 1..n PROVE fHandlers[i].socketNum < fMaxNumSockets'
      <4>1. /\ fHandlers[i].socketNum \in Nat /\ fHandlers[i].socketNum < fMaxNumSockets
            /\ fHandlers[i].socketNum # s
        BY <1>1, <1>3, <1>5, <3>2
      <4> QED
        BY <1>3, <2>2, <4>1
    <3>4. \A i \in 1..n : fHandlers[i].conditionSet =
                            {c \in Conditions : fHandlers[i].socketNum \in fdSet'[c]}
      BY <1>5, <2>3, <3>2
    <3>5. \A c \in Conditions : \A u \in fdSet'[c] : \E i \in 1..n : fHandlers[i].socketNum = u
      BY <1>6, <2>3
    <3> QED
      BY <1>5, <3>1, <3>3, <3>4, <3>5
  <2> QED
    BY <2>4, <2>5
<1> QED
  BY <1>7, <1>8

LEMMA SeesMove ==
  ASSUME TypeOK, SelectSeesEveryHandler, TypeOK',
         NEW old \in Sockets, NEW new \in Sockets, MoveSocketHandling(old, new)
  PROVE  SelectSeesEveryHandler'
<1> DEFINE n == Len(fHandlers)
           f == fHandlers'
<1>1. /\ n \in Nat /\ DOMAIN fHandlers = 1..n
      /\ \A i \in 1..n : fHandlers[i].socketNum \in Sockets
  BY Positions DEF TypeOK
<1>2. /\ DOMAIN f = 1..n
      /\ \A i \in 1..n :
           /\ f[i].socketNum =
                IF fHandlers[i].socketNum = old THEN new ELSE fHandlers[i].socketNum
           /\ f[i].conditionSet = fHandlers[i].conditionSet
  BY MoveLemma, Positions DEF TypeOK
<1>3. /\ fMaxNumSockets \in Nat /\ fdSet \in [Conditions -> SUBSET Sockets]
      /\ old \in Nat /\ new \in Nat /\ Sockets \subseteq Nat
  BY DEF TypeOK, Sockets
<1>4. /\ \A c \in Conditions :
           fdSet'[c] = IF old \in fdSet[c] THEN (fdSet[c] \ {old}) \cup {new} ELSE fdSet[c]
      /\ old # new
  BY DEF MoveSocketHandling
<1>5. /\ \A i \in 1..n :
           /\ fHandlers[i].socketNum < fMaxNumSockets
           /\ fHandlers[i].conditionSet =
                {c \in Conditions : fHandlers[i].socketNum \in fdSet[c]}
           /\ \A j \in 1..n : fHandlers[j].socketNum = fHandlers[i].socketNum => i = j
  BY <1>1 DEF SelectSeesEveryHandler
<1>13. \A c \in Conditions : \A u \in fdSet[c] : \E i \in 1..n : fHandlers[i].socketNum = u
  BY <1>1 DEF SelectSeesEveryHandler, Registered
<1>6. \A i \in 1..n : fHandlers[i].socketNum # new
  BY <1>1 DEF MoveSocketHandling, Registered
<1>7. \A c \in Conditions : new \notin fdSet[c]
  BY <1>6, <1>13
<1>8. SUFFICES
        /\ \A i \in 1..n :
             /\ f[i].socketNum < fMaxNumSockets'
             /\ f[i].conditionSet = {c \in Conditions : f[i].socketNum \in fdSet'[c]}
             /\ \A j \in 1..n : f[j].socketNum = f[i].socketNum => i = j
        /\ \A c \in Conditions : \A u \in fdSet'[c] : \E i \in 1..n : f[i].socketNum = u
  BY <1>2 DEF SelectSeesEveryHandler, Registered
<1> HIDE DEF f, n
<1>9. ASSUME NEW i \in 1..n PROVE f[i].socketNum < fMaxNumSockets'
  <2>1. /\ fHandlers[i].socketNum \in Nat /\ fHandlers[i].socketNum < fMaxNumSockets
        /\ f[i].socketNum = IF fHandlers[i].socketNum = old THEN new ELSE fHandlers[i].socketNum
    BY <1>1, <1>2, <1>3, <1>5
  <2> QED
    BY <2>1, <1>3 DEF MoveSocketHandling
<1>10. ASSUME NEW i \in 1..n
       PROVE  f[i].conditionSet = {c \in Conditions : f[i].socketNum \in fdSet'[c]}
  <2>1. CASE fHandlers[i].socketNum = old
    <3>1. \A c \in Conditions : new \in fdSet'[c] <=> old \in fdSet[c]
      BY <1>4, <1>7
    <3>2. f[i].socketNum = new /\ f[i].conditionSet = fHandlers[i].conditionSet
      BY <1>2, <2>1
    <3>3. fHandlers[i].conditionSet = {c \in Conditions : old \in fdSet[c]}
      BY <1>5, <2>1
    <3> QED
      BY <3>1, <3>2, <3>3
  <2>2. CASE fHandlers[i].socketNum # old
    <3> DEFINE u == fHandlers[i].socketNum
    <3>1. \A c \in Conditions : u \in fdSet'[c] <=> u \in fdSet[c]
      BY <1>4, <1>6, <2>2
    <3>2. f[i].socketNum = u /\ f[i].conditionSet = fHandlers[i].conditionSet
      BY <1>2, <2>2
    <3>3. fHandlers[i].conditionSet = {c \in Conditions : u \in fdSet[c]}
      BY <1>5
    <3> QED
      BY <3>1, <3>2, <3>3
  <2> QED
    BY <2>1, <2>2
<1>11. ASSUME NEW i \in 1..n, NEW j \in 1..n, f[j].socketNum = f[i].socketNum
       PROVE  i = j
  BY <1>2, <1>5, <1>6, <1>11
<1>12. ASSUME NEW c \in Conditions, NEW u \in fdSet'[c]
       PROVE  \E i \in 1..n : f[i].socketNum = u
  <2>1. CASE u \in fdSet[c] /\ u # old
    BY <1>2, <1>13, <2>1
  <2>2. CASE old \in fdSet[c] /\ u = new
    BY <1>2, <1>13, <2>2
  <2> QED
    BY <1>4, <2>1, <2>2
<1> QED
  BY <1>9, <1>10, <1>11, <1>12

LEMMA SeesStep ==
  ASSUME TypeOK, SelectSeesEveryHandler, TypeOK', [Next]_vars
  PROVE  SelectSeesEveryHandler'
<1> USE DEF socketVars
<1>1. CASE UNCHANGED socketVars
  BY <1>1 DEF SelectSeesEveryHandler, Registered
<1>2. CASE \E s \in Sockets, conditions \in SUBSET Conditions :
             SetBackgroundHandling(s, conditions)
  BY <1>2, SeesSet
<1>3. CASE \E old, new \in Sockets : MoveSocketHandling(old, new)
  BY <1>3, SeesMove
<1>4. CASE SingleStep \/ \E s \in Sockets, c \in Conditions : SocketReady(s, c)
  <2>1. UNCHANGED socketVars
    BY <1>4 DEF SingleStep, CallSocketHandler, NoSocketReady, CallEventHandler, NoEvent,
                EventReturns, AlarmReturns, SocketReady
  <2> QED
    BY <1>1, <2>1
<1>5. CASE CreateEventTrigger \/ \E t \in Triggers : DeleteEventTrigger(t) \/ TriggerEvent(t)
  <2>1. UNCHANGED socketVars
    BY <1>5 DEF CreateEventTrigger, DeleteEventTrigger, TriggerEvent
  <2> QED
    BY <1>1, <2>1
<1>6. CASE UNCHANGED vars
  BY <1>1, <1>6 DEF vars
<1> QED
  BY <1>2, <1>3, <1>4, <1>5, <1>6 DEF Next, Call

(* select() is told of every socket that has a handler and of no other,    *)
(* whatever sequence of handlers is set, cleared and moved.                *)
THEOREM SelectSeesAll == Spec => []SelectSeesEveryHandler
<1>1. Init => TypeOK /\ SelectSeesEveryHandler
  <2> SUFFICES ASSUME Init PROVE SelectSeesEveryHandler
    BY TypeInit
  <2>1. DOMAIN fHandlers = {}
    BY DEF Init
  <2> QED
    BY <2>1 DEF Init, SelectSeesEveryHandler
<1>2. TypeOK /\ SelectSeesEveryHandler /\ [Next]_vars => (TypeOK /\ SelectSeesEveryHandler)'
  BY TypeStep, SeesStep
<1> QED
  BY <1>1, <1>2, PTL DEF Spec

-----------------------------------------------------------------------------
(* No socket is overtaken twice *)

(* After position q the search comes to i before it comes to j.            *)
Earlier(i, j, q) ==
  \/ q < i /\ i < j
  \/ i < j /\ j <= q
  \/ j <= q /\ q < i

(* Whoever was handled since a socket waits is searched for after it.      *)
PassedAreLater ==
  /\ \A s \in Sockets : passed[s] # {} =>
       /\ s \in Registered
       /\ passed[s] \subseteq Registered
       /\ fLastHandledSocketNum \in Registered
  /\ \A i, j, q \in DOMAIN fHandlers :
       /\ fHandlers[q].socketNum = fLastHandledSocketNum
       /\ fHandlers[j].socketNum \in passed[fHandlers[i].socketNum]
       => Earlier(i, j, q)

(* Sockets of the list are told apart.                                     *)
LEMMA Unique ==
  ASSUME TypeOK, SelectSeesEveryHandler
  PROVE  \A i, j \in 1..Len(fHandlers) :
           fHandlers[i].socketNum = fHandlers[j].socketNum => i = j
BY Positions DEF TypeOK, SelectSeesEveryHandler

(* The socket that is called is the first of those ready, from where the   *)
(* last search ended.                                                      *)
LEMMA ChosenFirst ==
  ASSUME TypeOK, SelectSeesEveryHandler,
         NEW i \in HitPositions, i # Chosen, NEW q \in DOMAIN fHandlers,
         fHandlers[q].socketNum = fLastHandledSocketNum
  PROVE  Earlier(Chosen, i, q)
<1>1. DOMAIN fHandlers = 1..Len(fHandlers) /\ Len(fHandlers) \in Nat
  BY Positions DEF TypeOK
<1>2. HitPositions \subseteq Nat /\ i \in Nat /\ q \in Nat
  BY <1>1 DEF HitPositions
<1> DEFINE known == {n \in DOMAIN fHandlers :
                       fHandlers[n].socketNum = fLastHandledSocketNum}
           firstScan == {n \in HitPositions : n >= ScanFrom}
<1>3. known = {q}
  BY <1>1, Unique
<1>4. LeastOf(known) = q
  BY <1>2, <1>3, LeastOfLemma
<1>5. ScanFrom = q + 1
  BY <1>3, <1>4 DEF ScanFrom
<1>6. CASE firstScan # {}
  <2>1. Chosen = LeastOf(firstScan)
    BY <1>6 DEF Chosen
  <2>2. firstScan \subseteq Nat
    BY <1>2
  <2> HIDE DEF firstScan
  <2>3. Chosen \in firstScan /\ \A m \in firstScan : Chosen <= m
    BY <1>6, <2>1, <2>2, LeastOfLemma
  <2>4. Chosen \in Nat /\ q < Chosen
    BY <1>2, <1>5, <2>3 DEF firstScan
  <2>5. i > q => Chosen < i
    BY <1>2, <1>5, <2>3, <2>4 DEF firstScan
  <2> QED
    BY <1>2, <2>4, <2>5 DEF Earlier
<1>7. CASE firstScan = {}
  <2>1. Chosen = LeastOf(HitPositions)
    BY <1>7 DEF Chosen
  <2>2. Chosen \in HitPositions /\ \A m \in HitPositions : Chosen <= m
    BY <1>2, <2>1, LeastOfLemma
  <2>3. i <= q /\ Chosen < i
    BY <1>2, <1>5, <1>7, <2>2
  <2> QED
    BY <1>2, <2>2, <2>3 DEF Earlier
<1> QED
  BY <1>6, <1>7

LEMMA PassedCall ==
  ASSUME TypeOK, SelectSeesEveryHandler, PassedAreLater, TypeOK', CallSocketHandler
  PROVE  PassedAreLater'
<1> DEFINE n == Len(fHandlers)
           at(i) == fHandlers[i].socketNum
           k == Chosen
<1>1. /\ n \in Nat /\ DOMAIN fHandlers = 1..n
      /\ \A i \in 1..n : at(i) \in Sockets
  BY Positions DEF TypeOK
<1>2. k \in HitPositions /\ k \in 1..n
  BY <1>1, ChosenLemma DEF TypeOK, CallSocketHandler
<1>3. fHandlers' = fHandlers /\ Registered' = Registered
  BY DEF CallSocketHandler, socketVars, Registered
<1>4. called' = at(k) /\ fLastHandledSocketNum' = at(k)
  BY DEF CallSocketHandler
<1>5. \A s \in Sockets :
        passed'[s] = IF s # at(k) /\ Waiting(s) THEN passed[s] \cup {at(k)} ELSE {}
  BY <1>4 DEF CallSocketHandler
<1>6. at(k) \in Registered
  BY <1>1, <1>2 DEF Registered
<1>7. ASSUME NEW s \in Sockets, passed'[s] # {}
      PROVE  s \in Registered' /\ passed'[s] \subseteq Registered'
             /\ fLastHandledSocketNum' \in Registered'
  <2>1. s # at(k) /\ Waiting(s) /\ passed'[s] = passed[s] \cup {at(k)}
    BY <1>5, <1>7
  <2>2. s \in Registered
    BY <2>1 DEF Waiting, HitPositions, Registered
  <2>3. passed[s] \subseteq Registered
    BY DEF PassedAreLater
  <2> QED
    BY <1>3, <1>4, <1>6, <2>1, <2>2, <2>3
<1>8. ASSUME NEW i \in 1..n, NEW j \in 1..n, NEW q \in 1..n,
             at(q) = at(k), at(j) \in passed'[at(i)]
      PROVE  Earlier(i, j, q)
  <2>1. q = k
    BY <1>2, <1>8, Unique
  <2>2. at(i) # at(k) /\ Waiting(at(i)) /\ at(j) \in passed[at(i)] \cup {at(k)}
    BY <1>1, <1>5, <1>8
  <2>3. i # k /\ i \in HitPositions
    <3>1. PICK m \in HitPositions : at(m) = at(i)
      BY <2>2 DEF Waiting
    <3>2. m \in 1..n
      BY <1>1 DEF HitPositions
    <3>3. m = i
      BY <3>1, <3>2, Unique
    <3> QED
      BY <2>2, <3>3
  <2>4. CASE j = k
    BY <2>1, <2>3, <2>4, <1>1, <1>2 DEF Earlier
  <2>5. CASE j # k
    <3>1. at(j) \in passed[at(i)]
      BY <1>2, <2>2, <2>5, Unique
    <3>2. PICK p \in 1..n : at(p) = fLastHandledSocketNum
      <4>1. fLastHandledSocketNum \in Registered
        BY <1>1, <3>1 DEF PassedAreLater
      <4> QED
        BY <1>1, <4>1 DEF Registered
    <3>3. Earlier(i, j, p)
      BY <1>1, <3>1, <3>2 DEF PassedAreLater
    <3>4. Earlier(k, i, p)
      BY <1>1, <2>3, <3>2, ChosenFirst
    <3> HIDE DEF k, n
    <3> QED
      BY <1>1, <1>2, <2>1, <2>3, <2>5, <3>3, <3>4 DEF Earlier
  <2> QED
    BY <2>4, <2>5
<1> QED
  BY <1>1, <1>3, <1>4, <1>7, <1>8 DEF PassedAreLater

(* Whoever is called was not yet called since another socket waits.        *)
LEMMA NotTwice ==
  ASSUME TypeOK, SelectSeesEveryHandler, PassedAreLater, CallSocketHandler,
         NEW s \in Sockets \ {called'}, Waiting(s)
  PROVE  called' \notin passed[s]
<1> DEFINE n == Len(fHandlers)
<1>1. /\ n \in Nat /\ DOMAIN fHandlers = 1..n
  BY Positions DEF TypeOK
<1>2. Chosen \in 1..n /\ called' = fHandlers[Chosen].socketNum
  BY <1>1, ChosenLemma DEF TypeOK, CallSocketHandler
<1>3. PICK i \in HitPositions : fHandlers[i].socketNum = s
  BY DEF Waiting
<1>4. i \in 1..n /\ i # Chosen
  BY <1>1, <1>2, <1>3 DEF HitPositions
<1>5. SUFFICES ASSUME called' \in passed[s] PROVE FALSE
  OBVIOUS
<1>6. PICK p \in 1..n : fHandlers[p].socketNum = fLastHandledSocketNum
  <2>1. fLastHandledSocketNum \in Registered
    BY <1>5 DEF PassedAreLater
  <2> QED
    BY <1>1, <2>1 DEF Registered
<1>7. Earlier(i, Chosen, p)
  BY <1>1, <1>2, <1>3, <1>4, <1>5, <1>6 DEF PassedAreLater
<1>8. Earlier(Chosen, i, p)
  BY <1>1, <1>3, <1>4, <1>6, ChosenFirst
<1> QED
  BY <1>1, <1>2, <1>4, <1>7, <1>8 DEF Earlier

(* Lists of the same sockets, or of some fewer, in the same order: at maps *)
(* the positions of the new list into those of the old.                    *)
LEMMA PassedKept ==
  ASSUME TypeOK, SelectSeesEveryHandler, PassedAreLater, TypeOK',
         fLastHandledSocketNum' = fLastHandledSocketNum,
         \A u \in Sockets : passed'[u] \subseteq passed[u],
         \A u \in Sockets : passed'[u] # {} =>
           /\ u \in Registered'
           /\ passed'[u] \subseteq Registered'
           /\ fLastHandledSocketNum \in Registered',
         NEW at \in [1..Len(fHandlers') -> Int],
         \A i, j \in 1..Len(fHandlers') : i < j <=> at[i] < at[j],
         \A i \in 1..Len(fHandlers') :
           passed'[fHandlers'[i].socketNum] # {} \/ fHandlers'[i].socketNum \in Registered =>
             /\ at[i] \in 1..Len(fHandlers)
             /\ fHandlers'[i].socketNum = fHandlers[at[i]].socketNum
  PROVE  PassedAreLater'
<1> DEFINE f == fHandlers'
           n == Len(fHandlers)
           m == Len(fHandlers')
<1>1. n \in Nat /\ DOMAIN fHandlers = 1..n
  BY Positions DEF TypeOK
<1>2. m \in Nat /\ DOMAIN f = 1..m /\ \A i \in 1..m : f[i].socketNum \in Sockets
  BY Positions DEF TypeOK
<1>3. SUFFICES ASSUME NEW i \in 1..m, NEW j \in 1..m, NEW q \in 1..m,
                      f[q].socketNum = fLastHandledSocketNum,
                      f[j].socketNum \in passed'[f[i].socketNum]
               PROVE  Earlier(i, j, q)
  BY <1>2 DEF PassedAreLater
<1>4. /\ f[j].socketNum \in passed[f[i].socketNum]
      /\ f[i].socketNum \in Registered /\ f[j].socketNum \in Registered
      /\ f[q].socketNum \in Registered
  BY <1>2, <1>3 DEF PassedAreLater
<1>5. /\ at[i] \in 1..n /\ f[i].socketNum = fHandlers[at[i]].socketNum
      /\ at[j] \in 1..n /\ f[j].socketNum = fHandlers[at[j]].socketNum
      /\ at[q] \in 1..n /\ f[q].socketNum = fHandlers[at[q]].socketNum
  BY <1>4
<1>6. Earlier(at[i], at[j], at[q])
  BY <1>1, <1>3, <1>4, <1>5 DEF PassedAreLater
<1>7. /\ i < j <=> at[i] < at[j]
      /\ q < i <=> at[q] < at[i]
      /\ q < j <=> at[q] < at[j]
  OBVIOUS
<1> HIDE DEF m, n, f
<1> QED
  BY <1>1, <1>2, <1>5, <1>6, <1>7 DEF Earlier

LEMMA PassedSet ==
  ASSUME TypeOK, SelectSeesEveryHandler, PassedAreLater, TypeOK',
         NEW s \in Sockets, NEW conditions \in SUBSET Conditions,
         SetBackgroundHandling(s, conditions)
  PROVE  PassedAreLater'
<1> DEFINE n == Len(fHandlers)
           f == fHandlers'
<1>1. /\ n \in Nat /\ DOMAIN fHandlers = 1..n
      /\ \A i \in 1..n : fHandlers[i].socketNum \in Sockets
  BY Positions DEF TypeOK
<1>2. /\ Len(f) \in Nat /\ DOMAIN f = 1..Len(f)
      /\ \A i \in 1..Len(f) : f[i].socketNum \in Sockets
  BY Positions DEF TypeOK
<1>3. fLastHandledSocketNum' = fLastHandledSocketNum
  BY DEF SetBackgroundHandling
<1>4. \A u \in Sockets : passed[u] # {} =>
        u \in Registered /\ passed[u] \subseteq Registered /\ fLastHandledSocketNum \in Registered
  BY DEF PassedAreLater
<1>5. Registered = {fHandlers[i].socketNum : i \in 1..n}
  BY <1>1 DEF Registered
<1>6. Registered' = {f[i].socketNum : i \in 1..Len(f)}
  BY <1>2 DEF Registered
<1>7. CASE conditions # {}
  <2>1. f = AssignHandler(s, conditions) /\ passed' = passed
    BY <1>7 DEF SetBackgroundHandling
  <2>2. CASE s \in Registered
    <3>1. /\ Len(f) = n
          /\ \A i \in 1..n : f[i] = IF fHandlers[i].socketNum = s
                                      THEN [socketNum |-> s, conditionSet |-> conditions]
                                      ELSE fHandlers[i]
      BY <1>7, <2>1, <2>2, AssignLemma DEF TypeOK
    <3>2. \A i \in 1..n : f[i].socketNum = fHandlers[i].socketNum
      BY <3>1
    <3>3. Registered' = Registered
      BY <1>5, <1>6, <3>1, <3>2
    <3> DEFINE at == [i \in 1..n |-> i]
    <3>4. at \in [1..Len(f) -> Int] /\ \A i \in 1..n : at[i] = i
      BY <3>1
    <3> HIDE DEF at, f, n
    <3> QED
      BY <1>3, <1>4, <2>1, <3>1, <3>2, <3>3, <3>4, PassedKept DEF f, n
  <2>3. CASE s \notin Registered
    <3>1. /\ Len(f) = n + 1
          /\ f[1] = [socketNum |-> s, conditionSet |-> conditions]
          /\ \A i \in 1..n : f[i + 1] = fHandlers[i]
      BY <1>7, <2>1, <2>3, AssignNewLemma DEF TypeOK
    <3> DEFINE at == [i \in 1..(n + 1) |-> i - 1]
    <3>2. /\ at \in [1..Len(f) -> Int]
          /\ \A i, j \in 1..Len(f) : i < j <=> at[i] < at[j]
      BY <1>1, <3>1
    <3>3. Registered \subseteq Registered'
      <4>1. ASSUME NEW i \in 1..n
            PROVE  i + 1 \in 1..Len(f) /\ f[i + 1].socketNum = fHandlers[i].socketNum
        BY <1>1, <3>1
      <4> QED
        BY <1>5, <1>6, <4>1
    <3>4. ASSUME NEW i \in 1..Len(f),
                 passed'[f[i].socketNum] # {} \/ f[i].socketNum \in Registered
          PROVE  at[i] \in 1..n /\ f[i].socketNum = fHandlers[at[i]].socketNum
      <4>1. i # 1
        BY <1>2, <1>4, <2>1, <2>3, <3>1, <3>4
      <4>2. i - 1 \in 1..n /\ (i - 1) + 1 = i /\ at[i] = i - 1
        BY <1>1, <3>1, <4>1
      <4> QED
        BY <3>1, <4>2
    <3> HIDE DEF at
    <3> QED
      BY <1>3, <1>4, <2>1, <3>2, <3>3, <3>4, PassedKept
  <2> QED
    BY <2>2, <2>3
<1>8. CASE conditions = {}
  <2>1. f = ClearHandler(s) /\ passed' = PassedWithout(s)
    BY <1>8 DEF SetBackgroundHandling
  <2>2. \A u \in Sockets :
          passed'[u] = IF s = fLastHandledSocketNum \/ u = s THEN {} ELSE passed[u] \ {s}
    BY <2>1 DEF PassedWithout
  <2>3. \A u \in Sockets : passed'[u] \subseteq passed[u]
    BY <2>2
  <2>4. CASE s \in Registered
    <3>1. PICK k \in 1..n :
            /\ fHandlers[k].socketNum = s
            /\ Len(f) = n - 1
            /\ \A j \in 1..(n - 1) : f[j] = IF j < k THEN fHandlers[j] ELSE fHandlers[j + 1]
      BY <1>1, <2>1, <2>4, ClearLemma DEF TypeOK
    <3> HIDE DEF n
    <3> DEFINE at == [j \in 1..(n - 1) |-> IF j < k THEN j ELSE j + 1]
    <3>2. \A j \in 1..(n - 1) :
            at[j] \in 1..n /\ f[j].socketNum = fHandlers[at[j]].socketNum
      BY <1>1, <3>1
    <3>3. /\ at \in [1..Len(f) -> Int]
          /\ \A i, j \in 1..Len(f) : i < j <=> at[i] < at[j]
      BY <1>1, <3>1
    <3>4. Registered \ {s} \subseteq Registered'
      <4> SUFFICES ASSUME NEW i \in 1..n, fHandlers[i].socketNum # s
                   PROVE  \E j \in 1..(n - 1) : f[j].socketNum = fHandlers[i].socketNum
        BY <1>5, <1>6, <3>1
      <4>1. CASE i < k
        <5>1. i \in 1..(n - 1) /\ at[i] = i
          BY <1>1, <4>1
        <5> QED
          BY <3>2, <5>1
      <4>2. CASE i > k
        <5>1. i - 1 \in 1..(n - 1) /\ at[i - 1] = i
          BY <1>1, <4>2
        <5> QED
          BY <3>2, <5>1
      <4>3. i # k
        BY <3>1
      <4> QED
        BY <4>1, <4>2, <4>3
    <3>5. ASSUME NEW u \in Sockets, passed'[u] # {}
          PROVE  u \in Registered' /\ passed'[u] \subseteq Registered'
                 /\ fLastHandledSocketNum \in Registered'
      <4>1. u # s /\ s # fLastHandledSocketNum /\ passed'[u] = passed[u] \ {s}
        BY <2>2, <3>5
      <4> QED
        BY <1>4, <3>4, <3>5, <4>1
    <3> HIDE DEF at
    <3> QED
      BY <1>3, <2>3, <3>1, <3>2, <3>3, <3>5, PassedKept DEF n
  <2>5. CASE s \notin Registered
    <3>1. f = fHandlers /\ Registered' = Registered
      BY <2>1, <2>5 DEF ClearHandler, Registered
    <3> DEFINE at == [i \in 1..n |-> i]
    <3>2. at \in [1..Len(f) -> Int] /\ \A i \in 1..n : at[i] = i
      BY <3>1
    <3>3. ASSUME NEW u \in Sockets, passed'[u] # {}
          PROVE  u \in Registered' /\ passed'[u] \subseteq Registered'
                 /\ fLastHandledSocketNum \in Registered'
      BY <1>4, <2>3, <3>1, <3>3
    <3> HIDE DEF at
    <3> QED
      BY <1>3, <2>3, <3>1, <3>2, <3>3, PassedKept
  <2> QED
    BY <2>4, <2>5
<1> QED
  BY <1>7, <1>8

LEMMA PassedMove ==
  ASSUME TypeOK, SelectSeesEveryHandler, PassedAreLater, TypeOK',
         NEW old \in Sockets, NEW new \in Sockets, MoveSocketHandling(old, new)
  PROVE  PassedAreLater'
<1> DEFINE n == Len(fHandlers)
           f == fHandlers'
<1>1. /\ n \in Nat /\ DOMAIN fHandlers = 1..n
      /\ \A i \in 1..n : fHandlers[i].socketNum \in Sockets
  BY Positions DEF TypeOK
<1>2. /\ Len(f) = n /\ DOMAIN f = 1..n
      /\ \A i \in 1..n :
           f[i].socketNum =
             IF fHandlers[i].socketNum = old THEN new ELSE fHandlers[i].socketNum
  BY MoveLemma, Positions DEF TypeOK
<1>3. /\ fLastHandledSocketNum' = fLastHandledSocketNum
      /\ old # new /\ new \notin Registered
      /\ \A u \in Sockets :
           passed'[u] = IF old = fLastHandledSocketNum \/ u = old THEN {} ELSE passed[u] \ {old}
  BY DEF MoveSocketHandling, PassedWithout
<1>4. \A u \in Sockets : passed[u] # {} =>
        u \in Registered /\ passed[u] \subseteq Registered /\ fLastHandledSocketNum \in Registered
  BY DEF PassedAreLater
<1>5. Registered \ {old} \subseteq Registered'
  BY <1>1, <1>2 DEF Registered
<1>6. \A u \in Sockets : passed'[u] \subseteq passed[u]
  BY <1>3
<1>7. ASSUME NEW u \in Sockets, passed'[u] # {}
      PROVE  u \in Registered' /\ passed'[u] \subseteq Registered'
             /\ fLastHandledSocketNum \in Registered'
  <2>1. u # old /\ old # fLastHandledSocketNum /\ passed'[u] = passed[u] \ {old}
    BY <1>3, <1>7
  <2> QED
    BY <1>4, <1>5, <1>7, <2>1
<1> DEFINE at == [i \in 1..n |-> i]
<1>8. at \in [1..Len(f) -> Int] /\ \A i \in 1..n : at[i] = i
  BY <1>2
<1>9. ASSUME NEW i \in 1..n,
             passed'[f[i].socketNum] # {} \/ f[i].socketNum \in Registered
      PROVE  f[i].socketNum = fHandlers[i].socketNum
  <2>1. f[i].socketNum # new
    BY <1>3, <1>4, <1>6, <1>9
  <2> QED
    BY <1>2, <2>1
<1>10. /\ \A i, j \in 1..Len(f) : i < j <=> at[i] < at[j]
       /\ \A i \in 1..Len(f) :
            passed'[f[i].socketNum] # {} \/ f[i].socketNum \in Registered =>
              at[i] \in 1..n /\ f[i].socketNum = fHandlers[at[i]].socketNum
  <2> HIDE DEF at
  <2> QED
    BY <1>2, <1>8, <1>9
<1> HIDE DEF at
<1> QED
  BY <1>3, <1>6, <1>7, <1>8, <1>10, PassedKept

LEMMA PassedStep ==
  ASSUME TypeOK, SelectSeesEveryHandler, PassedAreLater, TypeOK', [Next]_vars
  PROVE  PassedAreLater'
<1> USE DEF socketVars
<1>1. CASE UNCHANGED <<fHandlers, fLastHandledSocketNum, passed>>
  BY <1>1 DEF PassedAreLater, Registered
<1>2. CASE \E s \in Sockets, conditions \in SUBSET Conditions :
             SetBackgroundHandling(s, conditions)
  BY <1>2, PassedSet
<1>3. CASE \E old, new \in Sockets : MoveSocketHandling(old, new)
  BY <1>3, PassedMove
<1>4. CASE CallSocketHandler
  BY <1>4, PassedCall
<1>5. CASE NoSocketReady
  <2>1. \A s \in Sockets : passed'[s] = {}
    BY <1>5 DEF NoSocketReady
  <2>2. \A i \in DOMAIN fHandlers' : fHandlers'[i].socketNum \in Sockets
    BY Positions DEF TypeOK
  <2> QED
    BY <2>1, <2>2 DEF PassedAreLater
<1>6. CASE \/ CallEventHandler \/ NoEvent \/ EventReturns \/ AlarmReturns
           \/ \E s \in Sockets, c \in Conditions : SocketReady(s, c)
  <2>1. UNCHANGED <<fHandlers, fLastHandledSocketNum, passed>>
    BY <1>6 DEF CallEventHandler, NoEvent, EventReturns, AlarmReturns, SocketReady
  <2> QED
    BY <1>1, <2>1
<1>7. CASE CreateEventTrigger \/ \E t \in Triggers : DeleteEventTrigger(t) \/ TriggerEvent(t)
  <2>1. UNCHANGED <<fHandlers, fLastHandledSocketNum, passed>>
    BY <1>7 DEF CreateEventTrigger, DeleteEventTrigger, TriggerEvent
  <2> QED
    BY <1>1, <2>1
<1>8. CASE UNCHANGED vars
  BY <1>1, <1>8 DEF vars
<1> QED
  BY <1>2, <1>3, <1>4, <1>5, <1>6, <1>7, <1>8 DEF Next, Call, SingleStep

(* Only while its phase lasts is a socket's handler called.                *)
CalledInPhase == pc # "socket" => called = -1

LEMMA CalledStep == CalledInPhase /\ [Next]_vars => CalledInPhase'
<1> SUFFICES ASSUME CalledInPhase, [Next]_vars PROVE CalledInPhase'
  OBVIOUS
<1>1. CASE Call
  <2>1. UNCHANGED <<pc, called>>
    BY <1>1 DEF Call, SetBackgroundHandling, MoveSocketHandling, CreateEventTrigger,
                DeleteEventTrigger, TriggerEvent
  <2> QED
    BY <2>1 DEF CalledInPhase
<1>2. CASE SingleStep
  BY <1>2 DEF CalledInPhase, SingleStep, CallSocketHandler, NoSocketReady,
              CallEventHandler, NoEvent, EventReturns, AlarmReturns
<1>3. CASE UNCHANGED vars \/ \E s \in Sockets, c \in Conditions : SocketReady(s, c)
  <2>1. UNCHANGED <<pc, called>>
    BY <1>3 DEF vars, SocketReady
  <2> QED
    BY <2>1 DEF CalledInPhase
<1> QED
  BY <1>1, <1>2, <1>3 DEF Next

(* While a socket waits, no other socket's handler is called twice: the    *)
(* search that starts past the last one handled reaches everybody who      *)
(* waits, however the list changes in the meantime.                        *)
THEOREM NotOvertaken == Spec => NotOvertakenTwice
<1> DEFINE Inv == TypeOK /\ SelectSeesEveryHandler /\ PassedAreLater /\ CalledInPhase
           Step == pc = "select" /\ called' # -1 =>
                     \A s \in Sockets \ {called'} : Waiting(s) => called' \notin passed[s]
<1>1. Init => Inv
  <2> SUFFICES ASSUME Init PROVE Inv
    OBVIOUS
  <2>1. DOMAIN fHandlers = {} /\ \A s \in Sockets : passed[s] = {}
    BY DEF Init
  <2> QED
    BY <2>1, TypeInit DEF Init, SelectSeesEveryHandler, PassedAreLater, CalledInPhase
<1>2. Inv /\ [Next]_vars => Inv'
  BY TypeStep, SeesStep, PassedStep, CalledStep
<1>3. Inv /\ [Next]_vars => [Step]_vars
  <2> SUFFICES ASSUME Inv, Next, pc = "select", called' # -1 PROVE CallSocketHandler
    BY NotTwice
  <2>1. called = -1
    BY DEF CalledInPhase
  <2>2. CASE Call
    <3>1. called' = called
      BY <2>2 DEF Call, SetBackgroundHandling, MoveSocketHandling, CreateEventTrigger,
                  DeleteEventTrigger, TriggerEvent
    <3> QED
      BY <2>1, <3>1
  <2>3. CASE SingleStep
    BY <2>1, <2>3 DEF SingleStep, NoSocketReady, CallEventHandler, NoEvent,
                      EventReturns, AlarmReturns
  <2>4. CASE \E s \in Sockets, c \in Conditions : SocketReady(s, c)
    BY <2>1, <2>4 DEF SocketReady
  <2> QED
    BY <2>2, <2>3, <2>4 DEF Next
<1> QED
  <2>1. Spec => [][Step]_vars
    BY <1>1, <1>2, <1>3, PTL DEF Spec
  <2> QED
    BY <2>1 DEF NotOvertakenTwice
=============================================================================
