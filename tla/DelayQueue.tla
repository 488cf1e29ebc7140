------------------------------ MODULE DelayQueue ------------------------------
(***************************************************************************)
(* The timer queue of the event loop: DelayQueue.cpp, as                   *)
(* BasicTaskScheduler0 uses it.  An entry stores its delay as the time     *)
(* after the entry before it; synchronize() takes the time that passed     *)
(* since the last call off the front of the queue.  The wall clock may be  *)
(* set back (NTP, the user) at any time.                                   *)
(*                                                                         *)
(* time is real time and due the real time an entry was scheduled for;     *)
(* both are history, which no action of the code reads.  Times are in one  *)
(* unit; the carry between seconds and microseconds is left out.           *)
(***************************************************************************)
EXTENDS Integers, Sequences

CONSTANTS
  Delays,       \* delays passed to scheduleDelayedTask
  MaxTime,      \* bound: real time
  MaxBack,      \* bound: by how much the clock is set back in all
  MaxTasks      \* bound: tasks ever scheduled

ASSUME DelaysAssumption == Delays \subseteq Nat /\ Delays # {}
ASSUME BoundsAssumption == MaxTime \in Nat /\ MaxBack \in Nat /\ MaxTasks \in Nat

VARIABLES
  time,         \* history: real time
  back,         \* by how much the clock has been set back
  lastSync,     \* fLastSyncTime
  queue,        \* the entries from head() on, without the sentinel
  tokens,       \* tokenCounter
  fired         \* history: the entry whose task ran last, and what was queued then

vars == <<time, back, lastSync, queue, tokens, fired>>

Entries == [token : 1..MaxTasks, delta : Nat, due : Nat]

NoEntry == [token |-> 0, delta |-> 0, due |-> 0]

TypeOK ==
  /\ time \in 0..MaxTime
  /\ back \in 0..MaxBack
  /\ lastSync \in (-MaxBack)..MaxTime
  /\ queue \in Seq(Entries)
  /\ tokens \in 0..MaxTasks
  /\ fired.entry \in Entries \cup {NoEntry}
  /\ fired.waiting \in SUBSET (1..MaxTasks)

Clock == time - back

Init ==
  /\ time = 0
  /\ back = 0
  /\ lastSync = 0
  /\ queue = << >>
  /\ tokens = 0
  /\ fired = [entry |-> NoEntry, waiting |-> {}]

-----------------------------------------------------------------------------
(* The queue *)

Bigger(a, b) == IF a > b THEN a ELSE b

(* When entry i of queue q comes due, counted from the last synchronize(). *)
Remaining(q) ==
  LET sum[i \in 0..Len(q)] == IF i = 0 THEN 0 ELSE sum[i - 1] + q[i].delta
  IN  sum

(* The time synchronize() finds has passed; none when the clock went back. *)
Elapsed == IF Clock < lastSync THEN 0 ELSE Clock - lastSync

(* Mutant: all the time is taken off the first entry.                      *)
SynchronizeHeadOnly(q) ==
  [i \in DOMAIN q |->
     IF i = 1 THEN [q[i] EXCEPT !.delta = @ - Elapsed] ELSE q[i]]

(* synchronize(): entries that are due get delta zero, the first that is   *)
(* not waits for the time that is left.                                    *)
Synchronize(q) ==
  LET left(i) == Bigger(0, Remaining(q)[i] - Elapsed) IN
  [i \in DOMAIN q |->
     [q[i] EXCEPT !.delta = left(i) - (IF i = 1 THEN 0 ELSE left(i - 1))]]

(* Mutant: entries due at the same time go in front of each other.         *)
PlaceBefore(q, delay) ==
  CHOOSE n \in 0..Len(q) :
    /\ \A i \in 1..n : Remaining(q)[i] < delay
    /\ n < Len(q) => Remaining(q)[n + 1] >= delay

(* How many entries an entry with this delay comes after.                  *)
Place(q, delay) ==
  CHOOSE n \in 0..Len(q) :
    /\ \A i \in 1..n : Remaining(q)[i] <= delay
    /\ n < Len(q) => Remaining(q)[n + 1] > delay

AddEntry(q, token, delay) ==
  LET n == Place(q, delay)
      delta == delay - Remaining(q)[n]
      new == [token |-> token, delta |-> delta, due |-> time + delay]
      rest == [i \in 1..(Len(q) - n) |->
                 IF i = 1 THEN [q[n + 1] EXCEPT !.delta = @ - delta] ELSE q[n + i]]
  IN SubSeq(q, 1, n) \o <<new>> \o rest

(* Mutant: the entry's delta is not given to the next one.                 *)
RemoveEntryOnly(q, n) ==
  [i \in 1..(Len(q) - 1) |-> IF i < n THEN q[i] ELSE q[i + 1]]

(* removeEntry(): the entry after it waits for the removed delta as well.  *)
RemoveEntry(q, n) ==
  [i \in 1..(Len(q) - 1) |->
     CASE i < n -> q[i]
       [] i = n -> [q[i + 1] EXCEPT !.delta = @ + q[n].delta]
       [] i > n -> q[i + 1]]

-----------------------------------------------------------------------------
(* The environment *)

TimePasses ==
  /\ time < MaxTime
  /\ time' = time + 1
  /\ UNCHANGED <<back, lastSync, queue, tokens, fired>>

ClockSetBack ==
  /\ back < MaxBack
  /\ back' = back + 1
  /\ UNCHANGED <<time, lastSync, queue, tokens, fired>>

-----------------------------------------------------------------------------
(* The scheduler *)

ScheduleDelayedTask(delay) ==
  /\ tokens < MaxTasks
  /\ tokens' = tokens + 1
  /\ queue' = AddEntry(Synchronize(queue), tokens + 1, delay)
  /\ lastSync' = Clock
  /\ UNCHANGED <<time, back, fired>>

(* unscheduleDelayedTask() of a task that is queued; a token that is not   *)
(* found changes nothing.                                                  *)
UnscheduleDelayedTask(n) ==
  /\ n \in DOMAIN queue
  /\ queue' = RemoveEntry(queue, n)
  /\ UNCHANGED <<time, back, lastSync, tokens, fired>>

HeadDue(q) == q # << >> /\ q[1].delta = 0

(* timeToNextAlarm(), before select(): a due head is not synchronized.     *)
TimeToNextAlarm ==
  /\ ~HeadDue(queue)
  /\ queue' = Synchronize(queue)
  /\ lastSync' = Clock
  /\ UNCHANGED <<time, back, tokens, fired>>

(* Mutant: the clock is not read again before the head is tested.          *)
HandleAlarmUnsynchronized ==
  /\ HeadDue(queue)
  /\ queue' = RemoveEntry(queue, 1)
  /\ fired' = [entry |-> queue[1],
               waiting |-> {queue[i].token : i \in 2..Len(queue)}]
  /\ UNCHANGED <<time, back, lastSync, tokens>>

(* handleAlarm(): synchronize unless the head is known to be due; then, if *)
(* it is, take it out of the queue and run its task.                       *)
HandleAlarm ==
  LET q == IF HeadDue(queue) THEN queue ELSE Synchronize(queue) IN
  /\ lastSync' = IF HeadDue(queue) THEN lastSync ELSE Clock
  /\ IF HeadDue(q)
       THEN /\ queue' = RemoveEntry(q, 1)
            /\ fired' = [entry |-> q[1],
                         waiting |-> {q[i].token : i \in 2..Len(q)}]
       ELSE queue' = q /\ UNCHANGED fired
  /\ UNCHANGED <<time, back, tokens>>

Next ==
  \/ TimePasses \/ ClockSetBack
  \/ \E delay \in Delays : ScheduleDelayedTask(delay)
  \/ \E n \in DOMAIN queue : UnscheduleDelayedTask(n)
  \/ TimeToNextAlarm \/ HandleAlarm

Spec == Init /\ [][Next]_vars

(* The event loop calls handleAlarm() in every SingleStep.                 *)
FairSpec == Spec /\ WF_vars(HandleAlarm)
-----------------------------------------------------------------------------
(* Correctness *)

(* A queued entry is never early, and late by no more than the clock was   *)
(* set back: the clock time at which handleAlarm() will find it due lies   *)
(* between the real time it was scheduled for less the setbacks, and that  *)
(* real time - whatever was scheduled, unscheduled or run before it.       *)
TimersAccurate ==
  \A i \in DOMAIN queue :
    LET runsAt == lastSync + Remaining(queue)[i] IN
    /\ queue[i].due - back <= runsAt
    /\ runsAt <= Bigger(queue[i].due, lastSync)

(* Tasks run in the order of their due times, and first come first served  *)
(* among equals, as far as the clock was not set back: a task overtakes    *)
(* another one by no more than that.                                       *)
RunsInDueOrder ==
  [][fired' # fired =>
       \A i \in DOMAIN queue :
         queue[i].token \in fired'.waiting =>
           \/ fired'.entry.due < queue[i].due + back
           \/ fired'.entry.due = queue[i].due + back
              /\ (back = 0 => fired'.entry.token < queue[i].token)]_vars

(* A task whose time has come, by as much as the clock may ever be set     *)
(* back, does not wait for more than the tasks in front of it: the loop    *)
(* runs it, or it is unscheduled.                                          *)
DueTaskRuns ==
  \A t \in 1..MaxTasks :
    (\E i \in DOMAIN queue : queue[i].token = t /\ queue[i].due + MaxBack <= time)
      ~> (\A i \in DOMAIN queue : queue[i].token # t)
=============================================================================
