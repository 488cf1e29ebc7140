-------------------------------- MODULE RTCP --------------------------------
(***************************************************************************)
(* The RTCP instance of one subsession (RTCP.cpp with the rules of RFC     *)
(* 3550 in rtcp_from_spec.c), as the player uses it: it has a source and   *)
(* no sink, sends receiver reports over UDP, counts the members of the     *)
(* session, and calls the session's BYE handler.                           *)
(*                                                                         *)
(* Times are relative to the wall clock now: elapsed since fPrevReportTime,*)
(* wait until fNextReportTime; the clock may be set back, the timer queue  *)
(* does not mind (DelayQueue).  A member's SSRC is kept with the report    *)
(* count of the time it was last heard: age is how many reports ago that   *)
(* was, phase is the count modulo the reaping period.  rtcp_interval(),    *)
(* a random number, is any of a few intervals.                             *)
(***************************************************************************)
EXTENDS Integers, Sequences, FiniteSets

CONSTANTS
  SSRCs,             \* the other participants
  None,              \* no SSRC
  ReapPeriod,        \* membershipReapPeriod: 5
  Intervals,         \* what rtcp_interval() may return ...
  InitialIntervals,  \* ... and what it may return before the first report
  MaxByes,           \* bound: BYE packets that arrive
  MaxSetback         \* bound: how far the clock is set back in all

ASSUME SSRCsAssumption == IsFiniteSet(SSRCs) /\ None \notin SSRCs
ASSUME PeriodAssumption == ReapPeriod \in Nat \ {0}
ASSUME IntervalsAssumption ==
  /\ Intervals \subseteq Nat \ {0} /\ IsFiniteSet(Intervals) /\ Intervals # {}
  /\ InitialIntervals \subseteq Nat \ {0} /\ IsFiniteSet(InitialIntervals)
  /\ InitialIntervals # {}
ASSUME BoundsAssumption == MaxByes \in Nat /\ MaxSetback \in Nat

VARIABLES
  members,     \* fKnownMembers: every participant but ourselves
  age,         \* age[s]: reports since member s was heard, 0 for others
  phase,       \* fOutgoingReportCount modulo ReapPeriod
  prevMembers, \* fPrevNumMembers
  initial,     \* fIsInitial: no report was sent yet
  elapsed,     \* now - fPrevReportTime
  wait,        \* fNextReportTime - now
  timers,      \* remaining times of onExpire() tasks; the last is nextTask()
  stats,       \* SSRCs that have a record in receptionStatsDB()
  byeHandler,  \* fByeHandlerTask # NULL
  closed,      \* the destructor has run
  fresh,       \* history: SSRCs that sent data or an SR since the last report
  since,       \* history: time since the last report, or since the start
  shrinks,     \* history: reconsiderations since then, each after a BYE
  sent,        \* history: how many reports were sent, modulo 2
  budget       \* BYEs and setbacks left

memberVars == <<members, age, prevMembers>>
reportVars == <<since, shrinks, sent>>
timeVars == <<elapsed, wait, timers, reportVars>>
vars == <<memberVars, phase, initial, timeVars, stats, byeHandler, closed,
          fresh, budget>>

LongestOf(S) == CHOOSE t \in S : \A u \in S : u <= t
ShortestOf(S) == CHOOSE t \in S : \A u \in S : t <= u

Longest == LongestOf(Intervals \cup InitialIntervals)

TypeOK ==
  /\ members \in SUBSET SSRCs
  /\ age \in [SSRCs -> 0..(2 * ReapPeriod - 1)]
  /\ phase \in 0..(ReapPeriod - 1)
  /\ prevMembers \in 1..(Cardinality(SSRCs) + 1)
  /\ initial \in BOOLEAN
  /\ elapsed \in (-MaxSetback)..Longest
  /\ wait \in 0..(Longest + MaxSetback)
  /\ timers \in Seq(0..(Longest + MaxSetback))
  /\ stats \in SUBSET SSRCs
  /\ byeHandler \in BOOLEAN /\ closed \in BOOLEAN
  /\ fresh \in SUBSET SSRCs
  /\ since \in Nat /\ shrinks \in Nat /\ sent \in 0..1
  /\ budget \in [byes : 0..MaxByes, setbacks : 0..MaxSetback]

NumMembers == Cardinality(members) + 1

IntervalsNow == IF initial THEN InitialIntervals ELSE Intervals

(* The constructor calls onExpire() at once: no time has passed since the  *)
(* last report, so that the first one is scheduled and not sent.           *)
Init ==
  /\ members = {}
  /\ age = [s \in SSRCs |-> 0]
  /\ phase = 1 % ReapPeriod
  /\ prevMembers = 1
  /\ initial = TRUE
  /\ elapsed = 0
  /\ wait \in InitialIntervals
  /\ timers = <<wait>>
  /\ stats = {}
  /\ byeHandler = FALSE
  /\ closed = FALSE
  /\ fresh = {}
  /\ since = 0 /\ shrinks = 0 /\ sent = 0
  /\ budget = [byes |-> MaxByes, setbacks |-> MaxSetback]

-----------------------------------------------------------------------------
(* The report timer *)

(* schedule(t): a new onExpire() task, which becomes nextTask().           *)
Schedule(others, t) ==
  /\ wait' = t
  /\ timers' = Append(others, IF t < 0 THEN 0 ELSE t)

(* Mutant: the task scheduled before is not taken back.                    *)
RescheduleOnly(t) == Schedule(timers, t)

(* reschedule(t): nextTask() is unscheduled first.                         *)
Reschedule(t) == Schedule(SubSeq(timers, 1, Len(timers) - 1), t)

(* Mutant: only one old member is looked for.                              *)
OneOldMember ==
  LET old == {s \in members : age[s] + 1 > ReapPeriod}
  IN IF old = {} THEN {} ELSE {CHOOSE s \in old : TRUE}

(* Mutant: a member that reached the age between two reapings is missed.   *)
OldMembersExactly == {s \in members : age[s] = ReapPeriod}

(* reapOldMembers(), every ReapPeriod reports: members last heard that     *)
(* many reports before go, and their reception statistics with them.       *)
OldMembers == {s \in members : age[s] + 1 > ReapPeriod}

(* sendReport().  Ages stop where no member gets to (TypeOK).              *)
SendReport ==
  /\ phase' = (phase + 1) % ReapPeriod
  /\ members' = IF phase' = 0 THEN members \ OldMembers ELSE members
  /\ stats' = IF phase' = 0 THEN stats \ OldMembers ELSE stats
  /\ age' = [s \in SSRCs |->
       IF s \notin members' THEN 0
       ELSE IF age[s] < 2 * ReapPeriod THEN age[s] + 1 ELSE age[s]]
  /\ fresh' = {}
  /\ since' = 0 /\ shrinks' = 0 /\ sent' = 1 - sent

WithoutTimer(i) == SubSeq(timers, 1, i - 1) \o SubSeq(timers, i + 1, Len(timers))

(* OnExpire(): a new interval is drawn.  If it has passed the report is    *)
(* sent and one more drawn - initial is reset only then - else the timer   *)
(* is set for the rest.  The number of members is that before reaping.     *)
OnExpire ==
  /\ ~closed
  /\ \E i \in DOMAIN timers, t \in IntervalsNow :
       /\ timers[i] = 0
       /\ \/ /\ t <= elapsed
             /\ SendReport
             /\ elapsed' = 0
             /\ \E u \in IntervalsNow : Schedule(WithoutTimer(i), u)
             /\ initial' = FALSE
          \/ /\ t > elapsed
             /\ Schedule(WithoutTimer(i), t - elapsed)
             /\ UNCHANGED <<members, age, phase, stats, elapsed, initial, fresh,
                            reportVars>>
  /\ prevMembers' = NumMembers
  /\ UNCHANGED <<byeHandler, closed, budget>>

-----------------------------------------------------------------------------
(* Incoming packets *)

(* A packet with media data: networkReadHandler1() makes a record.         *)
DataArrives(s) ==
  /\ ~closed
  /\ stats' = stats \cup {s}
  /\ fresh' = fresh \cup {s}
  /\ UNCHANGED <<memberVars, phase, initial, timeVars, byeHandler, closed, budget>>

(* A compound packet: a sender's or receiver's report, perhaps a BYE, and  *)
(* perhaps a malformed rest, for which all of it but the effects of the SR *)
(* is ignored.                                                             *)
Packets ==
  [sender : SSRCs, pt : {"SR", "RR"}, bye : SSRCs \cup {None}, malformed : {FALSE}]
    \cup [sender : SSRCs, pt : {"SR", "RR"}, bye : {None}, malformed : {TRUE}]

(* noteMembership(), which checkNewSSRC() is: it asks and it notes.        *)
NoteMembership(s) ==
  /\ members' = members \cup {s}
  /\ age' = [age EXCEPT ![s] = 0]

(* OnReceive() of a report.                                                *)
OnReceiveReport(s) ==
  /\ NoteMembership(s)
  /\ UNCHANGED <<prevMembers, timeVars>>

(* Mutant: the ratio is upside down.                                       *)
ScaledInverse(t, left) == (t * prevMembers) \div left

(* Times shrink as the group does.                                         *)
Scaled(t, left) == (t * left) \div prevMembers

(* OnReceive() of a BYE: a member is removed; one that is not known is     *)
(* added by NewMember(), and stays.  If there are fewer members than at    *)
(* the last expiry, the next report comes sooner.                          *)
OnReceiveBye(s) ==
  LET left == IF s \in members THEN NumMembers - 1 ELSE NumMembers IN
  /\ IF s \in members
       THEN /\ members' = members \ {s}
            /\ age' = [age EXCEPT ![s] = 0]
       ELSE NoteMembership(s)
  /\ IF left < prevMembers
       THEN /\ elapsed' = Scaled(elapsed, left)
            /\ Reschedule(Scaled(wait, left))
            /\ prevMembers' = left
            /\ shrinks' = shrinks + 1
       ELSE UNCHANGED <<elapsed, wait, timers, prevMembers, shrinks>>
  /\ UNCHANGED <<since, sent>>

(* Mutant: a BYE is looked up before the SR in front of it is noted.       *)
ByeHeardBefore(p) == p.bye \in stats

(* The handler, which is reset when it is called, is wanted for active     *)
(* participants only.                                                      *)
ByeHeard(p) == p.bye \in stats'

(* incomingReportHandler1(); the handler is called last.                   *)
IncomingReport(p) ==
  /\ ~closed
  /\ stats' = IF p.pt = "SR" THEN stats \cup {p.sender} ELSE stats
  /\ fresh' = IF p.pt = "SR" THEN fresh \cup {p.sender} ELSE fresh
  /\ \/ /\ p.malformed
        /\ UNCHANGED <<memberVars, timeVars, byeHandler, budget>>
     \/ /\ ~p.malformed /\ p.bye = None
        /\ OnReceiveReport(p.sender)
        /\ UNCHANGED <<byeHandler, budget>>
     \/ /\ p.bye # None
        /\ budget.byes > 0
        /\ budget' = [budget EXCEPT !.byes = @ - 1]
        /\ OnReceiveBye(p.bye)
        /\ byeHandler' = (byeHandler /\ ~ByeHeard(p))
  /\ UNCHANGED <<phase, initial, closed>>

-----------------------------------------------------------------------------
(* The session *)

(* The session sets the handler when a subsession is set up and resets it  *)
(* when it shuts the stream down.                                          *)
SetByeHandler(set) ==
  /\ ~closed
  /\ byeHandler' = set
  /\ UNCHANGED <<memberVars, phase, initial, timeVars, stats, closed, fresh, budget>>

(* The destructor; ~Medium() unschedules nextTask().                       *)
Close ==
  /\ ~closed
  /\ closed' = TRUE
  /\ timers' = SubSeq(timers, 1, Len(timers) - 1)
  /\ UNCHANGED <<memberVars, phase, initial, elapsed, wait, reportVars, stats,
                 byeHandler, fresh, budget>>

(* Time passes; a task that is due runs first (DelayQueue).                *)
Tick ==
  /\ ~closed
  /\ \A i \in DOMAIN timers : timers[i] > 0
  /\ timers' = [i \in DOMAIN timers |-> timers[i] - 1]
  /\ elapsed' = elapsed + 1
  /\ wait' = wait - 1
  /\ since' = since + 1
  /\ UNCHANGED <<memberVars, phase, initial, shrinks, sent, stats, byeHandler,
                 closed, fresh, budget>>

SetClockBack ==
  /\ ~closed
  /\ budget.setbacks > 0
  /\ budget' = [budget EXCEPT !.setbacks = @ - 1]
  /\ elapsed' = elapsed - 1
  /\ wait' = wait + 1
  /\ UNCHANGED <<memberVars, phase, initial, timers, reportVars, stats, byeHandler,
                 closed, fresh>>

Next ==
  \/ OnExpire
  \/ \E s \in SSRCs : DataArrives(s)
  \/ \E p \in Packets : IncomingReport(p)
  \/ \E set \in BOOLEAN : SetByeHandler(set)
  \/ Close
  \/ Tick
  \/ SetClockBack

Spec == Init /\ [][Next]_vars

(* Time passes, and the event loop runs tasks that are due.                *)
FairSpec == Spec /\ WF_vars(Tick) /\ WF_vars(OnExpire)

-----------------------------------------------------------------------------
(* Correctness *)

(* At any time one onExpire() is scheduled, for the time the instance      *)
(* takes for that of its next report or earlier by what the clock was set  *)
(* back.  In real time this is no later after the last report than the     *)
(* longest interval - once more for each BYE that shrank the group since,  *)
(* which makes the instance forget time that has passed                    *)
(* (rtcp_from_spec.c:276), and later by what the clock was set back.  None *)
(* is left when the instance is gone.                                      *)
OneReportTimer ==
  IF closed THEN timers = << >>
  ELSE /\ Len(timers) = 1
       /\ timers[1] \in (wait - MaxSetback)..wait
       /\ since + wait <= Longest * (1 + shrinks) + (MaxSetback - budget.setbacks)

(* However members come and go, and their BYEs bring the next report       *)
(* forward, no report is sent sooner after the one before - or the first   *)
(* one after the start - than the shortest interval.                       *)
ReportsSpaced ==
  [][sent' # sent =>
       since >= IF initial THEN ShortestOf(InitialIntervals)
                           ELSE ShortestOf(Intervals)]_vars

(* A BYE of whoever sent media or an SR since the last report - if only in *)
(* the same packet - calls the handler, whatever was reaped before.        *)
ByeHeeded ==
  [][\A p \in {q \in Packets : q.bye # None} :
       IncomingReport(p) /\ p.bye \in fresh' => ~byeHandler']_vars

(* RFC 3550's aging: a member that falls silent - or was added by a BYE it *)
(* repeated - does not stay: it is heard again or forgotten.               *)
SilentMembersForgotten ==
  \A s \in SSRCs :
    (s \in members /\ age[s] = 1) ~> (s \notin members \/ age[s] = 0 \/ closed)
=============================================================================
