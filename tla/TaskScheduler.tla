---------------------------- MODULE TaskScheduler ----------------------------
(***************************************************************************)
(* The event loop of a playback thread (BasicTaskScheduler.cpp and the     *)
(* handler set and event triggers of BasicTaskScheduler0.cpp).  One        *)
(* SingleStep selects, calls the handler of one ready socket, the handler  *)
(* of one triggered event and the task of one alarm, in this order.        *)
(*                                                                         *)
(* What a handler does to the scheduler are the operations under "Calls":  *)
(* they happen while its phase lasts (pc).  Which sockets are ready is the *)
(* network's choice; a handler may read all there is or not.  The delay    *)
(* queue is in DelayQueue; a tick every 10 ms keeps select() from blocking.*)
(***************************************************************************)
EXTENDS Integers, Sequences, FiniteSets

CONSTANTS
  MaxSockets,   \* socket numbers are 0..MaxSockets-1
  Conditions,   \* SOCKET_READABLE, SOCKET_WRITABLE, SOCKET_EXCEPTION
  MaxTriggers,  \* MAX_NUM_EVENT_TRIGGERS
  MaxChanges    \* bound: calls that change handlers or create or delete triggers

ASSUME SocketsAssumption == MaxSockets \in Nat \ {0}
ASSUME TriggersAssumption == MaxTriggers \in Nat \ {0}
ASSUME ChangesAssumption == MaxChanges \in Nat

Sockets == 0..(MaxSockets - 1)
Triggers == 0..(MaxTriggers - 1)

VARIABLES
  pc,          \* "select", or whose handler runs: "socket", "event", "alarm"
  fHandlers,   \* the handler set, a list of [socketNum, conditionSet]
  fdSet,       \* fdSet[c]: fReadSet, fWriteSet or fExceptionSet
  fMaxNumSockets,
  fLastHandledSocketNum,
  ready,       \* <<s, c>>: condition c holds of socket s
  events,      \* numbers of the triggers that have a handler
  awaiting,    \* fTriggersAwaitingHandling, as a set of trigger numbers
  fLastUsedTriggerNum,
  found,       \* the trigger SingleStep's search found, -1 for none
  called,      \* the socket whose handler runs, -1 for none
  passed,      \* history: passed[s]: sockets handled since s is waiting
  changes      \* calls so far that MaxChanges bounds

socketVars == <<fHandlers, fdSet, fMaxNumSockets>>
eventVars == <<events, awaiting, fLastUsedTriggerNum, found>>
vars == <<pc, socketVars, fLastHandledSocketNum, ready, eventVars, called,
          passed, changes>>

Handler == [socketNum : Sockets, conditionSet : (SUBSET Conditions) \ {{}}]

TypeOK ==
  /\ pc \in {"select", "socket", "event", "alarm"}
  /\ fHandlers \in Seq(Handler)
  /\ fdSet \in [Conditions -> SUBSET Sockets]
  /\ fMaxNumSockets \in 0..MaxSockets
  /\ fLastHandledSocketNum \in Sockets \cup {-1}
  /\ ready \in SUBSET (Sockets \X Conditions)
  /\ events \in SUBSET Triggers
  /\ awaiting \in SUBSET events
  /\ fLastUsedTriggerNum \in Triggers
  /\ found \in Triggers \cup {-1}
  /\ called \in Sockets \cup {-1}
  /\ passed \in [Sockets -> SUBSET Sockets]
  /\ changes \in 0..MaxChanges

Init ==
  /\ pc = "select"
  /\ fHandlers = << >>
  /\ fdSet = [c \in Conditions |-> {}]
  /\ fMaxNumSockets = 0
  /\ fLastHandledSocketNum = -1
  /\ ready = {}
  /\ events = {}
  /\ awaiting = {}
  /\ fLastUsedTriggerNum = MaxTriggers - 1
  /\ found = -1
  /\ called = -1
  /\ passed = [s \in Sockets |-> {}]
  /\ changes = 0

-----------------------------------------------------------------------------
(* Calls: what a running handler does to the scheduler *)

InHandler == pc \in {"event", "alarm"} \/ (pc = "socket" /\ called # -1)

Counted == InHandler /\ changes < MaxChanges /\ changes' = changes + 1

Registered == {fHandlers[i].socketNum : i \in DOMAIN fHandlers}

(* History: a handler that is set again is a new one, at the front; and    *)
(* without the one it would start after, SingleStep starts from the front, *)
(* so who was passed before no longer counts.                              *)
PassedWithout(s) ==
  [u \in Sockets |->
     IF s = fLastHandledSocketNum \/ u = s THEN {} ELSE passed[u] \ {s}]

(* HandlerSet::assignHandler(): a new handler goes to the front.           *)
AssignHandler(s, conditions) ==
  LET h == [socketNum |-> s, conditionSet |-> conditions] IN
  IF s \in Registered
    THEN [i \in DOMAIN fHandlers |->
            IF fHandlers[i].socketNum = s THEN h ELSE fHandlers[i]]
    ELSE <<h>> \o fHandlers

(* HandlerSet::clearHandler(): the handler looked up is unlinked.          *)
ClearHandler(s) ==
  IF s \in Registered
    THEN LET i == CHOOSE n \in DOMAIN fHandlers : fHandlers[n].socketNum = s
         IN SubSeq(fHandlers, 1, i - 1) \o SubSeq(fHandlers, i + 1, Len(fHandlers))
    ELSE fHandlers

(* Mutant: the number of sockets is lowered whichever handler is cleared.  *)
SetBackgroundHandlingLowers(s, conditions) ==
  /\ Counted
  /\ fdSet' = [c \in Conditions |->
       IF c \in conditions THEN fdSet[c] \cup {s} ELSE fdSet[c] \ {s}]
  /\ IF conditions = {}
       THEN /\ fHandlers' = ClearHandler(s)
            /\ fMaxNumSockets' =
                 IF s + 1 <= fMaxNumSockets THEN fMaxNumSockets - 1 ELSE fMaxNumSockets
            /\ passed' = PassedWithout(s)
       ELSE /\ fHandlers' = AssignHandler(s, conditions)
            /\ fMaxNumSockets' = IF s + 1 > fMaxNumSockets THEN s + 1 ELSE fMaxNumSockets
            /\ UNCHANGED passed
  /\ UNCHANGED <<pc, fLastHandledSocketNum, ready, eventVars, called>>

(* Handle a socket's conditions in the background; none stops handling it. *)
SetBackgroundHandling(s, conditions) ==
  /\ Counted
  /\ fdSet' = [c \in Conditions |->
       IF c \in conditions THEN fdSet[c] \cup {s} ELSE fdSet[c] \ {s}]
  /\ IF conditions = {}
       THEN /\ fHandlers' = ClearHandler(s)
            /\ fMaxNumSockets' =
                 IF s + 1 = fMaxNumSockets THEN fMaxNumSockets - 1 ELSE fMaxNumSockets
            /\ passed' = PassedWithout(s)
       ELSE /\ fHandlers' = AssignHandler(s, conditions)
            /\ fMaxNumSockets' = IF s + 1 > fMaxNumSockets THEN s + 1 ELSE fMaxNumSockets
            /\ UNCHANGED passed
  /\ UNCHANGED <<pc, fLastHandledSocketNum, ready, eventVars, called>>

(* Socket::changePort() opened a new socket for the old one: the new       *)
(* number has no handler yet.                                              *)
MoveSocketHandling(old, new) ==
  /\ Counted
  /\ old # new /\ new \notin Registered
  /\ fdSet' = [c \in Conditions |->
       IF old \in fdSet[c] THEN (fdSet[c] \ {old}) \cup {new} ELSE fdSet[c]]
  /\ fHandlers' = [i \in DOMAIN fHandlers |->
       IF fHandlers[i].socketNum = old
         THEN [fHandlers[i] EXCEPT !.socketNum = new] ELSE fHandlers[i]]
  /\ LET lowered == IF old + 1 = fMaxNumSockets THEN fMaxNumSockets - 1
                                                ELSE fMaxNumSockets
     IN fMaxNumSockets' = IF new + 1 > lowered THEN new + 1 ELSE lowered
  /\ passed' = PassedWithout(old)
  /\ UNCHANGED <<pc, fLastHandledSocketNum, ready, eventVars, called>>

(* Mutant: the search always starts at the first number.                   *)
DistanceFromFirst(t) == t

(* Trigger numbers in the order they are searched: from the one after the  *)
(* last used, which comes last.                                            *)
Distance(t) == (t - fLastUsedTriggerNum - 1) % MaxTriggers

FirstOf(S) == CHOOSE t \in S : \A u \in S : Distance(t) <= Distance(u)

(* createEventTrigger() takes the first free number; returns 0 if none is. *)
CreateEventTrigger ==
  /\ Counted
  /\ events # Triggers
  /\ fLastUsedTriggerNum' = FirstOf(Triggers \ events)
  /\ events' = events \cup {fLastUsedTriggerNum'}
  /\ UNCHANGED <<pc, socketVars, fLastHandledSocketNum, ready, awaiting, found,
                 called, passed>>

(* Mutant: a trigger that is deleted stays pending.                        *)
DeleteKeepsPending(t) ==
  /\ Counted
  /\ events' = events \ {t}
  /\ UNCHANGED <<pc, socketVars, fLastHandledSocketNum, ready, awaiting,
                 fLastUsedTriggerNum, found, called, passed>>

DeleteEventTrigger(t) ==
  /\ Counted
  /\ events' = events \ {t}
  /\ awaiting' = awaiting \ {t}
  /\ UNCHANGED <<pc, socketVars, fLastHandledSocketNum, ready,
                 fLastUsedTriggerNum, found, called, passed>>

TriggerEvent(t) ==
  /\ InHandler
  /\ t \in events
  /\ awaiting' = awaiting \cup {t}
  /\ UNCHANGED <<pc, socketVars, fLastHandledSocketNum, ready, events,
                 fLastUsedTriggerNum, found, called, passed, changes>>

Call ==
  \/ \E s \in Sockets, conditions \in SUBSET Conditions :
       SetBackgroundHandling(s, conditions)
  \/ \E old, new \in Sockets : MoveSocketHandling(old, new)
  \/ CreateEventTrigger
  \/ \E t \in Triggers : DeleteEventTrigger(t) \/ TriggerEvent(t)

-----------------------------------------------------------------------------
(* SingleStep *)

(* select() looks at the sockets below fMaxNumSockets.                     *)
Selected(c) == {s \in fdSet[c] : s < fMaxNumSockets /\ <<s, c>> \in ready}

Hits(h) == \E c \in h.conditionSet : h.socketNum \in Selected(c)

HitPositions == {i \in DOMAIN fHandlers : Hits(fHandlers[i])}

LeastOf(S) == CHOOSE i \in S : \A j \in S : i <= j

(* The first scan begins past the last socket handled, if it is known.     *)
ScanFrom ==
  LET known == {i \in DOMAIN fHandlers :
                  fHandlers[i].socketNum = fLastHandledSocketNum}
  IN IF known = {} THEN 1 ELSE LeastOf(known) + 1

(* Mutant: always from the front.                                          *)
ChosenFromFront == LeastOf(HitPositions)

(* The second scan is from the beginning.                                  *)
Chosen ==
  LET firstScan == {i \in HitPositions : i >= ScanFrom}
  IN LeastOf(IF firstScan # {} THEN firstScan ELSE HitPositions)

Waiting(s) == \E i \in HitPositions : fHandlers[i].socketNum = s

(* A socket nobody waits for may as well get ready when somebody does.     *)
SocketReady(s, c) ==
  /\ pc = "select"
  /\ s \in fdSet[c]
  /\ ready' = ready \cup {<<s, c>>}
  /\ UNCHANGED <<pc, socketVars, fLastHandledSocketNum, eventVars, called,
                 passed, changes>>

(* The handler of one socket is called, and reads all there is or not.     *)
CallSocketHandler ==
  /\ pc = "select"
  /\ HitPositions # {}
  /\ pc' = "socket"
  /\ called' = fHandlers[Chosen].socketNum
  /\ fLastHandledSocketNum' = called'
  /\ ready' = ready \/ ready' = ready \ ({called'} \X Conditions)
  /\ passed' = [s \in Sockets |->
       IF s # called' /\ Waiting(s) THEN passed[s] \cup {called'} ELSE {}]
  /\ UNCHANGED <<socketVars, eventVars, changes>>

(* Mutant: the search is not repeated from the beginning.                  *)
NoSocketReadyPastLast ==
  /\ pc = "select"
  /\ {i \in HitPositions : i >= ScanFrom} = {}
  /\ pc' = "socket"
  /\ called' = -1
  /\ passed' = [s \in Sockets |-> {}]
  /\ UNCHANGED <<socketVars, fLastHandledSocketNum, ready, eventVars, changes>>

NoSocketReady ==
  /\ pc = "select"
  /\ HitPositions = {}
  /\ pc' = "socket"
  /\ called' = -1
  /\ fLastHandledSocketNum' = -1
  /\ passed' = [s \in Sockets |-> {}]
  /\ UNCHANGED <<socketVars, ready, eventVars, changes>>

(* The handler of one triggered event: if only the last used is pending it *)
(* is not searched for.                                                    *)
CallEventHandler ==
  /\ pc = "socket"
  /\ awaiting # {}
  /\ pc' = "event"
  /\ called' = -1
  /\ IF awaiting = {fLastUsedTriggerNum}
       THEN awaiting' = {} /\ found' = -1
       ELSE found' = FirstOf(awaiting) /\ awaiting' = awaiting \ {found'}
  /\ UNCHANGED <<socketVars, fLastHandledSocketNum, ready, events,
                 fLastUsedTriggerNum, passed, changes>>

NoEvent ==
  /\ pc = "socket"
  /\ awaiting = {}
  /\ pc' = "alarm"
  /\ called' = -1
  /\ UNCHANGED <<socketVars, fLastHandledSocketNum, ready, eventVars, passed, changes>>

(* After the handler: even if it created a trigger, the one found is the   *)
(* last used.  Then comes handleAlarm().                                   *)
EventReturns ==
  /\ pc = "event"
  /\ pc' = "alarm"
  /\ fLastUsedTriggerNum' = IF found # -1 THEN found ELSE fLastUsedTriggerNum
  /\ found' = -1
  /\ UNCHANGED <<socketVars, fLastHandledSocketNum, ready, events, awaiting,
                 called, passed, changes>>

AlarmReturns ==
  /\ pc = "alarm"
  /\ pc' = "select"
  /\ UNCHANGED <<socketVars, fLastHandledSocketNum, ready, eventVars, called,
                 passed, changes>>

SingleStep ==
  \/ CallSocketHandler \/ NoSocketReady
  \/ CallEventHandler \/ NoEvent \/ EventReturns
  \/ AlarmReturns

Next ==
  \/ \E s \in Sockets, c \in Conditions : SocketReady(s, c)
  \/ Call
  \/ SingleStep

Spec == Init /\ [][Next]_vars

(* doEventLoop() calls SingleStep for ever, and handlers return.           *)
FairSpec == Spec /\ WF_vars(SingleStep)

-----------------------------------------------------------------------------
(* Correctness *)

(* However handlers are set, cleared and moved - the number of sockets is  *)
(* lowered by one at most, whatever is left below - select() is told of    *)
(* every socket that has a handler, for its conditions, and of no other,   *)
(* which nobody would ever read; no socket has two handlers.               *)
SelectSeesEveryHandler ==
  /\ \A i \in DOMAIN fHandlers :
       LET h == fHandlers[i] IN
       /\ h.socketNum < fMaxNumSockets
       /\ h.conditionSet = {c \in Conditions : h.socketNum \in fdSet[c]}
       /\ \A j \in DOMAIN fHandlers : fHandlers[j].socketNum = h.socketNum => i = j
  /\ \A c \in Conditions : fdSet[c] \subseteq Registered

(* BasicTaskScheduler.cpp:107 "To ensure forward progress through the      *)
(* handlers": while a socket waits, no other handler is called twice, unless *)
(* the one called last was cleared or moved, from which the search would   *)
(* have gone on.                                                           *)
NotOvertakenTwice ==
  [][pc = "select" /\ called' # -1 =>
       \A s \in Sockets \ {called'} : Waiting(s) => called' \notin passed[s]]_vars

(* When handlers stop changing (after MaxChanges calls here), no socket    *)
(* that is ready starves: it is handled, or is not waited for any more.    *)
ReadySocketHandled ==
  \A s \in Sockets : Waiting(s) ~> (called = s \/ ~Waiting(s))

(* Likewise every triggered event is handled or its trigger deleted,       *)
(* however often handlers trigger others.                                  *)
TriggeredEventHandled ==
  \A t \in Triggers : t \in awaiting ~> t \notin awaiting
=============================================================================
