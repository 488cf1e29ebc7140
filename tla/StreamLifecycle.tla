-------------------------- MODULE StreamLifecycle --------------------------
(***************************************************************************)
(* What one playback of a stream promises to the rest of the player, with  *)
(* every RTSP and RTP detail removed.  A playback is started once, opens   *)
(* at most one sink per media subsession, never reopens a sink that was    *)
(* closed, and ends - with no sink open - only after it was asked to stop  *)
(* (or dies with the process, after undefined behaviour).                  *)
(*                                                                         *)
(* PlaySession, the model of ipcam_rtsp_play.cpp, implements it.           *)
(***************************************************************************)
CONSTANT Subs       \* the media subsessions of the stream

VARIABLES
  stopAsked,        \* Close() was called
  run,              \* "idle", "running", "ended" or "dead"
  open,             \* subsessions whose sink is open
  spent             \* subsessions whose sink was closed

vars == <<stopAsked, run, open, spent>>

TypeOK ==
  /\ stopAsked \in BOOLEAN
  /\ run \in {"idle", "running", "ended", "dead"}
  /\ open \in SUBSET Subs
  /\ spent \in SUBSET Subs

Init ==
  /\ stopAsked = FALSE
  /\ run = "idle"
  /\ open = {}
  /\ spent = {}

Start ==
  /\ run = "idle"
  /\ run' = "running"
  /\ UNCHANGED <<stopAsked, open, spent>>

AskStop ==
  /\ stopAsked' = TRUE
  /\ UNCHANGED <<run, open, spent>>

(* Some sinks are opened and some closed: what was open is still open or   *)
(* spent, and what is spent stays spent.                                   *)
Stream ==
  /\ run = "running"
  /\ open' \in SUBSET Subs
  /\ spent' \in SUBSET Subs
  /\ spent \subseteq spent'
  /\ open \subseteq open' \cup spent'
  /\ open' \cap spent' = {}
  /\ UNCHANGED <<stopAsked, run>>

End ==
  /\ run = "running"
  /\ stopAsked
  /\ run' = "ended"
  /\ open' = {}
  /\ spent' = spent \cup open
  /\ UNCHANGED stopAsked

Die ==
  /\ run = "running"
  /\ run' = "dead"
  /\ UNCHANGED <<stopAsked, open, spent>>

Next == Start \/ AskStop \/ Stream \/ End \/ Die

SafeSpec == Init /\ [][Next]_vars

(* A running playback that was asked to stop ends - or dies first.         *)
Spec == SafeSpec /\ WF_vars(End)
=============================================================================
