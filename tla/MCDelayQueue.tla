----------------------------- MODULE MCDelayQueue -----------------------------
(* Tasks at once, soon and later, three of them. *)
EXTENDS DelayQueue

MCDelays == {0, 1, 3}
=============================================================================
