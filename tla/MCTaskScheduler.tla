--------------------------- MODULE MCTaskScheduler ---------------------------
(* Sockets are waited for to become readable, as those of the player are   *)
(* when they are connected.                                                *)
EXTENDS TaskScheduler

MCConditions == {"readable"}
=============================================================================
