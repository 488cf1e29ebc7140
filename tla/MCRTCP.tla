------------------------------- MODULE MCRTCP -------------------------------
(* Two other participants.                                                 *)
EXTENDS RTCP, TLC

CONSTANTS s1, s2

MCSSRCs == {s1, s2}
MCIntervals == {2, 4}
MCInitialIntervals == {1, 2}
=============================================================================
