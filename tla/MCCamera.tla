------------------------------ MODULE MCCamera ------------------------------
(* Clicks on Play with two picture sizes, and every platform call failing. *)
EXTENDS Camera

MCSizes == {1, 2}
MCFaults == {"getInfo", "lockPixels", "pthread"}
=============================================================================
