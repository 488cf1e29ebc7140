---------------------------- MODULE MCRTSPClient ----------------------------
(* The bounds of RTSPClient are numbers and are given in the .cfg files.   *)
EXTENDS RTSPClient
=============================================================================
