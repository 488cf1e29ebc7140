--------------------------- MODULE MCPlaySession ---------------------------
(* Two subsessions over RTP (say video and audio) and a third without RTCP. *)
EXTENDS PlaySession

MCRtpSubs == {1, 2}
=============================================================================
