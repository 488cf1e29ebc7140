---------------------------- MODULE VideoDecoder ----------------------------
(***************************************************************************)
(* ipcam_vdec::DecVideo(): one call decodes one buffer of MPEG-4 data that *)
(* the sink received, and draws the pictures in it.  The buffer for the    *)
(* converted picture is allocated once per call, and freed once for each   *)
(* picture.                                                                *)
(*                                                                         *)
(* The codec is external.  It is opened for truncated data ("We do not     *)
(* send one total frame at one time"), so that it may take a part of the   *)
(* buffer, keep some for later, return a picture or none, or fail.  Which  *)
(* thread decodes is in Camera.                                            *)
(***************************************************************************)
EXTENDS Integers

CONSTANT MaxSize  \* bound: bytes in a buffer

VARIABLES
  pc,    \* "idle", "decode", "picture", "convert" or "draw"
  size,  \* avpkt.size, what is left of the data
  len,   \* what the codec took for the picture
  frees  \* how often buf was freed since this call allocated it

vars == <<pc, size, len, frees>>

TypeOK ==
  /\ pc \in {"idle", "decode", "picture", "convert", "draw"}
  /\ size \in 0..MaxSize
  /\ len \in 0..MaxSize
  /\ frees \in Nat

Init ==
  /\ pc = "idle"
  /\ size = 0
  /\ len = 0
  /\ frees = 0

(* The sink hands over a frame, which may be empty.                        *)
DecVideo(bufferSize) ==
  /\ pc = "idle"
  /\ pc' = "decode"
  /\ size' = bufferSize
  /\ frees' = 0
  /\ UNCHANGED len

(* avcodec_decode_video2(): an error ends the call.                        *)
DecodeFails ==
  /\ pc = "decode" /\ size > 0
  /\ frees' = frees + 1
  /\ pc' = "idle"
  /\ UNCHANGED <<size, len>>

NoPicture ==
  /\ pc = "decode" /\ size > 0
  /\ \E n \in 0..size : size' = size - n
  /\ UNCHANGED <<pc, len, frees>>

GotPicture ==
  /\ pc = "decode" /\ size > 0
  /\ len' \in 0..size
  /\ pc' = "picture"
  /\ UNCHANGED <<size, frees>>

(* avcodec_alloc_frame(), and then sws_getContext(): when one fails the    *)
(* call returns at once.                                                   *)
AllocFrame ==
  /\ pc = "picture"
  /\ pc' \in {"convert", "idle"}
  /\ UNCHANGED <<size, len, frees>>

GetContext ==
  /\ pc = "convert"
  /\ pc' \in {"draw", "idle"}
  /\ UNCHANGED <<size, len, frees>>

(* The picture is converted into buf and drawn; then buf goes, though the  *)
(* rest of the data may yield another picture.                             *)
Draw ==
  /\ pc = "draw"
  /\ frees' = frees + 1
  /\ size' = size - len
  /\ pc' = "decode"
  /\ UNCHANGED len

Done ==
  /\ pc = "decode" /\ size = 0
  /\ pc' = "idle"
  /\ UNCHANGED <<size, len, frees>>

Next ==
  \/ \E bufferSize \in 0..MaxSize : DecVideo(bufferSize)
  \/ DecodeFails \/ NoPicture \/ GotPicture
  \/ AllocFrame \/ GetContext \/ Draw
  \/ Done

Spec == Init /\ [][Next]_vars

-----------------------------------------------------------------------------
(* libavutil/mem.h:98 of av_free(): "Free a memory block which has been    *)
(* allocated": the picture buffer of a call is freed at most once.         *)
FreedOnce == frees <= 1
=============================================================================
