----------------------------- MODULE MCRTPSource -----------------------------
(* Senders: one of fragmented and single-packet frames, and one of single  *)
(* packets and aggregates (H.264).                                         *)
EXTENDS RTPSource

MCFragments == <<"start", "mid", "end", "single", "start", "end">>
MCAggregates == <<"single", "aggregate", "single">>
MCShapes == {MCFragments, MCAggregates}
MCFragmentsOnly == {MCFragments}

ASSUME SendersAssumption == \A s \in MCShapes : SendsWholeFrames(s)

(* Senders that do not send whole frames, for which FramesWhole fails:     *)
(* aggregates after fragmented frames (H.264), and frames with a start     *)
(* code inside (MPEG-4, headers before the picture).                       *)
MCMixed == {<<"single", "start", "end", "aggregate", "single">>}
MCHeaders == {<<"start", "again", "end">>}

ASSUME OthersAssumption == \A s \in MCMixed \cup MCHeaders : ~SendsWholeFrames(s)
=============================================================================
