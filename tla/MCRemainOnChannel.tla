------------------------- MODULE MCRemainOnChannel --------------------------
(* Three requests, with and without a frame, with and without a delay.   *)
EXTENDS RemainOnChannel

MCDurations == {0, 50}
=============================================================================
