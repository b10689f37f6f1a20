--------------------------- MODULE MCObjectClose ---------------------------
(* Small instances of ObjectClose for TLC. *)
EXTENDS ObjectClose, TLC

CONSTANTS demux1, dvr1, frontend1

OneDemux == dvr1 :> demux1

=============================================================================
