--------------------------- MODULE MCPlaybackDvr ---------------------------
(* PlaybackDvr for TLC: a DVR of either kind; the record queue is full with *)
(* one packet, so that it overflows.                                       *)
EXTENDS PlaybackDvr

MCQueueCapacity == [Playback |-> 2, Record |-> 1]

===========================================================================
