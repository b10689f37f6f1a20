------------------------ MODULE MCFrontendOperation ------------------------
(* Small instances of FrontendOperation for TLC. *)
EXTENDS FrontendOperation, TLC

ThreadSymmetry == Permutations(Threads)
=============================================================================
