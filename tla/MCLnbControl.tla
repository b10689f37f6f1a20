---------------------------- MODULE MCLnbControl ----------------------------
(* Two openings in all: of the owner frontend, of the ILnb, or one of each. *)
EXTENDS LnbControl, TLC

Reopenings == {<<2, 0>>, <<1, 1>>, <<0, 2>>}
OneFrontend == {<<1, 0>>}

ThreadSymmetry == Permutations(Threads)
=============================================================================
