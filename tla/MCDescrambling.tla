--------------------------- MODULE MCDescrambling ---------------------------
(* Instances of Descrambling for TLC. *)
EXTENDS Descrambling, TLC

CONSTANTS d1, d2, x1, f1, p1, t1, t2

TwoDescramblers == {d1, d2}
OneDemux == {x1}
OneFilter == {f1}
OnePid == {p1}
TwoTokens == {t1, t2}

\* The specification never orders descramblers, PIDs or tokens.
Symmetric ==
    Permutations(TwoDescramblers) \cup Permutations(Pids)
        \cup Permutations(TwoTokens)
=============================================================================
