----------------------------- MODULE MCCasPlugin -----------------------------
(* A small CAS process: two plugins, a table of two slots and one group.    *)
(* Of its three EMM messages the first brings a new work key, the second    *)
(* the same key under a newer number, the third a key older than the        *)
(* factory's.                                                               *)
EXTENDS CasPlugin, TLC

Msg(number, id) == [group |-> "g", number |-> number, id |-> id, key |-> id]

MCMessages == {Msg(1, 3), Msg(2, 3), Msg(3, 1)}
MCSections == {<<Msg(1, 3), Msg(2, 3)>>, <<Msg(2, 3)>>, <<Msg(3, 1)>>}
MCEcms == {[group |-> "g", id |-> 2], [group |-> "g", id |-> 3]}
Symmetric == Permutations(Plugins) \cup Permutations(Slots)
MCFactory == [g \in {"g"} |-> [id |-> 2, key |-> 2]]
=============================================================================
