------------------------------ MODULE MCDemux ------------------------------
(***************************************************************************)
(* The parts of one demux on small instances.  They share the lock of the  *)
(* service runtime and no state, so a behaviour is one of one part: the    *)
(* filter graph, the media memory, or recording.                           *)
(***************************************************************************)
EXTENDS FilterGraph, SharedAv, RecordRoute, TLC

VARIABLE part

MCKind == [f \in Filters |-> IF f = 3 THEN "Section" ELSE "Raw"]

MCDelayHint == [f \in RecFilters |-> IF f = 1 THEN 0 ELSE 2]

PartsInit ==
    /\ part \in {"graph", "av", "record"}
    /\ Init /\ AvInit /\ RecInit
    /\ part # "graph" => bound = NoFrontend

PartsNext ==
    /\ UNCHANGED part
    /\ \/ part = "graph" /\ Next /\ UNCHANGED <<avVars, recVars>>
       \/ part = "av" /\ AvNext /\ UNCHANGED <<vars, recVars>>
       \/ part = "record" /\ RecNext /\ UNCHANGED <<vars, avVars>>

PartsSpec == PartsInit /\ [][PartsNext]_<<part, vars, avVars, recVars>>

============================================================================
