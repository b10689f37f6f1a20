---------------------------- MODULE MCTisSessions ----------------------------
(***************************************************************************)
(* Who may use the tuner (ScanManager) and what a live session plays       *)
(* (LivePlayback) on small instances.  They share no state, so a behaviour *)
(* is one of one of them while the other stays where it begins.            *)
(***************************************************************************)
EXTENDS ScanManager, LivePlayback

VARIABLE part

MCKind == {[audioOnly |-> FALSE, cas |-> TRUE], [audioOnly |-> TRUE, cas |-> FALSE]}

SessionsInit ==
  /\ part \in {"manager", "live"}
  /\ ManagerInit /\ LiveInit
  /\ part # "manager" => ~pend.channels
  /\ part # "live" => kind.cas

SessionsNext ==
  /\ UNCHANGED part
  /\ \/ part = "manager" /\ ManagerNext /\ UNCHANGED liveVars
     \/ part = "live" /\ LiveNext /\ UNCHANGED managerVars

SessionsSpec == SessionsInit /\ [][SessionsNext]_<<part, managerVars, liveVars>>
=============================================================================
