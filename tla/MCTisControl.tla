---------------------------- MODULE MCTisControl ----------------------------
(***************************************************************************)
(* The MediaCas client and the scan session of the TV input service on     *)
(* small instances.  They share no state, so a behaviour is one of one of  *)
(* them while the other stays where it begins.                             *)
(***************************************************************************)
EXTENDS CasClient, ScanSession

CONSTANTS b25, b1

VARIABLE part

Ca(source, svc, sys, ecm, es) == [source |-> source, svc |-> svc, sys |-> sys, ecm |-> ecm, es |-> es]

\* Clear; two streams under one ECM, with a program descriptor that adds
\* nothing and an EMM; an ECM for each stream; a system nobody supports.
MCMetadata ==
  { {},
    {Ca("ES", "v", b25, "e1", "p1"), Ca("ES", "v", b25, "e1", "p2"),
     Ca("PROGRAM", "v", b25, "e1", None), Ca("CAT", None, b25, None, None)},
    {Ca("ES", "v", b25, "e1", "p1"), Ca("ES", "v", b25, "e2", "p2")},
    {Ca("ES", "v", b25, "e2", "p1"), Ca("ES", "v", b1, "e2", "p2")} }

ControlInit == part \in {"cas", "scan"} /\ CasInit /\ ScanInit

ControlNext ==
  /\ UNCHANGED part
  /\ \/ part = "cas" /\ CasNext /\ UNCHANGED scanVars
     \/ part = "scan" /\ ScanNext /\ UNCHANGED casVars

ControlSpec == ControlInit /\ [][ControlNext]_<<part, casVars, scanVars>>
=============================================================================
