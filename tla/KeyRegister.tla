----------------------------- MODULE KeyRegister -----------------------------
(***************************************************************************)
(* What the shared key slot promises to the process that reads it: an      *)
(* atomic register.  The slot holds one key or none, every key a reader is *)
(* given is the key the slot held at one instant of that read, and a       *)
(* closed slot never holds a key again.                                    *)
(* KeySlot is shown to implement this specification.                       *)
(***************************************************************************)
CONSTANTS Keys, NoKey, Readers

VARIABLES key, closed, answer

vars == <<key, closed, answer>>

Init == /\ key = NoKey
        /\ closed = {}
        /\ answer = [r \in Readers |-> NoKey]

(* The owner replaces the key or withdraws it.  "closed" is a set so that  *)
(* {"closed"} stands for a slot closed for good.                           *)
Store(k) == /\ closed = {}
            /\ key' = k
            /\ UNCHANGED <<closed, answer>>

Close == /\ closed' = {"closed"}
         /\ key' = NoKey
         /\ UNCHANGED answer

(* A read answers with the key held now, or refuses (busy, no licence,     *)
(* owner gone): a refusal needs no reason at this level.                   *)
Read(r) == /\ \E k \in {key, NoKey} : answer' = [answer EXCEPT ![r] = k]
           /\ UNCHANGED <<key, closed>>

Next == \/ \E k \in Keys \cup {NoKey} : Store(k)
        \/ Close
        \/ \E r \in Readers : Read(r)

Spec == Init /\ [][Next]_vars
=============================================================================
