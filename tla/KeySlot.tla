------------------------------- MODULE KeySlot -------------------------------
(***************************************************************************)
(* One shared key slot of the CAS plugin and the references the Tuner HAL  *)
(* holds on it.                                                            *)
(*                                                                         *)
(* The CAS process owns the slot (cas_plugin/src/SharedSlot.cpp): a memory *)
(* page with a sequence number, a valid flag and the words of the odd and  *)
(* even keys, every one an atomic.  KeyRegistry.cpp serialises the writers *)
(* by its mutex.  The HAL maps the page read-only (KeyClient.cpp) and      *)
(* reads it without any lock, word by word, while the owner may be half    *)
(* way through a store, or dead.  One action is one access to one atomic.  *)
(***************************************************************************)
EXTENDS Naturals

CONSTANTS Keys,         \* keys the ECMs yield: each a sequence of words
          NoKey,        \* stands for "no key"
          WordCount,    \* keys.size() of SharedKeyState
          MaxSequence,  \* stands for UINT64_MAX
          Attempts,     \* tries of one snapshot
          Readers       \* references the HAL binds to the slot

Words == 1 .. WordCount

ASSUME KeysAssumption == Keys \subseteq [Words -> Nat] /\ NoKey \notin Keys
ASSUME WordAssumption == WordCount \in Nat \ {0}
ASSUME SequenceAssumption == MaxSequence \in Nat /\ MaxSequence % 2 = 1
ASSUME AttemptsAssumption == Attempts \in Nat \ {0}

VARIABLES sequence, valid, words,  \* SharedKeyState
          live,     \* Slot::live, as {} or {"live"}
          writer,   \* the store in progress under the registry's mutex
          owner,    \* the CAS process: "alive" or "dead"
          reader    \* per reference, the snapshot in progress

slotVars == <<sequence, valid, words, live, writer, owner>>
vars == <<sequence, valid, words, live, writer, owner, reader>>

NoWords == [w \in Words |-> 0]

Idle == [pc |-> "idle", key |-> NoKey, i |-> 1, op |-> "none"]

Init == /\ sequence = 0 /\ valid = 0 /\ words = NoWords
        /\ live = {"live"} /\ owner = "alive"
        /\ writer = Idle
        /\ reader = [r \in Readers |->
             [pc |-> "unbound", bound |-> {}, attempt |-> 1, before |-> 0,
              ready |-> 0, i |-> 1, got |-> NoWords, out |-> NoKey]]

Odd(n) == n % 2 = 1

-----------------------------------------------------------------------------
(* The owner: KeyRegistry's operations, each a store under the mutex.      *)

CanStore == owner = "alive" /\ writer.pc = "idle"

\* Mutant: an update does not look whether the slot was closed.
AnySlot == TRUE

Updatable == live = {"live"}

\* KeyRegistry::update, for an ECM that decoded to key k.
Update(k) == /\ CanStore
             /\ Updatable
             /\ writer' = [pc |-> "begin", key |-> k, i |-> 1, op |-> "update"]
             /\ UNCHANGED <<sequence, valid, words, live, owner, reader>>

\* KeyRegistry::invalidateGroup, and the destructor of the slot.
Withdraw == /\ CanStore
            /\ writer' = [pc |-> "begin", key |-> NoKey, i |-> 1, op |-> "withdraw"]
            /\ UNCHANGED <<sequence, valid, words, live, owner, reader>>

\* KeyRegistry::close and revokeAll.
Close == /\ CanStore
         /\ live' = {}
         /\ writer' = [pc |-> "begin", key |-> NoKey, i |-> 1, op |-> "close"]
         /\ UNCHANGED <<sequence, valid, words, owner, reader>>

(* SharedKeyState::store.  A sequence number that can no longer be advanced *)
(* twice is parked at its maximum and the key is dropped instead of stored. *)
BeginStore ==
  /\ owner = "alive" /\ writer.pc = "begin"
  /\ \/ /\ sequence >= MaxSequence - 1
        /\ sequence' = MaxSequence
        /\ writer' = [pc |-> "valid", key |-> NoKey, i |-> 1, op |-> writer.op]
     \/ /\ sequence < MaxSequence - 1
        /\ sequence' = sequence + 1
        /\ writer' = [pc |-> "valid", key |-> writer.key, i |-> 1, op |-> writer.op]
  /\ UNCHANGED <<valid, words, live, owner, reader>>

StoreValid ==
  /\ owner = "alive" /\ writer.pc = "valid"
  /\ valid' = IF writer.key = NoKey THEN 0 ELSE 1
  /\ writer' = [pc |-> "words", key |-> writer.key, i |-> 1, op |-> writer.op]
  /\ UNCHANGED <<sequence, words, live, owner, reader>>

StoreWord ==
  /\ owner = "alive" /\ writer.pc = "words" /\ writer.i <= WordCount
  /\ words' = [words EXCEPT ![writer.i] =
                 IF writer.key = NoKey THEN 0 ELSE writer.key[writer.i]]
  /\ writer' = [pc |-> "words", key |-> writer.key, i |-> writer.i + 1,
                op |-> writer.op]
  /\ UNCHANGED <<sequence, valid, live, owner, reader>>

\* The last store of the sequence; an update that found it exhausted
\* (store returned false) takes the slot out of use.
EndStore ==
  /\ owner = "alive" /\ writer.pc = "words" /\ writer.i > WordCount
  /\ writer' = Idle
  /\ \/ /\ sequence = MaxSequence
        /\ live' = IF writer.op = "update" THEN {} ELSE live
        /\ UNCHANGED sequence
     \/ /\ sequence /= MaxSequence
        /\ sequence' = sequence + 1
        /\ UNCHANGED live
  /\ UNCHANGED <<valid, words, owner, reader>>

\* The CAS process ends, at any point of a store.
OwnerDies == /\ owner = "alive"
             /\ owner' = "dead"
             /\ UNCHANGED <<sequence, valid, words, live, writer, reader>>

-----------------------------------------------------------------------------
(* A reference of the HAL.  "bound" is {"bound"} once bind() handed it out. *)

\* KeyReference::bind up to its trial snapshot: the owner answers under the
\* registry's mutex, with a descriptor only if the slot is live and readable.
Bind(r) == /\ reader[r].pc = "unbound"
           /\ CanStore /\ live = {"live"} /\ sequence /= MaxSequence /\ valid = 1
           /\ reader' = [reader EXCEPT ![r] = [@ EXCEPT !.pc = "check", !.out = NoKey]]
           /\ UNCHANGED slotVars

\* KeyReference::snapshot erases the output first.
Begin(r) == /\ reader[r].pc = "idle"
            /\ reader' = [reader EXCEPT ![r] = [@ EXCEPT !.pc = "check", !.out = NoKey]]
            /\ UNCHANGED slotVars

\* Where the end of a snapshot leaves the reference: bind() keeps it only
\* when its trial snapshot gave a key.
Settled(r, k) == IF reader[r].bound = {"bound"} \/ k /= NoKey THEN "idle" ELSE "unbound"

\* Mutant: the process is not asked about.
Assumed == TRUE

OwnerAlive == owner = "alive"

(* ownerAlive: a dead owner is always noticed; an interrupted poll counts  *)
(* as a dead owner too.                                                    *)
CheckOwner(r) ==
  /\ reader[r].pc = "check"
  /\ \/ /\ OwnerAlive
        /\ reader' = [reader EXCEPT ![r] = [@ EXCEPT !.pc = "sequence", !.attempt = 1]]
     \/ reader' = [reader EXCEPT ![r] = [@ EXCEPT !.pc = Settled(r, NoKey)]]
  /\ UNCHANGED slotVars

\* Mutant: the loop waits until the sequence is even.
RetryForever(r) ==
  reader' = [reader EXCEPT ![r] = [@ EXCEPT !.pc = "sequence"]]

AttemptsLeft(r) == reader[r].attempt < Attempts

\* "continue" of the retry loop; after the last attempt it ends with Busy.
Retry(r) ==
  \/ /\ AttemptsLeft(r)
     /\ reader' = [reader EXCEPT ![r] = [@ EXCEPT !.pc = "sequence",
                                                   !.attempt = reader[r].attempt + 1]]
  \/ /\ ~ AttemptsLeft(r)
     /\ reader' = [reader EXCEPT ![r] = [@ EXCEPT !.pc = "recheck"]]

LoadSequence(r) ==
  /\ reader[r].pc = "sequence"
  /\ \/ /\ sequence = MaxSequence
        /\ reader' = [reader EXCEPT ![r] = [@ EXCEPT !.pc = "recheck"]]
     \/ /\ sequence /= MaxSequence /\ Odd(sequence)
        /\ Retry(r)
     \/ /\ ~ Odd(sequence)
        /\ reader' = [reader EXCEPT ![r] = [@ EXCEPT !.pc = "valid", !.before = sequence]]
  /\ UNCHANGED slotVars

LoadValid(r) ==
  /\ reader[r].pc = "valid"
  /\ reader' = [reader EXCEPT ![r] = [@ EXCEPT !.pc = "words", !.i = 1, !.ready = valid,
                                               !.got = NoWords]]
  /\ UNCHANGED slotVars

LoadWord(r) ==
  /\ reader[r].pc = "words" /\ reader[r].i <= WordCount
  /\ reader' = [reader EXCEPT ![r] = [@ EXCEPT !.i = reader[r].i + 1,
                   !.got = [reader[r].got EXCEPT ![reader[r].i] = words[reader[r].i]]]]
  /\ UNCHANGED slotVars

Unmoved(r) == sequence = reader[r].before

ReloadSequence(r) ==
  /\ reader[r].pc = "words" /\ reader[r].i > WordCount
  /\ \/ /\ ~ Unmoved(r)
        /\ Retry(r)
     \/ /\ Unmoved(r)
        /\ reader' = [reader EXCEPT ![r] = [@ EXCEPT !.pc = "recheck",
                         !.out = IF reader[r].ready = 1 THEN reader[r].got ELSE NoKey]]
  /\ UNCHANGED slotVars

\* The second ownerAlive and the copy to the caller.
Finish(r) ==
  /\ reader[r].pc = "recheck"
  /\ \/ /\ OwnerAlive
        /\ reader' = [reader EXCEPT ![r] = [@ EXCEPT !.pc = Settled(r, reader[r].out),
             !.bound = IF reader[r].out /= NoKey THEN {"bound"} ELSE reader[r].bound]]
     \/ reader' = [reader EXCEPT ![r] = [@ EXCEPT !.pc = Settled(r, NoKey), !.out = NoKey]]
  /\ UNCHANGED slotVars

\* The destructor of KeyReference.
Release(r) ==
  /\ reader[r].pc = "idle"
  /\ reader' = [reader EXCEPT ![r] = [@ EXCEPT !.pc = "unbound", !.bound = {}, !.out = NoKey]]
  /\ UNCHANGED slotVars

-----------------------------------------------------------------------------
Owner == \/ \E k \in Keys : Update(k)
         \/ Withdraw \/ Close
         \/ BeginStore \/ StoreValid \/ StoreWord \/ EndStore

Snapshot(r) == \/ CheckOwner(r) \/ LoadSequence(r) \/ LoadValid(r) \/ LoadWord(r)
               \/ ReloadSequence(r) \/ Finish(r)

Reference(r) == Bind(r) \/ Begin(r) \/ Release(r) \/ Snapshot(r)

Next == Owner \/ OwnerDies \/ \E r \in Readers : Reference(r)

Spec == Init /\ [][Next]_vars

\* A HAL thread in a snapshot keeps running; nothing is asked of the owner.
FairSpec == Spec /\ \A r \in Readers : WF_vars(Snapshot(r))

-----------------------------------------------------------------------------
WriterType == [pc : {"idle", "begin", "valid", "words"}, key : Keys \cup {NoKey},
               i : 1 .. WordCount + 1, op : {"none", "update", "withdraw", "close"}]

ReaderType ==
  [pc : {"unbound", "idle", "check", "sequence", "valid", "words", "recheck"},
   bound : {{}, {"bound"}}, attempt : 1 .. Attempts, before : 0 .. MaxSequence,
   ready : {0, 1}, i : 1 .. WordCount + 1, got : [Words -> Nat],
   out : Keys \cup {NoKey}]

\* The variables keep their types; in particular "out", what a snapshot
\* returns, is one of the keys that were stored, or none.
TypeOK == /\ sequence \in 0 .. MaxSequence
          /\ valid \in {0, 1}
          /\ words \in [Words -> Nat]
          /\ live \in {{}, {"live"}}
          /\ owner \in {"alive", "dead"}
          /\ writer \in WriterType
          /\ reader \in [Readers -> ReaderType]

(* The key the slot holds: a store takes effect at its first access, when  *)
(* the sequence number turns odd or is parked.                             *)
Current == IF writer.pc \in {"valid", "words"} THEN writer.key
           ELSE IF valid = 1 THEN words ELSE NoKey

ClosedForGood == IF live = {} /\ Current = NoKey THEN {"closed"} ELSE {}

Register == INSTANCE KeyRegister WITH
              key <- Current, closed <- ClosedForGood,
              answer <- [r \in Readers |-> reader[r].out]

(* The slot is an atomic register: whatever the interleaving of a store    *)
(* and of the four attempts of SharedKeyState::snapshot, and wherever the  *)
(* owner dies, a reader that gets a key gets all the words of one update,  *)
(* the one in force when the sequence was re-read; a withdrawn key is not  *)
(* given again; after close() or revokeAll() took effect no key ever is.   *)
IsAtomicRegister == Register!Spec

(* A snapshot that returns a key checked the owner after it read the key:  *)
(* the page of a dead CAS process yields nothing (KeyClient.cpp, the       *)
(* second ownerAlive), although its last key is still in the page.         *)
KeyOnlyFromLiveOwner ==
  [][\A r \in Readers :
       reader[r].pc = "recheck" /\ reader'[r].pc = "idle" /\ reader'[r].out /= NoKey
         => owner = "alive"]_vars

(* A snapshot ends whatever the owner does: it may stop or die in the      *)
(* middle of a store and leave the sequence odd for ever (SharedSlot.cpp,  *)
(* "does not wait without limit").                                         *)
SnapshotEnds ==
  \A r \in Readers : reader[r].pc = "check" ~> reader[r].pc \in {"idle", "unbound"}
=============================================================================
