------------------------------ MODULE CasPlugin ------------------------------
(***************************************************************************)
(* The CAS process: plugin instances and their sessions (CasPlugin.cpp),   *)
(* the registry of key slots (KeyRegistry.cpp), the server thread that     *)
(* hands slots to the Tuner HAL (KeyServer.cpp), the software card with    *)
(* its work keys (YakisobaBackend.cpp) and the file that keeps the work    *)
(* keys across restarts (YakisobaState.cpp).                               *)
(*                                                                         *)
(* A method of a plugin runs under the mutex of that plugin, so each       *)
(* plugin has one operation in progress, "op"; the backend's mutex "lock"  *)
(* is held through all the steps of an EMM.  The process may be killed,    *)
(* and the device may lose power, between any two steps.                   *)
(***************************************************************************)
EXTENDS Naturals, FiniteSets, Sequences

CONSTANTS Plugins,    \* plugin instances, one MediaCas client each
          Slots,      \* key slots (session tokens) a process may issue
          Capacity,   \* kSessionCapacity
          Groups,     \* broadcaster groups
          Messages,   \* EMM messages: [group, number, id, key]
          Sections,   \* EMM sections: sequences of messages
          Ecms,       \* ECMs: [group, id], the work key each is scrambled with
          Factory,    \* work key of each group in the product's credential
          Pids,       \* process ids
          MaxFaults,  \* bound: failing system calls
          MaxCrashes  \* bound: process and power losses

None == [id |-> 0, key |-> 0]
Unlocked == "unlocked"

\* A group's entry of YakisobaPersistentState: the number and the bytes of the
\* last EMM applied and the work key it set.  A missing file is "Blank".
Blank == [g \in Groups |-> [number |-> 0, last |-> {}, work |-> None]]

VARIABLES plugin,     \* "absent" or "live"
          server,     \* KeyServer: "none", "healthy", "failed", "stopped"
          slot,       \* per slot [owner, live, group, key]
          table,      \* KeyRegistry::slots_, the slots it can reach
          op,         \* the method running in each plugin
          lock,       \* holder of the backend's mutex
          card,       \* YakisobaBackend: initialized, revoked
          state,      \* YakisobaBackend::state_
          keyset,     \* libyakisoba's work keys
          disk,       \* the state file as the processes see it
          durable,    \* ... and as it is after a power loss
          temp,       \* process ids whose temporary file exists
          pid,
          confirmed,  \* the messages this card committed and registered
          faults, crashes

cardVars == <<card, state, keyset>>
fileVars == <<disk, durable, temp>>
procVars == <<plugin, server, slot, table, op, lock>>
bounds == <<pid, faults, crashes>>
vars == <<procVars, cardVars, fileVars, confirmed, bounds>>

Unissued == [owner |-> "none", live |-> FALSE, group |-> "none", key |-> None]
IdleOp == [pc |-> "idle"]

\* What the start of a process gives to everything it holds in memory.
Memory == [plugin |-> [p \in Plugins |-> "absent"], server |-> "none",
           slot |-> [s \in Slots |-> Unissued], table |-> {},
           op |-> [p \in Plugins |-> IdleOp], lock |-> Unlocked,
           card |-> "uninitialized", state |-> Blank, keyset |-> Factory]

Init ==
    /\ plugin = Memory.plugin /\ server = Memory.server /\ slot = Memory.slot
    /\ table = Memory.table /\ op = Memory.op /\ lock = Memory.lock
    /\ card = Memory.card /\ state = Memory.state /\ keyset = Memory.keyset
    /\ disk = Blank /\ durable = Blank /\ temp = {}
    /\ pid \in Pids
    /\ confirmed = {}
    /\ faults = 0 /\ crashes = 0

CanFail == faults < MaxFaults /\ faults' = faults + 1

Healthy == server = "healthy"

Become(p, new) == op' = [op EXCEPT ![p] = new]
Return(p) == Become(p, IdleOp)

-----------------------------------------------------------------------------
(* The registry.  A slot that holds a key has a work key in "key".         *)

Held(s) == slot[s].owner /= "none"

\* Entries of the table KeyRegistry::open may overwrite.
Reusable == {s \in table : ~ (Held(s) /\ slot[s].live)}

Room == Cardinality(table) < Capacity

CanUpdate(s) == slot[s].live

\* KeyRegistry::close, and ~Slot with it: the session's reference was the last.
Closed(S) == [s \in Slots |-> IF s \in S THEN Unissued ELSE slot[s]]

\* KeyRegistry::revokeAll.
Revoked == [s \in Slots |-> IF s \in table /\ Held(s)
                            THEN [slot[s] EXCEPT !.live = FALSE, !.key = None]
                            ELSE slot[s]]

\* Mutant: the sessions of the group keep the keys they have.
KeepKeys(g) == slot

\* KeyRegistry::invalidateGroup.
Invalidated(g) == [s \in Slots |-> IF s \in table /\ Held(s) /\ slot[s].group = g
                                   THEN [slot[s] EXCEPT !.key = None]
                                   ELSE slot[s]]

-----------------------------------------------------------------------------
(* Plugins, sessions and the server thread.                                *)

\* B25Factory::create with KeyServer::acquire: plugins share one server, and
\* a failed one is not replaced while a plugin holds it.
CreatePlugin(p) ==
    /\ plugin[p] = "absent" /\ server \in {"none", "healthy"}
    /\ plugin' = [plugin EXCEPT ![p] = "live"]
    /\ server' = "healthy"
    /\ UNCHANGED <<slot, table, op, lock, cardVars, fileVars, confirmed, bounds>>

\* ~B25Plugin, once no method runs in it; the last one ends the server too,
\* unless its thread is on its way to revokeAll.
ReleasePlugin(p) ==
    /\ plugin[p] = "live" /\ op[p] = IdleOp
    /\ plugin' = [plugin EXCEPT ![p] = "absent"]
    /\ slot' = Closed({s \in Slots : slot[s].owner = p})
    /\ server' = IF server /= "failed" /\ \A q \in Plugins \ {p} : plugin[q] = "absent"
                 THEN "none" ELSE server
    /\ UNCHANGED <<table, op, lock, cardVars, fileVars, confirmed, bounds>>

\* KeyServer::run leaves its loop: a failing poll or accept, or an exception.
ServerFails ==
    /\ Healthy /\ CanFail
    /\ server' = "failed"
    /\ UNCHANGED <<plugin, slot, table, op, lock, cardVars, fileVars, confirmed, pid, crashes>>

\* ... and revokes every slot, unless the server is being destroyed.
ServerRevokes ==
    /\ server = "failed"
    /\ LET unused == \A p \in Plugins : plugin[p] = "absent" IN
       /\ server' = IF unused THEN "none" ELSE "stopped"
       /\ slot' = Revoked \/ (unused /\ slot' = slot)
    /\ UNCHANGED <<plugin, table, op, lock, cardVars, fileVars, confirmed, bounds>>

\* openSession up to the test of the server's health.
OpenSession(p) ==
    /\ plugin[p] = "live" /\ op[p] = IdleOp /\ Healthy
    /\ Become(p, [pc |-> "open"])
    /\ UNCHANGED <<plugin, server, slot, table, lock, cardVars, fileVars, confirmed, bounds>>

\* KeyRegistry::open; tokens are never issued twice.  The other disjunct is
\* its Busy: no entry to use, no random number or no memory.
IssueSlot(p) ==
    /\ op[p].pc = "open"
    /\ \/ \E s \in Slots :
            /\ s \notin table /\ ~ Held(s)
            /\ \/ Room /\ table' = table \cup {s}
               \/ \E old \in Reusable : table' = (table \ {old}) \cup {s}
            /\ slot' = [slot EXCEPT ![s] = [owner |-> p, live |-> TRUE,
                                            group |-> "none", key |-> None]]
       \/ UNCHANGED <<slot, table>>
    /\ Return(p)
    /\ UNCHANGED <<plugin, server, lock, cardVars, fileVars, confirmed, bounds>>

CloseSession(p, s) ==
    /\ plugin[p] = "live" /\ op[p] = IdleOp /\ slot[s].owner = p
    /\ slot' = Closed({s})
    /\ UNCHANGED <<plugin, server, table, op, lock, cardVars, fileVars, confirmed, bounds>>

-----------------------------------------------------------------------------
(* The software card.                                                      *)

\* restorePersistentState accepts a saved work key only if the credential has
\* no newer one, nor a different one of the same id.
Restorable ==
    \A g \in Groups : disk[g].work /= None =>
        \/ Factory[g].id < disk[g].work.id
        \/ Factory[g] = disk[g].work

\* initialize, when the card is not in use yet: the credential is absent or
\* unreadable (no change), the state file is refused or unreadable, or both load.
Initialize(ready) ==
    \/ /\ card = "uninitialized" /\ CanFail /\ ready = FALSE
       /\ UNCHANGED <<cardVars, slot>>
    \/ /\ card = "uninitialized" /\ ready = FALSE
       /\ Restorable => CanFail
       /\ ~ Restorable => UNCHANGED faults
       /\ card' = "revoked" /\ slot' = Revoked
       /\ UNCHANGED <<state, keyset>>
    \/ /\ card = "uninitialized" /\ Restorable /\ ready = TRUE
       /\ card' = "ready"
       /\ state' = disk
       /\ keyset' = [g \in Groups |-> IF disk[g].work = None THEN keyset[g] ELSE disk[g].work]
       /\ UNCHANGED <<slot, faults>>

\* processEcm and processEmm up to the test of the server's health.
ProcessEcm(p, s, ecm) ==
    /\ plugin[p] = "live" /\ op[p] = IdleOp /\ slot[s].owner = p /\ Healthy
    /\ Become(p, [pc |-> "ecm", slot |-> s, ecm |-> ecm])
    /\ UNCHANGED <<plugin, server, slot, table, lock, cardVars, fileVars, confirmed, bounds>>

ProcessEmm(p, section) ==
    /\ plugin[p] = "live" /\ op[p] = IdleOp /\ Healthy
    /\ Become(p, [pc |-> "emm", todo |-> section])
    /\ UNCHANGED <<plugin, server, slot, table, lock, cardVars, fileVars, confirmed, bounds>>

\* try_lock_for runs out of time.
LockTimeout(p) ==
    /\ op[p].pc \in {"ecm", "emm"} /\ lock /= Unlocked
    /\ Return(p)
    /\ UNCHANGED <<plugin, server, slot, table, lock, cardVars, fileVars, confirmed, bounds>>

\* The first ECM or EMM brings the card up; a failure ends the method.
InitializeCard(p) ==
    /\ op[p].pc \in {"ecm", "emm"} /\ lock = Unlocked
    /\ \E ready \in BOOLEAN :
         /\ Initialize(ready)
         /\ IF ready THEN op' = op ELSE Return(p)
    /\ UNCHANGED <<plugin, server, table, lock, fileVars, confirmed, pid, crashes>>

\* bcas_decodeECM needs the very work key the ECM names; the keys it yields go
\* to the slot if the slot is still live.
DecodeEcm(p) ==
    /\ op[p].pc = "ecm" /\ lock = Unlocked /\ card /= "uninitialized"
    /\ LET s == op[p].slot
           e == op[p].ecm
       IN  slot' = IF card = "ready" /\ keyset[e.group].id = e.id /\ CanUpdate(s)
                   THEN [slot EXCEPT ![s].group = e.group, ![s].key = keyset[e.group]]
                   ELSE slot
    /\ Return(p)
    /\ UNCHANGED <<plugin, server, table, lock, cardVars, fileVars, confirmed, bounds>>

BeginEmm(p) ==
    /\ op[p].pc = "emm" /\ lock = Unlocked /\ card /= "uninitialized"
    /\ IF card = "ready"
       THEN lock' = p /\ Become(p, [op[p] EXCEPT !.pc = "apply"])
       ELSE UNCHANGED lock /\ Return(p)
    /\ UNCHANGED <<plugin, server, slot, table, cardVars, fileVars, confirmed, bounds>>

Finish(p) == lock' = Unlocked /\ Return(p)
Message(p) == Head(op[p].todo)
WorkKey(m) == [id |-> m.id, key |-> m.key]

\* Mutant: an update that is older than the card's is applied again.
AnyNumber(m) == TRUE

Newer(m) == state[m.group].last = {} \/ m.number > state[m.group].number

Duplicate(m) == state[m.group].last = {m}

\* The rule by which Register accepts a work key, tested before the commit.
Registrable(m) == \/ keyset[m.group].id < m.id
                  \/ keyset[m.group] = WorkKey(m)

Updated(m) == [state EXCEPT ![m.group] = [number |-> m.number, last |-> {m}, work |-> WorkKey(m)]]

\* The tests of applyMessage, message by message.  (A message for another card
\* has no effect and is left out of the sections.)
ApplyMessage(p) ==
    /\ op[p].pc = "apply"
    /\ IF op[p].todo = <<>> THEN Finish(p) /\ UNCHANGED confirmed
       ELSE LET m == Message(p) IN
            IF Newer(m) /\ Registrable(m)
            THEN Become(p, [op[p] EXCEPT !.pc = "create"]) /\ UNCHANGED <<lock, confirmed>>
            ELSE IF ~ Newer(m) /\ Duplicate(m)
                 THEN /\ Become(p, [op[p] EXCEPT !.todo = Tail(op[p].todo)])
                      /\ UNCHANGED <<lock, confirmed>>
                 ELSE Finish(p) /\ UNCHANGED confirmed
    /\ UNCHANGED <<plugin, server, slot, table, cardVars, fileVars, bounds>>

\* YakisobaStateStore::commit, one step per effect on the file system.  The
\* temporary file is opened with O_EXCL: a leftover of the same process id
\* makes every commit fail.
CreateTemp(p) ==
    /\ op[p].pc = "create"
    /\ \/ pid \in temp /\ Finish(p) /\ UNCHANGED <<temp, faults>>
       \/ CanFail /\ Finish(p) /\ UNCHANGED temp
       \/ /\ pid \notin temp
          /\ temp' = temp \cup {pid}
          /\ Become(p, [op[p] EXCEPT !.pc = "write"])
          /\ UNCHANGED <<lock, faults>>
    /\ UNCHANGED <<plugin, server, slot, table, cardVars, disk, durable, confirmed, pid, crashes>>

\* Write, fsync and rename; on a failure of any the temporary file is removed,
\* if that works.
Rename(p) ==
    /\ op[p].pc = "write"
    /\ \/ /\ CanFail /\ Finish(p)
          /\ temp' \in {temp, temp \ {pid}}
          /\ UNCHANGED disk
       \/ /\ disk' = Updated(Message(p))
          /\ temp' = temp \ {pid}
          /\ Become(p, [op[p] EXCEPT !.pc = "sync"])
          /\ UNCHANGED <<lock, faults>>
    /\ UNCHANGED <<plugin, server, slot, table, cardVars, durable, confirmed, pid, crashes>>

FailClosed == card' = "revoked" /\ slot' = Revoked

\* Mutant: the directory is not synchronised.
RenameIsEnough == UNCHANGED durable

SyncDirectory == durable' = disk

\* fsync of the directory; OutcomeUnknown fails closed, Ok registers the key.
CommitDirectory(p) ==
    /\ op[p].pc = "sync"
    /\ \/ /\ CanFail /\ FailClosed /\ Finish(p)
          /\ UNCHANGED <<state, keyset, durable>>
       \/ /\ SyncDirectory
          /\ keyset' = [keyset EXCEPT ![Message(p).group] = WorkKey(Message(p))]
          /\ state' = disk
          /\ Become(p, [op[p] EXCEPT !.pc = "invalidate"])
          /\ UNCHANGED <<card, slot, lock, faults>>
    /\ UNCHANGED <<plugin, server, table, disk, temp, confirmed, pid, crashes>>

InvalidateGroup(p) ==
    /\ op[p].pc = "invalidate"
    /\ slot' = Invalidated(Message(p).group)
    /\ confirmed' = confirmed \cup {Message(p)}
    /\ Become(p, [pc |-> "apply", todo |-> Tail(op[p].todo)])
    /\ UNCHANGED <<plugin, server, table, lock, cardVars, fileVars, bounds>>

-----------------------------------------------------------------------------
(* The process is killed or crashes; init starts it again.  With a power   *)
(* loss a rename that was not synchronised may be undone, and temporary    *)
(* files may or may not have reached the disk.                             *)

Restart ==
    /\ crashes < MaxCrashes /\ crashes' = crashes + 1
    /\ plugin' = Memory.plugin /\ server' = Memory.server /\ slot' = Memory.slot
    /\ table' = Memory.table /\ op' = Memory.op /\ lock' = Memory.lock
    /\ card' = Memory.card /\ state' = Memory.state /\ keyset' = Memory.keyset
    /\ pid' \in Pids
    /\ \/ UNCHANGED fileVars
       \/ /\ disk' \in {disk, durable} /\ durable' = disk'
          /\ temp' \in SUBSET temp
    /\ UNCHANGED <<confirmed, faults>>

Method(p) ==
    \/ CreatePlugin(p) \/ ReleasePlugin(p) \/ OpenSession(p) \/ IssueSlot(p)
    \/ \E s \in Slots : CloseSession(p, s)
    \/ \E s \in Slots, e \in Ecms : ProcessEcm(p, s, e)
    \/ \E m \in Sections : ProcessEmm(p, m)
    \/ LockTimeout(p) \/ InitializeCard(p) \/ DecodeEcm(p) \/ BeginEmm(p)
    \/ ApplyMessage(p) \/ CreateTemp(p) \/ Rename(p) \/ CommitDirectory(p)
    \/ InvalidateGroup(p)

Next == (\E p \in Plugins : Method(p)) \/ ServerFails \/ ServerRevokes \/ Restart

Spec == Init /\ [][Next]_vars

-----------------------------------------------------------------------------
(* Properties.                                                             *)

Keyed(s) == slot[s].key /= None

\* Types of the CAS process's state; the table stays within kSessionCapacity.
TypeOK ==
    /\ plugin \in [Plugins -> {"absent", "live"}]
    /\ server \in {"none", "healthy", "failed", "stopped"}
    /\ slot \in [Slots -> [owner : Plugins \cup {"none"}, live : BOOLEAN,
                           group : Groups \cup {"none"}, key : {None} \cup {WorkKey(m) : m \in Messages}
                                                              \cup {Factory[g] : g \in Groups}]]
    /\ table \subseteq Slots /\ Cardinality(table) <= Capacity
    /\ lock \in Plugins \cup {Unlocked}
    /\ card \in {"uninitialized", "ready", "revoked"}
    /\ temp \subseteq Pids /\ pid \in Pids /\ confirmed \subseteq Messages

Survives(m) == durable[m.group].last /= {} /\ durable[m.group].number >= m.number

\* An update that was committed and registered is still there after any crash or
\* loss of power: the number that survives on the disk is at least its own.
ConfirmedIsDurable == \A m \in confirmed : Survives(m)

\* Whatever the file holds at a restart, restorePersistentState accepts it: a
\* crash never turns into a card that is revoked at every start.
RestartRestores == Restorable

\* A crash at any point of a store loses nothing that was confirmed and leaves
\* a file the next process accepts.
DurableState == ConfirmedIsDurable /\ RestartRestores

\* A session key in a slot was derived with the work key the card holds now:
\* an EMM takes away the keys of its group before it is done, and no ECM slips
\* in between.
KeysOfCurrentWork ==
    \A s \in Slots : Keyed(s) =>
        \/ slot[s].key = keyset[slot[s].group]
        \/ lock /= Unlocked /\ op[lock].pc = "invalidate"
                            /\ Message(lock).group = slot[s].group

\* The registry can reach every slot that holds a key, so that revokeAll and
\* invalidateGroup miss none, and only an open session holds one.
KeyedSlotReachable == \A s \in Slots : Keyed(s) => s \in table /\ slot[s].live /\ Held(s)

\* Once the card is revoked, or the server has failed and revoked its slots,
\* no slot has a key: no method that was under way puts one back.
NoKeyAfterRevocation == card = "revoked" \/ server = "stopped" => \A s \in Slots : ~ Keyed(s)

\* The keys that packets are decrypted with are those of the card's present
\* work keys, in slots the registry reaches, and none after a revocation.
SlotKeysSound == KeysOfCurrentWork /\ KeyedSlotReachable /\ NoKeyAfterRevocation

\* Work keys and update numbers never go back in a running process.
NoRollback ==
    [][\A g \in Groups : \/ crashes' /= crashes
                         \/ /\ state'[g].number >= state[g].number
                            /\ keyset'[g].id >= keyset[g].id]_vars
=============================================================================
