---------------------------- MODULE Descrambling ----------------------------
(***************************************************************************)
(* Descrambler sessions, their PID claims and the table of resolved CAS    *)
(* keys in the tuner HAL's service runtime.                                *)
(*                                                                         *)
(* Every operation runs under the runtime lock and is one action, except   *)
(* setKeyToken: the CAS resolves the token before the lock is taken        *)
(* (ResolveToken), and the commit (CommitKey) finds whatever the other     *)
(* clients made of the session, of its demux and of the table meanwhile.   *)
(*                                                                         *)
(* A demux is known by its public id.  Its runtime starts at generation 1  *)
(* each time the id is opened again, and every stream boundary (tune,      *)
(* frontend bound or unbound) increments the generation.  A session keeps  *)
(* the generation it was bound at and is usable only while it is current.  *)
(***************************************************************************)
EXTENDS Naturals, FiniteSets

CONSTANTS
    Descramblers,      \* runtime ids of descramblers: each is used once
    Demuxes,           \* public demux ids: reused
    Filters,           \* runtime ids of TS audio, video, PES or record filters
    Pids,
    Tokens,            \* key tokens the CAS handed out
    None,              \* Option::None
    MaxGeneration,     \* bound on the generations explored
    MaxPublications    \* bound on the key slot ids explored

ASSUME NoneAssumption == None \notin Tokens /\ None \notin Demuxes
ASSUME FiniteAssumption == IsFiniteSet(Descramblers)
ASSUME BoundAssumption == MaxGeneration \in Nat /\ MaxPublications \in Nat

VARIABLES
    demux,     \* registered demux runtimes: state and stream generation
    filter,    \* registered filter runtimes
    object,    \* lifecycle of the AIDL object in front of each session
    session,   \* DescramblerSession: state, source call, binding, claims
    token,     \* DescramblerSession.key_token
    slot,      \* DescramblerSession.key_slot, 0 when there is none
    debt,      \* DescramblerSession.pending_key_releases
    table,     \* DescramblerKeyTable.slots, slot 0 when the token is absent
    nextSlot,  \* DescramblerKeyTable.next_slot
    pending,   \* setKeyToken calls past the CAS and not yet under the lock
    live       \* tokens whose CAS slot can still be read

keys == <<token, slot, debt, table, nextSlot>>
vars == <<demux, filter, object, session, keys, pending, live>>

Absent == [slot |-> 0, refs |-> 0]

NewSession ==
    [state |-> "Open", source |-> "NeverCalled", demux |-> None,
     generation |-> 0, claims |-> {}]

Sessions ==
    [state : {"Open", "Closed", "CleanupPending", "Quarantined"},
     source : {"NeverCalled", "Consumed", "Bound"},
     demux : Demuxes \cup {None}, generation : Nat,
     claims : SUBSET [pid : Pids, filter : Filters \cup {None},
                      generation : Nat]]

Init ==
    /\ demux = [x \in Demuxes |-> [state |-> "Absent", generation |-> 0]]
    /\ filter = [f \in Filters |->
                    [state |-> "Unopened", owner |-> None, generation |-> 0,
                     pid |-> None]]
    /\ object = [d \in Descramblers |-> "Unopened"]
    /\ session = [d \in Descramblers |-> NewSession]
    /\ token = [d \in Descramblers |-> None]
    /\ slot = [d \in Descramblers |-> 0]
    /\ debt = [d \in Descramblers |-> {}]
    /\ table = [t \in Tokens |-> Absent]
    /\ nextSlot = 1
    /\ pending = {}
    /\ live = Tokens

-----------------------------------------------------------------------------
(* Demuxes and filters, as far as descramblers depend on them. *)

RegisterDemux(x) ==
    /\ demux[x].state = "Absent"
    /\ demux' = [demux EXCEPT ![x] = [state |-> "Open", generation |-> 1]]
    /\ UNCHANGED <<filter, object, session, keys, pending, live>>

StreamBoundary(x) ==
    /\ demux[x].state = "Open"
    /\ demux[x].generation < MaxGeneration
    /\ demux' = [demux EXCEPT ![x].generation = @ + 1]
    /\ UNCHANGED <<filter, object, session, keys, pending, live>>

\* A demux that cannot keep its queues consistent fails all its filters.
QuarantineDemux(x) ==
    /\ demux[x].state = "Open"
    /\ demux' = [demux EXCEPT ![x].state = "Quarantined"]
    /\ filter' = [f \in Filters |->
                    IF filter[f].owner = x THEN [filter[f] EXCEPT !.state = "Ended"]
                    ELSE filter[f]]
    /\ UNCHANGED <<object, session, keys, pending, live>>

OpenFilter(f, x) ==
    /\ filter[f].state = "Unopened"
    /\ demux[x].state = "Open"
    /\ filter' = [filter EXCEPT ![f] =
                    [state |-> "Open", owner |-> x,
                     generation |-> demux[x].generation, pid |-> None]]
    /\ UNCHANGED <<demux, object, session, keys, pending, live>>

ConfigureFilter(f, p) ==
    /\ filter[f].state \in {"Open", "Configured"}
    /\ filter[f].generation < MaxGeneration
    /\ filter' = [filter EXCEPT ![f] =
                    [state |-> "Configured", owner |-> @.owner,
                     generation |-> @.generation + 1, pid |-> p]]
    /\ UNCHANGED <<demux, object, session, keys, pending, live>>

\* The filter is closed, or fails.
CloseFilter(f) ==
    /\ filter[f].state \in {"Open", "Configured"}
    /\ filter' = [filter EXCEPT ![f].state = "Ended"]
    /\ UNCHANGED <<demux, object, session, keys, pending, live>>

-----------------------------------------------------------------------------
(* The key table.  Entries are removed with their last reference, and a    *)
(* slot id is never given out twice.                                       *)

\* Mutant: resolving a token again gives its entry a new slot.
PublishAnew(tbl, t) ==
    [tbl EXCEPT ![t] = [slot |-> nextSlot, refs |-> tbl[t].refs]]

Publish(tbl, t) ==
    IF tbl[t].slot # 0 THEN tbl
    ELSE [tbl EXCEPT ![t] = [slot |-> nextSlot, refs |-> 0]]

Acquire(tbl, t) ==
    [tbl EXCEPT ![t] = [slot |-> tbl[t].slot, refs |-> tbl[t].refs + 1]]

\* k releases of one entry.
Released(entry, k) ==
    IF entry.refs <= k THEN Absent
    ELSE [slot |-> entry.slot, refs |-> entry.refs - k]

Release(tbl, t) == [tbl EXCEPT ![t] = Released(tbl[t], 1)]

\* Mutant: the last reference cannot be given back.
ReleasableUnlessLast(tbl, t) == tbl[t].slot # 0 /\ tbl[t].refs > 1

Releasable(tbl, t) == tbl[t].slot # 0 /\ tbl[t].refs # 0

DiscardIfUnreferenced(tbl, t) ==
    IF tbl[t].refs = 0 THEN [tbl EXCEPT ![t] = Absent] ELSE tbl

\* The references a session answers for: its key, and the releases it owes.
Held(d) == ({token[d]} \ {None}) \cup debt[d]

Holders(t) == {d \in Descramblers : t \in Held(d)}

-----------------------------------------------------------------------------
(* Sessions. *)

OpenDescrambler(d) ==
    /\ object[d] = "Unopened"
    /\ object' = [object EXCEPT ![d] = "Active"]
    /\ UNCHANGED <<demux, filter, session, keys, pending, live>>

\* The call is consumed before the demux is looked at, whatever it finds.
SetDemuxSource(d, x) ==
    /\ object[d] = "Active"
    /\ session[d].state = "Open"
    /\ session[d].source = "NeverCalled"
    /\ session' = [session EXCEPT ![d] =
            IF demux[x].state = "Open"
            THEN [@ EXCEPT !.source = "Bound", !.demux = x,
                           !.generation = demux[x].generation]
            ELSE [@ EXCEPT !.source = "Consumed"]]
    /\ UNCHANGED <<demux, filter, object, keys, pending, live>>

\* descrambler_bound_demux: the binding is there and still current.
BoundLive(d) ==
    /\ session[d].demux # None
    /\ demux[session[d].demux].state = "Open"
    /\ demux[session[d].demux].generation = session[d].generation

\* A binding is held until the session closes, usable or not.
HoldsBinding(d, x, g) ==
    /\ session[d].state # "Closed"
    /\ session[d].demux = x
    /\ session[d].generation = g

\* Mutant: claims that name a source filter are not compared.
ClaimedByOtherInput(d, p) ==
    \E e \in Descramblers \ {d} :
        /\ HoldsBinding(e, session[d].demux, session[d].generation)
        /\ \E c \in session[e].claims : c.pid = p /\ c.filter = None

ClaimedByOther(d, p) ==
    \E e \in Descramblers \ {d} :
        /\ HoldsBinding(e, session[d].demux, session[d].generation)
        /\ \E c \in session[e].claims : c.pid = p

\* validate_descrambler_source_filter
ValidSource(f, x, g, p) ==
    /\ filter[f].state = "Configured"
    /\ filter[f].owner = x
    /\ demux[x].generation = g
    /\ filter[f].pid = p

DemuxInput(p) == [pid |-> p, filter |-> None, generation |-> 0]

SourceFilter(p, f) ==
    [pid |-> p, filter |-> f, generation |-> filter[f].generation]

\* A claim replaces the session's claim on the same PID.
Claiming(claims, c) == {e \in claims : e.pid # c.pid} \cup {c}

MayUse(d) == object[d] = "Active" /\ BoundLive(d) /\ session[d].state = "Open"

AddPid(d, c) ==
    /\ MayUse(d)
    /\ ~ ClaimedByOther(d, c.pid)
    /\ session' = [session EXCEPT ![d].claims = Claiming(@, c)]
    /\ UNCHANGED <<demux, filter, object, keys, pending, live>>

RemovePid(d, c) ==
    /\ MayUse(d)
    /\ session' = [session EXCEPT ![d].claims = @ \ {c}]
    /\ UNCHANGED <<demux, filter, object, keys, pending, live>>

AddDemuxInput(d, p) == AddPid(d, DemuxInput(p))

RemoveDemuxInput(d, p) == RemovePid(d, DemuxInput(p))

AddSourceFilter(d, p, f) ==
    /\ ValidSource(f, session[d].demux, session[d].generation, p)
    /\ AddPid(d, SourceFilter(p, f))

\* A claim made at an older generation of the filter is refused here.
RemoveSourceFilter(d, p, f) ==
    /\ ValidSource(f, session[d].demux, session[d].generation, p)
    /\ \A c \in session[d].claims :
          c.pid = p /\ c.filter = f => c.generation = filter[f].generation
    /\ RemovePid(d, SourceFilter(p, f))

-----------------------------------------------------------------------------
(* Keys. *)

\* Mutant: the empty token is resolved like any other.
ResolveEmptyToken(d, t) ==
    /\ object[d] = "Active"
    /\ t \in live
    /\ pending' = pending \cup {<<d, None>>}
    /\ UNCHANGED <<demux, filter, object, session, keys, live>>

\* The CAS binds the token outside the runtime lock.
ResolveToken(d, t) ==
    /\ object[d] = "Active"
    /\ t \in live
    /\ pending' = pending \cup {<<d, t>>}
    /\ UNCHANGED <<demux, filter, object, session, keys, live>>

\* Mutant: the replaced token is not released.
ReplaceKeyKeepingOld(d, t) ==
    LET acquired == Acquire(Publish(table, t), t)
    IN  /\ token' = [token EXCEPT ![d] = t]
        /\ slot' = [slot EXCEPT ![d] = acquired[t].slot]
        /\ table' = acquired
        /\ UNCHANGED <<debt, session>>

\* The old token is released once the new one is in place; when that fails
\* the session owes the release and is quarantined.
ReplaceKey(d, t) ==
    LET acquired == Acquire(Publish(table, t), t)
        old == token[d]
        fails == old # None /\ ~ Releasable(acquired, old)
    IN  /\ token' = [token EXCEPT ![d] = t]
        /\ slot' = [slot EXCEPT ![d] = acquired[t].slot]
        /\ table' = IF old = None \/ fails THEN acquired
                    ELSE Release(acquired, old)
        /\ debt' = IF fails THEN [debt EXCEPT ![d] = @ \cup {old}] ELSE debt
        /\ session' = IF fails
                      THEN [session EXCEPT ![d].state = "Quarantined"]
                      ELSE session

\* A published entry that no session could take is discarded again.
CommitKey(d, t) ==
    /\ <<d, t>> \in pending
    /\ pending' = pending \ {<<d, t>>}
    /\ table[t].slot = 0 => nextSlot <= MaxPublications
    /\ IF object[d] = "Active" /\ BoundLive(d)
       THEN /\ nextSlot' = IF table[t].slot = 0 THEN nextSlot + 1 ELSE nextSlot
            /\ IF session[d].state # "Open"
               THEN /\ table' = DiscardIfUnreferenced(Publish(table, t), t)
                    /\ UNCHANGED <<session, token, slot, debt>>
               ELSE IF token[d] = t
               THEN /\ table' = Publish(table, t)
                    /\ UNCHANGED <<session, token, slot, debt>>
               ELSE ReplaceKey(d, t)
       ELSE UNCHANGED <<session, keys>>
    /\ UNCHANGED <<demux, filter, object, live>>

ClearKey(d) ==
    LET fails == ~ Releasable(table, token[d])
    IN  /\ object[d] = "Active"
        /\ session[d].state = "Open"
        /\ token[d] # None
        /\ token' = [token EXCEPT ![d] = None]
        /\ slot' = [slot EXCEPT ![d] = 0]
        /\ table' = IF fails THEN table ELSE Release(table, token[d])
        /\ debt' = IF fails THEN [debt EXCEPT ![d] = @ \cup {token[d]}]
                   ELSE debt
        /\ session' = IF fails
                      THEN [session EXCEPT ![d].state = "Quarantined"]
                      ELSE session
        /\ UNCHANGED <<demux, filter, object, nextSlot, pending, live>>

-----------------------------------------------------------------------------
(* Cleanup: of one session when its object closes, of all the sessions     *)
(* bound to a demux, at whatever generation, when the demux goes away.     *)

\* References to t given back by the cleanup of the sessions D.
GivenBack(D, t) == Cardinality(D \cap Holders(t))

\* What d still owes after the cleanup of D: what the table does not count.
Unpaid(D, d) == {t \in Held(d) : GivenBack(D, t) > table[t].refs}

Clean(D) == {d \in D : Unpaid(D, d) = {}}

\* Claims go in any case.  A session that could not release everything
\* keeps what it owes and its binding, and stays CleanupPending.
Cleanup(D) ==
    /\ table' = [t \in Tokens |->
                    IF GivenBack(D, t) \in 1 .. table[t].refs
                    THEN Released(table[t], GivenBack(D, t))
                    ELSE table[t]]
    /\ token' = [d \in Descramblers |->
                    IF d \in D /\ token[d] \notin Unpaid(D, d) THEN None
                    ELSE token[d]]
    /\ slot' = [d \in Descramblers |->
                    IF d \in D /\ token[d] \notin Unpaid(D, d) THEN 0
                    ELSE slot[d]]
    /\ debt' = [d \in Descramblers |->
                    IF d \in D THEN debt[d] \cap Unpaid(D, d) ELSE debt[d]]
    /\ session' = [d \in Descramblers |->
          IF d \in Clean(D)
          THEN [session[d] EXCEPT !.state = "Closed", !.demux = None,
                                  !.generation = 0, !.claims = {}]
          ELSE IF d \in D
          THEN [session[d] EXCEPT !.state = "CleanupPending", !.claims = {}]
          ELSE session[d]]
    /\ UNCHANGED nextSlot

\* The object stops taking calls before its runtime is unregistered.
BeginClose(d) ==
    /\ object[d] = "Active"
    /\ object' = [object EXCEPT ![d] = "Closing"]
    /\ UNCHANGED <<demux, filter, session, keys, pending, live>>

UnregisterDescrambler(d) ==
    /\ object[d] = "Closing"
    /\ Cleanup({d})
    /\ object' = IF Clean({d}) = {d} THEN [object EXCEPT ![d] = "Gone"]
                 ELSE object
    /\ UNCHANGED <<demux, filter, pending, live>>

BoundTo(x) ==
    {d \in Descramblers : session[d].state # "Closed" /\ session[d].demux = x}

\* The filters of a demux are closed before it (ObjectClose).
UnregisterDemux(x) ==
    /\ demux[x].state # "Absent"
    /\ \A f \in Filters :
          filter[f].owner = x => filter[f].state = "Ended"
    /\ Cleanup(BoundTo(x))
    /\ demux' = IF Clean(BoundTo(x)) = BoundTo(x)
                THEN [demux EXCEPT ![x] =
                         [state |-> "Absent", generation |-> 0]]
                ELSE demux
    /\ UNCHANGED <<filter, object, pending, live>>

\* The CAS process revokes the slot, or dies with it.
RevokeToken(t) ==
    /\ live' = live \ {t}
    /\ UNCHANGED <<demux, filter, object, session, keys, pending>>

-----------------------------------------------------------------------------
(* What becomes of a packet pushed into a demux: decided under the lock,   *)
(* from the sessions bound to its current generation.                      *)

Packets ==
    [pid : Pids, control : {"clear", "reserved", "scrambled"},
     error : BOOLEAN, payload : BOOLEAN]

\* Sessions with a usable claim on the PID, keyed or not.
Targets(x, p) ==
    {d \in Descramblers :
        /\ object[d] \in {"Active", "Closing"}
        /\ session[d].state = "Open"
        /\ session[d].demux = x
        /\ session[d].generation = demux[x].generation
        /\ \E c \in session[d].claims :
              /\ c.pid = p
              /\ \/ c.filter = None
                 \/ /\ ValidSource(c.filter, x, demux[x].generation, p)
                    /\ c.generation = filter[c.filter].generation}

\* The session's slot is in the snapshot of readable keys.
Keyed(d) ==
    token[d] \in live /\ slot[d] # 0 /\ table[token[d]].slot = slot[d]

Flow(x, pk) ==
    IF pk.control = "clear" THEN "Clear"
    ELSE IF \A d \in Targets(x, pk.pid) : ~ Keyed(d)
    THEN "RecordPassThroughAndDropAssembly"
    ELSE IF pk.error \/ pk.control = "reserved" \/ ~ pk.payload THEN "Drop"
    ELSE "Descrambled"

Next ==
    \/ \E x \in Demuxes :
          \/ RegisterDemux(x) \/ StreamBoundary(x) \/ QuarantineDemux(x)
          \/ UnregisterDemux(x)
          \/ \E f \in Filters : OpenFilter(f, x)
          \/ \E d \in Descramblers : SetDemuxSource(d, x)
    \/ \E f \in Filters : CloseFilter(f) \/ \E p \in Pids : ConfigureFilter(f, p)
    \/ \E d \in Descramblers :
          \/ OpenDescrambler(d) \/ ClearKey(d)
          \/ BeginClose(d) \/ UnregisterDescrambler(d)
          \/ \E p \in Pids :
                \/ AddDemuxInput(d, p) \/ RemoveDemuxInput(d, p)
                \/ \E f \in Filters :
                      AddSourceFilter(d, p, f) \/ RemoveSourceFilter(d, p, f)
          \/ \E t \in Tokens : ResolveToken(d, t) \/ CommitKey(d, t)
    \/ \E t \in Tokens : RevokeToken(t)

Spec == Init /\ [][Next]_vars

-----------------------------------------------------------------------------
(* Properties. *)

\* Every owner's record keeps its shape: sessions, links and slots of the
\* descrambler registry, references and slots of the token table.
TypeOK ==
    /\ demux \in [Demuxes -> [state : {"Absent", "Open", "Quarantined"},
                              generation : Nat]]
    /\ filter \in [Filters ->
                     [state : {"Unopened", "Open", "Configured", "Ended"},
                      owner : Demuxes \cup {None}, generation : Nat,
                      pid : Pids \cup {None}]]
    /\ object \in [Descramblers -> {"Unopened", "Active", "Closing", "Gone"}]
    /\ session \in [Descramblers -> Sessions]
    /\ token \in [Descramblers -> Tokens \cup {None}]
    /\ slot \in [Descramblers -> Nat]
    /\ debt \in [Descramblers -> SUBSET Tokens]
    /\ table \in [Tokens -> [slot : Nat, refs : Nat]]
    /\ nextSlot \in Nat \ {0}
    /\ pending \subseteq Descramblers \X Tokens
    /\ live \subseteq Tokens

\* The table counts exactly the sessions that hold each token, and has an
\* entry for a token as long as one does: a key is neither freed under a
\* session nor kept when the last one lets go, whatever replacements, closes
\* and losses of the demux came in between.
KeyReferencesExact ==
    \A t \in Tokens :
        /\ table[t].refs = Cardinality(Holders(t))
        /\ table[t].slot = 0 <=> table[t].refs = 0

\* The slot a session cached when it took its key is still the slot of that
\* token in the table, and the slot of no other token.
HeldSlotResolves ==
    \A d \in Descramblers : token[d] # None =>
        \A t \in Tokens : table[t].slot = slot[d] <=> t = token[d]

\* No release ever fails, so no session is left owing one: the quarantine
\* and cleanup-pending paths are not reached from these operations.
NoReleaseOwed ==
    \A d \in Descramblers :
        debt[d] = {} /\ session[d].state \in {"Open", "Closed"}

\* Of the sessions holding a binding to one generation of a demux, one at
\* most claims a PID: a packet has one descrambler to go to.
PidClaimExclusive ==
    \A d, e \in Descramblers :
        /\ d # e
        /\ session[d].demux # None
        /\ HoldsBinding(e, session[d].demux, session[d].generation)
        => \A c \in session[d].claims, b \in session[e].claims : c.pid # b.pid

Stale(d) == session[d].source = "Bound" /\ ~ BoundLive(d)

\* A descrambler that is gone left nothing: no key, no claim, no binding,
\* even when a setKeyToken call was still on its way from the CAS.
GoneHoldsNothing ==
    \A d \in Descramblers : object[d] = "Gone" =>
        /\ Held(d) = {} /\ session[d].claims = {} /\ session[d].demux = None

\* What a session caches is what the key table holds, and what a closed
\* descrambler had is given back.
SessionStateSound == HeldSlotResolves /\ GoneHoldsNothing

\* A packet that is descrambled, or dropped because it cannot be, is decided
\* by one session, that of its demux's current generation, and with a key the
\* table still counts a reference to.
OneDecider ==
    \A x \in Demuxes, pk \in Packets :
        Flow(x, pk) \in {"Descrambled", "Drop"} =>
            \E d \in Descramblers :
                Targets(x, pk.pid) = {d} /\ table[token[d]].refs > 0

\* A packet has one descrambler: the claims exclude each other and the
\* decision follows the one claim.
OneSessionPerPacket == PidClaimExclusive /\ OneDecider
=============================================================================
