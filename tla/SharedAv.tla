----------------------------- MODULE SharedAv -----------------------------
(***************************************************************************)
(* The media memory of the AV filters (tuner_hal2/demux/src/av): slots of  *)
(* an exported buffer, buffers of single events, data ids, and the byte    *)
(* budget all filters share.  The client gives a payload back with         *)
(* releaseAvHandle, in any order, more than once, and also after a flush   *)
(* or after the filter is closed.  Every operation runs under the lock of  *)
(* the service runtime.                                                    *)
(***************************************************************************)
EXTENDS Integers, FiniteSets, FiniteSetsExt, Sequences

CONSTANTS
    AvFilters,          \* the AV filters
    Lengths,            \* payload lengths
    MaxEventBytes,      \* max_event_bytes, also the size of a slot
    MaxOutstanding,     \* max_outstanding_events, also the number of slots
    PerFilterBytes,     \* per_filter_live_bytes
    BudgetBytes,        \* limit of the runtime budget
    PendingCapacity,    \* pending events a producer gate holds
    MaxId               \* bound on data ids (i64 in the code)

ASSUME AvAssumption ==
    /\ IsFiniteSet(AvFilters)
    /\ MaxEventBytes \in Nat /\ MaxOutstanding \in Nat /\ PerFilterBytes \in Nat
    /\ BudgetBytes \in Nat /\ PendingCapacity \in Nat /\ MaxId \in Nat

VARIABLES
    av,         \* per filter: runtime, handle state, allocations, events
    used,       \* AvRuntimeBudget.used_bytes
    corrupt,    \* AvRuntimeBudget.corrupt
    issued,     \* AvDataIdAllocator.issued_high_watermark
    known       \* per filter: data ids the client received and still uses

avVars == <<av, used, corrupt, issued, known>>

Slots == 1..MaxOutstanding

Ids == 1..MaxId

FreeSlot == [id |-> 0, len |-> 0]

\* phase: "Started" accepts payloads, "Failed" does not, "Retained" is a
\* removed filter whose backing waits for releases, "Released" a removed
\* filter without one, "Dropped" one without any client reference left.
Fresh ==
    [phase |-> "Absent", gate |-> "Closed", handle |-> "NotExported",
     exported |-> FALSE, slot |-> [s \in Slots |-> FreeSlot],
     local |-> [i \in Ids |-> 0], lease |-> {}, pending |-> <<>>]

\* The data ids an allocation of backing b stands for.
SharedIds(b) == {b.slot[s].id : s \in Slots} \ {0}

LocalIds(b) == {i \in Ids : b.local[i] # 0}

LiveIds(b) == SharedIds(b) \cup LocalIds(b)

LiveBytes(b) == SumFunction([s \in Slots |-> b.slot[s].len]) + SumFunction(b.local)

HasBacking(b) == b.phase \in {"Started", "Failed", "Retained"}

AvTypeOK ==
    /\ DOMAIN av = AvFilters
    /\ \A f \in AvFilters :
           /\ av[f].phase \in {"Absent", "Started", "Failed", "Retained",
                               "Released", "Dropped"}
           /\ av[f].gate \in {"Open", "Closed"}
           /\ av[f].handle \in {"NotExported", "ExportedActive", "ClientReleased"}
           /\ av[f].exported \in BOOLEAN
           /\ av[f].lease \subseteq Ids
           /\ Len(av[f].pending) <= PendingCapacity
           /\ known[f] \subseteq Ids
    /\ used \in 0..BudgetBytes
    /\ corrupt \in BOOLEAN
    /\ issued \in 0..MaxId

AvInit ==
    /\ av = [f \in AvFilters |-> Fresh]
    /\ used = 0
    /\ corrupt = FALSE
    /\ issued = 0
    /\ known = [f \in AvFilters |-> {}]

---------------------------------------------------------------------------
(* The budget.                                                             *)

CanClaim(n) == ~corrupt /\ used + n <= BudgetBytes

\* A release of more than is claimed changes nothing and is remembered.
ReleaseBudget(n) ==
    /\ used' = IF n <= used THEN used - n ELSE used
    /\ corrupt' = (corrupt \/ n > used)

\* Allocation.

WithinLimits(b, n) ==
    /\ n \in 1..MaxEventBytes
    /\ Cardinality(LiveIds(b)) < MaxOutstanding
    /\ LiveBytes(b) + n <= PerFilterBytes

\* shared_slot_candidate: the slots a payload of n bytes may go to; the
\* first of them is taken.  None sends the payload to a buffer of its own.
SharedSlotCandidate(b, n) ==
    IF b.exported /\ b.handle # "ClientReleased" /\ WithinLimits(b, n)
    THEN {s \in Slots : b.slot[s] = FreeSlot}
    ELSE {}

InSharedSlot(b, n, id) ==
    [b EXCEPT !.slot[Min(SharedSlotCandidate(b, n))] = [id |-> id, len |-> n]]

InEventLocal(b, n, id) ==
    [b EXCEPT !.local[id] = n, !.lease = @ \cup {id}]

\* openFilter: a filter with an empty backing and an open gate.
RegisterAv(f) ==
    /\ av[f].phase = "Absent"
    /\ av' = [av EXCEPT ![f] = [Fresh EXCEPT !.phase = "Started", !.gate = "Open"]]
    /\ UNCHANGED <<used, corrupt, issued, known>>

\* getAvSharedHandle, also again after the client released the handle.
ExportHandle(f) ==
    /\ av[f].phase = "Started"
    /\ av' = [av EXCEPT ![f].handle = "ExportedActive", ![f].exported = TRUE]
    /\ UNCHANGED <<used, corrupt, issued, known>>

\* A full gate quarantines the filter: the gate closes and the events that
\* wait are dropped, the allocations they name stay with the backing.
Enqueued(b, id) ==
    IF Len(b.pending) = PendingCapacity
    THEN [b EXCEPT !.phase = "Failed", !.gate = "Closed", !.pending = <<>>]
    ELSE [b EXCEPT !.pending = Append(@, id)]

\* allocate_payload_bytes and the event for it.  The fault "map" stands for
\* a buffer or a mapping that cannot be had: the claim is dropped and the
\* payload is lost.  The fault "unmap" also fails the filter.
AllocatePayload(f, n, fault) ==
    LET b == av[f]
        id == issued + 1
        shared == SharedSlotCandidate(b, n) # {}
        placed == IF shared THEN InSharedSlot(b, n, id) ELSE InEventLocal(b, n, id)
    IN  /\ b.phase = "Started"
        /\ issued < MaxId
        /\ shared \/ WithinLimits(b, n)
        /\ CanClaim(n)
        /\ \/ /\ fault = "none"
              /\ av' = [av EXCEPT ![f] = Enqueued(placed, id)]
              /\ used' = used + n
              /\ issued' = id
           \/ /\ fault = "unmap"
              /\ av' = [av EXCEPT ![f].phase = "Failed"]
              /\ UNCHANGED <<used, issued>>
        /\ UNCHANGED <<corrupt, known>>

---------------------------------------------------------------------------
(* Events.                                                                 *)

\* take_pending_events: the client learns the data ids.  One that it gave
\* back before is not one it uses.
DeliverPending(f) ==
    /\ av[f].phase = "Started"
    /\ av[f].gate = "Open"
    /\ av[f].pending # <<>>
    /\ known' = [known EXCEPT ![f] = @ \cup (Range(av[f].pending) \cap LiveIds(av[f]))]
    /\ av' = [av EXCEPT ![f].pending = <<>>]
    /\ UNCHANGED <<used, corrupt, issued>>

Freed(b, ids) ==
    [b EXCEPT !.slot = [s \in Slots |-> IF b.slot[s].id \in ids THEN FreeSlot
                                        ELSE b.slot[s]],
              !.local = [i \in Ids |-> IF i \in ids THEN 0 ELSE b.local[i]],
              !.lease = @ \ ids]

BytesOf(b, ids) == LiveBytes(b) - LiveBytes(Freed(b, ids))

\* Mutant: a flush empties the backing, delivered payloads included.
FlushAll(f) ==
    LET b == av[f]
    IN  /\ b.phase = "Started"
        /\ ReleaseBudget(LiveBytes(b))
        /\ av' = [av EXCEPT ![f] = [Freed(b, LiveIds(b)) EXCEPT !.pending = <<>>]]
        /\ UNCHANGED <<issued, known>>

\* flush, configure and setDataSource discard the events that wait and free
\* what they name; what the client received stays until it is released.
\* An id that names nothing any more quarantines the filter.
DiscardPending(f) ==
    LET b == av[f]
        gone == {i \in DOMAIN b.pending : b.pending[i] \notin LiveIds(b)}
        ids == {b.pending[i] : i \in {j \in DOMAIN b.pending : \A k \in gone : j < k}}
        c == [Freed(b, ids) EXCEPT !.pending = <<>>]
    IN  /\ b.phase = "Started"
        /\ b.pending # <<>>
        /\ ReleaseBudget(BytesOf(b, ids))
        /\ av' = [av EXCEPT ![f] = IF gone = {} THEN c
               ELSE [c EXCEPT !.phase = "Failed", !.gate = "Closed"]]
        /\ UNCHANGED <<issued, known>>

---------------------------------------------------------------------------
(* Releases.  A descriptor is empty, the shared handle of the filter, the  *)
(* buffer of one event, or some other file.                                *)

Descriptors ==
    {[kind |-> "Empty", id |-> 0], [kind |-> "Shared", id |-> 0],
     [kind |-> "Unknown", id |-> 0]}
        \cup [kind : {"Local"}, id : Ids]

\* A file is recognised while an allocation with its identity exists.
HandleKind(b, d) ==
    CASE d.kind = "Shared" /\ ~b.exported      -> "Unknown"
      [] d.kind = "Local" /\ b.local[d.id] = 0 -> "Unknown"
      [] OTHER                                 -> d.kind

\* AvHandleReleaseTxn::classify: what a release does, or "Refused".
Classify(b, d, id) ==
    LET kind == HandleKind(b, d)
    IN  IF id < 0 THEN "Refused"
        ELSE CASE kind = "Empty" /\ id = 0 -> "Accepted"
               [] kind = "Empty" /\ id \in LiveIds(b) -> "SlotReleased"
               [] kind = "Shared" /\ id = 0 /\ b.handle = "ExportedActive" -> "HandleReleased"
               [] kind = "Shared" /\ id = 0 /\ b.handle = "ClientReleased" -> "Accepted"
               [] kind = "Local" /\ id = 0 -> "LeaseFinalized"
               [] kind = "Local" /\ id = d.id -> "SlotReleased"
               [] OTHER -> "Refused"

\* apply_release.
Applied(b, d, id, outcome) ==
    CASE outcome = "HandleReleased" -> [b EXCEPT !.handle = "ClientReleased"]
      [] outcome = "LeaseFinalized" -> [b EXCEPT !.lease = @ \ {d.id}]
      [] outcome = "SlotReleased" -> Freed(b, {id})
      [] OTHER -> b

ReleaseIsComplete(b) == b.handle # "ExportedActive" /\ LiveIds(b) = {}

\* release_filter_av_handle_for_any_lifecycle: of an open filter, and of a
\* closed one whose backing is kept until the last release.
ReleaseAvHandle(f, d, id) ==
    LET b == av[f]
        outcome == Classify(b, d, id)
        c == Applied(b, d, id, outcome)
    IN  /\ HasBacking(b)
        /\ outcome \notin {"Refused", "Accepted"}
        /\ IF outcome = "SlotReleased" THEN ReleaseBudget(BytesOf(b, {id}))
           ELSE UNCHANGED <<used, corrupt>>
        /\ av' = [av EXCEPT ![f] =
               IF b.phase = "Retained" /\ ReleaseIsComplete(c)
               THEN [Fresh EXCEPT !.phase = "Released"] ELSE c]
        /\ known' = [known EXCEPT ![f] =
               IF outcome = "SlotReleased" THEN @ \ {id} ELSE @]
        /\ UNCHANGED issued

\* transact_unregister_filter_runtime: the backing outlives the filter as
\* long as the client holds something of it.
CloseAv(f) ==
    LET b == av[f]
    IN  /\ b.phase \in {"Started", "Failed"}
        /\ av' = [av EXCEPT ![f] =
               IF ReleaseIsComplete(b) THEN [Fresh EXCEPT !.phase = "Released"]
               ELSE [b EXCEPT !.phase = "Retained", !.gate = "Closed",
                              !.pending = <<>>]]
        /\ UNCHANGED <<used, corrupt, issued, known>>

\* Mutant: the backing goes without giving its bytes back.
DropAvSilently(f) ==
    /\ av[f].phase \in {"Retained", "Released"}
    /\ av' = [av EXCEPT ![f] = [Fresh EXCEPT !.phase = "Dropped"]]
    /\ known' = [known EXCEPT ![f] = {}]
    /\ UNCHANGED <<used, corrupt, issued>>

\* finalize_filter_av_release_state_after_last_reference: dropping the
\* backing gives every byte it still holds back to the budget.
DropAv(f) ==
    /\ av[f].phase \in {"Retained", "Released"}
    /\ ReleaseBudget(LiveBytes(av[f]))
    /\ av' = [av EXCEPT ![f] = [Fresh EXCEPT !.phase = "Dropped"]]
    /\ known' = [known EXCEPT ![f] = {}]
    /\ UNCHANGED issued

AvNext ==
    \E f \in AvFilters :
        \/ RegisterAv(f)
        \/ ExportHandle(f)
        \/ \E n \in Lengths, fault \in {"none", "unmap"} : AllocatePayload(f, n, fault)
        \/ DeliverPending(f)
        \/ DiscardPending(f)
        \/ \E d \in Descriptors, id \in {-1, 0} \cup Ids : ReleaseAvHandle(f, d, id)
        \/ CloseAv(f)
        \/ DropAv(f)

AvSpec == AvInit /\ [][AvNext]_avVars

---------------------------------------------------------------------------
(* Properties.                                                             *)

\* The budget counts exactly the bytes of the allocations that exist, over
\* all filters, open or retained, so that a filter closed or dropped with
\* payloads outstanding neither leaks budget nor gives it back twice
\* (AvRuntimeBudget, Drop for AvSharedBacking); and no data id names two
\* allocations.
BudgetExact ==
    /\ ~corrupt
    /\ used = SumFunction([f \in AvFilters |-> LiveBytes(av[f])])
    /\ \A f, g \in AvFilters : f # g => LiveIds(av[f]) \cap LiveIds(av[g]) = {}
    /\ \A f \in AvFilters :
           /\ SharedIds(av[f]) \cap LocalIds(av[f]) = {}
           /\ LiveBytes(av[f]) <= PerFilterBytes

\* What the client received and did not release stays allocated, through
\* flush, reconfiguration, failure and close, until the client drops its
\* last reference to the filter (flush_slots_keep_exported_handle).
DeliveredStaysMapped ==
    \A f \in AvFilters : known[f] \subseteq LiveIds(av[f])
===========================================================================
