---------------------------- MODULE RecordRoute ----------------------------
(***************************************************************************)
(* Recording (tuner_hal2/demux/src/runtime/demux.rs): RECORD filters are   *)
(* attached to record DVRs, every packet some attached filter accepts goes *)
(* to the queue of its DVR, and each filter counts the bytes it put out so *)
(* that its index events can name a position.  Every operation runs under  *)
(* the lock of the service runtime; the client empties the queue whenever  *)
(* it likes.                                                               *)
(***************************************************************************)
EXTENDS Integers, Sequences

CONSTANTS
    RecFilters,     \* RECORD filters
    RecDvrs,        \* record DVRs
    Room,           \* packets a DVR queue holds
    IndexCapacity,  \* pending events a producer gate holds
    MaxOffset,      \* bound on the packets a filter puts out (u64 bytes)
    DelayHint       \* the data-size delay hint of a filter, in packets

VARIABLES
    rf,         \* RECORD filters: runtime, gate, offset and events
    rd,         \* record DVRs: runtime, relation and queue
    put        \* packets committed for a filter since it was opened

recVars == <<rf, rd, put>>

NoFilterYet ==
    [state |-> "Absent", offset |-> 0, pending |-> <<>>,
     queued |-> 0]

NoDvrYet ==
    [state |-> "Absent", attached |-> {}, fill |-> 0]

FilterLive == {"Stopped", "Started"}

DvrLive == {"Stopped", "Started"}

RecTypeOK ==
    /\ \A f \in RecFilters :
           /\ rf[f].state \in FilterLive \cup {"Absent", "Failed", "Closed"}
           /\ rf[f].offset \in 0..MaxOffset
           /\ Len(rf[f].pending) <= IndexCapacity
           /\ rf[f].queued \in 0..MaxOffset
           /\ put[f] \in 0..MaxOffset
    /\ \A d \in RecDvrs :
           /\ rd[d].state \in DvrLive \cup {"Absent", "Failed"}
           /\ rd[d].attached \subseteq RecFilters
           /\ rd[d].fill \in 0..Room

RecInit ==
    /\ rf = [f \in RecFilters |-> NoFilterYet]
    /\ rd = [d \in RecDvrs |-> NoDvrYet]
    /\ put = [f \in RecFilters |-> 0]

---------------------------------------------------------------------------
(* The filters.                                                            *)

\* FilterRuntime::delivery_readiness, for the data-size hint.
Ready(f, r) == r.queued >= DelayHint[f]

Quarantined(r) ==
    [r EXCEPT !.state = "Failed", !.pending = <<>>]

\* openFilter and configure; a new output lifetime starts at offset 0.
OpenRecordFilter(f) ==
    /\ rf[f].state = "Absent"
    /\ rf' = [rf EXCEPT ![f].state = "Stopped"]
    /\ UNCHANGED <<rd, put>>

StartRecordFilter(f) ==
    /\ rf[f].state = "Stopped"
    /\ rf' = [rf EXCEPT ![f].state = "Started"]
    /\ UNCHANGED <<rd, put>>

StopRecordFilter(f) ==
    /\ rf[f].state = "Started"
    /\ rf' = [rf EXCEPT ![f].state = "Stopped"]
    /\ UNCHANGED <<rd, put>>

\* Mutant: the boundary also forgets the offset.
RestartOutput(f) ==
    /\ rf[f].state \in FilterLive
    /\ rf' = [rf EXCEPT ![f].pending = <<>>, ![f].queued = 0, ![f].offset = 0]
    /\ UNCHANGED <<rd, put>>

\* flush, configure, setDataSource and a stream boundary: the gate drains
\* and its events go, the offset stays.
RecordBoundary(f) ==
    /\ rf[f].state \in FilterLive
    /\ rf' = [rf EXCEPT ![f].pending = <<>>, ![f].queued = 0]
    /\ UNCHANGED <<rd, put>>

\* remove_filter leaves the id in the relation of its DVR; no later filter
\* gets that id.
CloseRecordFilter(f) ==
    /\ rf[f].state \notin {"Absent", "Closed"}
    /\ rf' = [rf EXCEPT ![f] = [NoFilterYet EXCEPT !.state = "Closed"]]
    /\ put' = [put EXCEPT ![f] = 0]
    /\ UNCHANGED rd

---------------------------------------------------------------------------
(* The DVRs and the relation.                                              *)

OpenRecordDvr(d) ==
    /\ rd[d].state = "Absent"
    /\ rd' = [rd EXCEPT ![d] = [NoDvrYet EXCEPT !.state = "Stopped"]]
    /\ UNCHANGED <<rf, put>>

StartRecordDvr(d) ==
    /\ rd[d].state = "Stopped"
    /\ rd' = [rd EXCEPT ![d].state = "Started"]
    /\ UNCHANGED <<rf, put>>

StopRecordDvr(d) ==
    /\ rd[d].state = "Started"
    /\ rd' = [rd EXCEPT ![d].state = "Stopped"]
    /\ UNCHANGED <<rf, put>>

CloseRecordDvr(d) ==
    /\ rd[d].state # "Absent"
    /\ rd' = [rd EXCEPT ![d] = NoDvrYet]
    /\ UNCHANGED <<rf, put>>

\* What prepare_dvr_filter_relation asks of an attach or a detach.
RelationAdmitted(d, f, attach) ==
    /\ rd[d].state \in DvrLive
    /\ rf[f].state \in FilterLive
    /\ attach => \A e \in RecDvrs \ {d} : f \notin rd[e].attached

\* commit_prepared_dvr_filter_relation.
Related(d, filters) == rd' = [rd EXCEPT ![d].attached = filters]

AttachFilter(d, f) ==
    /\ RelationAdmitted(d, f, TRUE)
    /\ Related(d, rd[d].attached \cup {f})
    /\ UNCHANGED <<rf, put>>

DetachFilter(d, f) ==
    /\ RelationAdmitted(d, f, FALSE)
    /\ Related(d, rd[d].attached \ {f})
    /\ UNCHANGED <<rf, put>>

\* IDvr.flush() and the client's reads empty the queue.
EmptyDvrQueue(d) ==
    /\ rd[d].fill > 0
    /\ rd' = [rd EXCEPT ![d].fill = 0]
    /\ UNCHANGED <<rf, put>>

---------------------------------------------------------------------------
(* A packet.                                                               *)

\* record_dvr_target_ids_for_filter: at most one DVR has the filter.
Targets(f) == {d \in RecDvrs : rd[d].state = "Started" /\ f \in rd[d].attached}

\* The DVRs that take a packet the filters in hit accept.
Takers(hit) == UNION {Targets(f) : f \in hit}

\* try_write_record_dvr_packet, once for each DVR however many of its
\* filters accept the packet: written, no room, or failed.
DvrAfterPacket(d, broken) ==
    IF d \in broken THEN [rd[d] EXCEPT !.state = "Failed"]
    ELSE IF rd[d].fill = Room THEN rd[d]
    ELSE [rd[d] EXCEPT !.fill = @ + 1]

Written(d, broken) == d \notin broken /\ rd[d].fill < Room

\* commit_record_output: the offset moves with the write, the index event
\* waits in the gate, and a full gate quarantines the filter.
Committed(r, indexed) ==
    LET out == [r EXCEPT !.offset = @ + 1, !.queued = @ + 1]
    IN  IF ~indexed THEN out
        ELSE IF Len(r.pending) = IndexCapacity
        THEN Quarantined([out EXCEPT !.queued = r.queued])
        ELSE [out EXCEPT !.pending = Append(@, r.offset)]

\* commit_generated_filter_events takes the pending batch of a ready filter.
Batched(f, r) ==
    IF r.state = "Started" /\ Ready(f, r) /\ r.pending # <<>>
    THEN [r EXCEPT !.pending = <<>>, !.queued = 0]
    ELSE r

\* mirror_record_dvr_packets, then the events.  An index event goes out at
\* once and also waits in the gate.
RecordPacket(hit, broken, indexed) ==
    LET open == {f \in hit : rf[f].state = "Started"}
        done == {f \in open : \E d \in Targets(f) : Written(d, broken)}
        after(f) == Committed(rf[f], f \in indexed)
    IN  /\ broken \subseteq Takers(open)
        /\ indexed \subseteq done
        /\ \A f \in done : rf[f].offset < MaxOffset
        /\ Takers(open) # {}
        /\ rd' = [d \in RecDvrs |-> IF d \in Takers(open)
                                    THEN DvrAfterPacket(d, broken) ELSE rd[d]]
        /\ rf' = [f \in RecFilters |->
                     Batched(f, IF f \in done THEN after(f) ELSE rf[f])]
        /\ put' = [f \in RecFilters |-> IF f \in done THEN put[f] + 1 ELSE put[f]]

RecNext ==
    \/ \E f \in RecFilters :
           \/ OpenRecordFilter(f)
           \/ StartRecordFilter(f)
           \/ StopRecordFilter(f)
           \/ RecordBoundary(f)
           \/ CloseRecordFilter(f)
    \/ \E d \in RecDvrs :
           \/ OpenRecordDvr(d)
           \/ StartRecordDvr(d)
           \/ StopRecordDvr(d)
           \/ CloseRecordDvr(d)
           \/ EmptyDvrQueue(d)
           \/ \E f \in RecFilters : AttachFilter(d, f) \/ DetachFilter(d, f)
    \/ \E hit \in SUBSET RecFilters, broken \in SUBSET RecDvrs :
           \E indexed \in SUBSET hit : RecordPacket(hit, broken, indexed)

RecSpec == RecInit /\ [][RecNext]_recVars

---------------------------------------------------------------------------
(* Properties.                                                             *)

\* The offset a filter stamps on its index events counts exactly the
\* packets a DVR took for it since it was opened: not the ones the queue
\* had no room for, not twice for two DVRs, and through flush,
\* reconfiguration, attach and detach (record_output_byte_offset).
OffsetExact ==
    \A f \in RecFilters :
        rf[f].state \notin {"Absent", "Closed"} =>
            /\ rf[f].offset = put[f]
            /\ \A i \in DOMAIN rf[f].pending : rf[f].pending[i] < rf[f].offset
            /\ \A d, e \in RecDvrs :
                   f \in rd[d].attached /\ f \in rd[e].attached => d = e

===========================================================================
