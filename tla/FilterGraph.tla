---------------------------- MODULE FilterGraph ----------------------------
(***************************************************************************)
(* The filters of one demux and the source relation between them           *)
(* (tuner_hal2/demux/src/runtime/demux.rs, source_boundary.rs,             *)
(* configure_txn.rs and the producer gate of queue_runtime.rs).            *)
(*                                                                         *)
(* A filter takes its packets from the demux input or, after               *)
(* setDataSource, from a raw filter of the same demux.  Everything a       *)
(* filter holds (bytes in its queue, events waiting for the callback, half *)
(* a section) was produced under one configuration of the filter, one      *)
(* generation of its source and one generation of the input stream.  Every *)
(* operation below runs under the lock of the service runtime, so it is    *)
(* one step; what makes it hard is that it walks over other filters and    *)
(* may fail in the middle.                                                 *)
(***************************************************************************)
EXTENDS Integers, Sequences

CONSTANTS
    Frontends,      \* frontends the demux may be bound to
    Filters,        \* filter ids: naturals, walked in ascending order
    Kind,           \* Filters -> {"Raw", "Section"}
    Pids,           \* the PIDs a filter may be configured for
    MaxGen,         \* bound on generations (u64 in the code)
    EventCapacity   \* pending events a producer gate holds

ASSUME GraphAssumption == Filters \subseteq Nat \ {0} /\ MaxGen \in Nat

VARIABLES
    demux,      \* DemuxRuntimeState: "Open" or "Quarantined"
    bound,      \* the frontend that feeds the demux, or NoFrontend
    stream,     \* stream_boundary_generation
    filter      \* the filter runtimes, their gates, queues and assemblies

vars == <<demux, bound, stream, filter>>

NoFrontend == 0

NoPid == 0

NoFilter == 0

DemuxInput == [filter |-> NoFilter, gen |-> 0]

Sources == [filter : Filters \cup {NoFilter}, gen : 0..MaxGen]

Stamps == [stream : 1..MaxGen, gen : 0..MaxGen, source : Sources]

Live == {"Open", "Configured", "Started", "Stopped"}

FilterRecords ==
    [state   : Live \cup {"Absent", "Failed"},
     gen     : 0..MaxGen,
     pid     : Pids \cup {NoPid},
     source  : Sources,
     gate    : {"Open", "Closed"},
     fmq     : SUBSET Stamps,           \* what the unread bytes came from
     held    : Seq(Stamps),             \* pending events of the gate
     partial : SUBSET Sources]          \* origins of half-assembled units

Absent ==
    [state |-> "Absent", gen |-> 0, pid |-> NoPid, source |-> DemuxInput,
     gate |-> "Closed", fmq |-> {}, held |-> <<>>, partial |-> {}]

TypeOK ==
    /\ demux \in {"Open", "Quarantined"}
    /\ bound \in Frontends \cup {NoFrontend}
    /\ stream \in 1..MaxGen
    /\ DOMAIN filter = Filters
    /\ \A f \in Filters :
           /\ filter[f] \in FilterRecords
           /\ Len(filter[f].held) <= EventCapacity

---------------------------------------------------------------------------
(* The graph.  F stands for a value of the variable filter.                *)

Present(F) == {f \in Filters : F[f].state # "Absent"}

Sinks(F, f) == {g \in Present(F) : F[g].source.filter = f}

SourceOf(F, f) == [filter |-> f, gen |-> F[f].gen]

\* The walk from a candidate source towards the input meets the sink.
Upstream(F, f) ==
    LET fed == {g \in Present(F) : F[g].source # DemuxInput}
        Closed(S) == f \in S /\ \A g \in S \cap fed : F[g].source.filter \in S
    IN  {g \in Filters : \A S \in SUBSET Filters : Closed(S) => g \in S}

WouldCycle(F, sink, source) == sink \in Upstream(F, source)

\* The origin a filter accepts packets from.
Origin(F, f) ==
    IF F[f].source = DemuxInput THEN [filter |-> NoFilter, gen |-> stream]
    ELSE F[f].source

Stamp(F, f) ==
    [stream |-> stream, gen |-> F[f].gen, source |-> F[f].source]

---------------------------------------------------------------------------
(* Boundaries.  bad is the set of filters whose queue cannot be cleared.   *)

CanDrain(r) == r.gate = "Open"

Emptied(r) == [r EXCEPT !.fmq = {}, !.held = <<>>, !.partial = {}]

\* reset_connected_downstream_source_boundary fails before it changes
\* anything when the gate is not open or the queue cannot be cleared.
Refuses(F, g, bad) == ~CanDrain(F[g]) \/ g \in bad

\* Mutant: the relation changes and what the sink holds stays.
ReboundFull(r, source) == [r EXCEPT !.source = source]

Rebound(r, source) == [Emptied(r) EXCEPT !.source = source]

\* Half units that came from generation gen of filter f are dropped.
ResetOrigin(F, f, gen) ==
    LET gone == [filter |-> f, gen |-> gen]
    IN  [g \in Filters |-> [F[g] EXCEPT !.partial = @ \ {gone}]]

\* quarantine_filter_runtime: the filter fails, its sinks are re-stamped
\* with its present generation, and a sink that refuses is quarantined the
\* same way.
Isolated(F, f, bad) ==
    LET refusing == {g \in Present(F) : Refuses(F, g, bad)}
        Closed(S) == \A g \in refusing : F[g].source.filter \in S => g \in S
    IN  {f} \cup {g \in refusing : \A S \in SUBSET refusing :
                      Closed({f} \cup S) => g \in S}

Fail(r) == [r EXCEPT !.state = "Failed", !.gate = "Closed", !.held = <<>>]

QuarantineFilter(F, f, bad) ==
    LET cut == Isolated(F, f, bad)
        below == {g \in Present(F) : F[g].source.filter \in cut}
        origin(g) == SourceOf(F, F[g].source.filter)
        reset(g) == IF g \in below THEN [F[g] EXCEPT !.partial = @ \ {origin(g)}]
                    ELSE F[g]
    IN  [g \in Filters |-> IF g \in cut THEN Fail(reset(g))
                           ELSE IF g \in below THEN Rebound(F[g], origin(g))
                           ELSE F[g]]

\* quarantine: every filter fails and every gate closes.
QuarantineAll(F) ==
    [g \in Filters |-> IF g \in Present(F) THEN Fail(F[g]) ELSE F[g]]

Refusers(F, f, bad) == {g \in Sinks(F, f) : Refuses(F, g, bad)}

\* refresh_ and disconnect_source_filter_downstreams: the sinks in id order,
\* up to the first that refuses, which is quarantined.
ReboundSinks(F, f, source, bad) ==
    LET stop == Refusers(F, f, bad)
        done == {g \in Sinks(F, f) : \A h \in stop : g < h}
        first == CHOOSE g \in stop : \A h \in stop : g <= h
        G == [g \in Filters |-> IF g \in done THEN Rebound(F[g], source) ELSE F[g]]
    IN  IF stop = {} THEN G ELSE QuarantineFilter(G, first, bad)

\* The filters an operation on f may have to clear.
Cleared(F, f) == {f} \cup {g \in Present(F) : F[g].source # DemuxInput}

---------------------------------------------------------------------------
(* Operations.                                                             *)

\* A demux without filters, bound or not; 1 stands for its generation then.
Init ==
    /\ demux = "Open"
    /\ bound \in Frontends \cup {NoFrontend}
    /\ stream = 1
    /\ filter = [f \in Filters |-> Absent]

\* openFilter registers the runtime whatever the state of the demux is.
RegisterFilter(f) ==
    /\ filter[f].state = "Absent"
    /\ filter' = [filter EXCEPT ![f] =
           [Absent EXCEPT !.state = "Open", !.gate = "Open", !.gen = stream]]
    /\ UNCHANGED <<demux, bound, stream>>

\* remove_filter, then transact_unregister_filter_runtime on its failure.
RemoveFilter(f, bad) ==
    LET G == ReboundSinks(filter, f, DemuxInput, bad)
    IN  /\ filter[f].state # "Absent"
        /\ bad \subseteq Cleared(filter, f)
        /\ IF Refusers(filter, f, bad) = {}
           THEN /\ filter' = [ResetOrigin(G, f, filter[f].gen)
                                 EXCEPT ![f] = Absent]
                /\ demux' = demux
           ELSE /\ filter' = QuarantineAll(G)
                /\ demux' = "Quarantined"
        /\ UNCHANGED <<bound, stream>>

\* What FilterConfigureTxn checks before it touches the runtime.
PidAgrees(p, q) == p = NoPid \/ q = NoPid \/ p = q

ConfigureAdmitted(F, f, p) ==
    /\ F[f].state \in {"Open", "Configured", "Stopped"}
    /\ F[f].source # DemuxInput =>
           LET s == F[f].source.filter
           IN  /\ F[s].state \in Live
               /\ F[s].gen = F[f].source.gen
               /\ PidAgrees(F[s].pid, p)
    /\ \A g \in Sinks(F, f) : PidAgrees(F[g].pid, p)

Reconfigured(r, p) ==
    [Emptied(r) EXCEPT !.state = "Configured", !.pid = p, !.gen = r.gen + 1]

\* configure_filter_runtime_with_full_config.
FullyConfigured(F, f, p, bad) ==
    LET next == [filter |-> f, gen |-> F[f].gen + 1]
        G == [F EXCEPT ![f] = Reconfigured(F[f], p)]
    IN  IF Refuses(F, f, bad)
        THEN QuarantineFilter(F, f, bad)
        ELSE ReboundSinks(ResetOrigin(G, f, F[f].gen), f, next, bad)

ConfigureFails(F, f, bad) ==
    Refuses(F, f, bad) \/ Refusers(F, f, bad) # {}

\* FilterConfigureTxn: an unchanged configuration is accepted and changes
\* nothing here; any failure of the application quarantines the filter.
ConfigureFilter(f, p, bad) ==
    LET G == FullyConfigured(filter, f, p, bad)
    IN  /\ ConfigureAdmitted(filter, f, p)
        /\ filter[f].pid # p
        /\ filter[f].gen < MaxGen
        /\ bad \subseteq Cleared(filter, f)
        /\ filter' = IF ConfigureFails(filter, f, bad)
                     THEN QuarantineFilter(G, f, bad) ELSE G
        /\ UNCHANGED <<demux, bound, stream>>

StartFilter(f) ==
    /\ filter[f].state \in {"Configured", "Stopped"}
    /\ filter' = [filter EXCEPT ![f].state = "Started"]
    /\ UNCHANGED <<demux, bound, stream>>

\* stop keeps the queue, the events and the half-assembled units.
StopFilter(f) ==
    /\ filter[f].state = "Started"
    /\ filter' = [filter EXCEPT ![f].state = "Stopped"]
    /\ UNCHANGED <<demux, bound, stream>>

FlushAccepted(F, f) == F[f].state \in {"Configured", "Started", "Stopped"}

\* A flushed source gets a new generation, so that its sinks forget what
\* came from the old one.
Renewed(F, f) == [ResetOrigin(F, f, F[f].gen) EXCEPT ![f].gen = @ + 1]

\* flush: QueueCleanupUseCase::execute_filter.
FlushFilter(f, bad) ==
    LET F == filter
        hasSinks == Sinks(F, f) # {}
        flushed == [F EXCEPT ![f] = Emptied(@)]
        renewed == Renewed(flushed, f)
        G == ReboundSinks(renewed, f, SourceOf(renewed, f), bad)
    IN  /\ FlushAccepted(F, f)
        /\ hasSinks => F[f].gen < MaxGen
        /\ bad \subseteq Cleared(filter, f)
        /\ filter' =
               IF ~CanDrain(F[f])
               THEN QuarantineFilter(F, f, bad)
               ELSE IF f \in bad
               THEN QuarantineFilter([F EXCEPT ![f].partial = {}], f, bad)
               ELSE IF ~hasSinks THEN flushed
               ELSE IF Refusers(renewed, f, bad) # {}
               THEN QuarantineFilter(G, f, bad)
               ELSE G
        /\ UNCHANGED <<demux, bound, stream>>

\* Mutant: only the filter itself is ruled out as its source.
SourceNotItself(F, sink, source) ==
    /\ source # sink
    /\ F[source].state \in Live
    /\ Kind[source] = "Raw"
    /\ PidAgrees(F[sink].pid, F[source].pid)

\* What SourceBoundaryTxn checks of a candidate source.
SourceAdmitted(F, sink, source) ==
    /\ source # sink
    /\ ~WouldCycle(F, sink, source)
    /\ F[source].state \in Live
    /\ Kind[source] = "Raw"
    /\ PidAgrees(F[sink].pid, F[source].pid)

\* The sink's queue, events and assembly are emptied and the relation is
\* committed; a sink that cannot be emptied is quarantined, once by
\* clear_existing_filter_queue and once by the transaction.
SourceChanged(F, sink, source, bad) ==
    IF ~CanDrain(F[sink]) \/ sink \in bad
    THEN QuarantineFilter(QuarantineFilter(F, sink, bad), sink, bad)
    ELSE [F EXCEPT ![sink] = Rebound(@, source)]

SinkAdmitted(F, sink) == F[sink].state \in {"Open", "Configured", "Stopped"}

SetDataSource(sink, source, bad) ==
    /\ SinkAdmitted(filter, sink)
    /\ bad \subseteq Cleared(filter, sink)
    /\ SourceAdmitted(filter, sink, source)
    /\ filter' = SourceChanged(filter, sink, SourceOf(filter, source), bad)
    /\ UNCHANGED <<demux, bound, stream>>

\* setDataSource(null).
DisconnectDataSource(sink, bad) ==
    /\ SinkAdmitted(filter, sink)
    /\ bad \subseteq Cleared(filter, sink)
    /\ filter' = SourceChanged(filter, sink, DemuxInput, bad)
    /\ UNCHANGED <<demux, bound, stream>>

\* prepare_ and commit_stream_boundary, for a tune, a bind and an unbind.
\* One gate that is not open refuses the boundary of the whole demux.
BoundaryPrepared(F) ==
    /\ demux = "Open"
    /\ stream < MaxGen
    /\ \A f \in Present(F) : CanDrain(F[f])

StreamBoundary(bad) ==
    LET kept(f) == \E b \in bad : b <= f
        G == [f \in Filters |-> IF kept(f)
                 THEN [Emptied(filter[f]) EXCEPT !.fmq = filter[f].fmq]
                 ELSE Emptied(filter[f])]
    IN  /\ BoundaryPrepared(filter)
        /\ bad \subseteq Present(filter)
        /\ stream' = stream + 1
        /\ IF bad = {}
           THEN filter' = G /\ demux' = demux
           ELSE filter' = QuarantineAll(G) /\ demux' = "Quarantined"

\* DemuxFrontendSourceTxn: setFrontendDataSource, and the end of the bound
\* frontend.  The relation changes only after the boundary is committed.
SetFrontendSource(next, bad) ==
    /\ bound # next
    /\ StreamBoundary(bad)
    /\ bound' = IF bad = {} THEN next ELSE bound

\* reset_bound_demuxes_for_frontend_tune_start.
TuneStart(bad) ==
    /\ bound # NoFrontend
    /\ StreamBoundary(bad)
    /\ UNCHANGED bound

---------------------------------------------------------------------------
(* The data path.                                                          *)

Accepts(F, f, p) == F[f].state = "Started" /\ F[f].pid = p

\* A packet reaches the started filters on the demux input, and passes on
\* from a raw filter that is still started after its own delivery to the
\* sinks that name its present generation.
Reached(F, p, broken) ==
    LET open == {g \in Filters : Accepts(F, g, p)}
        feeds(s, g) == Kind[s] = "Raw" /\ F[g].source = SourceOf(F, s)
        Closed(S) ==
            \A g \in open \ S : /\ F[g].source # DemuxInput
                                /\ \A s \in S \ broken : ~feeds(s, g)
    IN  {g \in open : \A S \in SUBSET open : Closed(S) => g \in S}

\* Half a unit survives a packet unless the continuity tracker reported a
\* gap or the packet starts or ends a unit.
Assembled(F, f, unit, gap) ==
    LET kept == IF gap THEN F[f].partial \ {Origin(F, f)} ELSE F[f].partial
    IN  [complete |-> unit = "whole" \/ (unit = "tail" /\ Origin(F, f) \in kept),
         partial  |-> IF unit = "head" THEN kept \cup {Origin(F, f)}
                      ELSE kept \ {Origin(F, f)}]

\* enqueue_filter_queue_payload_with_permit: no room keeps the payload out
\* of the queue.
QueueOutcome(f, over, broken) ==
    CASE f \in broken -> "failed" [] f \in over -> "overflow" [] OTHER -> "written"

\* enqueue_event, then the batch of a filter that need not hold its events.
\* A full list quarantines the filter.
EventHeld(r, stamp, hold) ==
    IF Len(r.held) = EventCapacity THEN Fail(r)
    ELSE [r EXCEPT !.held = IF hold THEN Append(@, stamp) ELSE <<>>]

\* commit_generated_filter_events for one filter.  A failed write marks the
\* filter failed and leaves its gate open.
Delivered(F, f, unit, gap, over, broken, hold) ==
    LET a == Assembled(F, f, unit, gap)
        outcome == QueueOutcome(f, over, broken)
        r == IF Kind[f] = "Raw" THEN F[f] ELSE [F[f] EXCEPT !.partial = a.partial]
        filled == [r EXCEPT !.fmq = @ \cup {Stamp(F, f)}]
    IN  CASE Kind[f] # "Raw" /\ ~a.complete -> r
          [] outcome = "overflow"            -> r
          [] outcome = "failed"              -> [r EXCEPT !.state = "Failed"]
          [] Kind[f] = "Raw"                 -> filled
          [] OTHER -> EventHeld(filled, Stamp(F, f), f \in hold)

\* One packet: push_validated_ts_packet_from_origin_inner and its recursion.
Push(p, broken) ==
    LET R == Reached(filter, p, broken)
        sections == {f \in R : Kind[f] # "Raw"}
    IN  /\ bound # NoFrontend
        /\ R # {}
        /\ broken \subseteq R
        /\ \E unit \in IF sections = {} THEN {"whole"} ELSE {"head", "tail", "whole"},
              gap \in {FALSE} \cup {\E f \in sections : filter[f].partial # {}},
              over \in SUBSET {f \in R \ broken : filter[f].fmq # {}},
              hold \in SUBSET sections :
               filter' = [f \in Filters |->
                   IF f \in R THEN Delivered(filter, f, unit, gap, over, broken, hold)
                   ELSE filter[f]]
        /\ UNCHANGED <<demux, bound, stream>>

\* poll_filter_delay_delivery takes the held events of an open gate.
TakeHeld(f) ==
    /\ CanDrain(filter[f])
    /\ filter[f].held # <<>>
    /\ filter' = [filter EXCEPT ![f].held = <<>>]
    /\ UNCHANGED <<demux, bound, stream>>

\* No failure, or one filter whose queue cannot be cleared or written.
FaultSets == {{}} \cup {{f} : f \in Filters}

Next ==
    \/ \E f \in Filters :
           \/ RegisterFilter(f)
           \/ StartFilter(f)
           \/ StopFilter(f)
           \/ TakeHeld(f)
    \/ \E f \in Filters, bad \in FaultSets :
           \/ RemoveFilter(f, bad)
           \/ FlushFilter(f, bad)
           \/ \E p \in Pids : ConfigureFilter(f, p, bad)
           \/ \E s \in Filters : SetDataSource(f, s, bad)
           \/ DisconnectDataSource(f, bad)
    \/ \E bad \in FaultSets :
           \/ \E next \in Frontends \cup {NoFrontend} : SetFrontendSource(next, bad)
           \/ TuneStart(bad)
    \/ \E p \in Pids, broken \in FaultSets : Push(p, broken)

Spec == Init /\ [][Next]_vars

---------------------------------------------------------------------------
(* Properties.                                                             *)

\* No filter is, through any number of relations, its own source, so the
\* propagation of a packet (push_validated_ts_packet_from_origin_inner) and
\* the recursion of quarantine_filter_runtime end; and a filter that still
\* works names a source that exists, is raw, is at the generation the
\* relation recorded and agrees on the PID: no reconfiguration, flush, close
\* or quarantine of a source leaves a working sink behind on a generation
\* that no longer delivers.
SourceGraphSound ==
    /\ \A S \in SUBSET Present(filter) :
           S # {} => \E f \in S : filter[f].source.filter \notin S
    /\ \A f \in Filters :
           filter[f].state \in Live /\ filter[f].source # DemuxInput =>
               LET s == filter[f].source.filter
               IN  /\ filter[s].state # "Absent"
                   /\ Kind[s] = "Raw"
                   /\ filter[f].source = SourceOf(filter, s)
                   /\ PidAgrees(filter[f].pid, filter[s].pid)

\* What a working filter holds for its client was produced under the
\* present configuration, source and stream: after a tune, a flush, a
\* reconfiguration or a change of source nothing from before is delivered,
\* and no unit is assembled from two origins.
NoStaleData ==
    \A f \in Filters :
        filter[f].state \in Live =>
            /\ filter[f].fmq \subseteq {Stamp(filter, f)}
            /\ \A i \in DOMAIN filter[f].held : filter[f].held[i] = Stamp(filter, f)
            /\ filter[f].partial \subseteq {Origin(filter, f)}
============================================================================
