--------------------------- MODULE FilterDelivery ---------------------------
(***************************************************************************)
(* How the events of a demux's filters reach their clients.  Packets are   *)
(* pushed into the demux by the frontend's live pump and by a playback     *)
(* DVR; a third thread, the delay worker, releases events that a           *)
(* FilterDelayHint holds back.  Each of them takes ready events under the  *)
(* runtime lock, and then, without the lock, calls the client for every    *)
(* event.  A filter that is configured again after it has run owes its     *)
(* client a startId, sent before the next event; the id is taken back from *)
(* the filter only after the call, in a second critical section.           *)
(*                                                                         *)
(* The filters are section or PES filters (media filters refuse a delay    *)
(* hint, and the index events of a record filter bypass the gate).  The    *)
(* object table is the flag "live"; what close() does beside it is in      *)
(* ObjectClose.  The callback_unhealthy flag of a filter is left out: no   *)
(* operation of a filter reads it.  The callback lookup always succeeds:   *)
(* a client's close() leaves the callback in the service's store.          *)
(***************************************************************************)
EXTENDS Naturals, Sequences, SequencesExt

CONSTANTS
    Filters,      \* the filters of the demux
    Feeders,      \* threads that push packets: "pump" and possibly "playback"
    Capacity,     \* pending events a filter's gate holds
    DataSize,     \* events that satisfy a data-size hint
    LastStartId,  \* the largest startId an i32 can count past
    MaxHints,     \* setDelayHint calls in a behaviour
    MaxFaults     \* binder calls to the client that fail

VARIABLES
    filter,       \* FilterRuntime and its gate's pending events, per filter
    live,         \* filters with a live entry in the object table
    told,         \* startIds each client has received
    thread,       \* the dispatchers
    wake,         \* WorkerWake.pending of the delay worker
    deadline,     \* the delay worker sleeps with a timeout
    notify,       \* a client call has returned and its wake-up is still owed
    pump,         \* the live pump thread
    frontend,     \* the frontend the pump reads from
    hints, faults

vars == <<filter, live, told, thread, wake, deadline, notify, pump, frontend,
          hints, faults>>

Dispatchers == Feeders \cup {"delay"}
StartIds == 1 .. LastStartId
Hints == {"time", "size"}

Snapshots == [f : Filters, start : BOOLEAN, id : StartIds \cup {0}]
Runtimes == [state : {"Open", "Configured", "Started", "Stopped", "Failed",
                      "Closed"},
             once : BOOLEAN, next : 1 .. LastStartId + 1,
             pending : StartIds \cup {0}, hint : SUBSET Hints,
             armed : {"none", "waiting", "due"}, queue : 0 .. Capacity]

NoWork == [pc |-> "idle", batch |-> <<>>, blocked |-> {}, failed |-> FALSE]

Init ==
    /\ filter = [f \in Filters |->
                    [state |-> "Open", once |-> FALSE, next |-> 1, pending |-> 0,
                     hint |-> {}, armed |-> "none", queue |-> 0]]
    /\ live = Filters
    /\ told = [f \in Filters |-> {}]
    /\ thread = [t \in Dispatchers |-> NoWork]
    /\ wake = FALSE
    /\ deadline = FALSE
    /\ notify = FALSE
    /\ pump = "running"
    /\ frontend = "Tuning"
    /\ hints = 0
    /\ faults = 0

-----------------------------------------------------------------------------
(* FilterRuntime. *)

Ready(r) ==
    /\ r.state = "Started"
    /\ \/ r.hint = {}
       \/ "time" \in r.hint /\ r.armed # "waiting"
       \/ "size" \in r.hint /\ r.queue >= DataSize

Rearm(r) ==
    [r EXCEPT !.armed = IF r.state = "Started" /\ r.queue > 0 /\ "time" \in r.hint
                        THEN "waiting" ELSE "none"]

\* A gate that is closed has lost its events; its filter never runs again.
Quarantined(r) ==
    [r EXCEPT !.state = "Failed", !.pending = 0, !.armed = "none", !.queue = 0]

\* An event of the pipeline, put into the gate's queue.
Enqueue(r) ==
    IF r.queue = Capacity THEN Quarantined(r)
    ELSE LET q == [r EXCEPT !.queue = @ + 1]
         IN  IF r.queue = 0 THEN Rearm(q) ELSE q

\* The events leave the gate: commit_delivery_batch.
Taken(r) == IF Ready(r) THEN [r EXCEPT !.queue = 0, !.armed = "none"] ELSE r

\* A startId for the next start of a filter that has run before.
Schedule(r) ==
    IF r.once THEN [r EXCEPT !.pending = r.next, !.next = @ + 1] ELSE r

CanSchedule(r) == r.once => r.next <= LastStartId

-----------------------------------------------------------------------------
(* Snapshots: what a dispatcher carries out of the lock.  count[f] events  *)
(* of each filter f, in the order of the filters, each filter's preceded   *)
(* by the startId it owes.                                                 *)

SnapshotsOf(f, n, owed) ==
    IF n = 0 \/ f \notin live THEN <<>>
    ELSE (IF owed = 0 THEN <<>> ELSE <<[f |-> f, start |-> TRUE, id |-> owed]>>)
         \o [i \in 1 .. n |-> [f |-> f, start |-> FALSE, id |-> owed]]

Order == SetToSeq(Filters)

Batch(count, rs) ==
    FlattenSeq([i \in DOMAIN Order |->
                  SnapshotsOf(Order[i], count[Order[i]], rs[Order[i]].pending)])

TakenFrom(rs) ==
    [f \in Filters |-> IF Ready(rs[f]) THEN rs[f].queue ELSE 0]

-----------------------------------------------------------------------------
(* The feeders. *)

CanFeed(t) ==
    /\ thread[t].pc = "idle"
    /\ t = "pump" => pump = "running"

\* One packet: events for the filters in hit, a queue-status event, which
\* does not wait in the gate, for those in status.
Feed(t) ==
    /\ t \in Feeders
    /\ CanFeed(t)
    /\ \E hit \in SUBSET {f \in Filters : filter[f].state = "Started"} :
       \E status \in SUBSET hit :
          LET queued == [f \in Filters |->
                            IF f \in hit THEN Enqueue(filter[f]) ELSE filter[f]]
              count == [f \in Filters |->
                           TakenFrom(queued)[f]
                           + IF f \in status /\ queued[f].state = "Started"
                             THEN 1 ELSE 0]
          IN /\ filter' = [f \in Filters |-> Taken(queued[f])]
             /\ thread' = [thread EXCEPT ![t].pc = "wake",
                                         ![t].batch = Batch(count, queued)]
    /\ UNCHANGED <<live, told, wake, deadline, notify, pump, frontend, hints,
                   faults>>

\* The lock is free again; the delay worker learns of new deadlines.
WakeWorker(t) ==
    /\ thread[t].pc = "wake"
    /\ wake' = TRUE
    /\ thread' = [thread EXCEPT ![t].pc = "dispatch"]
    /\ UNCHANGED <<filter, live, told, deadline, notify, pump, frontend, hints,
                   faults>>

-----------------------------------------------------------------------------
(* The delay worker. *)

\* Ready events are dispatched at once; with none, the worker goes to sleep
\* until the earliest deadline, or for as long as nobody wakes it.
Poll ==
    /\ thread["delay"].pc = "idle"
    /\ LET batch == Batch(TakenFrom(filter), filter)
           left == [f \in Filters |-> Taken(filter[f])]
       IN /\ filter' = left
          /\ thread' = [thread EXCEPT !["delay"].batch = batch,
                           !["delay"].pc = IF batch = <<>> THEN "asleep"
                                            ELSE "dispatch"]
          /\ deadline' = (batch = <<>>
                          /\ \E f \in Filters : /\ left[f].state = "Started"
                                                /\ left[f].queue > 0
                                                /\ left[f].armed # "none")
    /\ UNCHANGED <<live, told, wake, notify, pump, frontend, hints, faults>>

\* A wake-up is latched: one that came before the worker slept counts.
WakeUp ==
    /\ thread["delay"].pc = "asleep"
    /\ wake \/ deadline
    /\ wake' = FALSE
    /\ deadline' = FALSE
    /\ thread' = [thread EXCEPT !["delay"].pc = "idle"]
    /\ UNCHANGED <<filter, live, told, notify, pump, frontend, hints, faults>>

\* The instant delivery_not_before passes.
Expire(f) ==
    /\ filter[f].armed = "waiting"
    /\ filter' = [filter EXCEPT ![f].armed = "due"]
    /\ UNCHANGED <<live, told, thread, wake, deadline, notify, pump, frontend,
                   hints, faults>>

-----------------------------------------------------------------------------
(* Dispatch, by any of the threads, without the lock. *)

Current(t) == Head(thread[t].batch)

Dispatching(t) == thread[t].pc = "dispatch" /\ thread[t].batch # <<>>

\* Mutant of AfterFailure: the events behind a failed startId go on.
AfterFailureUnblocked(t) ==
    [thread[t] EXCEPT !.pc = "dispatch", !.batch = Tail(@), !.failed = TRUE]

\* What is left of the batch when the current snapshot has failed: a startId
\* that did not go through holds back its filter's events.
AfterFailure(t) ==
    [thread[t] EXCEPT
        !.pc = "dispatch", !.batch = Tail(@), !.failed = TRUE,
        !.blocked = IF Current(t).start THEN @ \cup {Current(t).f} ELSE @]

SkipBlocked(t) ==
    /\ Dispatching(t)
    /\ Current(t).f \in thread[t].blocked
    /\ thread' = [thread EXCEPT ![t].batch = Tail(@)]
    /\ UNCHANGED <<filter, live, told, wake, deadline, notify, pump, frontend,
                   hints, faults>>

CallClient(t) ==
    /\ Dispatching(t)
    /\ Current(t).f \notin thread[t].blocked
    /\ IF Current(t).start
       THEN /\ told' = [told EXCEPT ![Current(t).f] = @ \cup {Current(t).id}]
            /\ thread' = [thread EXCEPT ![t].pc = "commit"]
       ELSE /\ thread' = [thread EXCEPT ![t].batch = Tail(@)]
            /\ UNCHANGED told
    /\ UNCHANGED <<filter, live, wake, deadline, notify, pump, frontend, hints,
                   faults>>

CallFails(t) ==
    /\ Dispatching(t)
    /\ Current(t).f \notin thread[t].blocked
    /\ faults < MaxFaults
    /\ faults' = faults + 1
    /\ thread' = [thread EXCEPT ![t] = AfterFailure(t)]
    /\ UNCHANGED <<filter, live, told, wake, deadline, notify, pump, frontend,
                   hints>>

\* The filter is there and owes the startId that was sent.
StillOwed(f, id) == f \in live /\ filter[f].pending = id

\* commit_filter_start_id_delivery, under the lock again.
CommitStartId(t) ==
    /\ thread[t].pc = "commit"
    /\ LET f == Current(t).f
       IN  IF StillOwed(f, Current(t).id)
           THEN /\ filter' = [filter EXCEPT ![f].pending = 0]
                /\ thread' = [thread EXCEPT ![t].pc = "dispatch",
                                            ![t].batch = Tail(@)]
           ELSE /\ thread' = [thread EXCEPT ![t] = AfterFailure(t)]
                /\ UNCHANGED filter
    /\ UNCHANGED <<live, told, wake, deadline, notify, pump, frontend, hints,
                   faults>>

\* The batch is done.  The delay worker and the playback thread drop the
\* error; deliver_ts_packet returns it and the live pump ends with it.
Return(t) ==
    /\ thread[t].pc = "dispatch"
    /\ thread[t].batch = <<>>
    /\ thread' = [thread EXCEPT ![t] = NoWork]
    /\ pump' = IF t = "pump" /\ thread[t].failed THEN "failed" ELSE pump
    /\ UNCHANGED <<filter, live, told, wake, deadline, notify, frontend, hints,
                   faults>>

\* The frontend worker joins the pump and fails the tune with its error.
PumpJoined ==
    /\ pump = "failed"
    /\ frontend = "Tuning"
    /\ frontend' = "Failed"
    /\ UNCHANGED <<filter, live, told, thread, wake, deadline, notify, pump,
                   hints, faults>>

-----------------------------------------------------------------------------
(* The client's calls.  Each changes a filter under the lock and, when it  *)
(* has succeeded, wakes the delay worker.                                  *)

Calls(f) == f \in live /\ ~notify

Apply(f, r) ==
    /\ filter' = [filter EXCEPT ![f] = r]
    /\ notify' = TRUE
    /\ UNCHANGED <<live, told, thread, wake, deadline, pump, frontend, faults>>

NotifyWorker ==
    /\ notify
    /\ notify' = FALSE
    /\ wake' = TRUE
    /\ UNCHANGED <<filter, live, told, thread, deadline, pump, frontend, hints,
                   faults>>

\* The settings differ from the current ones.
Configure(f) ==
    /\ Calls(f)
    /\ filter[f].state \in {"Open", "Configured", "Stopped"}
    /\ LET r == [filter[f] EXCEPT !.state = "Configured", !.queue = 0,
                                  !.armed = "none"]
       IN  IF CanSchedule(r) THEN Apply(f, Schedule(r))
           ELSE /\ filter' = [filter EXCEPT ![f] = Quarantined(r)]
                /\ UNCHANGED <<live, told, thread, wake, deadline, notify, pump,
                               frontend, faults>>
    /\ UNCHANGED hints

\* The settings are the current ones: only the startId is prepared.
ConfigureAgain(f) ==
    /\ Calls(f)
    /\ filter[f].state \in {"Configured", "Stopped"}
    /\ CanSchedule(filter[f])
    /\ Apply(f, Schedule(filter[f]))
    /\ UNCHANGED hints

Start(f) ==
    /\ Calls(f)
    /\ filter[f].state \in {"Configured", "Stopped", "Started"}
    /\ Apply(f, IF filter[f].state = "Started" THEN filter[f]
                ELSE Rearm([filter[f] EXCEPT !.state = "Started", !.once = TRUE]))
    /\ UNCHANGED hints

Stop(f) ==
    /\ Calls(f)
    /\ filter[f].state \in {"Open", "Configured", "Stopped", "Started"}
    /\ Apply(f, IF filter[f].state # "Started" THEN filter[f]
                ELSE [filter[f] EXCEPT !.state = "Stopped", !.armed = "none"])
    /\ UNCHANGED hints

Flush(f) ==
    /\ Calls(f)
    /\ filter[f].state \in {"Configured", "Stopped", "Started"}
    /\ Apply(f, [filter[f] EXCEPT !.queue = 0, !.armed = "none", !.pending = 0])
    /\ UNCHANGED hints

\* A hint is set, or reset by the value 0.
SetDelayHint(f, kind, on) ==
    /\ Calls(f)
    /\ filter[f].state \notin {"Failed", "Closed"}
    /\ hints < MaxHints
    /\ hints' = hints + 1
    /\ Apply(f, Rearm([filter[f] EXCEPT
                          !.hint = IF on THEN @ \cup {kind} ELSE @ \ {kind}]))

\* close() withdraws the object first and removes the filter afterwards.
BeginClose(f) ==
    /\ Calls(f)
    /\ live' = live \ {f}
    /\ UNCHANGED <<filter, told, thread, wake, deadline, notify, pump, frontend,
                   hints, faults>>

FinishClose(f) ==
    /\ f \notin live
    /\ filter[f].state # "Closed"
    /\ ~notify
    /\ filter' = [filter EXCEPT ![f] = [Quarantined(@) EXCEPT !.state = "Closed"]]
    /\ notify' = TRUE
    /\ UNCHANGED <<live, told, thread, wake, deadline, pump, frontend, hints,
                   faults>>

Client(f) ==
    \/ Configure(f)
    \/ ConfigureAgain(f)
    \/ Start(f)
    \/ Stop(f)
    \/ Flush(f)
    \/ \E kind \in Hints, on \in BOOLEAN : SetDelayHint(f, kind, on)
    \/ BeginClose(f)
    \/ FinishClose(f)

Dispatch(t) ==
    \/ WakeWorker(t)
    \/ SkipBlocked(t)
    \/ CallClient(t)
    \/ CallFails(t)
    \/ CommitStartId(t)
    \/ Return(t)

Next ==
    \/ \E t \in Feeders : Feed(t)
    \/ \E t \in Dispatchers : Dispatch(t)
    \/ Poll
    \/ WakeUp
    \/ PumpJoined
    \/ NotifyWorker
    \/ \E f \in Filters : Expire(f) \/ Client(f)

\* Threads are scheduled, time passes and client calls return; nobody is
\* obliged to push packets or to make a call.
Fairness ==
    /\ \A t \in Dispatchers : WF_vars(Dispatch(t))
    /\ WF_vars(Poll)
    /\ WF_vars(WakeUp)
    /\ WF_vars(NotifyWorker)
    /\ \A f \in Filters : WF_vars(Expire(f))

Spec == Init /\ [][Next]_vars

FairSpec == Spec /\ Fairness

-----------------------------------------------------------------------------
(* Properties. *)

\* The state has its type; a dispatcher waiting to commit a startId has that
\* snapshot at the head of its batch.
TypeOK ==
    /\ filter \in [Filters -> Runtimes]
    /\ live \subseteq Filters
    /\ told \in [Filters -> SUBSET StartIds]
    /\ \A t \in Dispatchers :
          /\ thread[t].pc \in {"idle", "wake", "asleep", "dispatch", "commit"}
          /\ \A i \in DOMAIN thread[t].batch : thread[t].batch[i] \in Snapshots
          /\ thread[t].blocked \subseteq Filters
          /\ thread[t].failed \in BOOLEAN
          /\ thread[t].pc = "commit" => thread[t].batch # <<>> /\ Current(t).start
    /\ {wake, deadline, notify} \subseteq BOOLEAN
    /\ pump \in {"running", "failed"}
    /\ frontend \in {"Tuning", "Failed"}
    /\ hints \in 0 .. MaxHints /\ faults \in 0 .. MaxFaults

\* An event that was produced while its filter owed a startId is delivered
\* only to a client that has received that startId.
StartIdPrecedesEvents ==
    [][\A t \in Dispatchers :
          (CallClient(t) /\ ~Current(t).start /\ Current(t).id # 0)
             => Current(t).id \in told[Current(t).f]]_vars

\* A startId a filter owes is not lost: it goes away only when the client has
\* received it, or when flush(), another configure(), a failure or close()
\* withdraws it.
OwedStartIdIsKept ==
    [][\A f \in Filters :
          (filter[f].pending # 0 /\ filter'[f].pending # filter[f].pending)
             => \/ filter[f].pending \in told[f]
                \/ filter'[f].pending > filter[f].pending
                \/ filter'[f].state \in {"Failed", "Closed"}
                \/ Flush(f)]_vars

\* A startId that becomes owed is new: the client has never received it and no
\* dispatcher carries it.
StartIdIsFresh ==
    [][\A f \in Filters :
          (filter'[f].pending # 0 /\ filter'[f].pending # filter[f].pending)
             => /\ filter'[f].pending \notin told[f]
                /\ \A t \in Dispatchers :
                      \A i \in DOMAIN thread[t].batch :
                         LET s == thread[t].batch[i]
                         IN  s.f = f => s.id # filter'[f].pending]_vars

\* A started filter whose events do not wait for a data size gets rid of
\* them, even when no further packet arrives: no wake-up is lost between the
\* threads that change a deadline and the worker that sleeps on it.
Held(f) ==
    /\ filter[f].state = "Started"
    /\ filter[f].queue > 0
    /\ filter[f].hint # {"size"}

HeldEventsLeave == \A f \in Filters : Held(f) ~> ~Held(f)

=============================================================================
