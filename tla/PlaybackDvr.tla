---------------------------- MODULE PlaybackDvr ----------------------------
(***************************************************************************)
(* One DVR of a demux: its queue, the thread that serves it and the        *)
(* supervisor of that thread (tuner_hal2: dvr.rs and queue_runtime.rs of   *)
(* the demux crate, playback_consume_txn.rs, dvr_callback_delivery.rs,     *)
(* dvr_methods.rs).                                                        *)
(*                                                                         *)
(* A playback DVR is a queue the client fills and the HAL empties: the     *)
(* status notifier thread reads a chunk, keeps it in a cursor and injects  *)
(* it packet by packet into the demux, giving the runtime lock up between  *)
(* taking a packet and deciding it.  A record DVR is filled by the demux   *)
(* and its thread only reports status.  start and stop change the runtime  *)
(* state in one lock section and the thread in a later one, under another  *)
(* lock; stopped threads are handed to a reaper that joins them and may    *)
(* start the next one.                                                     *)
(***************************************************************************)
EXTENDS Integers, FiniteSets, Sequences, SequencesExt

CONSTANTS
    Kinds,          \* the kinds of DVR considered: "Playback", "Record"
    Threads,        \* Binder threads of the client
    Workers,        \* identities of notifier threads
    QueueCapacity,  \* packets the FMQ holds, for each kind
    Chunk,          \* packets one read takes at most
    Low, High,      \* low_threshold and high_threshold, in packets
    MaxPackets,     \* bound on the packets written
    MaxEpoch        \* bound on the queue epochs

VARIABLES
    kind,       \* DvrKind, fixed when the DVR is opened
    object,     \* the AIDL object: "live", "closing" or "closed"
    dvr,        \* DvrRuntime
    queue,      \* DvrQueueRuntime: FMQ content, epoch, admission gate
    cursor,     \* PlaybackConsumeTxn: packets read and not injected, origin
    written,    \* packets written so far
    out,        \* history: the packet injected last, NoPacket before
    active,     \* supervisor: the active notifier of this DVR
    reaping,    \* supervisor: the reaper job of this DVR
    worker,     \* the notifier threads
    reaper,     \* the reaper thread
    client      \* the method each Binder thread is in

vars == <<kind, object, dvr, queue, cursor, written, out, active, reaping,
          worker, reaper, client>>

Capacity == QueueCapacity[kind]

runtime == <<kind, object, dvr, queue, cursor, written, out>>

NoWorker == 0

Statuses == {"None", "Empty", "Low", "High", "Full", "Overflow", "DataReady"}

States == {"Open", "Configured", "Started", "Stopped", "Failed", "Absent"}

Packets == [n : 1..MaxPackets, epoch : 1..MaxEpoch]

NoPacket == [n |-> 0, epoch |-> 0]

EmptyCursor == [packets |-> <<>>, origin |-> 0]

NoJob == [worker |-> NoWorker, restart |-> FALSE, reported |-> FALSE]

ReaperIdle == [pc |-> "idle", restart |-> FALSE, failed |-> FALSE]

Idle == [pc |-> "none", stop |-> FALSE, delivering |-> FALSE, held |-> NoPacket,
         event |-> "None", failed |-> FALSE]

TypeOK ==
    /\ kind \in Kinds
    /\ object \in {"live", "closing", "closed"}
    /\ dvr \in [state : States, unhealthy : BOOLEAN, reporting : BOOLEAN,
                last : Statuses, overflow : BOOLEAN, ready : BOOLEAN]
    /\ queue.gate \in {"Open", "Closed"}
    /\ queue.epoch \in 1..MaxEpoch
    /\ Range(queue.fmq) \subseteq Packets
    /\ Len(queue.fmq) <= Capacity
    /\ cursor.origin \in 0..MaxEpoch
    /\ Range(cursor.packets) \subseteq Packets
    /\ Len(cursor.packets) <= Chunk
    /\ written \in 0..MaxPackets
    /\ out \in Packets \cup {NoPacket}
    /\ active \in Workers \cup {NoWorker}
    /\ reaping.worker \in Workers \cup {NoWorker}
    /\ worker \in [Workers -> [pc : {"none", "init", "top", "front", "apply",
                                     "poll", "deliver", "ending", "finished"},
                               stop : BOOLEAN, delivering : BOOLEAN,
                               held : Packets \cup {NoPacket},
                               event : Statuses, failed : BOOLEAN]]
    /\ reaper.pc \in {"idle", "reaped", "restart"}
    /\ client \in [Threads -> {"idle", "status", "notify", "spawn", "signal"}]

Init ==
    /\ kind \in Kinds
    /\ object = "live"
    /\ dvr = [state |-> "Open", unhealthy |-> FALSE, reporting |-> FALSE,
              last |-> "None", overflow |-> FALSE, ready |-> FALSE]
    /\ queue = [fmq |-> <<>>, epoch |-> 1, gate |-> "Open"]
    /\ cursor = EmptyCursor
    /\ written = 0
    /\ out = NoPacket
    /\ active = NoWorker
    /\ reaping = NoJob
    /\ worker = [w \in Workers |-> Idle]
    /\ reaper = ReaperIdle
    /\ client = [t \in Threads |-> "idle"]

---------------------------------------------------------------------------
(* The status of the queue, reported on a change.                          *)

\* WatermarkClassifier with the policy of the DVR's kind.
Classify(readable, writable) ==
    CASE kind = "Playback" /\ writable = 0 -> "Full"
      [] readable > High /\ (kind = "Playback" => writable > 0) -> "High"
      [] readable < Low -> "Low"
      [] kind = "Playback" /\ readable = 0 /\ Low = 0 -> "Empty"
      [] OTHER -> "None"

\* status_event_for_snapshot: the event, and the flags it consumes.
StatusEvent(d, readable) ==
    LET level == Classify(readable, Capacity - readable)
        shown(e) == IF d.reporting THEN e ELSE "None"
    IN  CASE kind = "Record" /\ d.overflow ->
               [event |-> shown("Overflow"), dvr |-> [d EXCEPT !.overflow = FALSE]]
          [] kind = "Record" /\ d.ready /\ ~d.overflow ->
               [event |-> shown("DataReady"), dvr |-> [d EXCEPT !.ready = FALSE]]
          [] OTHER ->
               IF level \in {"None", d.last}
               THEN [event |-> "None", dvr |-> d]
               ELSE [event |-> shown(level), dvr |-> [d EXCEPT !.last = level]]

\* dvr_status_poll_snapshot: only a started, healthy DVR consumes an event.
PollSnapshot ==
    IF dvr.state = "Started" /\ ~dvr.unhealthy
    THEN StatusEvent(dvr, Len(queue.fmq))
    ELSE [event |-> "None", dvr |-> dvr]

Live == object = "live"

MarkUnhealthy == IF Live THEN [dvr EXCEPT !.unhealthy = TRUE] ELSE dvr

---------------------------------------------------------------------------
(* The supervisor of the notifier threads.  Its state has a lock of its    *)
(* own; each of these is one section under it.                             *)

Finished(w) == w # NoWorker /\ worker[w].pc = "finished"

Job(w, restart) == [worker |-> w, restart |-> restart, reported |-> FALSE]

Fresh == {w \in Workers : worker[w].pc = "none"}

\* Mutant: a job that is still being reaped is not looked at.
StartBesideReaper ==
    \/ /\ active # NoWorker
       /\ UNCHANGED <<active, reaping, worker>>
    \/ /\ active = NoWorker
       /\ LET w == CHOOSE w \in Fresh : TRUE
          IN  /\ active' = w
              /\ worker' = [worker EXCEPT ![w] = [Idle EXCEPT !.pc = "init"]]
       /\ UNCHANGED reaping

\* start_or_request_restart
StartOrRequestRestart ==
    \/ /\ Finished(active)
       /\ reaping' = Job(active, TRUE)
       /\ active' = NoWorker
       /\ UNCHANGED worker
    \/ /\ active # NoWorker /\ ~Finished(active)
       /\ UNCHANGED <<active, reaping, worker>>
    \/ /\ active = NoWorker /\ reaping # NoJob
       /\ reaping' = [reaping EXCEPT !.restart = TRUE]
       /\ UNCHANGED <<active, worker>>
    \/ /\ active = NoWorker /\ reaping = NoJob
       /\ LET w == CHOOSE w \in Fresh : TRUE
          IN  /\ active' = w
              /\ worker' = [worker EXCEPT ![w] = [Idle EXCEPT !.pc = "init"]]
       /\ UNCHANGED reaping

\* signal_stop is ReaperPending when it leaves a job behind, else Complete.
SignalStop ==
    \/ /\ reaping # NoJob
       /\ reaping' = [reaping EXCEPT !.restart = FALSE]
       /\ UNCHANGED <<active, worker>>
    \/ /\ reaping = NoJob /\ active # NoWorker
       /\ worker' = [worker EXCEPT ![active].stop = TRUE]
       /\ reaping' = Job(active, FALSE)
       /\ active' = NoWorker
    \/ /\ reaping = NoJob /\ active = NoWorker
       /\ UNCHANGED <<active, reaping, worker>>

supervisor == <<active, reaping, worker>>

---------------------------------------------------------------------------
(* The client: methods of IDvr, one step per lock section.                 *)

Step(t, from, to) == client[t] = from /\ client' = [client EXCEPT ![t] = to]

\* DvrConfigureTxn: neither a started nor a failed DVR is configured.
ConfigureAccepted == dvr.state \in {"Open", "Configured", "Stopped"}

\* configure with valid thresholds.  The playback cursor made by the first
\* configure is kept by the later ones.
Configure(t) ==
    /\ Live
    /\ client[t] = "idle"
    /\ ConfigureAccepted
    /\ \E reporting \in BOOLEAN :
           dvr' = [dvr EXCEPT !.state = "Configured", !.reporting = reporting,
                              !.last = "None"]
    /\ UNCHANGED <<kind, object, queue, cursor, written, out, supervisor,
                   reaper, client>>

\* A DVR with an unhealthy callback does not start again.
StartAccepted == dvr.state \in {"Configured", "Stopped"} /\ ~dvr.unhealthy

\* start, runtime part (the demux is not bound to a frontend).
Start(t) ==
    /\ Live
    /\ Step(t, "idle", "status")
    /\ dvr.state = "Started" \/ StartAccepted
    /\ dvr' = [dvr EXCEPT !.state = "Started"]
    /\ UNCHANGED <<kind, object, queue, cursor, written, out, supervisor,
                   reaper>>

\* start, first report: deliver_started_dvr_status polls under the lock and
\* calls the client after it; a failed call or a vanished owner is recorded.
StartStatus(t) ==
    /\ Step(t, "status", "notify")
    /\ LET p == PollSnapshot
       IN  \/ dvr' = IF Live THEN p.dvr ELSE dvr
          \/ /\ Live /\ p.event # "None" /\ dvr.reporting
             /\ dvr' = [p.dvr EXCEPT !.unhealthy = TRUE]
    /\ UNCHANGED <<kind, object, queue, cursor, written, out, supervisor, reaper>>

\* start_dvr_status_notifier, snapshot: whether a thread is wanted.
WantsNotifier ==
    /\ Live
    /\ dvr.state = "Started"
    /\ kind = "Record" => dvr.reporting /\ ~dvr.unhealthy

StartNotify(t) ==
    /\ Step(t, "notify", IF WantsNotifier THEN "spawn" ELSE "idle")
    /\ UNCHANGED <<runtime, supervisor, reaper>>

StartSpawn(t) ==
    /\ Step(t, "spawn", "idle")
    /\ StartOrRequestRestart
    /\ UNCHANGED <<runtime, reaper>>

\* stop keeps the queue and the cursor; then signal_stop.
Stop(t) ==
    /\ Live
    /\ Step(t, "idle", "signal")
    /\ dvr.state \in {"Open", "Configured", "Started", "Stopped"}
    /\ dvr' = [dvr EXCEPT !.state = IF @ = "Started" THEN "Stopped" ELSE @]
    /\ UNCHANGED <<kind, object, queue, cursor, written, out, supervisor,
                   reaper>>

StopSignal(t) ==
    /\ Step(t, "signal", "idle")
    /\ SignalStop
    /\ UNCHANGED <<runtime, reaper>>

\* prepare_dvr_queue_cleanup: a started record DVR is not flushed.
FlushAccepted ==
    \/ dvr.state \in {"Configured", "Stopped"}
    \/ dvr.state = "Started" /\ kind = "Playback"

\* commit_dvr_drain_with_queue_clear: the queue is emptied and a new epoch
\* begins, or the clear fails and the drain is taken back.
DrainCommits ==
    /\ queue.epoch < MaxEpoch
    /\ queue' = [queue EXCEPT !.fmq = <<>>, !.epoch = @ + 1]

\* Mutant: the packets read before the flush stay.
KeepCursor == cursor

\* discard_for_boundary: what was read and not injected goes too.
DiscardCursor == EmptyCursor

Flush(t) ==
    /\ Live
    /\ client[t] = "idle"
    /\ FlushAccepted
    /\ \/ DrainCommits /\ cursor' = DiscardCursor
       \/ UNCHANGED <<queue, cursor>>
    /\ UNCHANGED <<kind, object, dvr, written, out, supervisor, reaper, client>>

\* The client process fills a playback queue, or empties a record queue,
\* through shared memory and without the HAL.
ClientQueueAccess ==
    /\ object # "closed"
    /\ \/ /\ kind = "Playback" /\ written < MaxPackets
          /\ Len(queue.fmq) < Capacity
          /\ written' = written + 1
          /\ queue' = [queue EXCEPT !.fmq =
                          Append(@, [n |-> written + 1, epoch |-> queue.epoch])]
       \/ /\ kind = "Record" /\ queue.fmq # <<>>
          /\ queue' = [queue EXCEPT !.fmq = Tail(@)]
          /\ UNCHANGED written
    /\ UNCHANGED <<kind, object, dvr, cursor, out, supervisor, reaper, client>>

\* try_write_record_dvr_packet: a full queue drops the packet and owes the
\* client an overflow; a failed write closes the queue.
WriteRecord(p) ==
    \/ /\ Len(queue.fmq) < Capacity
       /\ queue' = [queue EXCEPT !.fmq = Append(@, p)]
       /\ dvr' = [dvr EXCEPT !.overflow = FALSE, !.ready = TRUE]
    \/ /\ Len(queue.fmq) = Capacity
       /\ dvr' = [dvr EXCEPT !.overflow = TRUE]
       /\ UNCHANGED queue
    \/ /\ queue' = [queue EXCEPT !.gate = "Closed"]
       /\ dvr' = [dvr EXCEPT !.state = "Failed"]

\* mirror_record_dvr_packets: a packet of the demux that an attached filter
\* selects, for a started record DVR.
RecordPacket ==
    /\ kind = "Record" /\ dvr.state = "Started"
    /\ written < MaxPackets
    /\ written' = written + 1
    /\ WriteRecord([n |-> written + 1, epoch |-> queue.epoch])
    /\ UNCHANGED <<kind, object, cursor, out, supervisor, reaper, client>>

---------------------------------------------------------------------------
(* The notifier thread.  Every lookup fails once the object is fenced.     *)

Goto(w, pc) == worker' = [worker EXCEPT ![w].pc = pc]

\* Leave the loop; its locals are gone.
EndLoop(failed) == [Idle EXCEPT !.pc = "ending", !.failed = failed]

\* Leave it with an error: NotifierTerminal marks a live owner.
FailLoop(w) ==
    /\ worker' = [worker EXCEPT ![w] = EndLoop(TRUE)]
    /\ dvr' = MarkUnhealthy

Unowned(w) == ~Live /\ FailLoop(w) /\ UNCHANGED <<queue, cursor, out>>

Ready == dvr.state = "Started" /\ dvr.reporting /\ ~dvr.unhealthy

Begin(w) ==
    /\ worker[w].pc = "init"
    /\ \/ Unowned(w)
       \/ /\ Live
          /\ worker' = [worker EXCEPT ![w].pc = "top", ![w].delivering = Ready]
          /\ UNCHANGED <<dvr, queue, cursor, out>>

\* begin_consume: with an empty cursor, a started DVR with some started
\* filter on the demux input reads what it can, up to one chunk.
ReadChunk ==
    LET k == IF Len(queue.fmq) < Chunk THEN Len(queue.fmq) ELSE Chunk
    IN  /\ cursor.packets = <<>> /\ dvr.state = "Started" /\ k > 0
        /\ cursor' = [packets |-> SubSeq(queue.fmq, 1, k), origin |-> queue.epoch]
        /\ queue' = [queue EXCEPT !.fmq = SubSeq(@, k + 1, Len(@))]

\* The loop head: the stop flag, then the first lock section of a consume.
LoopTop(w) ==
    /\ worker[w].pc = "top"
    /\ \/ /\ worker[w].stop
          /\ worker' = [worker EXCEPT ![w] = EndLoop(FALSE)]
          /\ UNCHANGED <<dvr, queue, cursor, out>>
       \/ /\ ~worker[w].stop /\ kind = "Record"
          /\ Goto(w, "poll") /\ UNCHANGED <<dvr, queue, cursor, out>>
       \/ /\ ~worker[w].stop /\ kind = "Playback"
          /\ \/ Unowned(w)
             \/ /\ Live /\ Goto(w, "front") /\ ReadChunk
                /\ UNCHANGED <<dvr, out>>
             \/ /\ Live /\ Goto(w, "front")      \* no output, or nothing to read
                /\ UNCHANGED <<dvr, queue, cursor, out>>
             \/ /\ Live /\ dvr.state = "Started" /\ cursor.packets = <<>>
                /\ worker' = [worker EXCEPT ![w] = EndLoop(TRUE)]
                /\ dvr' = [dvr EXCEPT !.state = "Failed", !.unhealthy = TRUE]
                /\ UNCHANGED <<queue, cursor, out>>

\* pending_packet
PendingPacket(w) ==
    /\ worker[w].pc = "front"
    /\ \/ Unowned(w)
       \/ /\ Live
          /\ IF dvr.state = "Started" /\ cursor.packets # <<>>
             THEN worker' = [worker EXCEPT ![w].pc = "apply",
                               ![w].held = [Head(cursor.packets) EXCEPT
                                              !.epoch = cursor.origin]]
             ELSE Goto(w, "poll")
          /\ UNCHANGED <<dvr, queue, cursor, out>>

\* is_current_packet.  The code compares the bytes; two packets may have the
\* same bytes, so the model compares only what it can rely on, the origin.
IsCurrentPacket(p) ==
    /\ dvr.state = "Started"
    /\ cursor.packets # <<>>
    /\ cursor.origin = p.epoch

\* consume: the packet leaves the cursor.  A malformed or undecryptable one
\* is not injected.
Consume(p) ==
    /\ cursor' = IF Len(cursor.packets) = 1 THEN EmptyCursor
                 ELSE [cursor EXCEPT !.packets = Tail(@)]
    /\ out' \in {p, out}

\* The third lock section: decide and consume, unless the packet went stale.
Apply(w) ==
    /\ worker[w].pc = "apply"
    /\ \/ Unowned(w)
       \/ /\ Live
          /\ IF IsCurrentPacket(worker[w].held)
             THEN /\ Consume(worker[w].held)
                  /\ worker' = [worker EXCEPT ![w].pc = "front", ![w].held = NoPacket]
             ELSE /\ worker' = [worker EXCEPT ![w].pc = "poll", ![w].held = NoPacket]
                  /\ UNCHANGED <<cursor, out>>
          /\ UNCHANGED <<dvr, queue>>

\* The status poll.  A DVR that is not started ends the thread.
Poll(w) ==
    /\ worker[w].pc = "poll"
    /\ \/ Unowned(w)
       \/ /\ Live
          /\ LET p == PollSnapshot
                 on == worker[w].delivering /\ Ready
             IN  /\ dvr' = p.dvr
                 /\ worker' = [worker EXCEPT ![w] =
                      IF dvr.state # "Started" \/ (kind = "Record" /\ ~on)
                      THEN EndLoop(FALSE)
                      ELSE [@ EXCEPT !.delivering = on,
                                     !.event = IF on THEN p.event ELSE "None",
                                     !.pc = IF on /\ p.event # "None"
                                            THEN "deliver" ELSE "top"]]
          /\ UNCHANGED <<queue, cursor, out>>

\* The callback, outside every lock.  A failure marks the callback unhealthy.
Deliver(w) ==
    /\ worker[w].pc = "deliver"
    /\ \/ /\ worker' = [worker EXCEPT ![w].pc = "top", ![w].event = "None"]
          /\ UNCHANGED dvr
       \/ /\ dvr' = MarkUnhealthy
          /\ worker' = [worker EXCEPT ![w] =
               IF kind = "Record" THEN EndLoop(FALSE)
               ELSE [@ EXCEPT !.event = "None", !.delivering = FALSE,
                              !.pc = "top"]]
    /\ UNCHANGED <<queue, cursor, out>>

\* The thread has left its loop but is_finished is not yet true.
Exit(w) ==
    /\ worker[w].pc = "ending"
    /\ Goto(w, "finished")
    /\ UNCHANGED <<dvr, queue, cursor, out>>

WorkerStep(w) ==
    /\ \/ Begin(w) \/ LoopTop(w) \/ PendingPacket(w) \/ Apply(w)
       \/ Poll(w) \/ Deliver(w) \/ Exit(w)
    /\ UNCHANGED <<kind, object, written, active, reaping, reaper, client>>

---------------------------------------------------------------------------
(* The reaper thread.                                                      *)

\* Mutant: a job whose deadline was reported is not looked at again.
TakeUnreportedJob ==
    /\ reaper.pc = "idle" /\ ~reaping.reported
    /\ LET job == IF Finished(active) THEN Job(active, FALSE) ELSE reaping
       IN  /\ Finished(job.worker)
           /\ reaper' = [pc |-> "reaped", restart |-> job.restart,
                         failed |-> worker[job.worker].failed]
           /\ worker' = [worker EXCEPT ![job.worker] = Idle]
           /\ reaping' = NoJob
           /\ active' = IF Finished(active) THEN NoWorker ELSE active
    /\ UNCHANGED <<runtime, client>>

\* take_next_action: hand a finished thread over and take a finished job.
TakeJob ==
    /\ reaper.pc = "idle"
    /\ LET job == IF Finished(active) THEN Job(active, FALSE) ELSE reaping
       IN  /\ Finished(job.worker)
           /\ reaper' = [pc |-> "reaped", restart |-> job.restart,
                         failed |-> worker[job.worker].failed]
           /\ worker' = [worker EXCEPT ![job.worker] = Idle]
           /\ reaping' = NoJob
           /\ active' = IF Finished(active) THEN NoWorker ELSE active
    /\ UNCHANGED <<runtime, client>>

\* fence_dvr_notifier_owner_after_cleanup_failure: drop the owner object.
FenceOwner == object' = IF Live THEN "closing" ELSE object

\* finish_reaped_dvr_status_notifier: a failed thread fences its owner; a
\* requested restart looks at the DVR and then at the supervisor again.
FinishReaped ==
    /\ reaper.pc = "reaped"
    /\ IF reaper.failed THEN FenceOwner ELSE UNCHANGED object
    /\ reaper' = IF ~reaper.failed /\ reaper.restart /\ WantsNotifier
                 THEN [ReaperIdle EXCEPT !.pc = "restart"] ELSE ReaperIdle
    /\ UNCHANGED <<kind, dvr, queue, cursor, written, out, supervisor, client>>

RestartNotifier ==
    /\ reaper.pc = "restart"
    /\ StartOrRequestRestart
    /\ reaper' = ReaperIdle
    /\ UNCHANGED <<runtime, client>>

\* A job past worker_reaper_deadline_ms is reported once and fences the owner.
ReaperDeadline ==
    /\ reaper.pc = "idle"
    /\ reaping # NoJob /\ ~reaping.reported /\ ~Finished(reaping.worker)
    /\ reaping' = [reaping EXCEPT !.reported = TRUE]
    /\ FenceOwner
    /\ UNCHANGED <<kind, dvr, queue, cursor, written, out, active, worker,
                   reaper, client>>

---------------------------------------------------------------------------
(* Close.                                                                  *)

\* The object is fenced; from here every method and lookup refuses.
CloseFence ==
    /\ Live
    /\ object' = "closing"
    /\ UNCHANGED <<kind, dvr, queue, cursor, written, out, supervisor, reaper,
                   client>>

\* remove_dvr, with the queue and the cursor.
RemoveDvr ==
    /\ dvr' = [dvr EXCEPT !.state = "Absent"]
    /\ queue' = [queue EXCEPT !.gate = "Closed", !.fmq = <<>>]
    /\ cursor' = EmptyCursor

\* One cleanup attempt: finish_dvr_status_notifier_cleanup, and when no
\* thread is left, the runtime goes.
CloseStep ==
    /\ object = "closing"
    /\ SignalStop
    /\ IF reaping = NoJob /\ active = NoWorker
       THEN object' = "closed" /\ RemoveDvr
       ELSE UNCHANGED <<object, dvr, queue, cursor>>
    /\ UNCHANGED <<kind, written, out, reaper, client>>

ClientStep(t) ==
    \/ Configure(t) \/ Start(t) \/ StartStatus(t) \/ StartNotify(t)
    \/ StartSpawn(t) \/ Stop(t) \/ StopSignal(t) \/ Flush(t)

Next ==
    \/ \E t \in Threads : ClientStep(t)
    \/ ClientQueueAccess \/ RecordPacket
    \/ \E w \in Workers : WorkerStep(w)
    \/ TakeJob \/ FinishReaped \/ RestartNotifier \/ ReaperDeadline
    \/ CloseFence \/ CloseStep

\* Threads that are in the middle of a method, the notifier and the reaper
\* run; the cleanup reaper retries a close.
Fairness ==
    /\ \A t \in Threads : WF_vars(StartStatus(t) \/ StartNotify(t)
                                  \/ StartSpawn(t) \/ StopSignal(t))
    /\ WF_vars(\E w \in Workers : WorkerStep(w))
    /\ WF_vars(TakeJob \/ FinishReaped \/ RestartNotifier)
    /\ WF_vars(CloseStep)

Spec == Init /\ [][Next]_vars /\ Fairness

---------------------------------------------------------------------------
(* Properties.                                                             *)

\* What the demux gets from a playback DVR is what the client wrote: each
\* packet at most once and in order, none that was written before the last
\* flush, and none after a stop or a close returned from its first section
\* (is_current_packet fences the packet decided outside the lock).
PlaybackExactlyOnce ==
    [][out' # out =>
         /\ Live /\ dvr.state = "Started"
         /\ out'.n > out.n
         /\ out' = Head(cursor.packets)
         /\ out'.epoch = queue.epoch]_vars

\* The supervisor owns every notifier thread: at most one thread of the DVR
\* has not finished, and it is the active one or the one being reaped, never
\* both (start_or_request_restart, signal_stop and take_next_action race).
OneNotifier ==
    /\ active = NoWorker \/ reaping = NoJob
    /\ \A w \in Workers : worker[w].pc # "none" => w \in {active, reaping.worker}
    /\ active # NoWorker => worker[active].pc # "none"

\* A close ends although it has to wait for the thread to be reaped.
CloseCompletes == (object = "closing") ~> (object = "closed")

===========================================================================
