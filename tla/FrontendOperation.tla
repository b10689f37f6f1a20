-------------------------- MODULE FrontendOperation --------------------------
(***************************************************************************)
(* One IFrontend of the Tuner HAL: tune, scan, stopTune, stopScan and      *)
(* close called from several binder threads, the tune and scan worker      *)
(* threads they start, and the reaper that joins superseded workers.       *)
(*                                                                         *)
(* Everything a call or a worker does under one acquisition of the service *)
(* runtime lock is one action; what happens between two acquisitions       *)
(* (backend I/O, callbacks, the hand-over to the reaper) is a step of its  *)
(* own.  A worker is named by the generation it was started for, and       *)
(* MaxGen + g names the backend submit of generation g that timed out.     *)
(***************************************************************************)
EXTENDS Integers, FiniteSets

CONSTANTS
    Threads,      \* binder threads calling the frontend
    Requests,     \* tune and scan requests (the request fingerprints)
    None,         \* no request
    MaxGen,       \* client calls stop advancing the generation here
    Candidates,   \* candidates of one scan
    Opens,        \* incarnations of the IFrontend object
    Calls,        \* the IFrontend methods the clients use
    Faults        \* what may go wrong outside the HAL

ASSUME BoundsAssumption ==
    /\ MaxGen \in Nat \ {0}
    /\ Candidates \in Nat \ {0}
    /\ Opens \in Nat \ {0}
    /\ None \notin Requests
    /\ Calls \subseteq {"tune", "scan", "stopTune", "stopScan", "close"}
    /\ Faults \subseteq {"observe", "stop", "submit", "boundary", "deadline"}

Kinds == {"Tune", "Scan"}

\* Generations a close may still reach after the last client call.
TopGen == MaxGen + 3 * Opens

Gens == 1..MaxGen

Submit(g) == MaxGen + g

Phases == {"None", "Running", "LockedReported", "Completed", "Cancelled", "FailedBackend"}

NoSession == [gen |-> 0, req |-> None, phase |-> "None", index |-> 0]

NoWorker == [kind |-> "Tune", pc |-> "none", cancel |-> FALSE, lock |-> "never",
             pump |-> FALSE, err |-> FALSE]

NoCall == [kind |-> "Tune", req |-> None, gen |-> 0, inc |-> 0, tickets |-> {},
           action |-> "None", cont |-> FALSE]

VARIABLES
    gen,        \* FrontendRuntime.generation
    state,      \* FrontendRuntime.state; Tuning and Scanning carry gen
    reader,     \* live_reader_descriptor is present
    request,    \* active_tune_request
    qualified,  \* tune_lock_qualified, which implies signal Locked
    session,    \* FrontendRuntime.scan_session
    slot,       \* the worker registry: kind -> generation of its worker, or 0
    worker,     \* the worker threads and timed-out submits
    jobs,       \* jobs the reaper owns
    pending,    \* the reaper's pending keys of this frontend
    object,     \* the IFrontend object: incarnation and lifecycle
    critical,   \* the service has been marked critical
    pc, call,   \* the binder threads
    told        \* scan results (LOCKED or END) delivered for a generation

runtime == <<gen, state, reader, request, qualified, session>>
workers == <<slot, worker>>
reaper  == <<jobs, pending>>
client  == <<pc, call>>
vars == <<gen, state, reader, request, qualified, session, slot, worker, jobs, pending,
          object, critical, pc, call, told>>

Init ==
    /\ gen = 0
    /\ state = "Idle"
    /\ reader = FALSE
    /\ request = None
    /\ qualified = FALSE
    /\ session = NoSession
    /\ slot = [k \in Kinds |-> 0]
    /\ worker = [w \in 1..(2 * MaxGen) |-> NoWorker]
    /\ jobs = {}
    /\ pending = {}
    /\ object = [inc |-> 1, life |-> "Live"]
    /\ critical = FALSE
    /\ pc = [t \in Threads |-> "idle"]
    /\ call = [t \in Threads |-> NoCall]
    /\ told = [g \in Gens |-> 0]

-----------------------------------------------------------------------------
\* Helpers on the worker registry and on the object.

Running(w) == worker[w].pc \notin {"none", "done"}

Failed(w) == worker[w].pc = "done" /\ worker[w].err

SlotFailed(kind) == slot[kind] # 0 /\ Failed(slot[kind])

\* mark_tune_worker_failed and mark_scan_session_backend_failed accept the
\* failure of a completed worker only for the operation still in force.
FailureAccepted(kind) ==
    /\ slot[kind] = gen
    /\ \/ kind = "Tune" /\ state = "Tuning"
       \/ kind = "Scan" /\ session.gen = gen

\* prepare_frontend_worker_replacement_generation takes a completed worker
\* out of its slot, and fails when the failure it took cannot be recorded.
PrepareFails(kind) == SlotFailed(kind) /\ ~FailureAccepted(kind)

PreparedSlot(kind) ==
    IF slot[kind] # 0 /\ ~Running(slot[kind]) THEN [slot EXCEPT ![kind] = 0] ELSE slot

PreparedSession(kind) ==
    IF kind = "Scan" /\ SlotFailed("Scan") THEN [session EXCEPT !.phase = "FailedBackend"]
                                           ELSE session

\* The workers request_worker_stop_for_join takes out of the registry.
Owned(s, kinds) == {s[k] : k \in kinds} \ {0}

Cancelled(ws) == [w \in DOMAIN worker |->
                     IF w \in ws /\ Running(w) THEN [worker[w] EXCEPT !.cancel = TRUE]
                                               ELSE worker[w]]

\* fence_for_worker_replacement, followed by the state the caller leaves.
Fence(next, s) ==
    /\ gen' = gen + 1
    /\ reader' = FALSE
    /\ request' = None
    /\ qualified' = FALSE
    /\ state' = next
    /\ session' = s

\* quarantine_object_cascade leaves a Closed or Quarantined entry alone.
QuarantinedObject ==
    IF object.life = "Closed" THEN object ELSE [object EXCEPT !.life = "Quarantined"]

Idle(t) ==
    /\ pc' = [pc EXCEPT ![t] = "idle"]
    /\ call' = [call EXCEPT ![t] = NoCall]

\* Every method starts with a dispatch plan, which a critical service and an
\* object that is not Live refuse without touching anything.
Dispatched(t, method) ==
    /\ method \in Calls
    /\ pc[t] = "idle"
    /\ ~critical
    /\ object.life = "Live"

-----------------------------------------------------------------------------
\* tune and scan: the section that replaces the operation in force.

\* is_stable_locked_tune_reentry: the same request is already locked.
StableReentry(r) ==
    /\ state = "Tuning"
    /\ qualified
    /\ request = r
    /\ slot["Tune"] = gen
    /\ Running(gen)

Method(kind) == IF kind = "Tune" THEN "tune" ELSE "scan"

\* Mutant: the reaper's pending keys are not consulted.
BeginIgnoresReaper(t, kind, r) ==
    /\ Dispatched(t, Method(kind))
    /\ gen < MaxGen
    /\ ~(kind = "Tune" /\ StableReentry(r))

BeginEnabled(t, kind, r) ==
    /\ Dispatched(t, Method(kind))
    /\ gen < MaxGen
    /\ pending = {}
    /\ ~(kind = "Tune" /\ StableReentry(r))

\* tune() of the request already locked only repeats LOCKED.
ReenterTune(t, r) ==
    /\ Dispatched(t, "tune")
    /\ pending = {}
    /\ StableReentry(r)
    /\ pc' = [pc EXCEPT ![t] = "send"]
    /\ call' = [call EXCEPT ![t] = [NoCall EXCEPT !.gen = gen]]
    /\ UNCHANGED <<runtime, workers, reaper, object, critical, told>>

\* The completed worker's failure cannot be recorded: the call fails, and the
\* worker is gone from its slot.  A scan that cannot cancel the session it
\* finds Running fails the same way.
RefuseBegin(t, kind, r) ==
    /\ BeginEnabled(t, kind, r)
    /\ \/ PrepareFails(kind)
       \/ kind = "Scan" /\ session.phase = "Running" /\ session.gen # gen
    /\ slot' = PreparedSlot(kind)
    /\ UNCHANGED <<runtime, worker, reaper, object, critical, client, told>>

\* tune() cancels a Running scan session with the generation it has just
\* fenced, which cancel_scan_session refuses: the object is quarantined.
TuneOverRunningScan(t, r) ==
    /\ BeginEnabled(t, "Tune", r)
    /\ ~PrepareFails("Tune")
    /\ session.phase = "Running"
    /\ slot' = PreparedSlot("Tune")
    /\ Fence("Idle", session)
    /\ object' = QuarantinedObject
    /\ UNCHANGED <<worker, reaper, critical, client, told>>

CancelledSession(s) == IF s.phase = "Running" THEN [s EXCEPT !.phase = "Cancelled"] ELSE s

Superseded(kind) == Owned(PreparedSlot(kind), Kinds)

Unfinished(ws) == {w \in ws : Running(w)}

StopFailed(ws) == \E w \in ws : Failed(w)

Continuation(kind, r) ==
    kind = "Scan" /\ session.phase = "LockedReported" /\ session.req = r

\* The workers of both kinds are cancelled and taken from their slots, behind
\* a new generation.
Supersede(t, kind, r, next) ==
    /\ BeginEnabled(t, kind, r)
    /\ ~PrepareFails(kind)
    /\ session.phase = "Running" => kind = "Scan" /\ session.gen = gen
    /\ Fence(next, CancelledSession(PreparedSession(kind)))
    /\ slot' = [k \in Kinds |-> 0]
    /\ worker' = Cancelled(Superseded(kind))
    /\ UNCHANGED <<reaper, told>>

\* The call keeps what it needs for the rest of its way, outside the lock.
Proceed(t, kind, r, p) ==
    /\ pc' = [pc EXCEPT ![t] = p]
    /\ call' = [call EXCEPT ![t] =
                   [kind |-> kind, req |-> r, gen |-> gen + 1, inc |-> object.inc,
                    tickets |-> Unfinished(Superseded(kind)), action |-> "Replace",
                    cont |-> Continuation(kind, r)]]
    /\ UNCHANGED <<object, critical>>

\* A superseded worker had ended in failure: the object is quarantined, or,
\* when another worker is still running, the service becomes critical.
SupersedeFailedWorker(t, kind, r) ==
    /\ StopFailed(Superseded(kind))
    /\ Supersede(t, kind, r, "Idle")
    /\ IF Unfinished(Superseded(kind)) = {}
         THEN object' = QuarantinedObject /\ UNCHANGED critical
         ELSE critical' = TRUE /\ UNCHANGED object
    /\ UNCHANGED client

\* Resetting the bound demuxes fails: the object is quarantined and the
\* workers still running are given up.
SupersedeBoundaryFails(t, kind, r) ==
    /\ "boundary" \in Faults
    /\ ~StopFailed(Superseded(kind))
    /\ ~Continuation(kind, r)
    /\ Supersede(t, kind, r, "Idle")
    /\ object' = QuarantinedObject
    /\ UNCHANGED <<critical, client>>

\* A superseded worker is still running: the call fails and will hand the
\* worker to the reaper.
SupersedeRunning(t, kind, r) ==
    /\ ~StopFailed(Superseded(kind))
    /\ Unfinished(Superseded(kind)) # {}
    /\ Supersede(t, kind, r, "Failed")
    /\ Proceed(t, kind, r, "enqueue")

\* No superseded worker is running: the call goes on to start its own.
SupersedeIdle(t, kind, r) ==
    /\ ~StopFailed(Superseded(kind))
    /\ Unfinished(Superseded(kind)) = {}
    /\ Supersede(t, kind, r, "Idle")
    /\ Proceed(t, kind, r, "finish")

-----------------------------------------------------------------------------
\* tune and scan: the section that submits to the backend and commits.

\* ensure_frontend_ticket_still_targets_object and the generation check.
StillTarget(t) ==
    /\ object = [inc |-> call[t].inc, life |-> "Live"]
    /\ gen = call[t].gen
    /\ ~reader

AbandonFinish(t) ==
    /\ pc[t] = "finish"
    /\ ~StillTarget(t)
    /\ Idle(t)
    /\ UNCHANGED <<runtime, workers, reaper, object, critical, told>>

\* commit_tune_after_fence and commit_scan_after_fence; the worker owns the
\* backend session.
CommitOperation(t) ==
    LET c == call[t] IN
    /\ pc[t] = "finish"
    /\ StillTarget(t)
    /\ ~c.cont
    /\ state' = IF c.kind = "Tune" THEN "Tuning" ELSE "Scanning"
    /\ reader' = TRUE
    /\ request' = IF c.kind = "Tune" THEN c.req ELSE None
    /\ session' = IF c.kind = "Tune" THEN NoSession
                  ELSE [gen |-> gen, req |-> c.req, phase |-> "Running", index |-> 0]
    /\ slot' = [slot EXCEPT ![c.kind] = gen]
    /\ worker' = [worker EXCEPT ![gen] = [NoWorker EXCEPT !.kind = c.kind, !.pc = "wait"]]
    /\ Idle(t)
    /\ UNCHANGED <<gen, qualified, reaper, object, critical, told>>

\* Mutant: the forgotten job is not reported.
EnqueueDropsSilently(job) ==
    /\ UNCHANGED critical
    /\ IF pending \cap job.keys # {} THEN UNCHANGED reaper
       ELSE jobs' = jobs \cup {job} /\ pending' = pending \cup job.keys

\* WorkerRuntimeReaperQueue::enqueue_reserved: a key that is already pending
\* makes it forget the job, and the caller marks the service critical.
EnqueueJob(job) ==
    IF pending \cap job.keys # {}
      THEN critical' = TRUE /\ UNCHANGED reaper
      ELSE /\ jobs' = jobs \cup {job}
           /\ pending' = pending \cup job.keys
           /\ UNCHANGED critical

\* The job that joins the timed-out submit of generation g.
SubmitJob(kind, g, inc) ==
    [keys |-> {kind}, tickets |-> {Submit(g)}, gen |-> g, inc |-> inc,
     action |-> "Submit", late |-> FALSE, reaped |-> FALSE]

\* The backend refuses the request ("Rejected": it was rolled back), fails
\* in an unknown state, or does not answer in time.
SubmitFails(t, outcome) ==
    LET c == call[t] IN
    /\ "submit" \in Faults
    /\ pc[t] = "finish"
    /\ StillTarget(t)
    /\ ~c.cont
    /\ session' = NoSession
    /\ state' = IF outcome = "Rejected" THEN "Idle" ELSE "Failed"
    /\ IF outcome = "TimedOut"
         THEN /\ EnqueueJob(SubmitJob(c.kind, gen, object.inc))
              /\ worker' = [worker EXCEPT ![Submit(gen)].pc = "submit"]
         ELSE UNCHANGED <<reaper, critical, worker>>
    /\ Idle(t)
    /\ UNCHANGED <<gen, reader, request, qualified, slot, object, told>>

\* complete_locked_scan_continuation_after_fence: scan() of the request that
\* has just reported LOCKED ends the scan without a search.
CompleteContinuation(t) ==
    LET c == call[t] IN
    /\ pc[t] = "finish"
    /\ StillTarget(t)
    /\ c.cont
    /\ session' = [gen |-> gen, req |-> c.req, phase |-> "Completed", index |-> 0]
    /\ pc' = [pc EXCEPT ![t] = "send"]
    /\ UNCHANGED <<gen, state, reader, request, qualified, workers, reaper, object,
                   critical, call, told>>

\* accept_operation_event: the generation is checked under the lock and the
\* callback is made after its release.
SendCheck(t) ==
    /\ pc[t] = "send"
    /\ IF gen = call[t].gen THEN pc' = [pc EXCEPT ![t] = "callback"] /\ UNCHANGED call
                            ELSE Idle(t)
    /\ UNCHANGED <<runtime, workers, reaper, object, critical, told>>

SendCallback(t) ==
    /\ pc[t] = "callback"
    /\ told' = IF call[t].cont THEN [told EXCEPT ![call[t].gen] = @ + 1] ELSE told
    /\ Idle(t)
    /\ UNCHANGED <<runtime, workers, reaper, object, critical>>

\* The hand-over of the unfinished workers, outside the lock.
Enqueue(t) ==
    LET c == call[t] IN
    /\ pc[t] = "enqueue"
    /\ EnqueueJob([keys |-> IF c.action = "Stop" THEN {c.kind} ELSE Kinds,
                   tickets |-> c.tickets, gen |-> c.gen, inc |-> c.inc,
                   action |-> c.action, late |-> FALSE, reaped |-> FALSE])
    /\ IF c.action = "Close"
         THEN pc' = [pc EXCEPT ![t] = "closeFailed"] /\ call' = [call EXCEPT ![t] = NoCall]
         ELSE Idle(t)
    /\ UNCHANGED <<runtime, workers, object, told>>

-----------------------------------------------------------------------------
\* stopTune and stopScan.

\* stopTune() first looks, in a lock section of its own, whether a scan is in
\* force, which it leaves alone.
StopTuneCheck(t) ==
    /\ Dispatched(t, "stopTune")
    /\ state # "Scanning"
    /\ pc' = [pc EXCEPT ![t] = "stopTune"]
    /\ UNCHANGED <<runtime, workers, reaper, object, critical, call, told>>

StopRequested(t, kind) ==
    IF kind = "Tune" THEN pc[t] = "stopTune" ELSE Dispatched(t, "stopScan")

\* A stop that is refused, or has nothing to do because the reaper already
\* owns the worker.
StopReturns(t, kind) ==
    /\ StopRequested(t, kind)
    /\ \/ object.life # "Live"
       \/ kind \in pending
       \/ PrepareFails(kind)
       \/ kind = "Scan" /\ session.phase = "Running" /\ session.gen # gen
       \/ kind = "Tune" /\ gen >= MaxGen
    /\ slot' = IF object.life = "Live" /\ kind \notin pending /\ gen < MaxGen
                THEN PreparedSlot(kind) ELSE slot
    /\ Idle(t)
    /\ UNCHANGED <<runtime, worker, reaper, object, critical, told>>

\* stop_frontend_object_without_join: fence the generation, cancel the worker
\* of this kind, stop the data, and hand a running worker to the reaper.
StopOperation(t, kind) ==
    LET left == Unfinished(Owned(slot, {kind})) IN
    /\ StopRequested(t, kind)
    /\ object.life = "Live"
    /\ kind \notin pending
    /\ ~PrepareFails(kind)
    /\ gen < MaxGen
    /\ kind = "Scan" /\ session.phase = "Running" => session.gen = gen
    /\ Fence("Idle", IF kind = "Scan" THEN CancelledSession(PreparedSession(kind)) ELSE session)
    /\ slot' = [slot EXCEPT ![kind] = 0]
    /\ worker' = Cancelled(left)
    /\ \/ UNCHANGED object
       \/ "boundary" \in Faults /\ kind = "Tune" /\ object' = QuarantinedObject
    /\ IF left = {} THEN Idle(t)
       ELSE /\ pc' = [pc EXCEPT ![t] = "enqueue"]
            /\ call' = [call EXCEPT ![t] = [NoCall EXCEPT !.kind = kind, !.gen = gen + 1,
                          !.inc = object.inc, !.tickets = left, !.action = "Stop"]]
    /\ UNCHANGED <<reaper, critical, told>>

-----------------------------------------------------------------------------
\* close, its retries, and the next openFrontend.

BeginClose(t) ==
    /\ "close" \in Calls
    /\ pc[t] = "idle"
    /\ ~critical
    /\ object.life \in {"Live", "CleanupPending"}
    /\ object' = [object EXCEPT !.life = "Closing"]
    /\ pc' = [pc EXCEPT ![t] = "closeCheck"]
    /\ UNCHANGED <<runtime, workers, reaper, critical, call, told>>

\* The reaper is asked without the runtime lock.
CloseCheck(t) ==
    /\ pc[t] = "closeCheck"
    /\ pc' = [pc EXCEPT ![t] = IF pending = {} THEN "closeFence" ELSE "closeFailed"]
    /\ UNCHANGED <<runtime, workers, reaper, object, critical, call, told>>

\* close_frontend_workers_and_live_data_with_sink, under the lock.
CloseFence(t) ==
    LET owned == Owned(PreparedSlot("Tune"), Kinds) IN
    /\ pc[t] = "closeFence"
    /\ IF PrepareFails("Tune")
         THEN /\ slot' = PreparedSlot("Tune")
              /\ pc' = [pc EXCEPT ![t] = "closeFailed"]
              /\ UNCHANGED <<runtime, worker, call>>
         ELSE /\ Fence("Closing", session)
              /\ slot' = [k \in Kinds |-> 0]
              /\ worker' = Cancelled(owned)
              /\ pc' = [pc EXCEPT ![t] = "closeJoin"]
              /\ call' = [call EXCEPT ![t] = [NoCall EXCEPT !.gen = gen + 1,
                            !.inc = object.inc, !.tickets = owned, !.action = "Close"]]
    /\ UNCHANGED <<reaper, object, critical, told>>

\* The tickets are polled once, after the lock has been released.
CloseJoin(t) ==
    LET ws == call[t].tickets IN
    /\ pc[t] = "closeJoin"
    /\ IF Unfinished(ws) # {}
         THEN pc' = [pc EXCEPT ![t] = "enqueue"] /\ UNCHANGED call
         ELSE /\ pc' = [pc EXCEPT ![t] = IF StopFailed(ws) THEN "closeFailed" ELSE "closeDone"]
              /\ call' = [call EXCEPT ![t] = NoCall]
    /\ UNCHANGED <<runtime, workers, reaper, object, critical, told>>

\* finish_object_close: an object quarantined meanwhile stays so.
FinishClose(t) ==
    /\ pc[t] \in {"closeDone", "closeFailed"}
    /\ object' = IF object.life # "Closing" THEN object
                 ELSE [object EXCEPT !.life = IF pc[t] = "closeDone" THEN "Closed"
                                                                     ELSE "CleanupPending"]
    /\ Idle(t)
    /\ UNCHANGED <<runtime, workers, reaper, critical, told>>

\* The cleanup reaper gives up retrying.
CloseDeadline ==
    /\ "deadline" \in Faults
    /\ object.life = "CleanupPending"
    /\ object' = [object EXCEPT !.life = "Quarantined"]
    /\ UNCHANGED <<runtime, workers, reaper, critical, client, told>>

OpenFrontend ==
    /\ object.life = "Closed"
    /\ object.inc < Opens
    /\ object' = [inc |-> object.inc + 1, life |-> "Live"]
    /\ UNCHANGED <<runtime, workers, reaper, critical, client, told>>

-----------------------------------------------------------------------------
\* The worker threads.

At(g, kind, p) == worker[g].kind = kind /\ worker[g].pc = p

Go(g, p) == worker' = [worker EXCEPT ![g].pc = p]

Fail(g, p) == worker' = [worker EXCEPT ![g].pc = p, ![g].err = TRUE]

\* Where a worker goes when its body ends: a tune worker with a pump joins it.
BodyEnd(g) == IF worker[g].kind = "Tune" THEN "drain" ELSE "close"

WorkerOnly == UNCHANGED <<slot, reaper, object, critical, client>>

\* One observation of the backend; cancellation is looked at first.
Observe(g) ==
    /\ worker[g].pc = "wait"
    /\ \/ worker[g].cancel /\ Go(g, BodyEnd(g))
       \/ ~worker[g].cancel /\ Go(g, "locked")
       \/ ~worker[g].cancel /\ Go(g, "unlocked")
       \/ ~worker[g].cancel /\ worker[g].lock # "announced" /\ Go(g, "noSignal")
       \/ ~worker[g].cancel /\ "observe" \in Faults /\ Fail(g, "exit")
    /\ WorkerOnly
    /\ UNCHANGED <<runtime, told>>

\* After a recorded observation (frontend_lock_transition for a tune worker).
Recorded(w) ==
    IF w.kind = "Scan"
      THEN CASE w.pc = "locked"   -> "closeLocked"
             [] w.pc = "noSignal" -> "close"
             [] OTHER             -> "wait"
      ELSE CASE w.pc = "locked" /\ w.lock # "announced"   -> "qualify"
             [] w.pc = "unlocked" /\ w.lock = "announced" -> "sendLost"
             [] w.pc = "unlocked" /\ w.lock = "never"     -> "wait"
             [] w.pc = "noSignal"                         -> "sendNoSignal"
             [] OTHER                                     -> "pump"

\* record_signal_state: an observation of a superseded generation is an error.
Record(g) ==
    /\ worker[g].pc \in {"locked", "unlocked", "noSignal"}
    /\ IF gen = g
         THEN /\ qualified' = (qualified /\ worker[g].pc = "locked")
              /\ Go(g, Recorded(worker[g]))
         ELSE Fail(g, "exit") /\ UNCHANGED qualified
    /\ WorkerOnly
    /\ UNCHANGED <<gen, state, reader, request, session, told>>

\* record_tune_lock_qualified.
Qualify(g) ==
    /\ At(g, "Tune", "qualify")
    /\ IF worker[g].cancel THEN Go(g, "drain") /\ UNCHANGED qualified
       ELSE IF gen = g /\ state = "Tuning"
              THEN Go(g, "sendLocked") /\ qualified' = TRUE
              ELSE Fail(g, "exit") /\ UNCHANGED qualified
    /\ WorkerOnly
    /\ UNCHANGED <<gen, state, reader, request, session, told>>

Sends == {"sendLocked", "sendLost", "sendNoSignal", "sendEnd"}

CallOf(p) == CASE p = "sendLocked"   -> "callLocked"
               [] p = "sendLost"     -> "callLost"
               [] p = "sendNoSignal" -> "callNoSignal"
               [] p = "sendEnd"      -> "callEnd"

\* What follows a notification, delivered or discarded as stale.
AfterSend(g, p) ==
    LET w == worker[g] IN
    IF w.kind = "Scan" THEN Go(g, "terminal")
    ELSE worker' = [worker EXCEPT
           ![g].lock = IF p \in {"sendLocked", "callLocked"} THEN "announced"
                       ELSE IF p \in {"sendLost", "callLost"} THEN "lost" ELSE @,
           ![g].pc   = IF p \in {"sendNoSignal", "callNoSignal"} THEN "mark"
                       ELSE IF w.lock = "never" THEN "wait" ELSE "pump"]

Send(g) ==
    /\ worker[g].pc \in Sends
    /\ IF gen = g THEN Go(g, CallOf(worker[g].pc)) ELSE AfterSend(g, worker[g].pc)
    /\ WorkerOnly
    /\ UNCHANGED <<runtime, told>>

Calling(g) == \E p \in Sends : worker[g].pc = CallOf(p)

Deliver(g) ==
    /\ Calling(g)
    /\ AfterSend(g, worker[g].pc)
    /\ told' = IF worker[g].kind = "Scan" THEN [told EXCEPT ![g] = @ + 1] ELSE told
    /\ WorkerOnly
    /\ UNCHANGED runtime

\* Mutant: the generation is not compared again after the notification.
MarkNoSignalUnfenced(g) ==
    /\ At(g, "Tune", "mark")
    /\ IF state = "Tuning"
         THEN /\ state' = "Idle"
              /\ reader' = FALSE
              /\ request' = None
              /\ qualified' = FALSE
              /\ Go(g, "drain")
         ELSE Fail(g, "exit") /\ UNCHANGED <<state, reader, request, qualified>>
    /\ WorkerOnly
    /\ UNCHANGED <<gen, session, told>>

\* mark_tune_no_signal, after the NO_SIGNAL notification.
MarkNoSignal(g) ==
    /\ At(g, "Tune", "mark")
    /\ IF gen = g /\ state = "Tuning"
         THEN /\ state' = "Idle"
              /\ reader' = FALSE
              /\ request' = None
              /\ qualified' = FALSE
              /\ Go(g, "drain")
         ELSE Fail(g, "exit") /\ UNCHANGED <<state, reader, request, qualified>>
    /\ WorkerOnly
    /\ UNCHANGED <<gen, session, told>>

\* The live pump of a tune worker: started once a demux is bound, and
\* collected when it reaches the end of its input.
Pump(g) ==
    /\ At(g, "Tune", "pump")
    /\ \/ Go(g, "wait")
       \/ /\ ~worker[g].pump /\ reader
          /\ worker' = [worker EXCEPT ![g].pc = "wait", ![g].pump = TRUE]
       \/ /\ worker[g].pump
          /\ worker' = [worker EXCEPT ![g].pump = FALSE, ![g].err = (gen # g),
                                      ![g].pc = IF gen = g THEN "drain" ELSE "exit"]
       \/ /\ worker[g].pump /\ "observe" \in Faults
          /\ worker' = [worker EXCEPT ![g].pump = FALSE, ![g].err = TRUE, ![g].pc = "exit"]
    /\ WorkerOnly
    /\ UNCHANGED <<runtime, told>>

\* The pump is joined and its report recorded; record_live_pump_report
\* refuses the report of a superseded generation.
Drain(g) ==
    /\ At(g, "Tune", "drain")
    /\ worker' = [worker EXCEPT ![g].pc = "exit", ![g].pump = FALSE,
                                ![g].err = worker[g].pump /\ gen # g]
    /\ WorkerOnly
    /\ UNCHANGED <<runtime, told>>

\* finish_backend_session_after_worker_body.
Exit(g) ==
    /\ worker[g].pc = "exit"
    /\ \/ Go(g, "terminal")
       \/ "stop" \in Faults /\ Fail(g, "terminal")
    /\ WorkerOnly
    /\ UNCHANGED <<runtime, told>>

\* A scan candidate is done with: its backend session is closed, then the
\* cancellation is looked at.
CloseCandidate(g) ==
    /\ worker[g].pc \in {"close", "closeLocked"}
    /\ \/ Go(g, IF worker[g].cancel THEN "terminal"
                ELSE IF worker[g].pc = "closeLocked" THEN "markLocked" ELSE "advance")
       \/ "stop" \in Faults /\ Fail(g, "terminal")
    /\ WorkerOnly
    /\ UNCHANGED <<runtime, told>>

\* mark_scan_session_locked_reported.
MarkLocked(g) ==
    /\ At(g, "Scan", "markLocked")
    /\ IF gen = g /\ session.gen = g /\ session.phase = "Running"
         THEN /\ session' = [session EXCEPT !.phase = "LockedReported"]
              /\ state' = "Idle"
              /\ reader' = FALSE
              /\ Go(g, "sendLocked")
         ELSE Fail(g, "terminal") /\ UNCHANGED <<session, state, reader>>
    /\ WorkerOnly
    /\ UNCHANGED <<gen, request, qualified, told>>

\* advance_scan_session_after_candidate.
Advance(g) ==
    /\ At(g, "Scan", "advance")
    /\ IF gen = g /\ session.gen = g /\ session.phase = "Running"
         THEN IF session.index + 1 < Candidates
                THEN /\ session' = [session EXCEPT !.index = @ + 1]
                     /\ Go(g, "submit")
                     /\ UNCHANGED state
                ELSE /\ session' = [session EXCEPT !.index = @ + 1, !.phase = "Completed"]
                     /\ state' = "Idle"
                     /\ Go(g, "sendEnd")
         ELSE Fail(g, "terminal") /\ UNCHANGED <<session, state>>
    /\ WorkerOnly
    /\ UNCHANGED <<gen, reader, request, qualified, told>>

\* The next candidate is submitted without the lock; cancellation is looked
\* at before.
SubmitCandidate(g) ==
    /\ At(g, "Scan", "submit")
    /\ \/ worker[g].cancel /\ Go(g, "terminal")
       \/ ~worker[g].cancel /\ Go(g, "wait")
       \/ ~worker[g].cancel /\ "submit" \in Faults
          /\ \E p \in {"rejected", "unknown", "timedOut"} : Go(g, p)
    /\ WorkerOnly
    /\ UNCHANGED <<runtime, told>>

\* The failed submit of a candidate is recorded, and a timed-out one handed
\* to the reaper, unless the scan has been superseded.
CandidateFailed(g) ==
    LET current == gen = g /\ session.gen = g IN
    /\ worker[g].pc \in {"rejected", "unknown", "timedOut"}
    /\ session' = IF current THEN [session EXCEPT !.phase = "FailedBackend"] ELSE session
    /\ reader' = (reader /\ ~current)
    /\ state' = IF ~current THEN state ELSE IF worker[g].pc = "rejected" THEN "Idle" ELSE "Failed"
    /\ IF worker[g].pc = "timedOut"
         THEN /\ EnqueueJob(SubmitJob("Scan", g, object.inc))
              /\ worker' = [worker EXCEPT ![g].pc = "terminal", ![g].err = TRUE,
                                          ![Submit(g)].pc = "submit"]
         ELSE Fail(g, "terminal") /\ UNCHANGED <<reaper, critical>>
    /\ UNCHANGED <<gen, request, qualified, slot, object, client, told>>

\* accept_worker_terminal: a failure counts only while its operation is in
\* force.  Then the thread ends.
Terminal(g) ==
    LET accepted == gen = g /\ state \in {"Tuning", "Scanning"} /\ worker[g].err IN
    /\ worker[g].pc = "terminal"
    /\ worker' = [worker EXCEPT ![g] = [NoWorker EXCEPT !.kind = worker[g].kind, !.pc = "done",
                                                        !.err = worker[g].err]]
    /\ IF accepted
         THEN /\ state' = "Failed"
              /\ reader' = FALSE
              /\ qualified' = FALSE
              /\ session' = IF worker[g].kind = "Scan"
                              THEN [session EXCEPT !.phase = "FailedBackend"] ELSE session
         ELSE UNCHANGED <<state, reader, qualified, session>>
    /\ WorkerOnly
    /\ UNCHANGED <<gen, request, told>>

\* The timed-out submit returns at last.
SubmitReturns(w) ==
    /\ worker[w].pc = "submit" /\ w > MaxGen
    /\ Go(w, "done")
    /\ WorkerOnly
    /\ UNCHANGED <<runtime, told>>

-----------------------------------------------------------------------------
\* The reaper.

Joined(job) == \A w \in job.tickets : ~Running(w)

\* Mutant: the keys are freed by the completion of a stop only.
ReapKeepsKeys(job) ==
    /\ ~job.reaped
    /\ Joined(job)
    /\ pending' = IF job.action = "Stop" THEN pending \ job.keys ELSE pending
    /\ jobs' = (jobs \ {job}) \cup
                 (IF job.action = "Stop" THEN {[job EXCEPT !.reaped = TRUE]} ELSE {})
    /\ UNCHANGED <<runtime, workers, object, critical, client, told>>

\* FrontendWorkerReaperJob::run frees the keys before it runs the completion;
\* only the completion of a stop touches the frontend.
Reap(job) ==
    /\ ~job.reaped
    /\ Joined(job)
    /\ pending' = pending \ job.keys
    /\ jobs' = (jobs \ {job}) \cup
                 (IF job.action = "Stop" THEN {[job EXCEPT !.reaped = TRUE]} ELSE {})
    /\ UNCHANGED <<runtime, workers, object, critical, client, told>>

\* record_frontend_stop_reaper_completion.
CompleteStop(job) ==
    /\ job.reaped
    /\ jobs' = jobs \ {job}
    /\ object' = IF (StopFailed(job.tickets) \/ job.late) /\ object.inc = job.inc
                   THEN QuarantinedObject ELSE object
    /\ UNCHANGED <<runtime, workers, pending, critical, client, told>>

\* handle_frontend_worker_reaper_deadline.
ReapDeadline(job) ==
    /\ "deadline" \in Faults
    /\ ~job.late /\ ~job.reaped /\ ~Joined(job)
    /\ jobs' = (jobs \ {job}) \cup {[job EXCEPT !.late = TRUE]}
    /\ IF gen >= job.gen /\ ~reader
         THEN /\ object' = IF object.inc = job.inc THEN QuarantinedObject ELSE object
              /\ UNCHANGED critical
         ELSE critical' = TRUE /\ UNCHANGED object
    /\ UNCHANGED <<runtime, workers, pending, client, told>>

-----------------------------------------------------------------------------
Begin(t) ==
    \E r \in Requests :
      \/ ReenterTune(t, r)
      \/ TuneOverRunningScan(t, r)
      \/ \E kind \in Kinds :
           \/ RefuseBegin(t, kind, r)
           \/ SupersedeFailedWorker(t, kind, r)
           \/ SupersedeBoundaryFails(t, kind, r)
           \/ SupersedeRunning(t, kind, r)
           \/ SupersedeIdle(t, kind, r)

\* The steps of a call that has begun.
CallStep(t) ==
    \/ AbandonFinish(t)
    \/ CommitOperation(t)
    \/ \E outcome \in {"Rejected", "Unknown", "TimedOut"} : SubmitFails(t, outcome)
    \/ CompleteContinuation(t)
    \/ SendCheck(t)
    \/ SendCallback(t)
    \/ Enqueue(t)
    \/ pc[t] = "stopTune" /\ (StopReturns(t, "Tune") \/ StopOperation(t, "Tune"))
    \/ CloseCheck(t)
    \/ CloseFence(t)
    \/ CloseJoin(t)
    \/ FinishClose(t)

Stop(t) ==
    \/ StopTuneCheck(t)
    \/ StopReturns(t, "Scan")
    \/ StopOperation(t, "Scan")

WorkerStep(g) ==
    \/ Observe(g)
    \/ Record(g)
    \/ Qualify(g)
    \/ Send(g)
    \/ Deliver(g)
    \/ MarkNoSignal(g)
    \/ Pump(g)
    \/ Drain(g)
    \/ Exit(g)
    \/ CloseCandidate(g)
    \/ MarkLocked(g)
    \/ Advance(g)
    \/ SubmitCandidate(g)
    \/ CandidateFailed(g)
    \/ Terminal(g)

ReaperStep == \E job \in jobs : Reap(job) \/ CompleteStop(job) \/ ReapDeadline(job)

Next ==
    \/ \E t \in Threads : Begin(t) \/ CallStep(t) \/ Stop(t) \/ BeginClose(t)
    \/ CloseDeadline
    \/ OpenFrontend
    \/ \E g \in Gens : WorkerStep(g)
    \/ \E w \in DOMAIN worker : SubmitReturns(w)
    \/ ReaperStep

Spec == Init /\ [][Next]_vars

-----------------------------------------------------------------------------
\* Fairness: the threads of the process are scheduled, the worker threads
\* look at their cancellation at every turn, a backend submit returns in the
\* end, and the cleanup reaper retries a close that is pending.
RetryClose(t) == object.life = "CleanupPending" /\ BeginClose(t)

FairSpec ==
    /\ Spec
    /\ \A t \in Threads : WF_vars(CallStep(t))
    /\ WF_vars(\E t \in Threads : RetryClose(t))
    /\ \A g \in Gens : WF_vars(WorkerStep(g))
    /\ \A w \in (MaxGen + 1)..(2 * MaxGen) : WF_vars(SubmitReturns(w))
    /\ WF_vars(ReaperStep)

-----------------------------------------------------------------------------
WorkerPcs == {"none", "wait", "locked", "unlocked", "noSignal", "qualify", "sendLocked",
              "sendLost", "sendNoSignal", "sendEnd", "callLocked", "callLost",
              "callNoSignal", "callEnd", "mark", "pump", "drain", "exit", "close",
              "closeLocked", "markLocked", "advance", "submit", "rejected", "unknown",
              "timedOut", "terminal", "done"}

ThreadPcs == {"idle", "enqueue", "finish", "send", "callback", "stopTune", "closeCheck",
              "closeFence", "closeJoin", "closeDone", "closeFailed"}

JobType == [keys : SUBSET Kinds, tickets : SUBSET (1..(2 * MaxGen)), gen : 0..TopGen,
            inc : 1..Opens, action : {"Replace", "Stop", "Close", "Submit"},
            late : BOOLEAN, reaped : BOOLEAN]

\* The state of the frontend runtime, its workers, the reaper and the callers
\* stays within its type.
TypeOK ==
    /\ gen \in 0..TopGen
    /\ state \in {"Idle", "Tuning", "Scanning", "Closing", "Failed"}
    /\ reader \in BOOLEAN
    /\ request \in Requests \cup {None}
    /\ qualified \in BOOLEAN
    /\ session \in [gen : 0..MaxGen, req : Requests \cup {None}, phase : Phases,
                    index : 0..Candidates]
    /\ slot \in [Kinds -> 0..MaxGen]
    /\ worker \in [1..(2 * MaxGen) -> [kind : Kinds, pc : WorkerPcs, cancel : BOOLEAN,
                     lock : {"never", "announced", "lost"}, pump : BOOLEAN, err : BOOLEAN]]
    /\ jobs \subseteq JobType
    /\ pending \subseteq Kinds
    /\ object \in [inc : 1..Opens,
                   life : {"Live", "Closing", "CleanupPending", "Closed", "Quarantined"}]
    /\ critical \in BOOLEAN
    /\ pc \in [Threads -> ThreadPcs]
    /\ call \in [Threads -> [kind : Kinds, req : Requests \cup {None}, gen : 0..TopGen,
                   inc : 0..Opens, tickets : SUBSET (1..MaxGen),
                   action : {"None", "Replace", "Stop", "Close"}, cont : BOOLEAN]]
    /\ told \in [Gens -> Nat]

\* Who is responsible for joining worker w: a registry slot, a call that has
\* taken it out of its slot, or a job of the reaper.
Owners(w) ==
    {k \in Kinds : slot[k] = w}
      \cup {t \in Threads : w \in call[t].tickets}
      \cup {job \in jobs : w \in job.tickets}

\* A worker thread is never joined twice, and one that runs is never lost:
\* it has an owner unless the HAL has said so, by making the service critical
\* or quarantining the frontend.
WorkerOwned ==
    \A w \in DOMAIN worker :
      /\ Cardinality(Owners(w)) <= 1
      /\ Running(w) => Owners(w) # {} \/ critical \/ object.life = "Quarantined"

\* While a tune or a scan is in force, the registry holds the worker of that
\* very generation, and a scan has the Running session of that generation.
OperationHasWorker ==
    /\ state = "Tuning" => slot["Tune"] = gen
    /\ state = "Scanning" => /\ slot["Scan"] = gen
                             /\ session.gen = gen
                             /\ session.phase = "Running"

\* A scan tells its result, LOCKED or END, at most once: a worker that has
\* reported LOCKED does not also report END, and a continuation's END is not
\* repeated by a worker.
OneScanResult == \A g \in Gens : told[g] <= 1

\* A worker of a superseded generation changes nothing of the frontend
\* runtime, whatever it was doing when it was superseded.
StaleWorkerInert ==
    [][\A g \in Gens : Running(g) /\ worker'[g].pc # worker[g].pc /\ gen # g
         => UNCHANGED runtime]_vars

\* A worker holds the backend session from its start until it closes it.
HoldsBackend(w) ==
    \/ worker[w].pc \in {"wait", "locked", "unlocked", "noSignal", "qualify", "mark", "pump",
                         "drain", "exit", "close", "closeLocked"}
    \/ worker[w].kind = "Tune" /\ (worker[w].pc \in Sends \/ Calling(w))
    \/ w > MaxGen /\ worker[w].pc = "submit"

\* The backend of the frontend is driven by one worker at a time: a new
\* session is not opened before the superseded one has been given up.
OneBackendSession ==
    \A v, w \in DOMAIN worker : HoldsBackend(v) /\ HoldsBackend(w) => v = w

\* The reaper gives every key back: a superseded worker ends and is joined.
ReaperDrains == (pending # {}) ~> (pending = {})

\* A close that has begun ends: the frontend becomes Closed or Quarantined,
\* or the service is critical.
CloseEnds ==
    (object.life \in {"Closing", "CleanupPending"})
      ~> (object.life \in {"Closed", "Quarantined"} \/ critical)

\* A running worker and an operation in force belong together: the registry
\* loses no worker and shows no operation without its own.
WorkersAccounted == WorkerOwned /\ OperationHasWorker

\* One session drives the backend, and one result ends a scan.
OneSessionOneResult == OneBackendSession /\ OneScanResult

\* What the reaper has been given and a close that has begun both end.
WorkEnds == ReaperDrains /\ CloseEnds
=============================================================================
