----------------------------- MODULE ObjectClose -----------------------------
(***************************************************************************)
(* The life of the public objects of the Tuner HAL: the object table, the  *)
(* close transaction with its cleanup attempts, the cleanup reaper, Drop,  *)
(* the opening of child objects and the callback store.                    *)
(*                                                                         *)
(* Every action is one section under the service runtime lock (or under    *)
(* the callback store lock); between two of them other threads run.  An    *)
(* object is one incarnation: an (id, generation) pair is never used again.*)
(***************************************************************************)
EXTENDS Integers, FiniteSets

CONSTANTS
    Demuxes,      \* demux objects: roots that own a public runtime
    Children,     \* Filter and DVR objects
    Dvrs,         \* the children that are DVRs, with a status notifier
    Parent,       \* the demux of each child
    Frontends,    \* frontend objects: a domain cleanup, an idempotent close
    Clients,      \* Binder threads
    MaxFaults,    \* how many cleanup steps may fail
    MaxCalls      \* how many calls the clients make

ASSUME ParentAssumption == Parent \in [Children -> Demuxes]
ASSUME ObjectsAssumption ==
    /\ Children \cap (Demuxes \cup Frontends) = {} /\ Demuxes \cap Frontends = {}
    /\ Clients \cap (Demuxes \cup Children \cup Frontends) = {}
ASSUME ThreadNamesAssumption ==
    {"none", "idle"} \cap (Clients \cup Demuxes \cup Children \cup Frontends) = {}
ASSUME DvrsAssumption == Dvrs \subseteq Children
ASSUME BoundsAssumption == MaxFaults \in Nat /\ MaxCalls \in Nat

Objects == Demuxes \cup Children \cup Frontends

VARIABLES
    life,         \* RuntimeObjectLifecycle of each object
    registered,   \* objects whose public runtime (or backend) is held
    obligation,   \* CloseCleanupObligation: "none", "idle" or the thread of the active attempt
    callbacks,    \* owners of a committed artifact in CallbackStore
    prepared,     \* owners of a prepared artifact in CallbackStore
    retired,      \* CallbackStore::retired_callbacks is not empty
    batch,        \* its retirement batch: "none", "held" or "running"
    registry,     \* owners of a RuntimeCallbackRegistry entry
    jobs,         \* keys pending in the cleanup reaper
    dropped,      \* objects whose last Binder reference is gone
    critical,     \* ServiceState::ServiceCritical
    faults,       \* injected cleanup failures so far
    calls,        \* calls of the clients so far
    thread        \* what each Binder thread and each reaper lane is doing

tableVars == <<life, registered, obligation>>
storeVars == <<callbacks, prepared, retired, batch>>
callbackVars == <<storeVars, registry>>
vars == <<tableVars, callbackVars, jobs, dropped, critical, faults, calls, thread>>

\* The lane of the reaper that runs the job of o is named by o.
Threads == Clients \cup Objects

Terminal == {"Closed", "Quarantined"}
Cleaning == {"Closing", "CleanupPending"}
Lifecycles == {"Absent", "Prepared", "Live"} \cup Cleaning \cup Terminal

Closeable == {"Live"} \cup Cleaning

NoObject == "none"
Modes == {"close", "drop", "reap", "quarantine", "open", "setCallback"}
PCs == {"idle", "begin", "begun", "callback", "take", "release", "registry", "domain",
        "artifacts", "unregister", "finish", "failed", "enqueue", "prepare",
        "constructed", "publish", "rollback", "dropUnpublished", "setting", "registering"}

Idle == [pc |-> "idle", mode |-> "close", obj |-> NoObject, plan |-> {}, clear |-> FALSE,
         ok |-> TRUE]

At(t, p) == thread[t].pc = p
Obj(t) == thread[t].obj
Go(t, p) == thread' = [thread EXCEPT ![t].pc = p]
Return(t) == thread' = [thread EXCEPT ![t] = Idle]
Failing(t, p) == thread' = [thread EXCEPT ![t].pc = p, ![t].ok = FALSE]
Fail(t) == thread' = [thread EXCEPT ![t] = [Idle EXCEPT !.pc = "failed", !.obj = Obj(t),
                                                          !.mode = thread[t].mode]]
Call(t) == At(t, "idle") /\ calls < MaxCalls /\ calls' = calls + 1
Fault == faults < MaxFaults /\ faults' = faults + 1

Descendants(o) == {c \in Children : Parent[c] = o /\ life[c] /= "Absent"}

\* Mutant: a close does not reach the children.
RootOnly(o) == {o}

Cascade(o) == Descendants(o) \cup {o}

Init ==
    /\ life = [o \in Objects |-> "Absent"]
    /\ registered = {}
    /\ obligation = [o \in Objects |-> "none"]
    /\ callbacks = {} /\ prepared = {} /\ registry = {}
    /\ retired = FALSE /\ batch = "none"
    /\ jobs = {} /\ dropped = {} /\ critical = FALSE /\ faults = 0 /\ calls = 0
    /\ thread = [t \in Threads |-> Idle]

(***************************************************************************)
(* Opening objects.                                                        *)
(***************************************************************************)
OpenRoot(o) ==
    /\ o \in Demuxes \cup Frontends /\ life[o] = "Absent" /\ ~critical
    /\ life' = [life EXCEPT ![o] = "Live"]
    /\ registered' = registered \cup {o}
    /\ UNCHANGED <<obligation, callbackVars, jobs, dropped, critical, faults, calls, thread>>

\* ensure_owner_live_for
OwnerLive(c) == life[Parent[c]] = "Live"

\* openFilter and openDvr, the first section: the runtime of the child and a
\* Prepared entry of the object table.
OpenChild(t, c) ==
    /\ Call(t) /\ life[c] = "Absent" /\ ~critical
    /\ OwnerLive(c) /\ Parent[c] \notin dropped
    /\ life' = [life EXCEPT ![c] = "Prepared"]
    /\ registered' = registered \cup {c}
    /\ thread' = [thread EXCEPT ![t] = [Idle EXCEPT !.pc = "prepare", !.mode = "open",
                                                    !.obj = c]]
    /\ UNCHANGED <<obligation, callbackVars, jobs, dropped, critical, faults>>

\* next_prepared_token: the store issues none while retired callbacks wait
\* for their release.
StoreRefuses == batch /= "none" \/ retired

PrepareChildArtifact(t) ==
    /\ At(t, "prepare")
    /\ IF StoreRefuses THEN Go(t, "rollback") /\ UNCHANGED prepared
                       ELSE Go(t, "constructed") /\ prepared' = prepared \cup {Obj(t)}
    /\ UNCHANGED <<tableVars, callbacks, retired, batch, registry, jobs, dropped, critical, faults,
                   calls>>

\* The Binder object exists by now.  The commit ends with the release of
\* whatever is retired, and fails with it.
CommitChildArtifact(t) ==
    /\ At(t, "constructed")
    /\ callbacks' = callbacks \cup {Obj(t)} /\ prepared' = prepared \ {Obj(t)}
    /\ Go(t, "take")
    /\ UNCHANGED <<tableVars, retired, batch, registry, jobs, dropped, critical, faults,
                   calls>>

\* commit_prepared_child_object.  The entry is still Prepared: no close of
\* the owner starts while a child is.
PublishChild(t) ==
    /\ At(t, "publish") /\ life[Obj(t)] = "Prepared"
    /\ life' = [life EXCEPT ![Obj(t)] = "Live"]
    /\ Return(t)
    /\ UNCHANGED <<registered, obligation, callbackVars, jobs, dropped, critical, faults, calls>>

\* rollback_filter_child_open_after_aidl_failure: RuntimeObjectTable::remove
\* refuses an entry that is not Live, so the Prepared entry stays; the
\* runtime of the child goes.
RollbackChild(t) ==
    /\ At(t, "rollback")
    /\ registered' = registered \ {Obj(t)}
    /\ IF thread[t].ok THEN Return(t) ELSE Go(t, "dropUnpublished")
    /\ UNCHANGED <<life, obligation, callbackVars, jobs, dropped, critical, faults, calls>>

\* The constructed Binder object is dropped: its entry is neither terminal
\* nor closeable and has no cleanup dependency.
DropUnpublished(t) ==
    /\ At(t, "dropUnpublished")
    /\ critical' = TRUE
    /\ dropped' = dropped \cup {Obj(t)}
    /\ Return(t)
    /\ UNCHANGED <<tableVars, callbackVars, jobs, faults, calls>>

(***************************************************************************)
(* release_retired_callbacks, which every user of the store ends with: take *)
(* a batch under the store lock, release it outside, finish, and again.    *)
(***************************************************************************)
OwnsNotifiers(t) == \E e \in thread[t].plan \cap Dvrs : e /= Obj(t)
AfterDomain(t) == IF OwnsNotifiers(t) THEN "artifacts" ELSE "unregister"
AfterCallback(t) ==
    CASE thread[t].mode = "quarantine" -> "unregister"
      [] Obj(t) \in Frontends -> "domain"
      [] OTHER -> AfterDomain(t)

AfterRelease(t, ok) ==
    CASE thread[t].mode = "open" -> IF ok THEN Go(t, "publish") ELSE Failing(t, "rollback")
      [] thread[t].mode = "setCallback" -> Return(t)
      [] OTHER -> IF ok THEN Go(t, "registry") ELSE Failing(t, AfterCallback(t))

TakeRetired(t) ==
    /\ At(t, "take")
    /\ \/ batch = "running" /\ AfterRelease(t, FALSE) /\ UNCHANGED <<batch, retired>>
       \/ batch = "none" /\ ~retired /\ AfterRelease(t, TRUE) /\ UNCHANGED <<batch, retired>>
       \/ /\ batch = "held" \/ (batch = "none" /\ retired)
          /\ batch' = "running" /\ Go(t, "release")
          /\ retired' = (batch = "held" /\ retired)
    /\ UNCHANGED <<tableVars, callbacks, prepared, registry, jobs, dropped, critical, faults,
                   calls>>

\* A batch whose release fails is held for the next one who takes it.
ReleaseBatch(t) ==
    /\ At(t, "release")
    /\ \/ batch' = "none" /\ Go(t, "take") /\ UNCHANGED faults
       \/ batch' = "held" /\ AfterRelease(t, FALSE) /\ Fault
    /\ UNCHANGED <<tableVars, callbacks, prepared, retired, registry, jobs, dropped, critical,
                   calls>>

(***************************************************************************)
(* IFrontend.setCallback: the owner is Live, prepare in the store, one     *)
(* section under both locks, then the release of what was replaced.        *)
(***************************************************************************)
SetCallback(t, f) ==
    /\ Call(t) /\ life[f] = "Live" /\ f \notin dropped /\ ~critical
    /\ thread' = [thread EXCEPT ![t] = [Idle EXCEPT !.pc = "setting",
                                                    !.mode = "setCallback", !.obj = f]]
    /\ UNCHANGED <<tableVars, callbackVars, jobs, dropped, critical, faults>>

PrepareCallback(t) ==
    /\ At(t, "setting")
    /\ IF StoreRefuses \/ Obj(t) \in prepared
       THEN Go(t, "take") /\ UNCHANGED prepared
       ELSE Go(t, "registering") /\ prepared' = prepared \cup {Obj(t)}
    /\ UNCHANGED <<tableVars, callbacks, retired, batch, registry, jobs, dropped, critical, faults,
                   calls>>

\* The owner must still be Live.  The replaced or the aborted artifact is
\* retired, unless a close has retired the prepared one already.
CommitCallback(t) ==
    LET f == Obj(t) live == life[f] = "Live" IN
    /\ At(t, "registering")
    /\ callbacks' = IF live THEN callbacks \cup {f} ELSE callbacks
    /\ registry' = IF live THEN registry \cup {f} ELSE registry
    /\ retired' = (retired \/ (IF live THEN f \in callbacks ELSE f \in prepared))
    /\ prepared' = prepared \ {f}
    /\ Go(t, "take")
    /\ UNCHANGED <<tableVars, batch, jobs, dropped, critical, faults, calls>>

(***************************************************************************)
(* Beginning a close: begin_object_close_txn.                              *)
(***************************************************************************)
CascadeReady(o) ==
    /\ life[o] \in Closeable
    /\ \A c \in Descendants(o) : life[c] \in Closeable \cup Terminal

AuthorityFree(o) == obligation[o] \in {"none", "idle"}

\* Mutant: the entries that are terminal already are changed again.
AllEntries(o) == Cascade(o)

ActiveEntries(o) == {e \in Cascade(o) : life[e] \notin Terminal}

CanBegin(o) == CascadeReady(o) /\ AuthorityFree(o) /\ ~critical

\* The plan lists the entries and whether the root has a callback to clear.
BeginClose(t) ==
    LET o == Obj(t) IN
    /\ At(t, "begin") /\ CanBegin(o)
    /\ life' = [e \in Objects |-> IF e \in ActiveEntries(o) THEN "Closing" ELSE life[e]]
    /\ obligation' = [obligation EXCEPT ![o] = "idle"]
    /\ thread' = [thread EXCEPT ![t].pc = "begun", ![t].plan = ActiveEntries(o),
                                ![t].clear = (o \in registry)]
    /\ UNCHANGED <<registered, callbackVars, jobs, dropped, critical, faults, calls>>

RefuseClose(t) ==
    /\ At(t, "begin") /\ thread[t].mode /= "quarantine" /\ ~CanBegin(Obj(t))
    /\ Fail(t)
    /\ UNCHANGED <<tableVars, callbackVars, jobs, dropped, critical, faults, calls>>

\* A public close().  One of a terminal object is answered without a change.
Close(t, o) ==
    /\ Call(t) /\ o \notin dropped /\ life[o] \in Closeable
    /\ thread' = [thread EXCEPT ![t] = [Idle EXCEPT !.pc = "begin", !.mode = "close", !.obj = o]]
    /\ UNCHANGED <<tableVars, callbackVars, jobs, dropped, critical, faults>>

\* The last reference of o goes: no Binder thread is inside one of its
\* methods.  Nothing is left to do for an object that is terminal.
Drop(t, o) ==
    /\ Call(t) /\ o \notin dropped /\ life[o] \in Closeable
    /\ \A u \in Clients : Obj(u) /= o /\ ~(thread[u].mode = "open" /\ Parent[Obj(u)] = o)
    /\ dropped' = dropped \cup {o}
    /\ thread' = [thread EXCEPT ![t] = [Idle EXCEPT !.pc = "begin", !.mode = "drop", !.obj = o]]
    /\ UNCHANGED <<tableVars, callbackVars, jobs, critical, faults>>

(***************************************************************************)
(* A cleanup attempt.  Every step runs whether or not an earlier one       *)
(* failed.                                                                 *)
(***************************************************************************)
\* Mutant: an obligation whose attempt is active issues another one.
AnyAttempt(o) == obligation[o] /= "none"

OneAttempt(o) == obligation[o] = "idle"

BeginAttempt(t) ==
    LET o == Obj(t) IN
    /\ At(t, "begun")
    /\ IF life[o] \in Cleaning /\ OneAttempt(o)
       THEN /\ obligation' = [obligation EXCEPT ![o] = t]
            /\ thread' = [thread EXCEPT ![t].clear = FALSE,
                             ![t].pc = IF thread[t].clear THEN "callback" ELSE AfterCallback(t)]
       ELSE Fail(t) /\ UNCHANGED obligation
    /\ UNCHANGED <<life, registered, callbackVars, jobs, dropped, critical, faults, calls>>

\* clear_owner_callbacks, committed and prepared, then the release.
ClearCallback(t) ==
    LET f == Obj(t) IN
    /\ At(t, "callback")
    /\ callbacks' = callbacks \ {f} /\ prepared' = prepared \ {f}
    /\ retired' = (retired \/ f \in callbacks \cup prepared)
    /\ Go(t, "take")
    /\ UNCHANGED <<tableVars, batch, registry, jobs, dropped, critical, faults,
                   calls>>

\* finish_owner_callback_cleanup: only a complete release removes the
\* registry entry, and an entry that is already gone is an error.
ClearRegistry(t) ==
    /\ At(t, "registry")
    /\ registry' = registry \ {Obj(t)}
    /\ IF Obj(t) \in registry THEN Go(t, AfterCallback(t)) ELSE Failing(t, AfterCallback(t))
    /\ UNCHANGED <<tableVars, storeVars, jobs, dropped, critical, faults, calls>>

\* The frontend's workers, device and LNB leases, all or nothing here.  The
\* cleanup is refused once the object is terminal.
DomainCleanup(t) ==
    /\ At(t, "domain")
    /\ \/ /\ life[Obj(t)] \in Cleaning
          /\ registered' = registered \ {Obj(t)} /\ UNCHANGED faults
          /\ Go(t, "unregister")
       \/ life[Obj(t)] \in Cleaning /\ Fault /\ Failing(t, "unregister") /\ UNCHANGED registered
       \/ life[Obj(t)] \in Terminal /\ Failing(t, "unregister") /\ UNCHANGED <<registered, faults>>
    /\ UNCHANGED <<life, obligation, callbackVars, jobs, dropped, critical, calls>>

\* The status notifiers of the DVRs the cascade closes with their demux.
StopNotifiers(t) ==
    /\ At(t, "artifacts")
    /\ \/ Go(t, "unregister") /\ UNCHANGED faults
       \/ Fault /\ Failing(t, "unregister")
    /\ UNCHANGED <<tableVars, callbackVars, jobs, dropped, critical, calls>>

HasRuntime(e) == e \in registered /\ (e \in Children => Parent[e] \in registered)

\* Every entry is validated before the first one is unregistered; each of
\* them is then tried, and some may be rejected.
UnregisterRuntimes(t) ==
    LET entries == thread[t].plan \ Frontends
        next == IF thread[t].mode = "quarantine" THEN "begin" ELSE "finish"
    IN
    /\ At(t, "unregister")
    /\ IF \A e \in entries : HasRuntime(e)
       THEN \E rejected \in SUBSET entries :
              /\ registered' = registered \ (entries \ rejected)
              /\ IF rejected = {} THEN Go(t, next) /\ UNCHANGED faults
                                  ELSE Failing(t, next) /\ Fault
       ELSE Failing(t, next) /\ UNCHANGED <<registered, faults>>
    /\ UNCHANGED <<life, obligation, callbackVars, jobs, dropped, critical, calls>>

EndJob(o) ==
    /\ jobs' = jobs \ {o}
    /\ Return(o)

RootReady(o) == life[o] \in Cleaning

CurrentAttempt(t) == obligation[Obj(t)] = t

CleanupComplete(t) == thread[t].ok

FinishAllowed(t) == CurrentAttempt(t) /\ RootReady(Obj(t))

\* finish_close_cleanup_attempt: the whole cascade becomes Closed, or stays
\* CleanupPending for the next attempt.
FinishClose(t) ==
    LET o == Obj(t)
        to == IF CleanupComplete(t) THEN "Closed" ELSE "CleanupPending"
    IN
    /\ At(t, "finish")
    /\ IF FinishAllowed(t)
       THEN /\ life' = [e \in Objects |-> IF e \in ActiveEntries(o) THEN to ELSE life[e]]
            /\ obligation' = [obligation EXCEPT ![o] = IF CleanupComplete(t) THEN "none"
                                                          ELSE "idle"]
       ELSE UNCHANGED <<life, obligation>>
    /\ IF FinishAllowed(t) /\ CleanupComplete(t)
       THEN IF t \in Clients
            THEN Return(t) /\ UNCHANGED jobs ELSE EndJob(t)
       ELSE Fail(t) /\ UNCHANGED jobs
    /\ UNCHANGED <<registered, callbackVars, dropped, critical, faults, calls>>

(***************************************************************************)
(* What follows a failed close.                                            *)
(***************************************************************************)
\* Mutant: only Drop hands the object over to the reaper.
OnlyDropRetries(t) == thread[t].mode = "drop"

\* close() looks once whether the object has become terminal; Drop does not.
NeedsRetry(t) == thread[t].mode = "drop" \/ life[Obj(t)] \notin Terminal

CloseFailed(t) ==
    /\ At(t, "failed") /\ t \in Clients
    /\ IF NeedsRetry(t) THEN Go(t, "enqueue") ELSE Return(t)
    /\ UNCHANGED <<tableVars, callbackVars, jobs, dropped, critical, faults, calls>>

\* enqueue_cleanup_retry: an object without a cleanup dependency is taken
\* for a fault of the service; a job that is pending already is left alone.
EnqueueRetry(t) ==
    LET o == Obj(t) IN
    /\ At(t, "enqueue")
    /\ IF life[o] \in Cleaning
       THEN /\ jobs' = jobs \cup {o}
            /\ thread' = IF o \in jobs THEN [thread EXCEPT ![t] = Idle]
                         ELSE [thread EXCEPT ![t] = Idle,
                                             ![o] = [Idle EXCEPT !.pc = "begin", !.obj = o,
                                                                 !.mode = "reap"]]
            /\ UNCHANGED critical
       ELSE critical' = TRUE /\ Return(t) /\ UNCHANGED jobs
    /\ UNCHANGED <<tableVars, callbackVars, dropped, faults, calls>>

(***************************************************************************)
(* The cleanup reaper, one lane per job: its capacity covers every object. *)
(***************************************************************************)
\* The job finds the object terminal, or has just quarantined it.
JobDone(o) ==
    /\ At(o, "begin") /\ life[o] \in Terminal
    /\ EndJob(o)
    /\ UNCHANGED <<tableVars, callbackVars, dropped, critical, faults, calls>>

\* The attempt failed: the lane waits for the next delay of the schedule.
RetryLater(o) ==
    /\ At(o, "failed")
    /\ Go(o, "begin")
    /\ UNCHANGED <<tableVars, callbackVars, jobs, dropped, critical, faults, calls>>

\* cleanupTerminalDeadlineMs has passed: quarantine_cascade, then the
\* callbacks and the public runtimes.  The domain cleanup of a frontend is
\* refused for an object that is terminal by now.
Deadline(o) ==
    /\ At(o, "begin") /\ life[o] \in Cleaning
    /\ life' = [e \in Objects |-> IF e \in ActiveEntries(o) THEN "Quarantined" ELSE life[e]]
    /\ thread' = [thread EXCEPT ![o] =
                    [Idle EXCEPT !.pc = IF o \in registry THEN "callback" ELSE "unregister",
                                 !.mode = "quarantine", !.obj = o,
                                 !.plan = ActiveEntries(o)]]
    /\ UNCHANGED <<registered, obligation, callbackVars, jobs, dropped, critical, faults, calls>>

-----------------------------------------------------------------------------
AttemptStep(t) ==
    \/ BeginClose(t) \/ RefuseClose(t) \/ BeginAttempt(t) \/ TakeRetired(t) \/ ReleaseBatch(t)
    \/ ClearCallback(t) \/ ClearRegistry(t) \/ DomainCleanup(t)
    \/ StopNotifiers(t) \/ UnregisterRuntimes(t) \/ FinishClose(t)

ClientStep(t) ==
    \/ PrepareChildArtifact(t) \/ CommitChildArtifact(t) \/ PublishChild(t)
    \/ RollbackChild(t) \/ DropUnpublished(t)
    \/ PrepareCallback(t) \/ CommitCallback(t)
    \/ CloseFailed(t) \/ EnqueueRetry(t)

Next ==
    \/ \E o \in Demuxes \cup Frontends : OpenRoot(o)
    \/ \E t \in Clients, c \in Children : OpenChild(t, c)
    \/ \E t \in Clients, f \in Frontends : SetCallback(t, f)
    \/ \E t \in Clients, o \in Objects : Close(t, o) \/ Drop(t, o)
    \/ \E t \in Clients : ClientStep(t)
    \/ \E t \in Threads : AttemptStep(t)
    \/ \E o \in Objects : JobDone(o) \/ RetryLater(o) \/ Deadline(o)

Spec == Init /\ [][Next]_vars

\* Threads run on, lanes retry, and a deadline is not missed for ever; no
\* client has to call anything.
Fairness ==
    /\ \A t \in Threads : WF_vars(AttemptStep(t))
    /\ \A t \in Clients : WF_vars(ClientStep(t))
    /\ \A o \in Objects : WF_vars(JobDone(o)) /\ WF_vars(RetryLater(o)) /\ SF_vars(Deadline(o))

FairSpec == Spec /\ Fairness

(***************************************************************************)
(* Properties.                                                             *)
(***************************************************************************)
\* Every variable keeps its type, a reaper lane works on its own object, and
\* it runs exactly while the key of that object is pending.
TypeOK ==
    /\ life \in [Objects -> Lifecycles]
    /\ registered \subseteq Objects /\ callbacks \subseteq Objects
    /\ registry \subseteq Objects /\ jobs \subseteq Objects /\ dropped \subseteq Objects
    /\ obligation \in [Objects -> {"none", "idle"} \cup Threads]
    /\ prepared \subseteq Objects /\ retired \in BOOLEAN /\ batch \in {"none", "held", "running"}
    /\ critical \in BOOLEAN /\ faults \in 0..MaxFaults /\ calls \in 0..MaxCalls
    /\ thread \in [Threads -> [pc : PCs, mode : Modes, obj : Objects \cup {NoObject},
                               plan : SUBSET Objects, clear : BOOLEAN, ok : BOOLEAN]]
    /\ \A t \in Threads : thread[t].pc /= "idle" => Obj(t) \in Objects
    /\ \A o \in Objects : o \in jobs <=> thread[o].pc /= "idle"
    /\ \A o \in jobs : Obj(o) = o /\ thread[o].mode \in {"reap", "quarantine"}

\* A filter or DVR that clients can call has a demux that is Live and that
\* still holds its runtime: no close of the demux, however it interleaves
\* with openFilter or openDvr, leaves a callable child behind.
LiveChildHasLiveDemux ==
    \A c \in Children :
        life[c] = "Live" => life[Parent[c]] = "Live" /\ HasRuntime(c)

\* A Closed object holds nothing: its public runtime (or backend) is
\* released, and no callback of a closed frontend is left in the store or in
\* the registry.  A cascade commits Closed only after a whole clean attempt.
ClosedHoldsNothing ==
    \A o \in Objects : life[o] = "Closed" =>
        o \notin registered /\ (o \in Frontends => o \notin callbacks \cup registry)

\* The object tree and what it holds agree: callable children have callable
\* parents, and what is Closed has been given back.
TreeConsistent == LiveChildHasLiveDemux /\ ClosedHoldsNothing

\* Close, Drop and the reaper never run two cleanup attempts of one root at
\* the same time.
AttemptStages ==
    {"callback", "take", "release", "registry", "domain", "artifacts", "unregister", "finish"}
Attempting(t) == thread[t].mode \in {"close", "drop", "reap"} /\ thread[t].pc \in AttemptStages
OneAttemptPerRoot ==
    \A t, u \in Threads :
        Attempting(t) /\ Attempting(u) /\ Obj(t) = Obj(u) => t = u

\* A terminal object stays as it is: a late completion does not turn a
\* quarantined object into a closed one, nor a deadline a closed one into a
\* quarantined one.
TerminalIsFinal ==
    [][\A o \in Objects : life[o] \in Terminal => life'[o] = life[o]]_vars

\* A close that has begun ends: every object of the cascade becomes Closed
\* or Quarantined without another call by a client, whatever fails.
CloseEnds ==
    \A o \in Objects : life[o] \in Cleaning ~> life[o] \in Terminal

=============================================================================
