----------------------------- MODULE LnbControl -----------------------------
(***************************************************************************)
(* One LNB endpoint of tuner_hal2 and the satellite frontend that owns it: *)
(* the electrical state kept by LnbRegistry, the physical voltage rail,    *)
(* the leases on the rail, and every use case that reaches the rail.       *)
(*                                                                         *)
(* Each use case runs on a thread (binder thread, worker or reaper) and    *)
(* follows one protocol: resolve the endpoint under the runtime lock, wait *)
(* for the endpoint's I/O gate with the lock released, prepare under the   *)
(* lock, drive the hardware with the lock released, finish under the lock, *)
(* release the gate.  A section under the runtime lock is one step here;   *)
(* the lock itself is a variable because one path keeps it too long.       *)
(***************************************************************************)
EXTENDS Integers, FiniteSets

CONSTANTS
    Threads,         \* binder, worker and reaper threads
    NoThread,        \* "no thread": a free gate or lock
    Profile,         \* voltages the LnbRegistryProfile accepts
    Outcomes,        \* results the backend may report
    MaxGeneration,   \* stands for u64::MAX of LnbRuntime.generation
    Openings         \* bound on the openings of the two objects: pairs of a
                     \* number for IFrontend and one for ILnb

ASSUME ThreadsAssumption == NoThread \notin Threads
ASSUME ProfileAssumption == Profile \subseteq {"None", "11V", "15V"}
                            /\ {"None", "15V"} \subseteq Profile
ASSUME OutcomesAssumption == Outcomes \subseteq {"Applied", "Rejected", "Indeterminate"}
ASSUME BoundsAssumption ==
    MaxGeneration \in Nat /\ Openings \subseteq Nat \X Nat

VARIABLES
    lnb,          \* LnbRuntime: state, voltage, generation, callback
    rail,         \* the voltage the hardware really supplies
    leases,       \* the owner frontend's leases on the rail: "fixed" in
                  \* fixed_power_leases, "assignment" in assignment_leases
                  \* and frontend_lnb_bindings
    railRefs,     \* rail_reference_counts of the physical key
    operation,    \* FrontendRuntime.state of the owner frontend
    fencer,       \* the begin whose fence is the frontend's current generation
    reaping,      \* what the worker reaper owns workers for: a stop, a close
    frontend,     \* the public IFrontend object: lifecycle, incarnation
    endpoint,     \* the public ILnb object: lifecycle, incarnation
    gate,         \* holder of the LnbPhysicalIoAuthority mutex
    runtimeLock,  \* holder of the runtime mutex between two steps
    pc,           \* where each thread is
    call          \* the locals of each thread's use case

registryVars == <<lnb, rail, leases, railRefs>>
objectVars == <<operation, fencer, reaping, frontend, endpoint>>
vars == <<registryVars, objectVars, gate, runtimeLock, pc, call>>

LnbStates == {"Open", "Applying", "Closing", "Failed", "Closed", "Quarantined"}
Lifecycles == {"Closed", "Live", "Closing", "CleanupPending", "Quarantined"}
Operations == {"Idle", "Active", "Closing", "Failed"}
Steps == {"idle", "gate", "prepare", "backend", "finish", "relock", "fence",
          "commit", "closeWorkers", "release", "ownerLoss", "dropRelation", "complete"}
Uses == {"none", "control", "setLnb", "closeLnb", "rollbackOpen", "begin",
         "terminal", "closeFrontend"}
Txns == {"none", "control", "ensure", "release", "close", "assign"}

Calls == [use : Uses, txn : Txns, inc : Nat, target : Profile, gen : 0..MaxGeneration,
          outcome : {"Applied", "Rejected", "Indeterminate"}, newly : BOOLEAN,
          closed : BOOLEAN, ok : BOOLEAN]

NoCall == [use |-> "none", txn |-> "none", inc |-> 0, target |-> "None", gen |-> 0,
           outcome |-> "Applied", newly |-> FALSE, closed |-> FALSE, ok |-> TRUE]

Init ==
    /\ lnb = [state |-> "Open", voltage |-> "None", generation |-> 0, callback |-> FALSE]
    /\ rail = "None"
    /\ leases = {} /\ railRefs = 0
    /\ operation = "Idle" /\ fencer = NoThread /\ reaping = "none"
    /\ frontend = [life |-> "Closed", inc |-> 0]
    /\ endpoint = [life |-> "Closed", inc |-> 0]
    /\ gate = NoThread /\ runtimeLock = NoThread
    /\ pc = [t \in Threads |-> "idle"]
    /\ call = [t \in Threads |-> NoCall]

(***************************************************************************)
(* LnbRuntime and the two transactions on it.                              *)
(***************************************************************************)
InState(r, s) == [r EXCEPT !.state = s]

CanApply(r) == r.state = "Open" /\ r.generation < MaxGeneration

BeginApply(r) ==
    InState(r, IF r.generation = MaxGeneration THEN "Quarantined"
               ELSE IF r.state = "Open" THEN "Applying" ELSE "Failed")

ApplyCurrent(r, c) == r.generation = c.gen /\ r.state = "Applying"

\* Mutant: an unknown outcome is taken for a rejection.
FinishApplyTrustsUnknown(r, c) ==
    CASE ~ApplyCurrent(r, c) -> InState(r, "Failed")
      [] ApplyCurrent(r, c) /\ c.outcome = "Applied" ->
            [r EXCEPT !.state = "Open", !.voltage = c.target, !.generation = c.gen + 1]
      [] OTHER -> InState(r, "Open")

FinishApply(r, c) ==
    CASE ~ApplyCurrent(r, c)           -> InState(r, "Failed")
      [] ApplyCurrent(r, c) /\ c.outcome = "Applied" ->
            [r EXCEPT !.state = "Open", !.voltage = c.target, !.generation = c.gen + 1]
      [] ApplyCurrent(r, c) /\ c.outcome = "Rejected" -> InState(r, "Open")
      [] OTHER                         -> InState(r, "Quarantined")

CanClose(r) == r.state \in {"Open", "Failed", "Closed"}

BeginClose(r) ==
    InState(r, CASE r.state \in {"Open", "Failed"} -> "Closing"
                 [] r.state = "Closed"             -> "Closed"
                 [] OTHER                          -> "Failed")

CloseCurrent(r, c) ==
    r.generation = c.gen /\ r.state = (IF c.closed THEN "Closed" ELSE "Closing")

FinishClose(r, c) ==
    CASE ~CloseCurrent(r, c)             -> InState(r, "Failed")
      [] CloseCurrent(r, c) /\ c.closed  -> r
      [] CloseCurrent(r, c) /\ ~c.closed /\ c.outcome = "Applied" ->
            [r EXCEPT !.state = "Closed", !.voltage = "None", !.callback = FALSE]
      [] CloseCurrent(r, c) /\ ~c.closed /\ c.outcome = "Rejected" -> InState(r, "Failed")
      [] OTHER                           -> InState(r, "Quarantined")

Reopen(r) == [r EXCEPT !.state = "Open",
                       !.callback = IF r.state = "Closed" THEN FALSE ELSE r.callback]

(***************************************************************************)
(* Leases on the rail.                                                     *)
(***************************************************************************)
FixedLease == "fixed" \in leases
Assigned == "assignment" \in leases

RetainFixedPowerLease ==
    /\ leases' = leases \cup {"fixed"}
    /\ railRefs' = IF FixedLease THEN railRefs ELSE railRefs + 1

ReleaseFixedPowerLease ==
    /\ leases' = leases \ {"fixed"}
    /\ railRefs' = IF FixedLease THEN railRefs - 1 ELSE railRefs

\* Mutant: a control request is not checked against the leases.
VoltageNeverRefused(v) == FALSE

\* What the leases refuse: another voltage, and a close.
VoltageRefused(v) == v /= "15V" /\ FixedLease
CloseRefused == FixedLease

\* Mutant: the rolled back lease keeps its rail reference.
RollbackKeepsReference(newly) ==
    (IF newly THEN leases' = leases \ {"fixed"} ELSE UNCHANGED leases) /\ UNCHANGED railRefs

RollbackNewLease(newly) ==
    IF newly THEN ReleaseFixedPowerLease ELSE UNCHANGED <<leases, railRefs>>

ReleaseLnbAssignment ==
    /\ leases' = leases \ {"assignment"}
    /\ railRefs' = IF Assigned THEN railRefs - 1 ELSE railRefs

(***************************************************************************)
(* The shape every use case shares.                                        *)
(***************************************************************************)
LockFree == runtimeLock = NoThread    \* a section under the runtime lock may run

Goto(t, step) == pc' = [pc EXCEPT ![t] = step]

\* The use case of thread t ends, releasing the gate if t holds it.
Return(t) ==
    /\ Goto(t, "idle")
    /\ call' = [call EXCEPT ![t] = NoCall]
    /\ gate' = IF gate = t THEN NoThread ELSE gate

\* A transaction on the rail ends: the gate is released and the use case
\* goes on at step.
EndTxn(t, step, newly, ok) ==
    /\ Goto(t, step)
    /\ call' = [call EXCEPT ![t] = [NoCall EXCEPT !.use = call[t].use, !.inc = call[t].inc,
                                                 !.newly = newly, !.ok = ok]]
    /\ gate' = NoThread

FrontendLive(t) == frontend.life = "Live" /\ frontend.inc = call[t].inc
EndpointLive(t) == endpoint.life = "Live" /\ endpoint.inc = call[t].inc
OperationTerminal == operation \in {"Idle", "Closing", "Failed"}

Start(t, use, txn, inc, step) ==
    /\ pc[t] = "idle" /\ LockFree
    /\ call' = [call EXCEPT ![t] = [NoCall EXCEPT !.use = use, !.txn = txn, !.inc = inc]]
    /\ Goto(t, step)

AcquireGate(t) ==
    /\ pc[t] = "gate" /\ gate = NoThread
    /\ gate' = t
    /\ Goto(t, "prepare")
    /\ UNCHANGED <<registryVars, objectVars, runtimeLock, call>>

\* The hardware call, outside the runtime lock.  Rejected proves the rail did
\* not change; after Indeterminate it carries the old or the new voltage.
Backend(t) ==
    /\ pc[t] = "backend"
    /\ \E o \in Outcomes :
          /\ call' = [call EXCEPT ![t].outcome = o]
          /\ rail' \in CASE o = "Applied"  -> {call[t].target}
                         [] o = "Rejected" -> {rail}
                         [] OTHER          -> {rail, call[t].target}
    /\ Goto(t, "finish")
    /\ UNCHANGED <<lnb, leases, railRefs, objectVars, gate, runtimeLock>>

(***************************************************************************)
(* Public objects.                                                         *)
(***************************************************************************)
MayOpen(frontends, endpoints) == \E o \in Openings : frontends <= o[1] /\ endpoints <= o[2]

OpenFrontend ==
    /\ LockFree /\ frontend.life = "Closed" /\ MayOpen(frontend.inc + 1, endpoint.inc)
    /\ frontend' = [life |-> "Live", inc |-> frontend.inc + 1]
    /\ UNCHANGED <<registryVars, operation, fencer, reaping, endpoint, gate, runtimeLock, pc, call>>

OpenLnb ==
    /\ LockFree /\ endpoint.life = "Closed" /\ MayOpen(frontend.inc, endpoint.inc + 1)
    /\ lnb.state \in {"Open", "Closed"}
    /\ endpoint' = [life |-> "Live", inc |-> endpoint.inc + 1]
    /\ lnb' = Reopen(lnb)
    /\ UNCHANGED <<rail, leases, railRefs, operation, fencer, reaping, frontend,
                   gate, runtimeLock, pc, call>>

SetCallback(b) ==
    /\ LockFree /\ endpoint.life = "Live" /\ lnb.state = "Open"
    /\ lnb' = [lnb EXCEPT !.callback = b]
    /\ UNCHANGED <<rail, leases, railRefs, objectVars, gate, runtimeLock, pc, call>>

\* openLnbById() whose AIDL object could not be made: the registration is
\* taken back before anyone else sees it and the endpoint is closed again.
StartRollbackOpen(t) ==
    /\ endpoint.life = "Closed" /\ lnb.state \in {"Open", "Closed"}
    /\ Start(t, "rollbackOpen", "close", endpoint.inc, "gate")
    /\ lnb' = Reopen(lnb)
    /\ UNCHANGED <<rail, leases, railRefs, objectVars, gate, runtimeLock>>

\* ILnb.close(), and the retry of a failed one by the cleanup reaper.
StartCloseLnb(t) ==
    /\ endpoint.life \in {"Live", "CleanupPending"}
    /\ Start(t, "closeLnb", "close", endpoint.inc, "gate")
    /\ endpoint' = [endpoint EXCEPT !.life = "Closing"]
    /\ UNCHANGED <<registryVars, operation, fencer, reaping, frontend, gate, runtimeLock>>

\* IFrontend.close(), and its retry.
StartCloseFrontend(t) ==
    /\ frontend.life \in {"Live", "CleanupPending"}
    /\ Start(t, "closeFrontend", "none", frontend.inc, "closeWorkers")
    /\ frontend' = [frontend EXCEPT !.life = "Closing"]
    /\ UNCHANGED <<registryVars, operation, fencer, reaping, endpoint, gate, runtimeLock>>

\* The deadline of the cleanup reaper, or of the worker reaper, passed.
QuarantineFrontend ==
    /\ LockFree
    /\ \/ frontend.life = "CleanupPending"
       \/ frontend.life \in {"Live", "Closing"} /\ reaping /= "none"
    /\ frontend' = [frontend EXCEPT !.life = "Quarantined"]
    /\ UNCHANGED <<registryVars, operation, fencer, reaping, endpoint, gate, runtimeLock, pc, call>>

QuarantineLnb ==
    /\ LockFree /\ endpoint.life = "CleanupPending"
    /\ endpoint' = [endpoint EXCEPT !.life = "Quarantined"]
    /\ UNCHANGED <<registryVars, operation, fencer, reaping, frontend, gate, runtimeLock, pc, call>>

\* The object close transaction records what the cleanup attempt returned.
Complete(t) ==
    /\ pc[t] = "complete" /\ LockFree
    /\ LET life == IF call[t].ok THEN "Closed" ELSE "CleanupPending" IN
          /\ frontend' = IF call[t].use = "closeFrontend" /\ frontend.life = "Closing"
                         THEN [frontend EXCEPT !.life = life] ELSE frontend
          /\ endpoint' = IF call[t].use = "closeLnb"
                         THEN [endpoint EXCEPT !.life = life] ELSE endpoint
    /\ Return(t)
    /\ UNCHANGED <<registryVars, operation, fencer, reaping, runtimeLock>>

(***************************************************************************)
(* setVoltage, setTone, setSatellitePosition.  The accepted tones and      *)
(* positions are the ones already set, so a tone or a position request     *)
(* applies the current voltage again.                                      *)
(***************************************************************************)
StartControl(t) ==
    /\ endpoint.life = "Live"
    /\ Start(t, "control", "control", endpoint.inc, "gate")
    /\ UNCHANGED <<registryVars, objectVars, gate, runtimeLock>>

PrepareControl(t) ==
    /\ pc[t] = "prepare" /\ call[t].txn = "control" /\ LockFree
    /\ \E v \in Profile :
          LET refused == ~EndpointLive(t) \/ VoltageRefused(v) IN
          /\ lnb' = IF refused THEN lnb ELSE BeginApply(lnb)
          /\ IF refused \/ ~CanApply(lnb)
             THEN Return(t)
             ELSE /\ Goto(t, "backend")
                  /\ call' = [call EXCEPT ![t].target = v, ![t].gen = lnb.generation]
                  /\ UNCHANGED gate
    /\ UNCHANGED <<rail, leases, railRefs, objectVars, runtimeLock>>

FinishControl(t) ==
    /\ pc[t] = "finish" /\ call[t].txn = "control" /\ LockFree
    /\ lnb' = FinishApply(lnb, call[t])
    /\ Return(t)
    /\ UNCHANGED <<rail, leases, railRefs, objectVars, runtimeLock>>

(***************************************************************************)
(* IFrontend.setLnb(): the relation and its lease, no hardware call.       *)
(***************************************************************************)
StartSetLnb(t) ==
    /\ frontend.life = "Live"
    /\ Start(t, "setLnb", "assign", frontend.inc, "gate")
    /\ UNCHANGED <<registryVars, objectVars, gate, runtimeLock>>

PrepareAssign(t) ==
    /\ pc[t] = "prepare" /\ call[t].txn = "assign" /\ LockFree
    /\ IF FrontendLive(t) /\ lnb.state = "Open" /\ ~Assigned
       THEN Goto(t, "finish") /\ UNCHANGED <<call, gate>>
       ELSE Return(t)
    /\ UNCHANGED <<registryVars, objectVars, runtimeLock>>

FinishAssign(t) ==
    /\ pc[t] = "finish" /\ call[t].txn = "assign" /\ LockFree
    /\ leases' = leases \cup {"assignment"}
    /\ railRefs' = IF Assigned THEN railRefs ELSE railRefs + 1
    /\ Return(t)
    /\ UNCHANGED <<lnb, rail, objectVars, runtimeLock>>

(***************************************************************************)
(* Closing the endpoint: ILnb.close(), a rolled back open, and the loss of *)
(* the owner frontend.                                                     *)
(***************************************************************************)
StartOwnerLoss(t) ==
    /\ pc[t] = "ownerLoss" /\ LockFree
    /\ call' = [call EXCEPT ![t].txn = "close"]
    /\ Goto(t, "gate")
    /\ UNCHANGED <<registryVars, objectVars, gate, runtimeLock>>

CloseFailed(t) == EndTxn(t, "complete", FALSE, FALSE)

PrepareClose(t) ==
    /\ pc[t] = "prepare" /\ call[t].txn = "close" /\ LockFree
    /\ lnb' = IF CloseRefused THEN lnb ELSE BeginClose(lnb)
    /\ IF CloseRefused \/ ~CanClose(lnb)
       THEN CloseFailed(t)
       ELSE /\ Goto(t, IF lnb.state = "Closed" THEN "finish" ELSE "backend")
            /\ call' = [call EXCEPT ![t].target = "None", ![t].gen = lnb.generation,
                                    ![t].closed = lnb.state = "Closed"]
            /\ UNCHANGED gate
    /\ UNCHANGED <<rail, leases, railRefs, objectVars, runtimeLock>>

FinishLnbClose(t) ==
    /\ pc[t] = "finish" /\ call[t].txn = "close" /\ LockFree
    /\ lnb' = FinishClose(lnb, call[t])
    /\ IF CloseCurrent(lnb, call[t]) /\ (call[t].closed \/ call[t].outcome = "Applied")
       THEN EndTxn(t, "dropRelation", FALSE, call[t].ok)
       ELSE CloseFailed(t)
    /\ UNCHANGED <<rail, leases, railRefs, objectVars, runtimeLock>>

\* After the gate: the relation of the frontend that selected the endpoint.
DropRelation(t) ==
    /\ pc[t] = "dropRelation" /\ LockFree
    /\ ReleaseLnbAssignment
    /\ Goto(t, "complete")
    /\ UNCHANGED <<lnb, rail, objectVars, gate, runtimeLock, call>>

(***************************************************************************)
(* tune() and scan(): fixed power before the worker starts.                *)
(***************************************************************************)
StartBegin(t) ==
    /\ frontend.life = "Live"
    /\ Start(t, "begin", "ensure", frontend.inc, "gate")
    /\ UNCHANGED <<registryVars, objectVars, gate, runtimeLock>>

PrepareEnsure(t) ==
    /\ pc[t] = "prepare" /\ call[t].txn = "ensure" /\ LockFree
    /\ LET newly   == ~FixedLease
           applied == lnb.state = "Open" /\ lnb.voltage = "15V"
           opened  == IF lnb.state = "Closed" THEN Reopen(lnb) ELSE lnb
       IN
       CASE ~FrontendLive(t) ->
              Return(t) /\ UNCHANGED <<lnb, leases, railRefs>>
         [] FrontendLive(t) /\ applied ->
              /\ RetainFixedPowerLease
              /\ EndTxn(t, "fence", newly, TRUE)
              /\ UNCHANGED lnb
         [] FrontendLive(t) /\ ~applied /\ CanApply(opened) ->
              /\ RetainFixedPowerLease
              /\ lnb' = BeginApply(opened)
              /\ Goto(t, "backend")
              /\ call' = [call EXCEPT ![t].target = "15V", ![t].gen = opened.generation,
                                      ![t].newly = newly]
              /\ UNCHANGED gate
         [] OTHER ->    \* the lease is retained and rolled back in one section
              /\ lnb' = BeginApply(opened)
              /\ Return(t)
              /\ UNCHANGED <<leases, railRefs>>
    /\ UNCHANGED <<rail, objectVars, runtimeLock>>

\* The lock is taken twice after a rejection, but nothing that runs between
\* the two sections can see the lease: the gate is still held.
FinishEnsure(t) ==
    /\ pc[t] = "finish" /\ call[t].txn = "ensure" /\ LockFree
    /\ lnb' = FinishApply(lnb, call[t])
    /\ IF ApplyCurrent(lnb, call[t]) /\ call[t].outcome = "Applied"
       THEN /\ EndTxn(t, "fence", call[t].newly, TRUE)
            /\ UNCHANGED <<leases, railRefs>>
       ELSE /\ Return(t)
            /\ RollbackNewLease(call[t].newly /\ call[t].outcome = "Rejected")
    /\ UNCHANGED <<rail, objectVars, runtimeLock>>

\* What a begin that fails after fixed power was ensured does next.
BeginFailed(t) ==
    IF call[t].newly
    THEN /\ Goto(t, "release")
         /\ call' = [call EXCEPT ![t].newly = FALSE]
         /\ UNCHANGED gate
    ELSE Return(t)

\* start_frontend_backend_*_worker: refused; or the old generation is fenced
\* and its workers stopped, did not stop in time, or failed to stop.
FenceOperation(t) ==
    /\ pc[t] = "fence" /\ LockFree
    /\ \/ /\ BeginFailed(t)
          /\ UNCHANGED <<operation, fencer, reaping, frontend>>
       \/ /\ FrontendLive(t) /\ reaping = "none"
          /\ operation' = "Idle" /\ fencer' = t
          /\ Goto(t, "commit") /\ UNCHANGED <<call, gate, reaping, frontend>>
       \/ /\ FrontendLive(t) /\ reaping = "none"
          /\ operation' = "Failed" /\ fencer' = NoThread
          /\ reaping' = "stop"
          /\ BeginFailed(t) /\ UNCHANGED frontend
       \/ /\ FrontendLive(t) /\ reaping = "none"
          /\ operation' = "Idle" /\ fencer' = NoThread
          /\ frontend' = [frontend EXCEPT !.life = "Quarantined"]
          /\ BeginFailed(t) /\ UNCHANGED reaping
    /\ UNCHANGED <<registryVars, endpoint, runtimeLock>>

\* finish_committed_*_replacement: the backend accepts the request, refuses
\* it, or the generation is no longer the one this begin fenced.
CommitOperation(t) ==
    /\ pc[t] = "commit" /\ LockFree
    /\ \/ /\ FrontendLive(t) /\ fencer = t
          /\ operation' = "Active" /\ fencer' = NoThread
          /\ Return(t)
       \/ /\ FrontendLive(t) /\ fencer = t
          /\ operation' \in {"Idle", "Failed"} /\ fencer' = NoThread
          /\ BeginFailed(t)
       \/ /\ ~FrontendLive(t) \/ fencer /= t
          /\ BeginFailed(t) /\ UNCHANGED <<operation, fencer>>
    /\ UNCHANGED <<registryVars, reaping, frontend, endpoint, runtimeLock>>

\* stopTune() and stopScan() fence the generation; the terminal of the fenced
\* worker is stale, so no release follows.
StopOperation ==
    /\ LockFree /\ frontend.life = "Live" /\ reaping = "none"
    /\ operation' = "Idle" /\ fencer' = NoThread
    /\ reaping' \in IF operation = "Active" THEN {"none", "stop"} ELSE {"none"}
    /\ UNCHANGED <<registryVars, frontend, endpoint, gate, runtimeLock, pc, call>>

\* The current worker ends by itself: its terminal is accepted and the worker
\* thread goes on to release the fixed power.
WorkerTerminal(t) ==
    /\ operation = "Active"
    /\ Start(t, "terminal", "none", frontend.inc, "release")
    /\ operation' \in {"Idle", "Failed"}
    /\ UNCHANGED <<registryVars, fencer, reaping, frontend, endpoint, gate, runtimeLock>>

(***************************************************************************)
(* release_frontend_fixed_power_after_operation.                           *)
(***************************************************************************)
\* Where the caller of the release goes on with its result.
AfterRelease(t, ok) ==
    IF call[t].use = "closeFrontend"
    THEN EndTxn(t, "ownerLoss", FALSE, call[t].ok /\ ok)
    ELSE Return(t)

StartRelease(t) ==
    /\ pc[t] = "release" /\ LockFree
    /\ IF FixedLease /\ (call[t].use = "terminal" => OperationTerminal)
       THEN /\ call' = [call EXCEPT ![t].txn = "release"]
            /\ Goto(t, "gate")
       ELSE IF call[t].use = "closeFrontend"
       THEN Goto(t, "ownerLoss") /\ UNCHANGED call
       ELSE Goto(t, "idle") /\ call' = [call EXCEPT ![t] = NoCall]
    /\ UNCHANGED <<registryVars, objectVars, gate, runtimeLock>>

PrepareRelease(t) ==
    /\ pc[t] = "prepare" /\ call[t].txn = "release" /\ LockFree
    /\ CASE ~FixedLease \/ ~OperationTerminal ->
              AfterRelease(t, TRUE) /\ UNCHANGED <<lnb, leases, railRefs>>
         [] FixedLease /\ OperationTerminal /\ (railRefs /= 1 \/ lnb.voltage = "None") ->
              ReleaseFixedPowerLease /\ AfterRelease(t, TRUE) /\ UNCHANGED lnb
         [] FixedLease /\ OperationTerminal /\ railRefs = 1 /\ lnb.voltage /= "None"
            /\ CanApply(lnb) ->
              /\ ReleaseFixedPowerLease
              /\ lnb' = BeginApply(lnb)
              /\ Goto(t, "backend")
              /\ call' = [call EXCEPT ![t].target = "None", ![t].gen = lnb.generation]
              /\ UNCHANGED gate
         [] OTHER ->    \* the lease is released and restored in one section
              lnb' = BeginApply(lnb) /\ AfterRelease(t, FALSE) /\ UNCHANGED <<leases, railRefs>>
    /\ UNCHANGED <<rail, objectVars, runtimeLock>>

\* The guard of the finishing section is a temporary of the match scrutinee:
\* the Err arm, which would restore the lease, still holds the runtime lock
\* when it locks it again, and stays at "relock".
FinishRelease(t) ==
    /\ pc[t] = "finish" /\ call[t].txn = "release" /\ LockFree
    /\ lnb' = FinishApply(lnb, call[t])
    /\ IF ApplyCurrent(lnb, call[t]) /\ call[t].outcome = "Applied"
       THEN AfterRelease(t, TRUE) /\ UNCHANGED runtimeLock
       ELSE Goto(t, "relock") /\ runtimeLock' = t /\ UNCHANGED <<call, gate>>
    /\ UNCHANGED <<rail, leases, railRefs, objectVars>>

(***************************************************************************)
(* The frontend's part of closing: fence, stop the workers, then release   *)
(* the fixed power, unless the reaper takes the workers over.              *)
(***************************************************************************)
CloseWorkers(t) ==
    /\ pc[t] = "closeWorkers" /\ LockFree
    /\ \/ /\ reaping /= "none"                          \* still owned by the reaper
          /\ Goto(t, "ownerLoss")
          /\ call' = [call EXCEPT ![t].ok = FALSE]
          /\ UNCHANGED <<operation, fencer, reaping>>
       \/ /\ reaping = "none"
          /\ operation' = "Closing" /\ fencer' = NoThread
          /\ Goto(t, "release") /\ UNCHANGED <<call, reaping>>
       \/ /\ reaping = "none"                           \* the workers did not stop in time
          /\ operation' = "Closing" /\ fencer' = NoThread
          /\ reaping' = "close"
          /\ Goto(t, "ownerLoss")
          /\ call' = [call EXCEPT ![t].ok = FALSE]
    /\ UNCHANGED <<registryVars, frontend, endpoint, gate, runtimeLock>>

\* The worker reaper joined the workers.  Only the reaping of a close goes on
\* to release the fixed power.
ReapClosedWorkers(t) ==
    /\ reaping = "close"
    /\ Start(t, "terminal", "none", frontend.inc, "release")
    /\ reaping' = "none"
    /\ UNCHANGED <<registryVars, operation, fencer, frontend, endpoint, gate, runtimeLock>>

ReapStoppedWorkers ==
    /\ LockFree /\ reaping = "stop"
    /\ reaping' = "none"
    /\ UNCHANGED <<registryVars, operation, fencer, frontend, endpoint, gate, runtimeLock, pc, call>>

ThreadStep(t) ==
    \/ AcquireGate(t) \/ Backend(t) \/ Complete(t)
    \/ PrepareControl(t) \/ FinishControl(t)
    \/ PrepareAssign(t) \/ FinishAssign(t)
    \/ StartOwnerLoss(t) \/ PrepareClose(t) \/ FinishLnbClose(t) \/ DropRelation(t)
    \/ PrepareEnsure(t) \/ FinishEnsure(t) \/ FenceOperation(t) \/ CommitOperation(t)
    \/ StartRelease(t) \/ PrepareRelease(t) \/ FinishRelease(t)
    \/ CloseWorkers(t)

StartUseCase(t) ==
    \/ StartRollbackOpen(t) \/ StartCloseLnb(t) \/ StartCloseFrontend(t)
    \/ StartControl(t) \/ StartSetLnb(t) \/ StartBegin(t)
    \/ WorkerTerminal(t) \/ ReapClosedWorkers(t)

Next ==
    \/ \E t \in Threads : ThreadStep(t) \/ StartUseCase(t)
    \/ OpenFrontend \/ OpenLnb \/ QuarantineFrontend \/ QuarantineLnb
    \/ StopOperation \/ ReapStoppedWorkers
    \/ \E b \in BOOLEAN : SetCallback(b)

Spec == Init /\ [][Next]_vars

\* A thread that is inside a use case keeps running; nothing obliges a client
\* to call, a worker to end or the reaper to start.
FairSpec == Spec /\ \A t \in Threads : WF_vars(ThreadStep(t))

(***************************************************************************)
(* Properties.                                                             *)
(***************************************************************************)
\* Every variable keeps its type; the generation never passes its maximum.
TypeOK ==
    /\ lnb \in [state : LnbStates, voltage : Profile, generation : 0..MaxGeneration,
                callback : BOOLEAN]
    /\ rail \in Profile
    /\ leases \subseteq {"fixed", "assignment"} /\ railRefs \in 0..2
    /\ operation \in Operations /\ reaping \in {"none", "stop", "close"}
    /\ fencer \in Threads \cup {NoThread}
    /\ frontend \in [life : Lifecycles, inc : {0} \cup UNION {0..o[1] : o \in Openings}]
    /\ endpoint \in [life : Lifecycles, inc : {0} \cup UNION {0..o[2] : o \in Openings}]
    /\ gate \in Threads \cup {NoThread} /\ runtimeLock \in Threads \cup {NoThread}
    /\ pc \in [Threads -> Steps] /\ call \in [Threads -> Calls]

\* rail_reference_counts is exactly the number of leases on the rail, whatever
\* rollbacks, restorations and late relation releases ran.  A count too high
\* keeps the rail powered for ever; a count too low cuts a lease's power.
RailCountExact ==
    railRefs = (IF FixedLease THEN 1 ELSE 0) + (IF Assigned THEN 1 ELSE 0)

\* While the registry calls the endpoint usable (Open) or safely Closed, the
\* hardware supplies exactly the voltage the registry recorded, whatever
\* outcomes the backend reported and whichever use cases interleaved.
RegistryMatchesRail == lnb.state \in {"Open", "Closed"} => rail = lnb.voltage

\* A 15 V rail under a fixed-power lease stays at 15 V: neither setVoltage()
\* nor a close nor a release that was prepared earlier lowers it.
LeaseKeepsPower == [][FixedLease /\ FixedLease' /\ rail = "15V" => rail' = "15V"]_vars

\* Once IFrontend.close() completed, no lease of the frontend is left on the
\* rail, however its begins, releases and assignments raced the close.
ClosedFrontendHoldsNoRail == frontend.life = "Closed" => ~FixedLease /\ ~Assigned

\* The registry, the rail and the frontend agree on who powers what: both of
\* the above, in every interleaving of the use cases.
RailAccounted == RegistryMatchesRail /\ ClosedFrontendHoldsNoRail

\* The I/O gate of the endpoint never stays taken.
GateReleased == gate /= NoThread ~> gate = NoThread
=============================================================================
