----------------------------- MODULE ScanManager -----------------------------
(***************************************************************************)
(* Who may use the tuner for a scan: ChannelScanManager.kt with the boot   *)
(* EPG job (BootEpgSyncJobService.kt, BootEpgSyncScheduler.kt,             *)
(* DirectBootGuard.kt), the boot receivers and the creation of live        *)
(* sessions (MaleicacidTvInputService.kt).                                 *)
(*                                                                         *)
(* The main thread runs the job service, the receivers and the setup       *)
(* screen.  Scans run on the manager's single executor, live sessions are  *)
(* created and released by other threads.  An action is what a thread does *)
(* between two accesses that another thread can see.                       *)
(***************************************************************************)
EXTENDS NullValue, Naturals, Sequences, FiniteSets

CONSTANTS
  MaxScan,      \* bound on the generation before a setup scan
  MaxRun,       \* bound on job runs
  MaxLive       \* bound on live sessions ever created

\* activeTask refers to nothing or to one of these.
Tasks == [gen : Nat, purpose : {"setup", "boot", "maintenance"}, cancel : BOOLEAN, closing : BOOLEAN]

ASSUME NullAssumption == None \notin Tasks

VARIABLES
  pend,         \* DirectBootEpgPending; whether the user unlocked, boot ended
                \* and a channel is registered, a sync asked for but not done
  job,          \* the boot EPG job at the JobScheduler (external)
  run,          \* activeRun of the job service
  main,         \* the task of the main thread
  task,         \* activeTask
  nextGen,      \* nextGeneration
  shown,        \* the ScanState last published
  live,         \* live sessions and the thread that creates one
  exec,         \* the manager executor: its queue and the task it runs
  drains        \* threads about to call drainPendingBootEpgSyncIfIdle

managerVars == <<pend, job, run, main, task, nextGen, shown, live, exec, drains>>

Idle == [kind |-> "idle", gen |-> 0]
NoTask == [at |-> "idle", kind |-> None, gen |-> 0, run |-> 0, end |-> None,
           resched |-> FALSE, good |-> FALSE]

ManagerInit ==
  /\ \E known \in BOOLEAN :
       pend = [set |-> FALSE, unlocked |-> FALSE, booted |-> FALSE, channels |-> known,
               owed |-> FALSE]
  /\ job = "none"
  /\ run = [id |-> 0, active |-> FALSE, delivered |-> FALSE, gen |-> 0,
            early |-> None, post |-> None]
  /\ main = [at |-> "idle", gen |-> 0]
  /\ task = None
  /\ nextGen = 0
  /\ shown = Idle
  /\ live = [sessions |-> 0, creating |-> 0, ever |-> 0, at |-> "idle", gen |-> 0]
  /\ exec = [queue |-> <<>>, cur |-> NoTask]
  /\ drains = 0

-----------------------------------------------------------------------------
(* Operations several threads use                                          *)

LiveBusy == live.sessions > 0 \/ live.creating > 0

\* bootEpgSyncStartDecision, backgroundMaintenanceStartDecision
MayStart == ~LiveBusy /\ task = None

\* scheduleIfEligible: the scheduler holds a job until it has ended.
Scheduled == IF pend.set /\ pend.unlocked /\ job = "none" THEN "scheduled" ELSE job

\* drainPendingBootEpgSyncIfIdle
DrainIfIdle == job' = IF MayStart THEN Scheduled ELSE job

DeferPending == pend' = [pend EXCEPT !.set = TRUE]

IsCurrent(g) == task # None /\ task.gen = g

Terminal(kind, g) == [kind |-> kind, gen |-> IF kind = "idle" THEN 0 ELSE g]

\* beginScan: the generation is spent even if another task is in the way.
BeginScan(purpose) ==
  /\ nextGen' = nextGen + 1
  /\ task' = IF task = None
               THEN [gen |-> nextGen + 1, purpose |-> purpose, cancel |-> FALSE, closing |-> FALSE]
               ELSE task
  /\ shown' = IF task = None THEN [kind |-> "running", gen |-> nextGen + 1] ELSE shown

\* finishScanRelease: the task stays the owner until everything is closed.
FinishScan(ok) == task' = IF ok THEN None ELSE [task EXCEPT !.closing = TRUE]

\* retryPendingRelease enqueues a retry; one waiting is as good as two, and
\* it finds nothing to do unless a task exists now.
RetryQueue(q) ==
  IF task # None /\ ~\E i \in 1..Len(q) : q[i].kind = "retry"
    THEN Append(q, [kind |-> "retry", gen |-> 0, run |-> 0]) ELSE q

Entry(kind, g, r) == [kind |-> kind, gen |-> g, run |-> r]

\* finish: one answer per run, posted to the main thread.
Answered(r, resched) ==
  IF r.delivered THEN r ELSE [r EXCEPT !.delivered = TRUE, !.post = resched]

-----------------------------------------------------------------------------
(* Main thread: receivers and the setup screen                             *)

MainIdle == main.at = "idle"

LockedBootCompleted ==
  /\ MainIdle /\ ~pend.unlocked /\ ~pend.set
  /\ pend' = [pend EXCEPT !.set = TRUE, !.owed = TRUE]
  /\ UNCHANGED <<job, run, main, task, nextGen, shown, live, exec, drains>>

\* The unlock receiver lives only while the input service does.
UserUnlocked ==
  /\ MainIdle /\ ~pend.unlocked
  /\ pend' = [pend EXCEPT !.unlocked = TRUE]
  /\ job' \in {job, IF pend.set /\ job = "none" THEN "scheduled" ELSE job}
  /\ UNCHANGED <<run, main, task, nextGen, shown, live, exec, drains>>

BootCompleted ==
  /\ MainIdle /\ pend.unlocked /\ ~pend.booted
  /\ pend' = [pend EXCEPT !.set = TRUE, !.booted = TRUE, !.owed = @ \/ job # "running"]
  /\ job' = IF job = "none" THEN "scheduled" ELSE job
  /\ UNCHANGED <<run, main, task, nextGen, shown, live, exec, drains>>

\* startIfIdle
StartSetup ==
  /\ MainIdle /\ nextGen < MaxScan
  /\ BeginScan("setup")
  /\ exec' = [exec EXCEPT !.queue =
       IF task = None THEN Append(RetryQueue(@), Entry("setup", nextGen + 1, 0)) ELSE RetryQueue(@)]
  /\ UNCHANGED <<pend, job, run, main, live, drains>>

\* setTerminalStateIfCurrent after a cancel: the test may have been made
\* before the task ended and the write comes after it, or both come too late.
ShowCancelled(g) ==
  \/ shown' = Terminal("cancelled", g)
  \/ ~IsCurrent(g) /\ UNCHANGED shown

\* cancel: the terminal state is written by CancelShow.
Cancel ==
  /\ MainIdle /\ task # None
  /\ task' = [task EXCEPT !.cancel = TRUE]
  /\ main' = [at |-> "cancel_show", gen |-> task.gen]
  /\ UNCHANGED <<pend, job, run, nextGen, shown, live, exec, drains>>

CancelShow ==
  /\ main.at = "cancel_show"
  /\ ShowCancelled(main.gen)
  /\ main' = [at |-> "idle", gen |-> 0]
  /\ UNCHANGED <<pend, job, run, task, nextGen, live, exec, drains>>

-----------------------------------------------------------------------------
(* Main thread: the boot EPG job                                           *)

NewRun == [id |-> run.id + 1, active |-> TRUE, delivered |-> FALSE, gen |-> 0,
           early |-> None, post |-> None]

\* onStartJob up to the call of the manager.
StartJob ==
  /\ MainIdle /\ job = "scheduled" /\ run.id < MaxRun
  /\ \/ /\ ~pend.set
        /\ job' = "none" /\ run' = [NewRun EXCEPT !.active = FALSE]
        /\ UNCHANGED <<pend, main>>
     \* the provider is not ready, the input id or the channels not known
     \/ /\ pend.set
        /\ job' = "running" /\ run' = Answered(NewRun, TRUE)
        /\ UNCHANGED <<pend, main>>
     \* no channel to update
     \/ /\ pend.set /\ ~pend.channels
        /\ pend' = [pend EXCEPT !.set = FALSE, !.owed = FALSE]
        /\ job' = "none" /\ run' = [NewRun EXCEPT !.active = FALSE]
        /\ UNCHANGED main
     \/ /\ pend.set /\ pend.channels
        /\ job' = "running" /\ run' = NewRun
        /\ main' = [at |-> "job_check", gen |-> 0]
        /\ UNCHANGED pend
  /\ UNCHANGED <<task, nextGen, shown, live, exec, drains>>

\* startBootEpgSyncIfIdle: precheck, beginScan, second check and submission.
JobCheck ==
  /\ main.at = "job_check"
  /\ exec' = [exec EXCEPT !.queue = RetryQueue(@)]
  /\ IF MayStart THEN main' = [main EXCEPT !.at = "job_begin"] /\ UNCHANGED <<pend, run>>
     ELSE /\ main' = [at |-> "idle", gen |-> 0]
          /\ DeferPending /\ run' = Answered(run, TRUE)
  /\ UNCHANGED <<job, task, nextGen, shown, live, drains>>

JobBegin ==
  /\ main.at = "job_begin"
  /\ BeginScan("boot")
  /\ IF task = None THEN main' = [at |-> "job_submit", gen |-> nextGen + 1] /\ UNCHANGED <<pend, run>>
     ELSE main' = [at |-> "idle", gen |-> 0] /\ DeferPending /\ run' = Answered(run, TRUE)
  /\ UNCHANGED <<job, live, exec, drains>>

JobSubmit ==
  /\ main.at = "job_submit"
  /\ \/ /\ LiveBusy
        /\ shown' = Idle
        /\ \E ok \in BOOLEAN : FinishScan(ok)
        /\ DeferPending /\ run' = Answered(run, TRUE)
        /\ main' = [at |-> "idle", gen |-> 0]
        /\ UNCHANGED exec
     \/ /\ ~LiveBusy
        /\ exec' = [exec EXCEPT !.queue = Append(@, Entry("boot", main.gen, run.id))]
        /\ main' = [main EXCEPT !.at = "job_set"]
        /\ UNCHANGED <<pend, run, task, shown>>
  /\ UNCHANGED <<job, nextGen, live, drains>>

JobSetGeneration ==
  /\ main.at = "job_set"
  /\ run' = [run EXCEPT !.gen = main.gen]
  /\ main' = [main EXCEPT !.at = "job_early"]
  /\ UNCHANGED <<pend, job, task, nextGen, shown, live, exec, drains>>

JobTakeEarly ==
  /\ main.at = "job_early"
  /\ run' = IF run.early # None /\ run.gen = main.gen
              THEN Answered([run EXCEPT !.gen = 0, !.early = None], run.early)
              ELSE [run EXCEPT !.early = None]
  /\ main' = [at |-> "idle", gen |-> 0]
  /\ UNCHANGED <<pend, job, task, nextGen, shown, live, exec, drains>>

\* The message finish posted: jobFinished unless the run was stopped.
JobFinished ==
  /\ MainIdle /\ run.post # None
  /\ run' = [run EXCEPT !.active = FALSE, !.post = None]
  /\ job' = IF run.active THEN (IF run.post THEN "scheduled" ELSE "none") ELSE job
  /\ UNCHANGED <<pend, main, task, nextGen, shown, live, exec, drains>>

\* onStopJob asks for a new run; cancelIfCurrent stops the scan.
StopJob ==
  /\ MainIdle /\ job = "running" /\ run.active
  /\ LET hit == run.gen # 0 /\ IsCurrent(run.gen) /\ task.purpose = "boot" IN
     /\ task' = IF hit THEN [task EXCEPT !.cancel = TRUE] ELSE task
     /\ main' = IF hit THEN [at |-> "cancel_show", gen |-> run.gen] ELSE main
  /\ DeferPending
  /\ run' = [run EXCEPT !.active = FALSE, !.delivered = TRUE, !.gen = 0]
  /\ job' = "scheduled"
  /\ UNCHANGED <<nextGen, shown, live, exec, drains>>

-----------------------------------------------------------------------------
(* Live sessions                                                           *)

BeginLiveSessionCreation ==
  /\ live.at = "idle" /\ live.ever < MaxLive
  /\ live' = [live EXCEPT !.creating = @ + 1, !.ever = @ + 1, !.at = "preempt"]
  /\ exec' = [exec EXCEPT !.queue = RetryQueue(@)]
  /\ UNCHANGED <<pend, job, run, main, task, nextGen, shown, drains>>

PreemptBoot ==
  /\ live.at = "preempt"
  /\ LET hit == task # None /\ task.purpose = "boot" /\ ~task.cancel IN
     /\ task' = IF hit THEN [task EXCEPT !.cancel = TRUE] ELSE task
     /\ pend' = IF hit THEN [pend EXCEPT !.set = TRUE] ELSE pend
     /\ live' = [live EXCEPT !.at = IF hit THEN "preempt_show" ELSE "construct",
                             !.gen = IF hit THEN task.gen ELSE 0]
  /\ UNCHANGED <<job, run, main, nextGen, shown, exec, drains>>

\* preemptBootOrBackgroundScanForLiveSessionCreation
Preempt ==
  /\ live.at = "preempt"
  /\ LET hit == task # None /\ task.purpose # "setup" /\ ~task.cancel IN
     /\ task' = IF hit THEN [task EXCEPT !.cancel = TRUE] ELSE task
     /\ pend' = IF hit /\ task.purpose = "boot" THEN [pend EXCEPT !.set = TRUE] ELSE pend
     /\ live' = [live EXCEPT !.at = IF hit THEN "preempt_show" ELSE "construct",
                             !.gen = IF hit THEN task.gen ELSE 0]
  /\ UNCHANGED <<job, run, main, nextGen, shown, exec, drains>>

PreemptShow ==
  /\ live.at = "preempt_show"
  /\ ShowCancelled(live.gen)
  /\ live' = [live EXCEPT !.at = "construct", !.gen = 0]
  /\ UNCHANGED <<pend, job, run, main, task, nextGen, exec, drains>>

\* The constructor registers the session, or throws.
ConstructSession ==
  /\ live.at = "construct"
  /\ \E n \in {0, 1} : live' = [live EXCEPT !.sessions = @ + n, !.at = "finish"]
  /\ UNCHANGED <<pend, job, run, main, task, nextGen, shown, exec, drains>>

FinishLiveSessionCreation ==
  /\ live.at = "finish"
  /\ live' = [live EXCEPT !.creating = @ - 1, !.at = "idle"]
  /\ drains' = IF live.creating = 1 THEN drains + 1 ELSE drains
  /\ UNCHANGED <<pend, job, run, main, task, nextGen, shown, exec>>

UnregisterLiveSession ==
  /\ live.sessions > 0
  /\ live' = [live EXCEPT !.sessions = @ - 1]
  /\ drains' = IF live.sessions = 1 THEN drains + 1 ELSE drains
  /\ UNCHANGED <<pend, job, run, main, task, nextGen, shown, exec>>

DrainPending ==
  /\ drains > 0
  /\ drains' = drains - 1
  /\ DrainIfIdle
  /\ UNCHANGED <<pend, run, main, task, nextGen, shown, live, exec>>

-----------------------------------------------------------------------------
(* The manager executor                                                    *)

Cur == exec.cur
At(a) == exec.cur.at = a
Goto(a) == exec' = [exec EXCEPT !.cur.at = a]
EndTask == exec' = [exec EXCEPT !.cur = NoTask]

\* A retry releases the task a scan left closing; a scan is looked at again.
TakeTask ==
  /\ At("idle") /\ exec.queue # <<>>
  /\ LET e == Head(exec.queue) IN
     \/ /\ e.kind = "retry"
        /\ exec' = [exec EXCEPT !.queue = Tail(@)]
        /\ \/ task # None /\ task.closing /\ task' = None
           \/ UNCHANGED task
     \/ /\ e.kind # "retry"
        /\ exec' = [queue |-> Tail(exec.queue),
                    cur |-> [NoTask EXCEPT !.at = IF e.kind = "setup" THEN "scan" ELSE "check",
                               !.kind = e.kind, !.gen = e.gen, !.run = e.run, !.resched = TRUE]]
        /\ UNCHANGED task
  /\ UNCHANGED <<pend, job, run, main, nextGen, shown, live, drains>>

CheckLive ==
  /\ At("check")
  /\ \/ /\ ~LiveBusy /\ Goto("scan")
        /\ UNCHANGED <<pend, task, shown>>
     \/ /\ LiveBusy
        /\ shown' = IF IsCurrent(Cur.gen) THEN Idle ELSE shown
        /\ \E ok \in BOOLEAN : FinishScan(ok)
        /\ pend' = IF Cur.kind = "boot" THEN [pend EXCEPT !.set = TRUE] ELSE pend
        /\ IF Cur.kind = "boot" THEN Goto("notify") ELSE EndTask
  /\ UNCHANGED <<job, run, main, nextGen, live, drains>>

\* The scan returns or throws; whether it was cancelled is read here.
ScanEnds ==
  /\ At("scan")
  /\ \E end \in {"completed", "partial", "lost", "failed"} :
       exec' = [exec EXCEPT !.cur.at = "result",
                  !.cur.end = IF task.cancel /\ end # "failed" THEN "cancelled" ELSE end]
  /\ \E found \in {pend.channels, pend.channels \/ Cur.kind = "setup"} :
       pend' = [pend EXCEPT !.channels = found]
  /\ UNCHANGED <<job, run, main, task, nextGen, shown, live, drains>>

ShownEnd ==
  CASE Cur.end \in {"completed", "partial"} -> "completed"
    [] Cur.end = "cancelled" \/ (Cur.end = "failed" /\ task.cancel) -> "cancelled"
    [] OTHER -> "failed"

PartialIsDone ==
  /\ At("result")
  /\ LET done == Cur.kind = "boot" /\ Cur.end \in {"completed", "partial"} IN
     /\ exec' = [exec EXCEPT !.cur.at = "finish", !.cur.good = done, !.cur.resched = ~done]
     /\ pend' = IF Cur.kind = "boot" /\ Cur.end # "failed"
                  THEN [pend EXCEPT !.set = ~done, !.owed = @ /\ Cur.end # "completed"] ELSE pend
  /\ shown' = Terminal(ShownEnd, Cur.gen)
  /\ UNCHANGED <<job, run, main, task, nextGen, live, drains>>

\* A boot scan is done only when every target was committed.
ApplyResult ==
  /\ At("result")
  /\ LET done == Cur.kind = "boot" /\ Cur.end = "completed" IN
     /\ exec' = [exec EXCEPT !.cur.at = "finish", !.cur.good = done, !.cur.resched = ~done]
     /\ pend' = IF Cur.kind = "boot" /\ Cur.end # "failed" THEN [pend EXCEPT !.set = ~done, !.owed = @ /\ ~done] ELSE pend
  /\ shown' = Terminal(ShownEnd, Cur.gen)
  /\ UNCHANGED <<job, run, main, task, nextGen, live, drains>>

FinishScanIfCurrent ==
  /\ At("finish")
  /\ \E ok \in BOOLEAN :
       /\ FinishScan(ok)
       /\ pend' = IF Cur.kind = "boot" /\ ~ok THEN [pend EXCEPT !.set = TRUE] ELSE pend
       /\ exec' = [exec EXCEPT !.cur.at = IF Cur.kind = "boot" THEN "notify" ELSE "drain",
                     !.cur.good = @ /\ ok, !.cur.resched = @ \/ ~ok]
  /\ UNCHANGED <<job, run, main, nextGen, shown, live, drains>>

DrainAfterScan ==
  /\ At("drain") /\ DrainIfIdle /\ EndTask
  /\ UNCHANGED <<pend, run, main, task, nextGen, shown, live, drains>>

\* onFinished: the run's generation is read, then one of two ways is taken.
Notify ==
  /\ At("notify")
  /\ Goto(IF ~run.active \/ run.id # Cur.run THEN "after"
          ELSE IF run.gen = 0 THEN "notify_early" ELSE "notify_direct")
  /\ UNCHANGED <<pend, job, run, main, task, nextGen, shown, live, drains>>

NotifyEarly ==
  /\ At("notify_early")
  /\ run' = IF run.id = Cur.run /\ run.early = None THEN [run EXCEPT !.early = Cur.resched] ELSE run
  /\ Goto("after")
  /\ UNCHANGED <<pend, job, main, task, nextGen, shown, live, drains>>

NotifyDirect ==
  /\ At("notify_direct")
  /\ run' = IF run.id = Cur.run /\ run.gen = Cur.gen
              THEN Answered([run EXCEPT !.gen = 0], Cur.resched) ELSE run
  /\ Goto("after")
  /\ UNCHANGED <<pend, job, main, task, nextGen, shown, live, drains>>

\* startBackgroundChannelMaintenanceIfIdle, after a complete boot scan.
AfterBoot ==
  /\ At("after")
  /\ IF Cur.good /\ MayStart THEN Goto("bg_begin")
     ELSE exec' = [queue |-> IF Cur.good THEN RetryQueue(exec.queue) ELSE exec.queue, cur |-> NoTask]
  /\ UNCHANGED <<pend, job, run, main, task, nextGen, shown, live, drains>>

BeginMaintenance ==
  /\ At("bg_begin")
  /\ BeginScan("maintenance")
  /\ exec' = IF task = None THEN [exec EXCEPT !.cur.at = "bg_submit", !.cur.gen = nextGen + 1]
             ELSE [exec EXCEPT !.cur = NoTask]
  /\ UNCHANGED <<pend, job, run, main, live, drains>>

SubmitMaintenance ==
  /\ At("bg_submit")
  /\ \/ /\ LiveBusy
        /\ shown' = Idle
        /\ \E ok \in BOOLEAN : FinishScan(ok)
        /\ EndTask
     \/ /\ ~LiveBusy
        /\ exec' = [queue |-> Append(exec.queue, Entry("maintenance", Cur.gen, 0)), cur |-> NoTask]
        /\ UNCHANGED <<task, shown>>
  /\ UNCHANGED <<pend, job, run, main, nextGen, live, drains>>

-----------------------------------------------------------------------------
MainStep == JobCheck \/ JobBegin \/ JobSubmit \/ JobSetGeneration \/ JobTakeEarly
            \/ JobFinished \/ CancelShow

ExecutorStep ==
  \/ TakeTask \/ CheckLive \/ ScanEnds \/ ApplyResult \/ FinishScanIfCurrent \/ DrainAfterScan
  \/ Notify \/ NotifyEarly \/ NotifyDirect \/ AfterBoot \/ BeginMaintenance \/ SubmitMaintenance

LiveStep == Preempt \/ PreemptShow \/ ConstructSession \/ FinishLiveSessionCreation

ManagerNext ==
  \/ LockedBootCompleted \/ UserUnlocked \/ BootCompleted \/ StartSetup \/ Cancel
  \/ StartJob \/ StopJob \/ MainStep
  \/ BeginLiveSessionCreation \/ LiveStep \/ UnregisterLiveSession \/ DrainPending
  \/ ExecutorStep

ManagerSpec == ManagerInit /\ [][ManagerNext]_managerVars

-----------------------------------------------------------------------------
(* Properties                                                              *)

\* A boot or maintenance scan never goes on uncancelled beside a live session:
\* once a session exists, or its creation has passed the preemption, the scan
\* under way has been told to stop.
LiveFirst ==
  exec.cur.at = "scan" /\ exec.cur.kind # "setup"
    /\ (live.sessions > 0 \/ live.at \in {"preempt_show", "construct", "finish"})
  => task.cancel

\* A boot sync asked for and not yet done is never forgotten: it stays pending,
\* and once the boot is complete the job that will do it is scheduled or runs.
PendingServed ==
  pend.owed => pend.set /\ (pend.booted => job # "none")

=============================================================================
