------------------------- MODULE ScanManagerProofs -------------------------
(***************************************************************************)
(* Who may use the tuner: no scan goes on beside a live session, and the   *)
(* synchronisation owed after boot is not lost, for any number of sessions *)
(* and scans.  The invariant says who owns activeTask: the one scan that   *)
(* waits in the executor's queue, is being submitted or is worked on.      *)
(***************************************************************************)
EXTENDS ScanManager, TLAPS

-----------------------------------------------------------------------------
(* The inductive invariant                                                 *)

Kinds == {"setup", "boot", "maintenance"}

Entries == [kind : Kinds \cup {"retry"}, gen : Nat, run : Nat]

\* The scan of generation g and purpose k is the active task and not yet closed.
Owns(t, g, k) == t \in Tasks /\ ~t.closing /\ t.gen = g /\ t.purpose = k

NoClaim(q) == \A i \in 1..Len(q) : q[i].kind = "retry"

\* At most one scan waits in the queue, and it owns the task; n is the latest run.
QueueInv(q, t, n) ==
  /\ q \in Seq(Entries)
  /\ \A i \in 1..Len(q) : q[i].kind # "retry" => Owns(t, q[i].gen, q[i].kind)
  /\ \A i, j \in 1..Len(q) : q[i].kind # "retry" /\ q[j].kind # "retry" => i = j
  /\ \A i \in 1..Len(q) : q[i].run <= n

Working == {"check", "scan", "result", "finish"}
Answering == {"finish", "notify", "notify_early", "notify_direct"}

Pends == [set : BOOLEAN, unlocked : BOOLEAN, booted : BOOLEAN, channels : BOOLEAN, owed : BOOLEAN]
Runs == [id : Nat, active : BOOLEAN, delivered : BOOLEAN, gen : Nat,
         early : {None} \cup BOOLEAN, post : {None} \cup BOOLEAN]
Mains == [at : {"idle", "cancel_show", "job_check", "job_begin", "job_submit", "job_set", "job_early"},
          gen : Nat]
Lives == [sessions : Nat, creating : Nat, ever : Nat, gen : Nat,
          at : {"idle", "preempt", "preempt_show", "construct", "finish"}]
Curs == [at : Working \cup Answering \cup {"idle", "drain", "after", "bg_begin", "bg_submit"},
         kind : {None} \cup Kinds, gen : Nat, run : Nat,
         end : {None, "completed", "partial", "lost", "failed", "cancelled"},
         resched : BOOLEAN, good : BOOLEAN]
Execs == [queue : Seq(Entries), cur : Curs]

ManagerTypes ==
  /\ pend \in Pends
  /\ job \in {"none", "scheduled", "running"}
  /\ run \in Runs
  /\ main \in Mains
  /\ task \in {None} \cup Tasks
  /\ nextGen \in Nat
  /\ live \in Lives
  /\ exec \in Execs

\* Whoever works for a scan owns the task, and nobody else does at the same time.
OneOwner ==
  /\ QueueInv(exec.queue, task, run.id)
  /\ exec.cur.at \in Working => Owns(task, exec.cur.gen, exec.cur.kind)
  /\ exec.cur.at = "bg_submit" => Owns(task, exec.cur.gen, "maintenance")
  /\ main.at = "job_submit" => Owns(task, main.gen, "boot") /\ NoClaim(exec.queue)
  /\ exec.cur.at \in Working \cup {"bg_submit"} => NoClaim(exec.queue) /\ main.at # "job_submit"

\* A run that will not be repeated ends with nothing owed.
OwedKept ==
  /\ pend.owed => pend.set
  /\ pend.owed /\ pend.booted => job # "none"
  /\ pend.booted \/ job # "none" => pend.unlocked
  /\ run.active => job = "running"
  /\ run.active /\ run.post = FALSE /\ run.post # None => ~pend.owed
  /\ run.active /\ run.early = FALSE /\ run.early # None => ~pend.owed
  /\ exec.cur.run <= run.id
  /\ exec.cur.at = "check" => exec.cur.resched
  /\ exec.cur.at \in Answering /\ ~exec.cur.resched /\ run.active /\ run.id = exec.cur.run => ~pend.owed

ManagerInv ==
  /\ ManagerTypes /\ OneOwner /\ OwedKept
  /\ live.creating = IF live.at = "idle" THEN 0 ELSE 1
  /\ LiveFirst

-----------------------------------------------------------------------------
(* The executor's queue                                                    *)

\* A scan that waits owns the task, so that without a task no scan waits.
LEMMA NoTaskNoClaim ==
  ASSUME NEW q, NEW n, QueueInv(q, None, n)
  PROVE  NoClaim(q)
BY Zenon, NullAssumption DEF QueueInv, NoClaim, Owns

\* The task and the run may change under a queue without a scan.
LEMMA QueueWithoutClaim ==
  ASSUME NEW q, NEW t, NEW n, QueueInv(q, t, n), NoClaim(q), NEW u
  PROVE  QueueInv(q, u, n)
BY Zenon DEF QueueInv, NoClaim

\* Asking for a retry leaves the scans that wait where they are.
LEMMA QueueRetried ==
  ASSUME NEW q, NEW t, NEW n \in Nat, QueueInv(q, t, n)
  PROVE  /\ QueueInv(RetryQueue(q), t, n)
         /\ NoClaim(q) => NoClaim(RetryQueue(q))
<1> DEFINE e == [kind |-> "retry", gen |-> 0, run |-> 0]
<1>0. q \in Seq(Entries) /\ e \in Entries
  BY Zenon DEF QueueInv, Entries
<1>1. CASE RetryQueue(q) = q
  BY Zenon, <1>1
<1>2. CASE RetryQueue(q) = Append(q, e)
  <2>1. /\ Append(q, e) \in Seq(Entries) /\ Len(Append(q, e)) = Len(q) + 1
        /\ \A i \in 1..Len(q) + 1 : Append(q, e)[i] = IF i <= Len(q) THEN q[i] ELSE e
    BY <1>0
  <2>2. e.kind = "retry" /\ e.run = 0 /\ Len(q) \in Nat
    BY <1>0
  <2> HIDE DEF e
  <2> QED
    BY <1>2, <2>1, <2>2 DEF QueueInv, NoClaim
<1> QED
  BY Zenon, <1>1, <1>2 DEF RetryQueue

\* A scan is queued by the one who owns the task.
LEMMA QueueSubmitted ==
  ASSUME NEW q, NEW t, NEW n \in Nat, QueueInv(q, t, n), NoClaim(q),
         NEW e \in Entries, NEW u, Owns(u, e.gen, e.kind), e.run <= n
  PROVE  QueueInv(Append(q, e), u, n)
<1>1. /\ q \in Seq(Entries) /\ Append(q, e) \in Seq(Entries) /\ Len(Append(q, e)) = Len(q) + 1
      /\ \A i \in 1..Len(q) + 1 : Append(q, e)[i] = IF i <= Len(q) THEN q[i] ELSE e
      /\ Len(q) \in Nat
  BY DEF QueueInv
<1> QED
  BY <1>1 DEF QueueInv, NoClaim

\* What is taken from the queue is a retry, or the one scan that waits.
LEMMA QueueTaken ==
  ASSUME NEW q, NEW t, NEW n \in Nat, QueueInv(q, t, n), q # <<>>
  PROVE  /\ QueueInv(Tail(q), t, n)
         /\ Head(q) \in Entries /\ Head(q).run <= n
         /\ NoClaim(q) => NoClaim(Tail(q)) /\ Head(q).kind = "retry"
         /\ Head(q).kind # "retry" => NoClaim(Tail(q)) /\ Owns(t, Head(q).gen, Head(q).kind)
<1>1. /\ q \in Seq(Entries) /\ Tail(q) \in Seq(Entries) /\ Len(q) \in Nat /\ Len(q) >= 1
      /\ Len(Tail(q)) = Len(q) - 1 /\ Head(q) = q[1]
      /\ \A i \in 1..Len(q) - 1 : Tail(q)[i] = q[i + 1]
  BY DEF QueueInv
<1>2. Head(q) \in Entries
  BY <1>1
<1> QED
  BY <1>1, <1>2 DEF QueueInv, NoClaim

\* Cancelling the task keeps its owner; a later run is later than those queued.
LEMMA QueueKept ==
  ASSUME NEW q, NEW t, NEW n \in Nat, QueueInv(q, t, n)
  PROVE  /\ QueueInv(q, [t EXCEPT !.cancel = TRUE], n)
         /\ QueueInv(q, t, n + 1)
<1>1. \A g, k : Owns(t, g, k) => Owns([t EXCEPT !.cancel = TRUE], g, k)
  BY ZenonT(30) DEF Owns, Tasks
<1>0. \A i \in 1..Len(q) : q[i] \in Entries
  BY DEF QueueInv
<1>2. \A i \in 1..Len(q) : q[i].run \in Nat
  BY Zenon, <1>0 DEF Entries
<1>3. QueueInv(q, [t EXCEPT !.cancel = TRUE], n)
  <2> DEFINE u == [t EXCEPT !.cancel = TRUE]
  <2> HIDE DEF u
  <2>1. \A g, k : Owns(t, g, k) => Owns(u, g, k)
    BY ZenonT(30), <1>1 DEF u
  <2>2. QueueInv(q, u, n)
    BY Zenon, <2>1 DEF QueueInv
  <2> QED
    BY Zenon, <2>2 DEF u
<1>4. QueueInv(q, t, n + 1)
  BY <1>2 DEF QueueInv
<1> QED
  BY Zenon, <1>3, <1>4

\* beginScan makes a new owner or leaves the old one.
LEMMA BegunScan ==
  ASSUME nextGen \in Nat, task \in {None} \cup Tasks, NEW p \in Kinds, BeginScan(p)
  PROVE  /\ task' \in Tasks /\ nextGen' \in Nat
         /\ task # None => task' = task
         /\ task = None => Owns(task', nextGen + 1, p)
BY DEF BeginScan, Owns, Tasks, Kinds

\* Cancelling changes neither the owner nor the purpose of a task.
LEMMA CancelledTask ==
  ASSUME NEW t \in Tasks
  PROVE  /\ [t EXCEPT !.cancel = TRUE] \in Tasks
         /\ [t EXCEPT !.cancel = TRUE].cancel = TRUE
         /\ [t EXCEPT !.cancel = TRUE].purpose = t.purpose
         /\ \A g, k : Owns(t, g, k) => Owns([t EXCEPT !.cancel = TRUE], g, k)
<1>1. [t EXCEPT !.cancel = TRUE] \in Tasks
  BY ZenonT(30) DEF Tasks
<1>2. \A g, k : Owns(t, g, k) => Owns([t EXCEPT !.cancel = TRUE], g, k)
  BY Zenon, <1>1 DEF Owns, Tasks
<1> QED
  BY ZenonT(30), <1>1, <1>2 DEF Tasks

\* finishScanRelease ends the task or leaves it closing.
LEMMA FinishedScan ==
  ASSUME task \in Tasks, NEW ok \in BOOLEAN, FinishScan(ok)
  PROVE  task' \in {None} \cup Tasks
BY ZenonT(30) DEF FinishScan, Tasks

\* The executor without a task.
LEMMA NoTaskTyped ==
  NoTask \in Curs /\ NoTask.at = "idle" /\ NoTask.run = 0
BY Zenon DEF NoTask, Curs

\* The executor goes on to another step of the same task.
LEMMA ExecGoto ==
  ASSUME NEW x \in Execs,
         NEW a \in Working \cup Answering \cup {"idle", "drain", "after", "bg_begin", "bg_submit"},
         NEW y, y = [x EXCEPT !.cur.at = a]
  PROVE  /\ y \in Execs /\ y.queue = x.queue
         /\ y.cur.at = a /\ y.cur.kind = x.cur.kind /\ y.cur.gen = x.cur.gen /\ y.cur.run = x.cur.run
         /\ y.cur.resched = x.cur.resched /\ y.cur.good = x.cur.good /\ y.cur.end = x.cur.end
<1>1. x.cur \in Curs /\ x.queue \in Seq(Entries) /\ x = [queue |-> x.queue, cur |-> x.cur]
  BY Zenon DEF Execs
<1>2. [x.cur EXCEPT !.at = a] \in Curs
  BY Zenon, <1>1 DEF Curs
<1>3. y = [queue |-> x.queue, cur |-> [x.cur EXCEPT !.at = a]]
  BY Zenon, <1>1
<1>4. y \in Execs
  BY Zenon, <1>1, <1>2, <1>3 DEF Execs
<1> QED
  BY <1>1, <1>3, <1>4 DEF Curs

\* finish gives a run an answer and leaves the rest of it alone.
LEMMA AnsweredRun ==
  ASSUME NEW r \in Runs, NEW b \in BOOLEAN
  PROVE  /\ Answered(r, b) \in Runs
         /\ Answered(r, b).id = r.id /\ Answered(r, b).active = r.active
         /\ Answered(r, b).early = r.early /\ Answered(r, b).gen = r.gen
         /\ Answered(r, b).post \in {r.post, b}
BY ZenonT(30) DEF Answered, Runs

-----------------------------------------------------------------------------
(* Every step keeps the invariant                                         *)

\* The receivers and the job service keep the manager's invariant.
LEMMA MainKeeps ==
  ASSUME ManagerInv,
         LockedBootCompleted \/ UserUnlocked \/ BootCompleted \/ CancelShow \/ StartJob \/ JobCheck
           \/ JobSetGeneration \/ JobTakeEarly \/ JobFinished
  PROVE  ManagerInv'
<1>0. ManagerTypes /\ OneOwner /\ OwedKept /\ LiveFirst /\ live.creating = IF live.at = "idle" THEN 0 ELSE 1
  BY Zenon DEF ManagerInv
<1>1. CASE LockedBootCompleted
  <2>1. pend' \in Pends
    BY ZenonT(30), <1>0, <1>1 DEF ManagerTypes, Pends, LockedBootCompleted, MainIdle
  <2>2. ManagerTypes'
    BY Zenon, <1>0, <1>1, <2>1 DEF ManagerTypes, LockedBootCompleted, MainIdle
  <2>3. OneOwner'
    BY Zenon, <1>0, <1>1 DEF ManagerTypes, OneOwner, LockedBootCompleted, MainIdle
  <2>4. OwedKept'
    BY Zenon, <1>0, <1>1 DEF ManagerTypes, OwedKept, Pends, LockedBootCompleted, MainIdle
  <2>5. LiveFirst' /\ (live.creating = IF live.at = "idle" THEN 0 ELSE 1)'
    BY Zenon, <1>0, <1>1 DEF ManagerTypes, LiveFirst, LockedBootCompleted, MainIdle
  <2> QED
    BY Zenon, <2>2, <2>3, <2>4, <2>5 DEF ManagerInv
<1>2. CASE UserUnlocked
  <2>1. pend' \in Pends
    BY ZenonT(30), <1>0, <1>2 DEF ManagerTypes, Pends, UserUnlocked, MainIdle
  <2>2. job' \in {"none", "scheduled", "running"}
    BY Zenon, <1>0, <1>2 DEF ManagerTypes, UserUnlocked, MainIdle
  <2>3. ManagerTypes'
    BY Zenon, <1>0, <1>2, <2>1, <2>2 DEF ManagerTypes, UserUnlocked, MainIdle
  <2>4. OneOwner'
    BY Zenon, <1>0, <1>2 DEF ManagerTypes, OneOwner, UserUnlocked, MainIdle
  <2>5. OwedKept'
    BY Zenon, <1>0, <1>2 DEF ManagerTypes, OwedKept, Pends, UserUnlocked, MainIdle
  <2>6. LiveFirst' /\ (live.creating = IF live.at = "idle" THEN 0 ELSE 1)'
    BY Zenon, <1>0, <1>2 DEF ManagerTypes, LiveFirst, UserUnlocked, MainIdle
  <2> QED
    BY Zenon, <2>3, <2>4, <2>5, <2>6 DEF ManagerInv
<1>3. CASE BootCompleted
  <2>1. pend' \in Pends
    BY ZenonT(30), <1>0, <1>3 DEF ManagerTypes, Pends, BootCompleted, MainIdle
  <2>2. job' \in {"none", "scheduled", "running"}
    BY Zenon, <1>0, <1>3 DEF ManagerTypes, BootCompleted, MainIdle
  <2>3. ManagerTypes'
    BY Zenon, <1>0, <1>3, <2>1, <2>2 DEF ManagerTypes, BootCompleted, MainIdle
  <2>4. OneOwner'
    BY Zenon, <1>0, <1>3 DEF ManagerTypes, OneOwner, BootCompleted, MainIdle
  <2>5. OwedKept'
    BY Zenon, <1>0, <1>3 DEF ManagerTypes, OwedKept, Pends, BootCompleted, MainIdle
  <2>6. LiveFirst' /\ (live.creating = IF live.at = "idle" THEN 0 ELSE 1)'
    BY Zenon, <1>0, <1>3 DEF ManagerTypes, LiveFirst, BootCompleted, MainIdle
  <2> QED
    BY Zenon, <2>3, <2>4, <2>5, <2>6 DEF ManagerInv
<1>4. CASE CancelShow
  <2>1. main' \in Mains
    BY Zenon, <1>0, <1>4 DEF ManagerTypes, Mains, CancelShow, ShowCancelled
  <2>2. ManagerTypes'
    BY Zenon, <1>0, <1>4, <2>1 DEF ManagerTypes, CancelShow, ShowCancelled
  <2>3. OneOwner'
    BY Zenon, <1>0, <1>4 DEF ManagerTypes, OneOwner, Mains, CancelShow, ShowCancelled
  <2>4. OwedKept'
    BY Zenon, <1>0, <1>4 DEF ManagerTypes, OwedKept, CancelShow, ShowCancelled
  <2>5. LiveFirst' /\ (live.creating = IF live.at = "idle" THEN 0 ELSE 1)'
    BY Zenon, <1>0, <1>4 DEF ManagerTypes, LiveFirst, CancelShow, ShowCancelled
  <2> QED
    BY Zenon, <2>2, <2>3, <2>4, <2>5 DEF ManagerInv
<1>5. CASE StartJob
  <2>a. /\ NewRun \in Runs /\ NewRun.id = run.id + 1 /\ NewRun.early = None /\ NewRun.post = None
        /\ [NewRun EXCEPT !.active = FALSE] \in Runs /\ ~[NewRun EXCEPT !.active = FALSE].active
        /\ [NewRun EXCEPT !.active = FALSE].id = run.id + 1 /\ run.id \in Nat
        /\ [NewRun EXCEPT !.active = FALSE].early = None /\ [NewRun EXCEPT !.active = FALSE].post = None
    <3>1. NewRun \in Runs /\ NewRun.id = run.id + 1 /\ NewRun.early = None /\ NewRun.post = None /\ run.id \in Nat
      BY <1>0 DEF ManagerTypes, NewRun, Runs
    <3>2. \A r \in Runs : [r EXCEPT !.active = FALSE] \in Runs
      BY ZenonT(30) DEF Runs
    <3>3. \A r \in Runs : /\ [r EXCEPT !.active = FALSE].active = FALSE /\ [r EXCEPT !.active = FALSE].id = r.id
                          /\ [r EXCEPT !.active = FALSE].early = r.early /\ [r EXCEPT !.active = FALSE].post = r.post
      BY Zenon DEF Runs
    <3> QED
      BY Zenon, <3>1, <3>2, <3>3
  <2>b. /\ run' \in {NewRun, Answered(NewRun, TRUE), [NewRun EXCEPT !.active = FALSE]}
        /\ run' = [NewRun EXCEPT !.active = FALSE] \/ job' = "running"
        /\ pend'.owed => pend.owed /\ pend' = pend /\ job' = "running"
        /\ pend'.set = pend'.set /\ pend'.unlocked = pend.unlocked /\ pend'.booted = pend.booted
        /\ pend.unlocked /\ UNCHANGED <<task, live, exec>>
        /\ main' = main \/ main' = [at |-> "job_check", gen |-> 0]
    BY ZenonT(30), <1>0, <1>5 DEF ManagerTypes, OwedKept, Pends, StartJob, MainIdle
  <2>c. /\ run' \in Runs /\ run'.id = run.id + 1 /\ run'.early = None /\ run'.post \in {None, TRUE}
        /\ run'.active => job' = "running"
    <3>1. CASE run' = NewRun
      BY ZenonT(30), <2>a, <2>b, <3>1
    <3>2. CASE run' = Answered(NewRun, TRUE)
      BY ZenonT(30), <2>a, <2>b, <3>2, AnsweredRun
    <3>3. CASE run' = [NewRun EXCEPT !.active = FALSE]
      BY ZenonT(30), <2>a, <3>3
    <3> QED
      BY ZenonT(30), <2>b, <3>1, <3>2, <3>3
  <2>1. pend' \in Pends
    BY ZenonT(30), <1>0, <1>5 DEF ManagerTypes, Pends, StartJob, MainIdle, NewRun
  <2>2. job' \in {"none", "scheduled", "running"}
    BY ZenonT(30), <1>0, <1>5 DEF ManagerTypes, StartJob, MainIdle, NewRun
  <2>3. run' \in Runs
    BY Zenon, <2>c
  <2>4. main' \in Mains
    BY <1>0, <2>b DEF ManagerTypes, Mains
  <2>5. ManagerTypes'
    BY Zenon, <1>0, <1>5, <2>1, <2>2, <2>3, <2>4 DEF ManagerTypes, StartJob, MainIdle, NewRun
  <2>6. OneOwner'
    <3>1. QueueInv(exec.queue, task, run.id + 1)
      BY ZenonT(30), <1>0, <2>a, QueueKept DEF OneOwner
    <3> QED
      BY <1>0, <2>b, <2>c, <3>1 DEF OneOwner
  <2>7. OwedKept'
    <3>1. exec.cur.run \in Nat
      BY Zenon, <1>0 DEF ManagerTypes, Execs, Curs
    <3>2. exec.cur.run < run'.id
      BY <1>0, <2>a, <2>c, <3>1 DEF OwedKept
    <3>3. pend'.owed => pend'.set /\ job' = "running"
      BY Zenon, <1>0, <2>b DEF OwedKept
    <3>4. ~(run'.post = FALSE /\ run'.post # None)
      BY ZenonT(30), <2>c
    <3>5. exec'.cur.run <= run'.id /\ run'.id # exec'.cur.run
      BY <2>a, <2>b, <2>c, <3>1, <3>2
    <3>6. pend'.booted \/ job' # "none" => pend'.unlocked
      BY Zenon, <2>b
    <3>7. exec'.cur.at = "check" => exec'.cur.resched
      BY Zenon, <1>0, <2>b DEF OwedKept
    <3> QED
      BY Zenon, <2>c, <3>3, <3>4, <3>5, <3>6, <3>7 DEF OwedKept
  <2>8. LiveFirst' /\ (live.creating = IF live.at = "idle" THEN 0 ELSE 1)'
    BY Zenon, <1>0, <1>5 DEF ManagerTypes, LiveFirst, StartJob, MainIdle, NewRun
  <2> QED
    BY Zenon, <2>5, <2>6, <2>7, <2>8 DEF ManagerInv
<1>6. CASE JobCheck
  <2>a. /\ exec'.queue = RetryQueue(exec.queue) /\ exec'.cur = exec.cur
        /\ run' \in {run, Answered(run, TRUE)} /\ main'.at # "job_submit" /\ main' \in Mains
        /\ pend' = pend \/ pend' = [pend EXCEPT !.set = TRUE]
        /\ UNCHANGED <<job, task, live>>
    <3>1. exec'.queue = RetryQueue(exec.queue) /\ exec'.cur = exec.cur
      BY Zenon, <1>0, <1>6 DEF ManagerTypes, Execs, JobCheck
    <3>2. main'.at # "job_submit" /\ main' \in Mains
      <4>1. main' \in {[main EXCEPT !.at = "job_begin"], [at |-> "idle", gen |-> 0]}
        BY ZenonT(30), <1>6 DEF JobCheck
      <4> QED
        BY <1>0, <4>1 DEF ManagerTypes, Mains
    <3> QED
      BY ZenonT(30), <1>6, <3>1, <3>2 DEF JobCheck, DeferPending
  <2>b. /\ run' \in Runs /\ run'.id = run.id /\ run'.active = run.active /\ run'.early = run.early
        /\ run'.post \in {run.post, TRUE} /\ run.id \in Nat
    BY ZenonT(30), <1>0, <2>a, AnsweredRun DEF ManagerTypes, Runs
  <2>c. QueueInv(exec'.queue, task, run.id) /\ (NoClaim(exec.queue) => NoClaim(exec'.queue))
    BY <1>0, <2>a, <2>b, QueueRetried DEF OneOwner
  <2>1. pend' \in Pends
    BY ZenonT(30), <1>0, <1>6 DEF ManagerTypes, Pends, JobCheck, DeferPending, MayStart
  <2>2. run' \in Runs
    BY Zenon, <2>b
  <2>3. main' \in Mains
    BY Zenon, <2>a
  <2>4. exec' \in Execs
    <3>1. exec'.queue \in Seq(Entries)
      BY Zenon, <2>c DEF QueueInv
    <3> QED
      BY Zenon, <1>0, <1>6, <2>a, <3>1 DEF ManagerTypes, Execs, JobCheck
  <2>5. ManagerTypes'
    BY Zenon, <1>0, <1>6, <2>1, <2>2, <2>3, <2>4 DEF ManagerTypes, JobCheck, DeferPending, MayStart
  <2>6. OneOwner'
    BY Zenon, <1>0, <2>a, <2>b, <2>c DEF OneOwner
  <2>7. OwedKept'
    BY ZenonT(30), <1>0, <2>a, <2>b DEF ManagerTypes, OwedKept, Pends
  <2>8. LiveFirst' /\ (live.creating = IF live.at = "idle" THEN 0 ELSE 1)'
    BY Zenon, <1>0, <1>6 DEF ManagerTypes, LiveFirst, Answering, Curs, Entries, Execs, Kinds, Working, JobCheck, DeferPending, MayStart
  <2> QED
    BY Zenon, <2>5, <2>6, <2>7, <2>8 DEF ManagerInv
<1>7. CASE JobSetGeneration
  <2>1. run' \in Runs
    BY Zenon, <1>0, <1>7 DEF ManagerTypes, Runs, Mains, JobSetGeneration
  <2>2. main' \in Mains
    BY Zenon, <1>0, <1>7 DEF ManagerTypes, Mains, JobSetGeneration
  <2>3. ManagerTypes'
    BY Zenon, <1>0, <1>7, <2>1, <2>2 DEF ManagerTypes, JobSetGeneration
  <2>4. OneOwner'
    BY Zenon, <1>0, <1>7 DEF ManagerTypes, OneOwner, Mains, Runs, JobSetGeneration
  <2>5. OwedKept'
    BY Zenon, <1>0, <1>7 DEF ManagerTypes, OwedKept, Runs, JobSetGeneration
  <2>6. LiveFirst' /\ (live.creating = IF live.at = "idle" THEN 0 ELSE 1)'
    BY Zenon, <1>0, <1>7 DEF ManagerTypes, LiveFirst, JobSetGeneration
  <2> QED
    BY Zenon, <2>3, <2>4, <2>5, <2>6 DEF ManagerInv
<1>8. CASE JobTakeEarly
  <2>a. [run EXCEPT !.gen = 0, !.early = None] \in Runs /\ [run EXCEPT !.early = None] \in Runs
    BY ZenonT(30), <1>0 DEF ManagerTypes, Runs
  <2>b. /\ run' \in Runs /\ run'.id = run.id /\ run'.active = run.active /\ run'.early = None
        /\ run'.post = run.post \/ (run.early # None /\ run'.post = run.early)
    <3>1. CASE run.early # None /\ run.gen = main.gen
      <4> DEFINE r == [run EXCEPT !.gen = 0, !.early = None]
      <4>1. r.id = run.id /\ r.active = run.active /\ r.early = None /\ r.post = run.post /\ run.early \in BOOLEAN
        BY Zenon, <1>0, <3>1 DEF ManagerTypes, Runs
      <4>2. run' = Answered(r, run.early)
        BY Zenon, <1>8, <3>1 DEF JobTakeEarly
      <4> HIDE DEF r
      <4>3. r \in Runs
        BY Zenon, <2>a DEF r
      <4> QED
        BY Zenon, <3>1, <4>1, <4>2, <4>3, AnsweredRun
    <3>2. CASE ~(run.early # None /\ run.gen = main.gen)
      BY Zenon, <1>0, <1>8, <2>a, <3>2 DEF ManagerTypes, Runs, JobTakeEarly
    <3> QED
      BY Zenon, <3>1, <3>2
  <2>1. run' \in Runs
    BY Zenon, <2>b
  <2>2. main' \in Mains
    BY Zenon, <1>0, <1>8 DEF ManagerTypes, Mains, JobTakeEarly
  <2>3. ManagerTypes'
    BY Zenon, <1>0, <1>8, <2>1, <2>2 DEF ManagerTypes, JobTakeEarly
  <2>4. OneOwner'
    BY Zenon, <1>0, <1>8, <2>b DEF OneOwner, JobTakeEarly
  <2>5. OwedKept'
    BY Zenon, <1>0, <1>8, <2>b DEF OwedKept, JobTakeEarly
  <2>6. LiveFirst' /\ (live.creating = IF live.at = "idle" THEN 0 ELSE 1)'
    BY Zenon, <1>0, <1>8 DEF ManagerTypes, LiveFirst, JobTakeEarly
  <2> QED
    BY Zenon, <2>3, <2>4, <2>5, <2>6 DEF ManagerInv
<1>9. CASE JobFinished
  <2>1. run' \in Runs
    BY ZenonT(30), <1>0, <1>9 DEF ManagerTypes, Runs, JobFinished, MainIdle
  <2>2. job' \in {"none", "scheduled", "running"}
    BY Zenon, <1>0, <1>9 DEF ManagerTypes, JobFinished, MainIdle
  <2>3. ManagerTypes'
    BY Zenon, <1>0, <1>9, <2>1, <2>2 DEF ManagerTypes, JobFinished, MainIdle
  <2>4. OneOwner'
    BY Zenon, <1>0, <1>9 DEF ManagerTypes, OneOwner, Runs, JobFinished, MainIdle
  <2>5. OwedKept'
    BY Zenon, <1>0, <1>9 DEF ManagerTypes, OwedKept, Runs, JobFinished, MainIdle
  <2>6. LiveFirst' /\ (live.creating = IF live.at = "idle" THEN 0 ELSE 1)'
    BY Zenon, <1>0, <1>9 DEF ManagerTypes, LiveFirst, JobFinished, MainIdle
  <2> QED
    BY Zenon, <2>3, <2>4, <2>5, <2>6 DEF ManagerInv
<1> QED
  BY Zenon, <1>1, <1>2, <1>3, <1>4, <1>5, <1>6, <1>7, <1>8, <1>9

\* Beginning, submitting and cancelling a scan keep the manager's invariant.
LEMMA TaskKeeps ==
  ASSUME ManagerInv,
         StartSetup \/ Cancel \/ JobBegin \/ JobSubmit \/ StopJob
  PROVE  ManagerInv'
<1>0. ManagerTypes /\ OneOwner /\ OwedKept /\ LiveFirst /\ live.creating = IF live.at = "idle" THEN 0 ELSE 1
  BY Zenon DEF ManagerInv
<1>1. CASE StartSetup
  <2>a. /\ exec'.cur = exec.cur /\ UNCHANGED <<pend, job, run, main, live>> /\ run.id \in Nat /\ BeginScan("setup")
        /\ exec'.queue = IF task = None THEN Append(RetryQueue(exec.queue), Entry("setup", nextGen + 1, 0))
                         ELSE RetryQueue(exec.queue)
    BY Zenon, <1>0, <1>1 DEF ManagerTypes, Runs, Execs, StartSetup
  <2>b. /\ task' \in Tasks /\ nextGen' \in Nat /\ (task # None => task' = task)
        /\ task = None => Owns(task', nextGen + 1, "setup")
    BY Zenon, <1>0, <2>a, BegunScan DEF ManagerTypes, Kinds
  <2>c. QueueInv(exec'.queue, task', run.id) /\ (task # None /\ NoClaim(exec.queue) => NoClaim(exec'.queue))
    <3>1. QueueInv(RetryQueue(exec.queue), task, run.id) /\ (NoClaim(exec.queue) => NoClaim(RetryQueue(exec.queue)))
      BY Zenon, <1>0, <2>a, QueueRetried DEF OneOwner
    <3>2. CASE task = None
      <4> DEFINE e == Entry("setup", nextGen + 1, 0)
      <4>1. e \in Entries /\ e.gen = nextGen + 1 /\ e.kind = "setup" /\ e.run = 0
        BY <1>0 DEF ManagerTypes, Entries, Entry, Kinds
      <4>2. exec'.queue = Append(RetryQueue(exec.queue), e)
        BY Zenon, <2>a, <3>2
      <4> HIDE DEF e
      <4>3. NoClaim(RetryQueue(exec.queue))
        BY Zenon, <3>1, <3>2, NoTaskNoClaim
      <4>4. Owns(task', e.gen, e.kind) /\ e.run <= run.id
        BY <2>a, <2>b, <3>2, <4>1
      <4> QED
        BY Zenon, <2>a, <3>1, <3>2, <4>1, <4>2, <4>3, <4>4, QueueSubmitted
    <3> QED
      BY Zenon, <2>a, <2>b, <3>1, <3>2
  <2>1. task' \in {None} \cup Tasks
    BY Zenon, <2>b
  <2>2. nextGen' \in Nat
    BY Zenon, <2>b
  <2>3. exec' \in Execs
    <3>1. exec'.queue \in Seq(Entries)
      BY Zenon, <2>c DEF QueueInv
    <3> QED
      BY ZenonT(30), <1>0, <1>1, <2>a, <3>1 DEF ManagerTypes, Execs, StartSetup
  <2>4. ManagerTypes'
    BY Zenon, <1>0, <1>1, <2>1, <2>2, <2>3 DEF ManagerTypes, StartSetup, MainIdle, BeginScan, Entry
  <2>5. OneOwner'
    <3>1. task = None => ~\E g, k : Owns(task, g, k)
      BY ZenonT(30), NullAssumption DEF Owns
    <3> QED
      BY Zenon, <1>0, <2>a, <2>b, <2>c, <3>1 DEF OneOwner
  <2>6. OwedKept'
    BY Zenon, <1>0, <2>a DEF OwedKept
  <2>7. LiveFirst' /\ (live.creating = IF live.at = "idle" THEN 0 ELSE 1)'
    <3>1. task = None => exec.cur.at # "scan"
      BY Zenon, <1>0, NullAssumption DEF OneOwner, Owns, Working
    <3> QED
      BY Zenon, <1>0, <2>a, <2>b, <3>1 DEF LiveFirst
  <2> QED
    BY Zenon, <2>4, <2>5, <2>6, <2>7 DEF ManagerInv
<1>2. CASE Cancel
  <2>a. task \in Tasks /\ task' = [task EXCEPT !.cancel = TRUE] /\ main' = [at |-> "cancel_show", gen |-> task.gen]
    BY Zenon, <1>0, <1>2 DEF ManagerTypes, Cancel
  <2>b. task' \in Tasks /\ task'.cancel = TRUE /\ \A g, k : Owns(task, g, k) => Owns(task', g, k)
    BY Zenon, <2>a, CancelledTask
  <2>1. task' \in {None} \cup Tasks
    BY Zenon, <2>b
  <2>2. main' \in Mains
    BY Zenon, <2>a DEF Mains, Tasks
  <2>3. ManagerTypes'
    BY Zenon, <1>0, <1>2, <2>1, <2>2 DEF ManagerTypes, Cancel, MainIdle
  <2>4. OneOwner'
    <3>1. QueueInv(exec.queue, task', run.id)
      BY Zenon, <1>0, <2>a, QueueKept DEF OneOwner, ManagerTypes, Runs
    <3>2. UNCHANGED <<exec, run>> /\ main'.at = "cancel_show"
      BY <1>2, <2>a DEF Cancel
    <3> QED
      BY Zenon, <1>0, <2>b, <3>1, <3>2 DEF OneOwner
  <2>5. OwedKept'
    BY Zenon, <1>0, <1>2 DEF ManagerTypes, OwedKept, Cancel, MainIdle
  <2>6. LiveFirst' /\ (live.creating = IF live.at = "idle" THEN 0 ELSE 1)'
    BY Zenon, <1>0, <1>2, <2>b DEF Cancel, LiveFirst
  <2> QED
    BY Zenon, <2>3, <2>4, <2>5, <2>6 DEF ManagerInv
<1>3. CASE JobBegin
  <2>a. /\ UNCHANGED <<job, live, exec>> /\ main.at = "job_begin" /\ BeginScan("boot")
        /\ main' = (IF task = None THEN [at |-> "job_submit", gen |-> nextGen + 1] ELSE [at |-> "idle", gen |-> 0])
        /\ run' \in {run, Answered(run, TRUE)} /\ pend' \in {pend, [pend EXCEPT !.set = TRUE]}
    BY ZenonT(30), <1>3 DEF JobBegin, DeferPending
  <2>b. /\ task' \in Tasks /\ nextGen' \in Nat /\ (task # None => task' = task)
        /\ task = None => Owns(task', nextGen + 1, "boot")
    BY Zenon, <1>0, <2>a, BegunScan DEF ManagerTypes, Kinds
  <2>c. /\ run' \in Runs /\ run'.id = run.id /\ run'.active = run.active /\ run'.early = run.early
        /\ run'.post \in {run.post, TRUE} /\ run.id \in Nat
    BY ZenonT(30), <1>0, <2>a, AnsweredRun DEF ManagerTypes, Runs
  <2>1. pend' \in Pends
    BY ZenonT(30), <1>0, <2>a DEF ManagerTypes, Pends
  <2>2. run' \in Runs
    BY Zenon, <2>c
  <2>3. main' \in Mains
    BY <1>0, <2>a DEF ManagerTypes, Mains
  <2>4. task' \in {None} \cup Tasks
    BY Zenon, <2>b
  <2>5. nextGen' \in Nat
    BY Zenon, <2>b
  <2>6. ManagerTypes'
    BY Zenon, <1>0, <1>3, <2>1, <2>2, <2>3, <2>4, <2>5 DEF ManagerTypes, JobBegin, BeginScan, DeferPending
  <2>7. OneOwner'
    <3>1. task = None => NoClaim(exec.queue) /\ ~\E g, k : Owns(task, g, k)
      BY ZenonT(30), <1>0, NullAssumption, NoTaskNoClaim DEF Owns, OneOwner
    <3>2. QueueInv(exec.queue, task', run.id)
      BY Zenon, <1>0, <2>b, <3>1, QueueWithoutClaim DEF OneOwner
    <3>3. CASE task = None
      <4>1. main'.at = "job_submit" /\ main'.gen = nextGen + 1
        BY Zenon, <2>a, <3>3
      <4> QED
        BY Zenon, <1>0, <2>a, <2>b, <2>c, <3>1, <3>2, <3>3, <4>1 DEF OneOwner
    <3>4. CASE task # None
      <4>1. main'.at = "idle"
        BY Zenon, <2>a, <3>4
      <4> QED
        BY Zenon, <1>0, <2>a, <2>b, <2>c, <3>2, <3>4, <4>1 DEF OneOwner
    <3> QED
      BY Zenon, <3>3, <3>4
  <2>8. OwedKept'
    BY ZenonT(30), <1>0, <2>a, <2>c DEF ManagerTypes, OwedKept, Pends
  <2>9. LiveFirst' /\ (live.creating = IF live.at = "idle" THEN 0 ELSE 1)'
    <3>1. task = None => exec.cur.at # "scan"
      BY Zenon, <1>0, NullAssumption DEF OneOwner, Owns, Working
    <3> QED
      BY Zenon, <1>0, <2>a, <2>b, <3>1 DEF LiveFirst
  <2> QED
    BY Zenon, <2>6, <2>7, <2>8, <2>9 DEF ManagerInv
<1>4. CASE JobSubmit
  <2>a. /\ UNCHANGED <<job, nextGen, live>> /\ main.at = "job_submit" /\ main'.at # "job_submit" /\ main' \in Mains
        /\ run' \in {run, Answered(run, TRUE)} /\ pend' \in {pend, [pend EXCEPT !.set = TRUE]}
    <3>1. /\ UNCHANGED <<job, nextGen, live>> /\ main.at = "job_submit"
          /\ run' \in {run, Answered(run, TRUE)} /\ pend' \in {pend, [pend EXCEPT !.set = TRUE]}
          /\ main' \in {[main EXCEPT !.at = "job_set"], [at |-> "idle", gen |-> 0]}
      BY ZenonT(30), <1>4 DEF JobSubmit, DeferPending
    <3>2. main'.at # "job_submit" /\ main' \in Mains
      BY <1>0, <3>1 DEF ManagerTypes, Mains
    <3> QED
      BY ZenonT(30), <3>1, <3>2
  <2>b. Owns(task, main.gen, "boot") /\ NoClaim(exec.queue) /\ exec.cur.at \notin Working \cup {"bg_submit"} /\ task \in Tasks
    BY Zenon, <1>0, <2>a DEF OneOwner, Owns
  <2>c. /\ run' \in Runs /\ run'.id = run.id /\ run'.active = run.active /\ run'.early = run.early
        /\ run'.post \in {run.post, TRUE} /\ run.id \in Nat
    BY ZenonT(30), <1>0, <2>a, AnsweredRun DEF ManagerTypes, Runs
  <2>d. exec'.cur = exec.cur /\ task' \in {None} \cup Tasks /\ QueueInv(exec'.queue, task', run.id)
    <3>1. CASE LiveBusy
      BY Zenon, <1>0, <1>4, <2>b, <3>1, QueueWithoutClaim, FinishedScan DEF JobSubmit, OneOwner
    <3>2. CASE ~LiveBusy
      <4> DEFINE e == Entry("boot", main.gen, run.id)
      <4>1. e \in Entries /\ e.gen = main.gen /\ e.kind = "boot" /\ e.run = run.id
        BY Zenon, <1>0 DEF ManagerTypes, Entries, Entry, Kinds, Mains, Runs
      <4>2. exec'.queue = Append(exec.queue, e) /\ exec'.cur = exec.cur /\ task' = task
        BY ZenonT(30), <1>0, <1>4, <3>2 DEF JobSubmit, ManagerTypes, Execs
      <4> HIDE DEF e
      <4>3. Owns(task', e.gen, e.kind) /\ e.run <= run.id
        BY <2>b, <2>c, <4>1, <4>2
      <4> QED
        BY Zenon, <1>0, <2>b, <2>c, <4>1, <4>2, <4>3, QueueSubmitted DEF OneOwner
    <3> QED
      BY Zenon, <3>1, <3>2
  <2>1. pend' \in Pends
    BY ZenonT(30), <1>0, <2>a DEF ManagerTypes, Pends
  <2>2. run' \in Runs
    BY Zenon, <2>c
  <2>3. main' \in Mains
    BY Zenon, <2>a
  <2>4. task' \in {None} \cup Tasks
    BY Zenon, <2>d
  <2>5. exec' \in Execs
    <3>1. exec'.queue \in Seq(Entries)
      BY Zenon, <2>d DEF QueueInv
    <3> QED
      BY ZenonT(30), <1>0, <1>4, <2>a, <3>1 DEF ManagerTypes, Execs, JobSubmit
  <2>6. ManagerTypes'
    BY Zenon, <1>0, <1>4, <2>1, <2>2, <2>3, <2>4, <2>5 DEF ManagerTypes, JobSubmit, FinishScan, DeferPending, Entry, LiveBusy
  <2>7. OneOwner'
    BY Zenon, <1>0, <2>a, <2>b, <2>c, <2>d DEF OneOwner
  <2>8. OwedKept'
    BY ZenonT(30), <1>0, <2>a, <2>c, <2>d DEF ManagerTypes, OwedKept, Pends
  <2>9. LiveFirst' /\ (live.creating = IF live.at = "idle" THEN 0 ELSE 1)'
    BY Zenon, <1>0, <2>a, <2>b, <2>d DEF LiveFirst, Working
  <2> QED
    BY Zenon, <2>6, <2>7, <2>8, <2>9 DEF ManagerInv
<1>5. CASE StopJob
  <2>a. /\ UNCHANGED <<live, exec>> /\ job' = "scheduled" /\ pend' = [pend EXCEPT !.set = TRUE] /\ MainIdle
        /\ run' = [run EXCEPT !.active = FALSE, !.delivered = TRUE, !.gen = 0] /\ job = "running"
        /\ \/ UNCHANGED <<task, main>>
           \/ task # None /\ task' = [task EXCEPT !.cancel = TRUE] /\ main' = [at |-> "cancel_show", gen |-> run.gen]
    BY Zenon, <1>5 DEF StopJob, DeferPending, IsCurrent
  <2>b. /\ task' \in {None} \cup Tasks /\ (task' = task \/ task'.cancel = TRUE)
        /\ \A g, k : Owns(task, g, k) => Owns(task', g, k)
    <3>1. CASE task' = task
      BY Zenon, <1>0, <3>1 DEF ManagerTypes
    <3>2. CASE task # None /\ task' = [task EXCEPT !.cancel = TRUE]
      BY Zenon, <1>0, <3>2, CancelledTask DEF ManagerTypes
    <3> QED
      BY ZenonT(30), <2>a, <3>1, <3>2
  <2>c. run' \in Runs /\ run'.id = run.id /\ run'.active = FALSE /\ run.id \in Nat /\ run.gen \in Nat
    BY ZenonT(30), <1>0, <2>a DEF ManagerTypes, Runs
  <2>1. pend' \in Pends
    BY ZenonT(30), <1>0, <1>5 DEF ManagerTypes, Pends, StopJob, MainIdle, DeferPending, IsCurrent
  <2>2. run' \in Runs
    BY Zenon, <2>c
  <2>3. main' \in Mains
    BY <1>0, <2>a, <2>c DEF ManagerTypes, Mains
  <2>4. task' \in {None} \cup Tasks
    BY Zenon, <2>b
  <2>5. job' \in {"none", "scheduled", "running"}
    BY Zenon, <1>0, <1>5 DEF ManagerTypes, StopJob, MainIdle, DeferPending, IsCurrent
  <2>6. ManagerTypes'
    BY Zenon, <1>0, <1>5, <2>1, <2>2, <2>3, <2>4, <2>5 DEF ManagerTypes, StopJob, MainIdle, DeferPending, IsCurrent
  <2>7. OneOwner'
    <3>1. QueueInv(exec.queue, task', run.id)
      BY <1>0, <2>a, <2>c, QueueKept DEF OneOwner
    <3>2. main'.at # "job_submit"
      BY <2>a DEF MainIdle
    <3> QED
      BY Zenon, <1>0, <2>a, <2>b, <2>c, <3>1, <3>2 DEF OneOwner
  <2>8. OwedKept'
    BY Zenon, <1>0, <2>a, <2>c DEF ManagerTypes, OwedKept, Pends
  <2>9. LiveFirst' /\ (live.creating = IF live.at = "idle" THEN 0 ELSE 1)'
    BY Zenon, <1>0, <2>a, <2>b DEF LiveFirst
  <2> QED
    BY Zenon, <2>6, <2>7, <2>8, <2>9 DEF ManagerInv
<1> QED
  BY Zenon, <1>1, <1>2, <1>3, <1>4, <1>5

\* The threads that create and release live sessions keep the manager's invariant.
LEMMA LiveKeeps ==
  ASSUME ManagerInv,
         BeginLiveSessionCreation \/ Preempt \/ PreemptShow \/ ConstructSession
           \/ FinishLiveSessionCreation \/ UnregisterLiveSession \/ DrainPending
  PROVE  ManagerInv'
<1>0. ManagerTypes /\ OneOwner /\ OwedKept /\ LiveFirst /\ live.creating = IF live.at = "idle" THEN 0 ELSE 1
  BY Zenon DEF ManagerInv
<1>1. CASE BeginLiveSessionCreation
  <2>a. /\ UNCHANGED <<pend, job, run, main, task>> /\ exec'.cur = exec.cur /\ run.id \in Nat
        /\ exec'.queue = RetryQueue(exec.queue)
    BY Zenon, <1>0, <1>1 DEF BeginLiveSessionCreation, ManagerTypes, Execs, Runs
  <2>b. live' \in Lives /\ live'.creating = 1 /\ live'.at = "preempt" /\ live'.sessions = live.sessions
    <3>1. live' = [live EXCEPT !.creating = live.creating + 1, !.ever = live.ever + 1, !.at = "preempt"] /\ live.at = "idle"
      BY Zenon, <1>1 DEF BeginLiveSessionCreation
    <3>2. live \in Lives /\ live.creating + 1 = 1 /\ live.ever + 1 \in Nat
      BY <1>0, <3>1 DEF ManagerTypes, Lives
    <3>3. live' = [live EXCEPT !.creating = 1, !.ever = live.ever + 1, !.at = "preempt"]
      BY ZenonT(30), <3>1, <3>2
    <3>4. live' \in Lives
      BY ZenonT(30), <3>2, <3>3 DEF Lives
    <3> QED
      BY Zenon, <3>2, <3>3, <3>4 DEF Lives
  <2>c. QueueInv(exec'.queue, task, run.id) /\ (NoClaim(exec.queue) => NoClaim(exec'.queue))
    BY Zenon, <1>0, <2>a, QueueRetried DEF OneOwner
  <2>1. live' \in Lives
    BY Zenon, <2>b
  <2>2. exec' \in Execs
    <3>1. exec'.queue \in Seq(Entries)
      BY Zenon, <2>c DEF QueueInv
    <3> QED
      BY Zenon, <1>0, <1>1, <2>a, <3>1 DEF ManagerTypes, Execs, BeginLiveSessionCreation
  <2>3. ManagerTypes'
    BY Zenon, <1>0, <1>1, <2>1, <2>2 DEF ManagerTypes, BeginLiveSessionCreation
  <2>4. OneOwner'
    BY Zenon, <1>0, <2>a, <2>c DEF OneOwner
  <2>5. OwedKept'
    BY Zenon, <1>0, <2>a DEF OwedKept
  <2>6. LiveFirst' /\ (live.creating = IF live.at = "idle" THEN 0 ELSE 1)'
    BY Zenon, <1>0, <2>a, <2>b DEF LiveFirst
  <2> QED
    BY Zenon, <2>3, <2>4, <2>5, <2>6 DEF ManagerInv
<1>2. CASE Preempt
  <2> DEFINE hit == task # None /\ task.purpose # "setup" /\ ~task.cancel
  <2>a. /\ UNCHANGED <<job, run, main, exec>> /\ live.at = "preempt"
        /\ pend' \in {pend, [pend EXCEPT !.set = TRUE]}
        /\ live' = [live EXCEPT !.at = IF hit THEN "preempt_show" ELSE "construct", !.gen = IF hit THEN task.gen ELSE 0]
        /\ task' = IF hit THEN [task EXCEPT !.cancel = TRUE] ELSE task
    BY Zenon, <1>2 DEF Preempt
  <2>b. /\ task' \in {None} \cup Tasks /\ (task' # None /\ task'.purpose # "setup" => task'.cancel = TRUE)
        /\ \A g, k : Owns(task, g, k) => Owns(task', g, k)
    <3>1. CASE hit
      BY Zenon, <1>0, <2>a, <3>1, CancelledTask DEF ManagerTypes
    <3>2. CASE ~hit
      BY Zenon, <1>0, <2>a, <3>2 DEF ManagerTypes, Tasks
    <3> QED
      BY ZenonT(30), <3>1, <3>2
  <2>c. task # None => task.gen \in Nat
    BY Zenon, <1>0 DEF ManagerTypes, Tasks
  <2>d. /\ live' \in Lives /\ live'.creating = live.creating /\ live'.at # "idle"
    BY ZenonT(30), <1>0, <2>a, <2>c DEF ManagerTypes, Lives
  <2>1. task' \in {None} \cup Tasks
    BY Zenon, <2>b
  <2>2. pend' \in Pends
    BY ZenonT(30), <1>0, <2>a DEF ManagerTypes, Pends
  <2>3. live' \in Lives
    BY Zenon, <2>d
  <2>4. ManagerTypes'
    BY Zenon, <1>0, <1>2, <2>1, <2>2, <2>3 DEF ManagerTypes, Preempt
  <2>5. OneOwner'
    <3>1. QueueInv(exec.queue, task', run.id)
      BY Zenon, <1>0, <2>a, QueueKept DEF OneOwner, ManagerTypes, Runs
    <3> QED
      BY ZenonT(30), <1>0, <2>a, <2>b, <3>1 DEF OneOwner
  <2>6. OwedKept'
    BY Zenon, <1>0, <2>a DEF ManagerTypes, OwedKept, Pends
  <2>7. LiveFirst' /\ (live.creating = IF live.at = "idle" THEN 0 ELSE 1)'
    <3>1. exec.cur.at = "scan" => Owns(task', exec.cur.gen, exec.cur.kind)
      BY Zenon, <1>0, <2>b DEF OneOwner, Working
    <3>2. exec'.cur.at = "scan" /\ exec'.cur.kind # "setup" => task'.cancel
      BY Zenon, <2>a, <2>b, <3>1, NullAssumption DEF Owns
    <3> QED
      BY Zenon, <1>0, <2>a, <2>d, <3>2 DEF LiveFirst
  <2> QED
    BY Zenon, <2>4, <2>5, <2>6, <2>7 DEF ManagerInv
<1>3. CASE PreemptShow
  <2>1. live' \in Lives
    BY ZenonT(30), <1>0, <1>3 DEF ManagerTypes, Lives, PreemptShow, ShowCancelled
  <2>2. ManagerTypes'
    BY Zenon, <1>0, <1>3, <2>1 DEF ManagerTypes, PreemptShow, ShowCancelled
  <2>3. OneOwner'
    BY Zenon, <1>0, <1>3 DEF ManagerTypes, OneOwner, PreemptShow, ShowCancelled
  <2>4. OwedKept'
    BY Zenon, <1>0, <1>3 DEF ManagerTypes, OwedKept, PreemptShow, ShowCancelled
  <2>5. LiveFirst' /\ (live.creating = IF live.at = "idle" THEN 0 ELSE 1)'
    BY Zenon, <1>0, <1>3 DEF ManagerTypes, LiveFirst, Lives, PreemptShow, ShowCancelled
  <2> QED
    BY Zenon, <2>2, <2>3, <2>4, <2>5 DEF ManagerInv
<1>4. CASE ConstructSession
  <2>1. live' \in Lives
    <3>1. PICK n \in {0, 1} : live' = [live EXCEPT !.sessions = live.sessions + n, !.at = "finish"]
      BY ZenonT(30), <1>4 DEF ConstructSession
    <3>2. live \in Lives /\ live.sessions + n \in Nat
      BY <1>0 DEF ManagerTypes, Lives
    <3> QED
      BY ZenonT(30), <3>1, <3>2 DEF Lives
  <2>2. ManagerTypes'
    BY Zenon, <1>0, <1>4, <2>1 DEF ManagerTypes, ConstructSession
  <2>3. OneOwner'
    BY Zenon, <1>0, <1>4 DEF ManagerTypes, OneOwner, ConstructSession
  <2>4. OwedKept'
    BY Zenon, <1>0, <1>4 DEF ManagerTypes, OwedKept, ConstructSession
  <2>5. LiveFirst' /\ (live.creating = IF live.at = "idle" THEN 0 ELSE 1)'
    BY Zenon, <1>0, <1>4 DEF ManagerTypes, LiveFirst, Lives, ConstructSession
  <2> QED
    BY Zenon, <2>2, <2>3, <2>4, <2>5 DEF ManagerInv
<1>5. CASE FinishLiveSessionCreation
  <2>1. live' \in Lives
    <3>1. live' = [live EXCEPT !.creating = live.creating - 1, !.at = "idle"] /\ live.at = "finish"
      BY Zenon, <1>5 DEF FinishLiveSessionCreation
    <3>2. live \in Lives /\ live.creating - 1 = 0
      BY <1>0, <3>1 DEF ManagerTypes
    <3>3. live' = [live EXCEPT !.creating = 0, !.at = "idle"]
      BY ZenonT(30), <3>1, <3>2
    <3> QED
      BY ZenonT(30), <3>2, <3>3 DEF Lives
  <2>2. ManagerTypes'
    BY Zenon, <1>0, <1>5, <2>1 DEF ManagerTypes, FinishLiveSessionCreation
  <2>3. OneOwner'
    BY Zenon, <1>0, <1>5 DEF ManagerTypes, OneOwner, FinishLiveSessionCreation
  <2>4. OwedKept'
    BY Zenon, <1>0, <1>5 DEF ManagerTypes, OwedKept, FinishLiveSessionCreation
  <2>5. LiveFirst' /\ (live.creating = IF live.at = "idle" THEN 0 ELSE 1)'
    BY <1>0, <1>5 DEF ManagerTypes, LiveFirst, Lives, FinishLiveSessionCreation
  <2> QED
    BY Zenon, <2>2, <2>3, <2>4, <2>5 DEF ManagerInv
<1>6. CASE UnregisterLiveSession
  <2>1. live' \in Lives
    BY <1>0, <1>6 DEF ManagerTypes, Lives, UnregisterLiveSession
  <2>2. ManagerTypes'
    BY Zenon, <1>0, <1>6, <2>1 DEF ManagerTypes, UnregisterLiveSession
  <2>3. OneOwner'
    BY Zenon, <1>0, <1>6 DEF ManagerTypes, OneOwner, UnregisterLiveSession
  <2>4. OwedKept'
    BY Zenon, <1>0, <1>6 DEF ManagerTypes, OwedKept, UnregisterLiveSession
  <2>5. LiveFirst' /\ (live.creating = IF live.at = "idle" THEN 0 ELSE 1)'
    BY Zenon, <1>0, <1>6 DEF ManagerTypes, LiveFirst, Lives, UnregisterLiveSession
  <2> QED
    BY Zenon, <2>2, <2>3, <2>4, <2>5 DEF ManagerInv
<1>7. CASE DrainPending
  <2>1. job' \in {"none", "scheduled", "running"}
    BY Zenon, <1>0, <1>7 DEF ManagerTypes, DrainPending, DrainIfIdle, Scheduled
  <2>2. ManagerTypes'
    BY Zenon, <1>0, <1>7, <2>1 DEF ManagerTypes, DrainPending, DrainIfIdle, Scheduled
  <2>3. OneOwner'
    BY Zenon, <1>0, <1>7 DEF ManagerTypes, OneOwner, DrainPending, DrainIfIdle, Scheduled
  <2>4. OwedKept'
    BY Zenon, <1>0, <1>7 DEF ManagerTypes, OwedKept, DrainPending, DrainIfIdle, Scheduled
  <2>5. LiveFirst' /\ (live.creating = IF live.at = "idle" THEN 0 ELSE 1)'
    BY Zenon, <1>0, <1>7 DEF ManagerTypes, LiveFirst, DrainPending, DrainIfIdle, Scheduled
  <2> QED
    BY Zenon, <2>2, <2>3, <2>4, <2>5 DEF ManagerInv
<1> QED
  BY Zenon, <1>1, <1>2, <1>3, <1>4, <1>5, <1>6, <1>7

\* The manager's executor keeps the manager's invariant.
LEMMA ExecutorKeeps ==
  ASSUME ManagerInv,
         TakeTask \/ CheckLive \/ ScanEnds \/ ApplyResult \/ FinishScanIfCurrent \/ DrainAfterScan
           \/ Notify \/ NotifyEarly \/ NotifyDirect \/ AfterBoot \/ BeginMaintenance
           \/ SubmitMaintenance
  PROVE  ManagerInv'
<1>0. ManagerTypes /\ OneOwner /\ OwedKept /\ LiveFirst /\ live.creating = IF live.at = "idle" THEN 0 ELSE 1
  BY Zenon DEF ManagerInv
<1>1. CASE TakeTask
  <2> DEFINE e == Head(exec.queue)
  <2>a. /\ exec.cur.at = "idle" /\ exec.queue # <<>> /\ run.id \in Nat
        /\ UNCHANGED <<pend, job, run, main, nextGen, live>>
    BY Zenon, <1>0, <1>1 DEF TakeTask, At, ManagerTypes, Runs
  <2>b. /\ QueueInv(Tail(exec.queue), task, run.id) /\ e \in Entries /\ e.run <= run.id
        /\ NoClaim(exec.queue) => NoClaim(Tail(exec.queue)) /\ e.kind = "retry"
        /\ e.kind # "retry" => NoClaim(Tail(exec.queue)) /\ Owns(task, e.gen, e.kind)
    BY ZenonT(30), <1>0, <2>a, QueueTaken DEF OneOwner
  <2>c. CASE e.kind = "retry"
    <3>1. /\ exec' = [exec EXCEPT !.queue = Tail(exec.queue)]
          /\ task' = task \/ (task # None /\ task.closing /\ task' = None)
      BY Zenon, <1>1, <2>c DEF TakeTask
    <3>2. exec' \in Execs /\ exec'.queue = Tail(exec.queue) /\ exec'.cur = exec.cur
      <4>1. exec \in Execs /\ Tail(exec.queue) \in Seq(Entries)
        BY Zenon, <1>0, <2>b DEF ManagerTypes, QueueInv
      <4> QED
        BY ZenonT(30), <3>1, <4>1 DEF Execs
    <3>3. task' # task => QueueInv(exec'.queue, task', run.id) /\ main.at # "job_submit"
      <4>1. SUFFICES ASSUME task # None, task.closing PROVE NoClaim(exec.queue) /\ main.at # "job_submit"
        BY Zenon, <2>b, <3>1, <3>2, QueueWithoutClaim
      <4> QED
        BY Zenon, <1>0, <4>1 DEF OneOwner, QueueInv, NoClaim, Owns
    <3>4. ManagerTypes'
      BY Zenon, <1>0, <2>a, <3>1, <3>2 DEF ManagerTypes
    <3>5. OneOwner'
      BY Zenon, <1>0, <2>a, <2>b, <3>1, <3>2, <3>3 DEF OneOwner, Working
    <3>6. OwedKept'
      BY Zenon, <1>0, <2>a, <3>2 DEF OwedKept
    <3>7. LiveFirst' /\ (live.creating = IF live.at = "idle" THEN 0 ELSE 1)'
      BY Zenon, <1>0, <2>a, <3>2 DEF LiveFirst
    <3> QED
      BY Zenon, <3>4, <3>5, <3>6, <3>7 DEF ManagerInv
  <2>d. CASE e.kind # "retry"
    <3> DEFINE c == [NoTask EXCEPT !.at = IF e.kind = "setup" THEN "scan" ELSE "check",
                       !.kind = e.kind, !.gen = e.gen, !.run = e.run, !.resched = TRUE]
    <3>0. exec' = [queue |-> Tail(exec.queue), cur |-> c] /\ task' = task
      BY Zenon, <1>1, <2>d DEF TakeTask
    <3>1. exec'.queue = Tail(exec.queue) /\ task' = task /\ exec'.cur = c
      BY Zenon, <3>0
    <3>2. /\ exec'.cur \in Curs /\ exec'.cur.kind = e.kind /\ exec'.cur.gen = e.gen /\ exec'.cur.run = e.run
          /\ exec'.cur.at = (IF e.kind = "setup" THEN "scan" ELSE "check") /\ exec'.cur.resched = TRUE
      BY ZenonT(30), <2>b, <2>d, <3>1 DEF NoTask, Curs, Entries, Working, Kinds
    <3>3. exec' \in Execs
      BY Zenon, <2>b, <3>0, <3>1, <3>2 DEF Execs, QueueInv
    <3>4. ManagerTypes'
      BY Zenon, <1>0, <2>a, <3>1, <3>3 DEF ManagerTypes
    <3>5. OneOwner'
      <4>1. main.at # "job_submit"
        BY Zenon, <1>0, <2>b, <2>d DEF OneOwner
      <4> QED
        BY Zenon, <1>0, <2>a, <2>b, <2>d, <3>1, <3>2, <4>1 DEF OneOwner, Working
    <3>6. OwedKept'
      BY Zenon, <1>0, <2>a, <2>b, <3>2 DEF OwedKept, Answering
    <3>7. LiveFirst' /\ (live.creating = IF live.at = "idle" THEN 0 ELSE 1)'
      BY Zenon, <1>0, <2>a, <3>2 DEF LiveFirst
    <3> QED
      BY Zenon, <3>4, <3>5, <3>6, <3>7 DEF ManagerInv
  <2> QED
    BY Zenon, <2>c, <2>d
<1>2. CASE CheckLive
  <2>a. /\ exec.cur.at = "check" /\ UNCHANGED <<job, run, main, nextGen, live>>
        /\ exec \in Execs /\ exec.cur \in Curs /\ exec'.queue = exec.queue
    BY Zenon, <1>0, <1>2 DEF CheckLive, At, Goto, EndTask, ManagerTypes, Execs
  <2>b. Owns(task, exec.cur.gen, exec.cur.kind) /\ NoClaim(exec.queue) /\ main.at # "job_submit" /\ task \in Tasks
    BY Zenon, <1>0, <2>a DEF OneOwner, Owns, Working
  <2>c. CASE ~LiveBusy
    <3>1. exec' = [exec EXCEPT !.cur.at = "scan"] /\ UNCHANGED <<pend, task>>
      BY Zenon, <1>2, <2>c DEF CheckLive, Goto
    <3>2. /\ exec' \in Execs /\ exec'.cur.at = "scan" /\ exec'.cur.kind = exec.cur.kind
          /\ exec'.cur.gen = exec.cur.gen /\ exec'.cur.run = exec.cur.run
      BY Zenon, <2>a, <3>1 DEF Execs, Curs, Working
    <3>3. ManagerTypes'
      BY Zenon, <1>0, <2>a, <3>1, <3>2 DEF ManagerTypes
    <3>4. OneOwner'
      BY Zenon, <1>0, <2>a, <2>b, <3>1, <3>2 DEF OneOwner
    <3>5. OwedKept'
      BY Zenon, <1>0, <2>a, <3>1, <3>2 DEF OwedKept, Answering
    <3>6. live.sessions = 0 /\ live.creating = 0
      BY <1>0, <2>c DEF LiveBusy, ManagerTypes, Lives
    <3>7. LiveFirst' /\ (live.creating = IF live.at = "idle" THEN 0 ELSE 1)'
      BY <1>0, <2>a, <3>6 DEF LiveFirst
    <3> QED
      BY Zenon, <3>3, <3>4, <3>5, <3>7 DEF ManagerInv
  <2>d. CASE LiveBusy
    <3>1. /\ exec' = [exec EXCEPT !.cur.at = "notify"] \/ exec' = [exec EXCEPT !.cur = NoTask]
          /\ pend' \in {pend, [pend EXCEPT !.set = TRUE]}
          /\ \E ok \in BOOLEAN : FinishScan(ok)
      BY Zenon, <1>2, <2>d DEF CheckLive, Goto, EndTask, Cur
    <3>2. /\ exec' \in Execs /\ exec'.cur.at \in {"notify", "idle"} /\ exec'.cur.run \in {exec.cur.run, 0}
          /\ exec'.cur.at = "notify" => exec'.cur.resched = exec.cur.resched
      <4>1. CASE exec' = [exec EXCEPT !.cur.at = "notify"]
        <5>1. "notify" \in Answering
          BY Zenon DEF Answering
        <5> QED
          BY <2>a, <4>1, <5>1, ExecGoto
      <4>2. CASE exec' = [exec EXCEPT !.cur = NoTask]
        BY Zenon, <2>a, <4>2, NoTaskTyped DEF Execs
      <4> QED
        BY Zenon, <3>1, <4>1, <4>2
    <3>3. task' \in {None} \cup Tasks /\ pend' \in Pends
      BY ZenonT(30), <1>0, <2>b, <3>1, FinishedScan DEF ManagerTypes, Pends
    <3>4. ManagerTypes'
      BY Zenon, <1>0, <2>a, <3>2, <3>3 DEF ManagerTypes
    <3>5. OneOwner'
      <4>1. QueueInv(exec'.queue, task', run'.id)
        BY Zenon, <1>0, <2>a, <2>b, QueueWithoutClaim DEF OneOwner
      <4> QED
        BY Zenon, <1>0, <2>a, <2>b, <3>2, <4>1 DEF OneOwner, Working
    <3>6. OwedKept'
      <4>1. exec.cur.resched = TRUE
        BY Zenon, <1>0, <2>a DEF OwedKept
      <4>2. exec'.cur.run <= run'.id /\ exec.cur.run \in Nat /\ run.id \in Nat
        BY <1>0, <2>a, <3>2 DEF OwedKept, ManagerTypes, Runs, Curs
      <4>3. /\ pend'.owed = pend.owed /\ pend'.booted = pend.booted /\ pend'.unlocked = pend.unlocked
            /\ pend.set => pend'.set
        BY Zenon, <1>0, <3>1 DEF ManagerTypes, Pends
      <4> QED
        BY Zenon, <1>0, <2>a, <3>2, <4>1, <4>2, <4>3 DEF OwedKept, Answering
    <3>7. LiveFirst' /\ (live.creating = IF live.at = "idle" THEN 0 ELSE 1)'
      BY Zenon, <1>0, <2>a, <3>2 DEF LiveFirst
    <3> QED
      BY Zenon, <3>4, <3>5, <3>6, <3>7 DEF ManagerInv
  <2> QED
    BY Zenon, <2>c, <2>d
<1>3. CASE ScanEnds
  <2>a. /\ exec.cur.at = "scan" /\ UNCHANGED <<job, run, main, task, nextGen, live>>
        /\ exec \in Execs /\ exec.cur \in Curs
    BY Zenon, <1>0, <1>3 DEF ScanEnds, At, ManagerTypes, Execs
  <2>b. /\ exec' \in Execs /\ exec'.queue = exec.queue /\ exec'.cur.at = "result" /\ exec'.cur.kind = exec.cur.kind
        /\ exec'.cur.gen = exec.cur.gen /\ exec'.cur.run = exec.cur.run
    <3>1. PICK end \in {"completed", "partial", "lost", "failed", "cancelled"} :
            exec' = [exec EXCEPT !.cur.at = "result", !.cur.end = end]
      BY ZenonT(30), <1>3 DEF ScanEnds
    <3>2. exec' = [queue |-> exec.queue, cur |-> [exec.cur EXCEPT !.at = "result", !.end = end]]
      BY ZenonT(30), <2>a, <3>1 DEF Execs
    <3>3. [exec.cur EXCEPT !.at = "result", !.end = end] \in Curs
      BY ZenonT(30), <2>a DEF Curs, Working
    <3> QED
      BY ZenonT(30), <2>a, <3>2, <3>3 DEF Execs, Curs
  <2>c. /\ pend' \in Pends /\ pend'.set = pend.set /\ pend'.owed = pend.owed /\ pend'.booted = pend.booted
        /\ pend'.unlocked = pend.unlocked
    <3>1. PICK found \in {pend.channels, pend.channels \/ Cur.kind = "setup"} : pend' = [pend EXCEPT !.channels = found]
      BY Zenon, <1>3 DEF ScanEnds
    <3>2. found \in BOOLEAN
      BY ZenonT(30), <1>0 DEF ManagerTypes, Pends
    <3> QED
      BY Zenon, <1>0, <3>1, <3>2 DEF ManagerTypes, Pends
  <2>1. pend' \in Pends
    BY Zenon, <2>c
  <2>2. exec' \in Execs
    BY Zenon, <2>b
  <2>3. ManagerTypes'
    BY Zenon, <1>0, <1>3, <2>1, <2>2 DEF ManagerTypes, ScanEnds, At, Cur
  <2>4. OneOwner'
    BY Zenon, <1>0, <2>a, <2>b DEF OneOwner, Working
  <2>5. OwedKept'
    BY Zenon, <1>0, <2>a, <2>b, <2>c DEF OwedKept, Answering
  <2>6. LiveFirst' /\ (live.creating = IF live.at = "idle" THEN 0 ELSE 1)'
    BY Zenon, <1>0, <2>a, <2>b DEF LiveFirst
  <2> QED
    BY Zenon, <2>3, <2>4, <2>5, <2>6 DEF ManagerInv
<1>4. CASE ApplyResult
  <2> DEFINE done == exec.cur.kind = "boot" /\ exec.cur.end = "completed"
  <2>a. /\ exec.cur.at = "result" /\ UNCHANGED <<job, run, main, task, nextGen, live>>
        /\ exec \in Execs /\ exec.cur \in Curs
    BY Zenon, <1>0, <1>4 DEF ApplyResult, At, ManagerTypes, Execs
  <2>b. /\ exec' \in Execs /\ exec'.queue = exec.queue /\ exec'.cur.at = "finish" /\ exec'.cur.kind = exec.cur.kind
        /\ exec'.cur.gen = exec.cur.gen /\ exec'.cur.run = exec.cur.run /\ exec'.cur.resched = ~done
    <3>1. exec' = [exec EXCEPT !.cur.at = "finish", !.cur.good = done, !.cur.resched = ~done]
      BY Zenon, <1>4 DEF ApplyResult, Cur
    <3>2. exec' = [queue |-> exec.queue, cur |-> [exec.cur EXCEPT !.at = "finish", !.good = done, !.resched = ~done]]
      BY ZenonT(30), <2>a, <3>1 DEF Execs
    <3>3. [exec.cur EXCEPT !.at = "finish", !.good = done, !.resched = ~done] \in Curs
      BY ZenonT(30), <2>a DEF Curs, Working
    <3> QED
      BY ZenonT(30), <2>a, <3>2, <3>3 DEF Execs, Curs
  <2>c. /\ pend' \in Pends /\ pend'.booted = pend.booted /\ pend'.unlocked = pend.unlocked
        /\ done => ~pend'.owed
        /\ pend'.owed => pend.owed /\ pend'.set
    <3>1. pend' = IF exec.cur.kind = "boot" /\ exec.cur.end # "failed"
                    THEN [pend EXCEPT !.set = ~done, !.owed = pend.owed /\ ~done] ELSE pend
      BY Zenon, <1>4 DEF ApplyResult, Cur
    <3>2. CASE exec.cur.kind = "boot" /\ exec.cur.end # "failed"
      BY ZenonT(30), <1>0, <3>1, <3>2 DEF ManagerTypes, Pends
    <3>3. CASE ~(exec.cur.kind = "boot" /\ exec.cur.end # "failed")
      BY Zenon, <1>0, <3>1, <3>3 DEF ManagerTypes, OwedKept
    <3> QED
      BY Zenon, <3>2, <3>3
  <2>1. pend' \in Pends
    BY Zenon, <2>c
  <2>2. exec' \in Execs
    BY Zenon, <2>b
  <2>3. ManagerTypes'
    BY Zenon, <1>0, <1>4, <2>1, <2>2 DEF ManagerTypes, ApplyResult, At, Cur
  <2>4. OneOwner'
    BY Zenon, <1>0, <2>a, <2>b DEF OneOwner, Working
  <2>5. OwedKept'
    BY ZenonT(30), <1>0, <2>a, <2>b, <2>c DEF OwedKept
  <2>6. LiveFirst' /\ (live.creating = IF live.at = "idle" THEN 0 ELSE 1)'
    BY Zenon, <1>0, <2>a, <2>b DEF LiveFirst
  <2> QED
    BY Zenon, <2>3, <2>4, <2>5, <2>6 DEF ManagerInv
<1>5. CASE FinishScanIfCurrent
  <2>a. /\ exec.cur.at = "finish" /\ UNCHANGED <<job, run, main, nextGen, live>>
        /\ exec \in Execs /\ exec.cur \in Curs
    BY ZenonT(30), <1>0, <1>5 DEF FinishScanIfCurrent, At, ManagerTypes, Execs
  <2>b. NoClaim(exec.queue) /\ main.at # "job_submit" /\ task \in Tasks
    BY Zenon, <1>0, <2>a DEF OneOwner, Owns, Working
  <2>c. PICK ok \in BOOLEAN :
          /\ FinishScan(ok)
          /\ pend' \in {pend, [pend EXCEPT !.set = TRUE]}
          /\ exec' = [exec EXCEPT !.cur.at = IF exec.cur.kind = "boot" THEN "notify" ELSE "drain",
                        !.cur.good = exec.cur.good /\ ok, !.cur.resched = exec.cur.resched \/ ~ok]
    BY ZenonT(30), <1>5 DEF FinishScanIfCurrent, Cur
  <2>d. /\ exec' \in Execs /\ exec'.queue = exec.queue /\ exec'.cur.at \in {"notify", "drain"}
        /\ exec'.cur.run = exec.cur.run /\ exec'.cur.resched = (exec.cur.resched \/ ~ok)
    <3> DEFINE to == IF exec.cur.kind = "boot" THEN "notify" ELSE "drain"
    <3> DEFINE g == exec.cur.good /\ ok
    <3> DEFINE r == exec.cur.resched \/ ~ok
    <3>0. to \in {"notify", "drain"} /\ g \in BOOLEAN /\ r \in BOOLEAN /\ exec' = [exec EXCEPT !.cur.at = to, !.cur.good = g, !.cur.resched = r]
      BY Zenon, <2>a, <2>c DEF Curs
    <3> HIDE DEF to, g, r
    <3>2. exec' = [queue |-> exec.queue, cur |-> [exec.cur EXCEPT !.at = to, !.good = g, !.resched = r]]
      BY ZenonT(30), <2>a, <3>0 DEF Execs
    <3>3. [exec.cur EXCEPT !.at = to, !.good = g, !.resched = r] \in Curs
      BY ZenonT(30), <2>a, <3>0 DEF Curs, Answering
    <3>4. /\ exec' \in Execs /\ exec'.queue = exec.queue /\ exec'.cur.at = to
          /\ exec'.cur.run = exec.cur.run /\ exec'.cur.resched = r
      <4>1. exec' \in Execs
        BY Zenon, <2>a, <3>2, <3>3 DEF Execs
      <4>2. exec'.cur = [exec.cur EXCEPT !.at = to, !.good = g, !.resched = r] /\ exec'.queue = exec.queue
        BY Zenon, <3>2
      <4> QED
        BY Zenon, <2>a, <4>1, <4>2 DEF Curs
    <3> QED
      BY Zenon, <3>0, <3>4 DEF r
  <2>e. /\ pend' \in Pends /\ pend'.owed = pend.owed /\ pend'.booted = pend.booted /\ pend'.unlocked = pend.unlocked
        /\ pend.set => pend'.set
    BY ZenonT(30), <1>0, <2>c DEF ManagerTypes, Pends
  <2>1. pend' \in Pends
    BY Zenon, <2>e
  <2>2. task' \in {None} \cup Tasks
    BY Zenon, <2>b, <2>c, FinishedScan
  <2>3. exec' \in Execs
    BY Zenon, <2>d
  <2>4. ManagerTypes'
    BY ZenonT(30), <1>0, <1>5, <2>1, <2>2, <2>3 DEF ManagerTypes, FinishScanIfCurrent, At, Cur, FinishScan
  <2>5. OneOwner'
    <3>1. QueueInv(exec'.queue, task', run'.id)
      BY Zenon, <1>0, <2>a, <2>b, <2>d, QueueWithoutClaim DEF OneOwner
    <3> QED
      BY Zenon, <2>a, <2>b, <2>d, <3>1 DEF OneOwner, Working
  <2>6. OwedKept'
    BY ZenonT(30), <1>0, <2>a, <2>d, <2>e DEF OwedKept, Answering
  <2>7. LiveFirst' /\ (live.creating = IF live.at = "idle" THEN 0 ELSE 1)'
    BY Zenon, <1>0, <2>a, <2>d DEF LiveFirst
  <2> QED
    BY Zenon, <2>4, <2>5, <2>6, <2>7 DEF ManagerInv
<1>6. CASE DrainAfterScan
  <2>a. /\ UNCHANGED <<pend, run, main, task, nextGen, live>> /\ exec' = [exec EXCEPT !.cur = NoTask]
        /\ job' = job \/ (job = "none" /\ pend.unlocked /\ job' = "scheduled")
    BY Zenon, <1>6 DEF DrainAfterScan, EndTask, DrainIfIdle, Scheduled
  <2>b. exec' \in Execs /\ exec'.queue = exec.queue /\ exec'.cur.at = "idle" /\ exec'.cur.run = 0
    BY Zenon, <1>0, <2>a, NoTaskTyped DEF ManagerTypes, Execs
  <2>1. job' \in {"none", "scheduled", "running"}
    BY Zenon, <1>0, <2>a DEF ManagerTypes
  <2>2. exec' \in Execs
    BY Zenon, <2>b
  <2>3. ManagerTypes'
    BY Zenon, <1>0, <1>6, <2>1, <2>2 DEF ManagerTypes, DrainAfterScan, At, DrainIfIdle, Scheduled, EndTask, NoTask
  <2>4. OneOwner'
    BY Zenon, <1>0, <2>a, <2>b DEF OneOwner, Working
  <2>5. OwedKept'
    BY <1>0, <2>a, <2>b DEF OwedKept, Answering, ManagerTypes, Runs
  <2>6. LiveFirst' /\ (live.creating = IF live.at = "idle" THEN 0 ELSE 1)'
    BY Zenon, <1>0, <2>a, <2>b DEF LiveFirst
  <2> QED
    BY Zenon, <2>3, <2>4, <2>5, <2>6 DEF ManagerInv
<1>7. CASE Notify
  <2>a. /\ UNCHANGED <<pend, job, main, task, nextGen, live, run>> /\ exec \in Execs /\ exec.cur.at = "notify"
        /\ \E a \in {"after", "notify_early", "notify_direct"} : exec' = [exec EXCEPT !.cur.at = a]
    BY Zenon, <1>0, <1>7 DEF Notify, Goto, At, ManagerTypes
  <2>b. PICK a \in {"after", "notify_early", "notify_direct"} : exec' = [exec EXCEPT !.cur.at = a]
    BY Zenon, <2>a
  <2>c. /\ exec' \in Execs /\ exec'.queue = exec.queue /\ exec'.cur.at \in {"after", "notify_early", "notify_direct"}
        /\ exec'.cur.run = exec.cur.run /\ exec'.cur.resched = exec.cur.resched
    <3>1. a \in Answering \cup {"after"}
      BY Zenon DEF Answering
    <3> QED
      BY <2>a, <2>b, <3>1, ExecGoto
  <2>1. exec' \in Execs
    BY Zenon, <2>c
  <2>2. ManagerTypes'
    BY Zenon, <1>0, <1>7, <2>1 DEF ManagerTypes, Notify, At, Cur, Goto
  <2>3. OneOwner'
    BY Zenon, <1>0, <2>a, <2>c DEF OneOwner, Working
  <2>4. OwedKept'
    BY Zenon, <1>0, <2>a, <2>c DEF OwedKept, Answering
  <2>5. LiveFirst' /\ (live.creating = IF live.at = "idle" THEN 0 ELSE 1)'
    BY Zenon, <1>0, <2>a, <2>c DEF LiveFirst
  <2> QED
    BY Zenon, <2>2, <2>3, <2>4, <2>5 DEF ManagerInv
<1>8. CASE NotifyEarly
  <2>a. /\ UNCHANGED <<pend, job, main, task, nextGen, live>> /\ exec \in Execs /\ exec.cur.at = "notify_early"
        /\ \E a \in {"after", "notify_early", "notify_direct"} : exec' = [exec EXCEPT !.cur.at = a]
    BY Zenon, <1>0, <1>8 DEF NotifyEarly, Goto, At, ManagerTypes
  <2>b. PICK a \in {"after", "notify_early", "notify_direct"} : exec' = [exec EXCEPT !.cur.at = a]
    BY Zenon, <2>a
  <2>c. /\ exec' \in Execs /\ exec'.queue = exec.queue /\ exec'.cur.at \in {"after", "notify_early", "notify_direct"}
        /\ exec'.cur.run = exec.cur.run /\ exec'.cur.resched = exec.cur.resched
    <3>1. a \in Answering \cup {"after"}
      BY Zenon DEF Answering
    <3> QED
      BY <2>a, <2>b, <3>1, ExecGoto
  <2>d. /\ run' \in Runs /\ run'.id = run.id /\ run'.active = run.active /\ run'.post = run.post
        /\ run'.early = run.early \/ (run.id = exec.cur.run /\ run'.early = exec.cur.resched)
    <3>1. run' = IF run.id = exec.cur.run /\ run.early = None THEN [run EXCEPT !.early = exec.cur.resched] ELSE run
      BY Zenon, <1>8 DEF NotifyEarly, Cur
    <3>2. exec.cur.resched \in BOOLEAN
      BY Zenon, <2>a DEF Execs, Curs
    <3> QED
      BY Zenon, <1>0, <3>1, <3>2 DEF ManagerTypes, Runs
  <2>1. run' \in Runs
    BY Zenon, <2>d
  <2>2. exec' \in Execs
    BY Zenon, <2>c
  <2>3. ManagerTypes'
    BY Zenon, <1>0, <1>8, <2>1, <2>2 DEF ManagerTypes, NotifyEarly, At, Cur, Goto
  <2>4. OneOwner'
    BY Zenon, <1>0, <2>a, <2>c, <2>d DEF OneOwner, Working
  <2>5. OwedKept'
    BY Zenon, <1>0, <2>a, <2>c, <2>d DEF OwedKept, Answering
  <2>6. LiveFirst' /\ (live.creating = IF live.at = "idle" THEN 0 ELSE 1)'
    BY Zenon, <1>0, <2>a, <2>c DEF LiveFirst
  <2> QED
    BY Zenon, <2>3, <2>4, <2>5, <2>6 DEF ManagerInv
<1>9. CASE NotifyDirect
  <2>a. /\ UNCHANGED <<pend, job, main, task, nextGen, live>> /\ exec \in Execs /\ exec.cur.at = "notify_direct"
        /\ \E a \in {"after", "notify_early", "notify_direct"} : exec' = [exec EXCEPT !.cur.at = a]
    BY Zenon, <1>0, <1>9 DEF NotifyDirect, Goto, At, ManagerTypes
  <2>b. PICK a \in {"after", "notify_early", "notify_direct"} : exec' = [exec EXCEPT !.cur.at = a]
    BY Zenon, <2>a
  <2>c. /\ exec' \in Execs /\ exec'.queue = exec.queue /\ exec'.cur.at \in {"after", "notify_early", "notify_direct"}
        /\ exec'.cur.run = exec.cur.run /\ exec'.cur.resched = exec.cur.resched
    <3>1. a \in Answering \cup {"after"}
      BY Zenon DEF Answering
    <3> QED
      BY <2>a, <2>b, <3>1, ExecGoto
  <2>d. /\ run' \in Runs /\ run'.id = run.id /\ run'.active = run.active /\ run'.early = run.early
        /\ run'.post = run.post \/ (run.id = exec.cur.run /\ run'.post = exec.cur.resched)
    <3>1. run' = IF run.id = exec.cur.run /\ run.gen = exec.cur.gen
                   THEN Answered([run EXCEPT !.gen = 0], exec.cur.resched) ELSE run
      BY Zenon, <1>9 DEF NotifyDirect, Cur
    <3>2. exec.cur.resched \in BOOLEAN
      BY Zenon, <2>a DEF Execs, Curs
    <3> DEFINE r == [run EXCEPT !.gen = 0]
    <3>3. r \in Runs /\ r.id = run.id /\ r.active = run.active /\ r.early = run.early /\ r.post = run.post
      BY Zenon, <1>0 DEF ManagerTypes, Runs
    <3> HIDE DEF r
    <3>4. run' = run \/ (run.id = exec.cur.run /\ run' = Answered(r, exec.cur.resched))
      BY Zenon, <3>1 DEF r
    <3> QED
      BY <1>0, <3>2, <3>3, <3>4, AnsweredRun DEF ManagerTypes
  <2>1. run' \in Runs
    BY Zenon, <2>d
  <2>2. exec' \in Execs
    BY Zenon, <2>c
  <2>3. ManagerTypes'
    BY Zenon, <1>0, <1>9, <2>1, <2>2 DEF ManagerTypes, NotifyDirect, At, Cur, Goto
  <2>4. OneOwner'
    BY Zenon, <1>0, <2>a, <2>c, <2>d DEF OneOwner, Working
  <2>5. OwedKept'
    BY Zenon, <1>0, <2>a, <2>c, <2>d DEF OwedKept, Answering
  <2>6. LiveFirst' /\ (live.creating = IF live.at = "idle" THEN 0 ELSE 1)'
    BY Zenon, <1>0, <2>a, <2>c DEF LiveFirst
  <2> QED
    BY Zenon, <2>3, <2>4, <2>5, <2>6 DEF ManagerInv
<1>10. CASE AfterBoot
  <2>a. /\ UNCHANGED <<pend, job, run, main, task, nextGen, live>> /\ exec \in Execs /\ exec.cur.at = "after"
        /\ \/ exec' = [exec EXCEPT !.cur.at = "bg_begin"]
           \/ exec' = [queue |-> RetryQueue(exec.queue), cur |-> NoTask]
           \/ exec' = [queue |-> exec.queue, cur |-> NoTask]
        /\ run.id \in Nat /\ exec.cur.run \in Nat
    BY Zenon, <1>0, <1>10 DEF AfterBoot, Goto, At, Cur, ManagerTypes, Runs, Execs, Curs
  <2>b. /\ QueueInv(RetryQueue(exec.queue), task, run.id) /\ QueueInv(exec.queue, task, run.id)
        /\ NoClaim(exec.queue) => NoClaim(RetryQueue(exec.queue))
    BY Zenon, <1>0, <2>a, QueueRetried DEF OneOwner
  <2>c. /\ exec' \in Execs /\ exec'.queue \in {exec.queue, RetryQueue(exec.queue)}
        /\ exec'.cur.at \in {"bg_begin", "idle"} /\ exec'.cur.run \in {exec.cur.run, 0}
    <3>1. CASE exec' = [exec EXCEPT !.cur.at = "bg_begin"]
      BY <2>a, <3>1, ExecGoto
    <3>2. CASE exec' = [queue |-> RetryQueue(exec.queue), cur |-> NoTask]
      BY Zenon, <2>b, <3>2, NoTaskTyped DEF Execs, QueueInv
    <3>3. CASE exec' = [queue |-> exec.queue, cur |-> NoTask]
      BY Zenon, <2>b, <3>3, NoTaskTyped DEF Execs, QueueInv
    <3> QED
      BY Zenon, <2>a, <3>1, <3>2, <3>3
  <2>1. exec' \in Execs
    BY Zenon, <2>c
  <2>2. ManagerTypes'
    BY Zenon, <1>0, <1>10, <2>1 DEF ManagerTypes, AfterBoot, At, Cur, Goto, NoTask
  <2>3. OneOwner'
    BY Zenon, <1>0, <2>a, <2>b, <2>c DEF OneOwner, Working
  <2>4. OwedKept'
    BY <1>0, <2>a, <2>c DEF OwedKept, Answering
  <2>5. LiveFirst' /\ (live.creating = IF live.at = "idle" THEN 0 ELSE 1)'
    BY Zenon, <1>0, <2>a, <2>c DEF LiveFirst
  <2> QED
    BY Zenon, <2>2, <2>3, <2>4, <2>5 DEF ManagerInv
<1>11. CASE BeginMaintenance
  <2>a. /\ UNCHANGED <<pend, job, run, main, live>> /\ exec \in Execs /\ exec.cur.at = "bg_begin" /\ BeginScan("maintenance")
        /\ exec' = IF task = None THEN [exec EXCEPT !.cur.at = "bg_submit", !.cur.gen = nextGen + 1]
                   ELSE [exec EXCEPT !.cur = NoTask]
        /\ exec.cur \in Curs /\ exec.cur.run \in Nat /\ run.id \in Nat /\ nextGen \in Nat
    BY Zenon, <1>0, <1>11 DEF BeginMaintenance, At, ManagerTypes, Execs, Curs, Runs
  <2>b. /\ task' \in Tasks /\ nextGen' \in Nat /\ (task # None => task' = task)
        /\ task = None => Owns(task', nextGen + 1, "maintenance")
    BY Zenon, <1>0, <2>a, BegunScan DEF ManagerTypes, Kinds
  <2>c. /\ exec' \in Execs /\ exec'.queue = exec.queue /\ exec'.cur.run \in {exec.cur.run, 0}
        /\ task = None => exec'.cur.at = "bg_submit" /\ exec'.cur.gen = nextGen + 1
        /\ task # None => exec'.cur.at = "idle"
    <3>1. CASE task = None
      <4> DEFINE n == nextGen + 1
      <4>0. n \in Nat /\ exec' = [exec EXCEPT !.cur.at = "bg_submit", !.cur.gen = n]
        BY <2>a, <3>1
      <4> HIDE DEF n
      <4>1. exec' = [queue |-> exec.queue, cur |-> [exec.cur EXCEPT !.at = "bg_submit", !.gen = n]]
        BY ZenonT(30), <2>a, <4>0 DEF Execs
      <4>2. [exec.cur EXCEPT !.at = "bg_submit", !.gen = n] \in Curs
        BY ZenonT(30), <2>a, <4>0 DEF Curs
      <4>3. exec' \in Execs
        BY <2>a, <4>1, <4>2 DEF Execs
      <4>4. exec'.queue = exec.queue /\ exec'.cur.at = "bg_submit" /\ exec'.cur.gen = n /\ exec'.cur.run = exec.cur.run
        <5>1. exec'.queue = exec.queue /\ exec'.cur = [exec.cur EXCEPT !.at = "bg_submit", !.gen = n]
          BY Zenon, <4>1
        <5>2. exec.cur \in Curs
          BY Zenon, <2>a
        <5> QED
          BY Zenon, <5>1, <5>2 DEF Curs
      <4> QED
        BY Zenon, <3>1, <4>3, <4>4 DEF n
    <3>2. CASE task # None
      <4>1. exec' = [exec EXCEPT !.cur = NoTask]
        BY Zenon, <2>a, <3>2
      <4> QED
        BY Zenon, <2>a, <3>2, <4>1, NoTaskTyped DEF Execs
    <3> QED
      BY Zenon, <3>1, <3>2
  <2>1. task' \in {None} \cup Tasks
    BY Zenon, <2>b
  <2>2. nextGen' \in Nat
    BY Zenon, <2>b
  <2>3. exec' \in Execs
    BY Zenon, <2>c
  <2>4. ManagerTypes'
    BY Zenon, <1>0, <1>11, <2>1, <2>2, <2>3 DEF ManagerTypes, BeginMaintenance, At, BeginScan, NoTask
  <2>5. OneOwner'
    <3>1. task = None => NoClaim(exec.queue) /\ main.at # "job_submit"
      BY Zenon, <1>0, NullAssumption, NoTaskNoClaim DEF Owns, OneOwner
    <3>2. QueueInv(exec.queue, task', run.id)
      BY Zenon, <1>0, <2>b, <3>1, QueueWithoutClaim DEF OneOwner
    <3> QED
      BY Zenon, <1>0, <2>a, <2>b, <2>c, <3>1, <3>2 DEF OneOwner, Working
  <2>6. OwedKept'
    BY <1>0, <2>a, <2>c DEF OwedKept, Answering
  <2>7. LiveFirst' /\ (live.creating = IF live.at = "idle" THEN 0 ELSE 1)'
    BY Zenon, <1>0, <2>a, <2>c DEF LiveFirst
  <2> QED
    BY Zenon, <2>4, <2>5, <2>6, <2>7 DEF ManagerInv
<1>12. CASE SubmitMaintenance
  <2>a. /\ UNCHANGED <<pend, job, run, main, nextGen, live>> /\ exec \in Execs /\ exec.cur.at = "bg_submit" /\ run.id \in Nat
        /\ exec.cur \in Curs
    BY Zenon, <1>0, <1>12 DEF SubmitMaintenance, At, ManagerTypes, Execs, Runs
  <2>b. Owns(task, exec.cur.gen, "maintenance") /\ NoClaim(exec.queue) /\ main.at # "job_submit" /\ task \in Tasks
    BY Zenon, <1>0, <2>a DEF OneOwner, Owns
  <2>c. /\ exec' \in Execs /\ exec'.cur = NoTask /\ task' \in {None} \cup Tasks /\ QueueInv(exec'.queue, task', run.id)
    <3>1. CASE LiveBusy
      <4>1. exec' = [exec EXCEPT !.cur = NoTask] /\ \E ok \in BOOLEAN : FinishScan(ok)
        BY Zenon, <1>12, <3>1 DEF SubmitMaintenance, EndTask
      <4>2. exec' \in Execs /\ exec'.cur = NoTask /\ exec'.queue = exec.queue
        BY Zenon, <2>a, <4>1, NoTaskTyped DEF Execs
      <4> QED
        BY Zenon, <1>0, <2>b, <4>1, <4>2, FinishedScan, QueueWithoutClaim DEF OneOwner
    <3>2. CASE ~LiveBusy
      <4> DEFINE e == Entry("maintenance", exec.cur.gen, 0)
      <4>1. e \in Entries /\ e.gen = exec.cur.gen /\ e.kind = "maintenance" /\ e.run = 0
        BY Zenon, <2>a DEF Entries, Entry, Kinds, Curs
      <4>2. exec' = [queue |-> Append(exec.queue, e), cur |-> NoTask] /\ task' = task
        BY Zenon, <1>12, <3>2 DEF SubmitMaintenance, Cur
      <4> HIDE DEF e
      <4>3. Owns(task', e.gen, e.kind) /\ e.run <= run.id
        BY <2>a, <2>b, <4>1, <4>2
      <4>4. QueueInv(Append(exec.queue, e), task', run.id)
        BY Zenon, <1>0, <2>a, <2>b, <4>1, <4>3, QueueSubmitted DEF OneOwner
      <4> QED
        BY <2>b, <4>2, <4>4, NoTaskTyped DEF Execs, QueueInv
    <3> QED
      BY Zenon, <3>1, <3>2
  <2>1. task' \in {None} \cup Tasks
    BY Zenon, <2>c
  <2>2. exec' \in Execs
    BY Zenon, <2>c
  <2>3. ManagerTypes'
    BY Zenon, <1>0, <1>12, <2>1, <2>2 DEF ManagerTypes, SubmitMaintenance, At, Cur, FinishScan, EndTask, NoTask, Entry, LiveBusy
  <2>4. OneOwner'
    BY Zenon, <2>a, <2>b, <2>c, NoTaskTyped DEF OneOwner, Working
  <2>5. OwedKept'
    BY <1>0, <2>a, <2>c, NoTaskTyped DEF OwedKept, Answering
  <2>6. LiveFirst' /\ (live.creating = IF live.at = "idle" THEN 0 ELSE 1)'
    BY Zenon, <1>0, <2>a, <2>c, NoTaskTyped DEF LiveFirst
  <2> QED
    BY Zenon, <2>3, <2>4, <2>5, <2>6 DEF ManagerInv
<1> QED
  BY Zenon, <1>1, <1>2, <1>3, <1>4, <1>5, <1>6, <1>7, <1>8, <1>9, <1>10, <1>11, <1>12

-----------------------------------------------------------------------------
(* The theorems about ScanManager                                          *)

\* The invariant holds when the service starts.
LEMMA ManagerBegins == ManagerInit => ManagerInv
<1> SUFFICES ASSUME ManagerInit PROVE ManagerInv
  BY Zenon
<1>1. PICK known \in BOOLEAN : pend = [set |-> FALSE, unlocked |-> FALSE, booted |-> FALSE, channels |-> known,
                                       owed |-> FALSE]
  BY ZenonT(30) DEF ManagerInit
<1>2. pend \in Pends /\ ~pend.owed /\ ~pend.booted
  BY Zenon, <1>1 DEF Pends
<1>3. run \in Runs /\ run.id = 0 /\ ~run.active /\ main \in Mains /\ main.at = "idle" /\ live \in Lives
  BY Zenon DEF ManagerInit, Runs, Mains, Lives
<1>4. exec = [queue |-> <<>>, cur |-> NoTask] /\ exec.queue = <<>> /\ exec.cur = NoTask
  BY Zenon DEF ManagerInit
<1>5. exec \in Execs /\ QueueInv(exec.queue, task, run.id)
  <2> DEFINE q == <<>>
  <2>1. q \in Seq(Entries) /\ \A i : i \notin 1..Len(q)
    OBVIOUS
  <2>2. exec.queue = q /\ exec = [queue |-> q, cur |-> NoTask]
    BY Zenon, <1>4
  <2> HIDE DEF q
  <2>3. QueueInv(q, task, run.id)
    BY Zenon, <2>1 DEF QueueInv
  <2>4. exec \in Execs
    BY <2>1, <2>2, NoTaskTyped DEF Execs
  <2> QED
    BY Zenon, <2>2, <2>3, <2>4
<1>6. ManagerTypes
  BY Zenon, <1>2, <1>3, <1>5 DEF ManagerTypes, ManagerInit
<1>7. OneOwner
  BY ZenonT(30), <1>3, <1>4, <1>5, NoTaskTyped DEF OneOwner, Working
<1>8. OwedKept
  BY <1>2, <1>3, <1>4, NoTaskTyped DEF OwedKept, ManagerInit, Answering
<1> QED
  BY Zenon, <1>4, <1>6, <1>7, <1>8, NoTaskTyped DEF ManagerInv, LiveFirst, ManagerInit

\* Every step of every thread keeps it.
LEMMA ManagerStep == ManagerInv /\ [ManagerNext]_managerVars => ManagerInv'
<1> SUFFICES ASSUME ManagerInv, [ManagerNext]_managerVars PROVE ManagerInv'
  BY Zenon
<1>1. CASE UNCHANGED managerVars
  <2>1. /\ pend' = pend /\ job' = job /\ run' = run /\ main' = main /\ task' = task /\ nextGen' = nextGen
        /\ live' = live /\ exec' = exec
    BY Zenon, <1>1 DEF managerVars
  <2>2. ManagerTypes' /\ OneOwner'
    BY Zenon, <2>1 DEF ManagerInv, ManagerTypes, OneOwner
  <2>3. OwedKept' /\ LiveFirst' /\ (live.creating = IF live.at = "idle" THEN 0 ELSE 1)'
    BY Zenon, <2>1 DEF ManagerInv, OwedKept, LiveFirst
  <2> QED
    BY Zenon, <2>2, <2>3 DEF ManagerInv
<1>2. CASE ManagerNext
  BY Zenon, <1>2, MainKeeps, TaskKeeps, LiveKeeps, ExecutorKeeps DEF ManagerNext, MainStep, ExecutorStep, LiveStep
<1> QED
  BY Zenon, <1>1, <1>2

\* The invariant holds for every number of scans, runs and live sessions.
LEMMA ManagerInvariant == ManagerSpec => []ManagerInv
BY ManagerBegins, ManagerStep, PTL DEF ManagerSpec

\* ChannelScanManager's promise to live sessions: no boot or maintenance scan
\* goes on uncancelled beside a session that exists or whose creation has passed
\* the preemption (preemptBootOrBackgroundScanForLiveSessionCreation).
THEOREM Live_First == ManagerSpec => []LiveFirst
<1>1. ManagerInv => LiveFirst
  BY Zenon DEF ManagerInv
<1> QED
  BY <1>1, ManagerInvariant, PTL

\* A boot sync that is asked for stays pending until a complete scan has done it,
\* and once the boot is complete a job that will do it exists, whatever live
\* sessions, cancellations, stopped jobs and failed releases come in between.
THEOREM Pending_Served == ManagerSpec => []PendingServed
<1>1. ManagerInv => PendingServed
  BY Zenon DEF ManagerInv, OwedKept, PendingServed
<1> QED
  BY <1>1, ManagerInvariant, PTL

=============================================================================
