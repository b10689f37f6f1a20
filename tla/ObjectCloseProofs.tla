-------------------------- MODULE ObjectCloseProofs --------------------------
(***************************************************************************)
(* Proofs about ObjectClose, for any objects, clients and bounds.          *)
(***************************************************************************)
EXTENDS ObjectClose, TLAPS

ThreadStates == [pc : PCs, mode : Modes, obj : Objects \cup {NoObject},
                 plan : SUBSET Objects, clear : BOOLEAN, ok : BOOLEAN]

\* The stages that belong to opening a child and to setting a callback.
OpenStages == {"prepare", "constructed", "publish", "rollback", "dropUnpublished"}
SettingStages == {"setting", "registering"}
StageMatches(pc, mode) ==
    /\ pc \in OpenStages => mode = "open"
    /\ pc \in SettingStages => mode = "setCallback"

\* What the proofs need of the types.
Shape ==
    /\ life \in [Objects -> Lifecycles]
    /\ obligation \in [Objects -> {"none", "idle"} \cup Threads]
    /\ thread \in [Threads -> ThreadStates]
    /\ \A t \in Threads : thread[t].pc /= "idle" => thread[t].obj \in Objects
    /\ \A t \in Threads : StageMatches(thread[t].pc, thread[t].mode)

\* The thread that runs a cleanup attempt of a root is the one the
\* obligation of the root names.
AttemptIsFenced ==
    \A t \in Threads : Attempting(t) => obligation[thread[t].obj] = t

AttemptInv == Shape /\ AttemptIsFenced

\* The one fact that makes the fence exclusive: an obligation names at most
\* one thread.
LEMMA FenceIsExclusive == ASSUME AttemptInv PROVE OneAttemptPerRoot
BY DEF AttemptInv, AttemptIsFenced, OneAttemptPerRoot, Obj

\* Initially nothing is attempted.
LEMMA InitShape == ASSUME Init PROVE AttemptInv
BY DEF Init, AttemptInv, Shape, AttemptIsFenced, Attempting, AttemptStages, ThreadStates, Idle, PCs,
       Modes, NoObject, Lifecycles, Cleaning, Terminal, StageMatches, OpenStages, SettingStages

\* A thread that moves and takes or gives up no attempt.
Moves(t, r) == thread' = [thread EXCEPT ![t] = r]

\* A move to a place outside an attempt keeps the fence.
LEMMA MoveOutside ==
    ASSUME AttemptInv, NEW t \in Threads, NEW r \in ThreadStates, Moves(t, r),
           r.pc /= "idle" => r.obj \in Objects, StageMatches(r.pc, r.mode),
           ~(r.mode \in {"close", "drop", "reap"} /\ r.pc \in AttemptStages),
           UNCHANGED obligation, life' \in [Objects -> Lifecycles]
    PROVE  AttemptInv'
BY DEF AttemptInv, Shape, AttemptIsFenced, Attempting, Moves

\* A move within an attempt keeps the fence.
LEMMA MoveInside ==
    ASSUME AttemptInv, NEW t \in Threads, NEW r \in ThreadStates, Moves(t, r),
           thread[t].pc /= "idle", r.obj = thread[t].obj, r.mode = thread[t].mode,
           StageMatches(r.pc, r.mode),
           (r.mode \in {"close", "drop", "reap"} /\ r.pc \in AttemptStages) => Attempting(t),
           UNCHANGED obligation, life' \in [Objects -> Lifecycles]
    PROVE  AttemptInv'
BY DEF AttemptInv, Shape, AttemptIsFenced, Attempting, Moves

\* The ways in which the actions move a thread.
LEMMA GoPreserves ==
    ASSUME AttemptInv, NEW t \in Threads, NEW p \in PCs, Go(t, p) \/ Failing(t, p),
           thread[t].pc /= "idle", StageMatches(p, thread[t].mode),
           (thread[t].mode \in {"close", "drop", "reap"} /\ p \in AttemptStages) => Attempting(t),
           UNCHANGED obligation, life' \in [Objects -> Lifecycles]
    PROVE  AttemptInv'
<1>1. thread[t] \in ThreadStates BY DEF AttemptInv, Shape
<1>2. CASE Go(t, p)
  <2> DEFINE r == [thread[t] EXCEPT !.pc = p]
  <2>1. r \in ThreadStates /\ r.obj = thread[t].obj /\ r.mode = thread[t].mode /\ r.pc = p
    BY <1>1 DEF ThreadStates
  <2>2. Moves(t, r) BY <1>2 DEF Go, Moves
  <2> HIDE DEF r
  <2> QED BY <2>1, <2>2, MoveInside
<1>3. CASE Failing(t, p)
  <2> DEFINE r == [thread[t] EXCEPT !.pc = p, !.ok = FALSE]
  <2>1. r \in ThreadStates /\ r.obj = thread[t].obj /\ r.mode = thread[t].mode /\ r.pc = p
    BY ZenonT(60), <1>1 DEF ThreadStates
  <2>2. Moves(t, r) BY ZenonT(60), <1>1, <1>3 DEF Failing, Moves, ThreadStates
  <2> HIDE DEF r
  <2> QED BY <2>1, <2>2, MoveInside
<1> QED BY <1>2, <1>3

\* A return keeps the fence.
LEMMA ReturnPreserves ==
    ASSUME AttemptInv, NEW t \in Threads, Return(t), UNCHANGED obligation,
           life' \in [Objects -> Lifecycles]
    PROVE  AttemptInv'
<1>1. Idle \in ThreadStates /\ Idle.pc = "idle"
  BY DEF Idle, ThreadStates, PCs, Modes, NoObject
<1> QED BY ZenonT(60), <1>1, MoveOutside DEF Return, Moves, AttemptStages, StageMatches, OpenStages, SettingStages

\* A failed attempt leaves the fence.
LEMMA FailPreserves ==
    ASSUME AttemptInv, NEW t \in Threads, Fail(t), thread[t].pc /= "idle", UNCHANGED obligation,
           life' \in [Objects -> Lifecycles]
    PROVE  AttemptInv'
<1> DEFINE r == [Idle EXCEPT !.pc = "failed", !.obj = Obj(t), !.mode = thread[t].mode]
<1>1. thread[t] \in ThreadStates /\ thread[t].obj \in Objects BY DEF AttemptInv, Shape
<1>2. r \in ThreadStates /\ r.pc = "failed" /\ r.obj \in Objects
  BY ZenonT(60), <1>1 DEF Idle, ThreadStates, PCs, Modes, NoObject, Obj
<1>3. Moves(t, r) BY DEF Fail, Moves
<1> HIDE DEF r
<1> QED BY <1>2, <1>3, MoveOutside DEF AttemptStages, StageMatches, OpenStages, SettingStages

\* A call puts an idle thread to work on an object.
LEMMA CallPreserves ==
    ASSUME AttemptInv, NEW t \in Threads, NEW o \in Objects, NEW p \in PCs, NEW q \in Modes,
           p \notin AttemptStages, StageMatches(p, q),
           thread' = [thread EXCEPT ![t] = [Idle EXCEPT !.pc = p, !.mode = q, !.obj = o]],
           UNCHANGED obligation, life' \in [Objects -> Lifecycles]
    PROVE  AttemptInv'
<1> DEFINE r == [Idle EXCEPT !.pc = p, !.mode = q, !.obj = o]
<1>1. r \in ThreadStates /\ r.pc = p /\ r.obj = o /\ r.mode = q
  BY ZenonT(60) DEF Idle, ThreadStates, NoObject
<1>2. Moves(t, r) BY DEF Moves
<1> HIDE DEF r
<1> QED BY <1>1, <1>2, MoveOutside

\* What an action sees of the thread that takes it.
LEMMA ThreadFacts ==
    ASSUME AttemptInv, NEW t \in Threads
    PROVE  /\ life \in [Objects -> Lifecycles] /\ thread[t] \in ThreadStates
           /\ StageMatches(thread[t].pc, thread[t].mode)
           /\ thread[t].pc /= "idle" => Obj(t) \in Objects
BY DEF AttemptInv, Shape, Obj

\* The steps of a client outside the cleanup attempts.
LEMMA ClientSteps ==
    ASSUME AttemptInv, NEW t \in Clients, ClientStep(t)
    PROVE  AttemptInv'
<1>t. t \in Threads BY DEF Threads
<1>f. /\ life \in [Objects -> Lifecycles] /\ thread[t] \in ThreadStates
      /\ StageMatches(thread[t].pc, thread[t].mode)
      /\ thread[t].pc /= "idle" => Obj(t) \in Objects
  BY <1>t, ThreadFacts
<1> USE DEF At, tableVars, StageMatches, OpenStages, SettingStages, AttemptStages, PCs
<1>1. CASE PrepareChildArtifact(t)
  <2>1. Go(t, "rollback") \/ Go(t, "constructed") BY <1>1 DEF PrepareChildArtifact
  <2>2. thread[t].pc = "prepare" /\ UNCHANGED <<life, obligation>> BY <1>1 DEF PrepareChildArtifact
  <2> QED BY <1>t, <1>f, <2>1, <2>2, GoPreserves
<1>2. CASE CommitChildArtifact(t)
  <2>1. /\ Go(t, "take") /\ thread[t].pc = "constructed" /\ UNCHANGED <<life, obligation>>
    BY <1>2 DEF CommitChildArtifact
  <2> QED BY <1>t, <1>f, <2>1, GoPreserves
<1>3. CASE PublishChild(t)
  <2>1. Return(t) /\ UNCHANGED obligation /\ life' = [life EXCEPT ![Obj(t)] = "Live"]
    BY <1>3 DEF PublishChild
  <2>2. life' \in [Objects -> Lifecycles] BY ZenonT(60), <1>f, <2>1 DEF Lifecycles
  <2> QED BY <1>t, <2>1, <2>2, ReturnPreserves
<1>4. CASE RollbackChild(t)
  <2>1. /\ Return(t) \/ Go(t, "dropUnpublished")
        /\ thread[t].pc = "rollback" /\ UNCHANGED <<life, obligation>>
    BY <1>4 DEF RollbackChild
  <2> QED BY <1>t, <1>f, <2>1, GoPreserves, ReturnPreserves
<1>5. CASE DropUnpublished(t)
  <2>1. Return(t) /\ UNCHANGED <<life, obligation>> BY <1>5 DEF DropUnpublished
  <2> QED BY <1>t, <1>f, <2>1, ReturnPreserves
<1>6. CASE PrepareCallback(t)
  <2>1. /\ Go(t, "take") \/ Go(t, "registering")
        /\ thread[t].pc = "setting" /\ UNCHANGED <<life, obligation>>
    BY <1>6 DEF PrepareCallback
  <2> QED BY <1>t, <1>f, <2>1, GoPreserves
<1>7. CASE CommitCallback(t)
  <2>1. Go(t, "take") /\ thread[t].pc = "registering" /\ UNCHANGED <<life, obligation>>
    BY <1>7 DEF CommitCallback
  <2> QED BY <1>t, <1>f, <2>1, GoPreserves
<1>8. CASE CloseFailed(t)
  <2>1. /\ Return(t) \/ Go(t, "enqueue")
        /\ thread[t].pc = "failed" /\ UNCHANGED <<life, obligation>>
    BY <1>8 DEF CloseFailed
  <2> QED BY <1>t, <1>f, <2>1, GoPreserves, ReturnPreserves
<1>9. CASE EnqueueRetry(t)
  <2>1. thread[t].pc = "enqueue" /\ UNCHANGED <<life, obligation>> BY <1>9 DEF EnqueueRetry
  <2>2. CASE Return(t)
    BY <1>t, <1>f, <2>1, <2>2, ReturnPreserves
  <2>3. CASE thread' = [thread EXCEPT ![t] = Idle,
                          ![Obj(t)] = [Idle EXCEPT !.pc = "begin", !.obj = Obj(t), !.mode = "reap"]]
    <3> DEFINE o == Obj(t)
               lane == [Idle EXCEPT !.pc = "begin", !.obj = o, !.mode = "reap"]
    <3>1. o \in Objects /\ o \in Threads BY <1>f, <2>1 DEF Threads
    <3>2. Idle \in ThreadStates /\ Idle.pc = "idle"
      BY DEF Idle, ThreadStates, Modes, NoObject
    <3>3. lane \in ThreadStates /\ lane.pc = "begin" /\ lane.obj = o
      BY ZenonT(60), <3>1 DEF Idle, ThreadStates, Modes, NoObject
    <3>4. thread' = [thread EXCEPT ![t] = Idle, ![o] = lane] BY <2>3
    <3> HIDE DEF lane, o
    <3>5. \A u \in Threads : thread'[u] \in {thread[u], Idle, lane}
      BY <1>t, <3>1, <3>4 DEF AttemptInv, Shape
    <3>6. thread' \in [Threads -> ThreadStates]
      BY <1>t, <3>1, <3>2, <3>3, <3>4 DEF AttemptInv, Shape
    <3> QED BY <2>1, <3>1, <3>2, <3>3, <3>5, <3>6
         DEF AttemptInv, Shape, AttemptIsFenced, Attempting
  <2> QED BY <1>9, <2>2, <2>3 DEF EnqueueRetry, Return
<1> QED BY <1>1, <1>2, <1>3, <1>4, <1>5, <1>6, <1>7, <1>8, <1>9 DEF ClientStep

\* The end of a release goes on within the same use of the store.
LEMMA AfterReleaseSteps ==
    ASSUME AttemptInv, NEW t \in Threads, NEW ok \in BOOLEAN, AfterRelease(t, ok),
           thread[t].pc \in {"take", "release"}, UNCHANGED <<life, obligation>>
    PROVE  AttemptInv'
<1>f. /\ life \in [Objects -> Lifecycles] /\ thread[t] \in ThreadStates
      /\ StageMatches(thread[t].pc, thread[t].mode)
  BY ThreadFacts
<1> USE DEF StageMatches, OpenStages, SettingStages, AttemptStages, PCs
<1>1. AfterCallback(t) \in {"unregister", "domain", "artifacts"}
  BY DEF AfterCallback, AfterDomain
<1>2. CASE thread[t].mode = "open"
  <2>1. Go(t, "publish") \/ Failing(t, "rollback") BY <1>2 DEF AfterRelease
  <2> QED BY <1>f, <1>2, <2>1, GoPreserves
<1>3. CASE thread[t].mode = "setCallback"
  <2>1. Return(t) BY <1>3 DEF AfterRelease
  <2> QED BY <1>f, <2>1, ReturnPreserves
<1>4. CASE thread[t].mode \notin {"open", "setCallback"}
  <2>1. Go(t, "registry") \/ Failing(t, AfterCallback(t)) BY <1>4 DEF AfterRelease
  <2>2. thread[t].mode \in {"close", "drop", "reap"} => Attempting(t) BY DEF Attempting
  <2> QED BY <1>f, <1>1, <2>1, <2>2, GoPreserves
<1> QED BY <1>2, <1>3, <1>4

\* The steps of a cleanup attempt.  Only BeginClose, BeginAttempt and
\* FinishClose touch an obligation.
LEMMA AttemptSteps ==
    ASSUME AttemptInv, NEW t \in Threads, AttemptStep(t)
    PROVE  AttemptInv'
<1>f. /\ life \in [Objects -> Lifecycles] /\ thread[t] \in ThreadStates
      /\ StageMatches(thread[t].pc, thread[t].mode)
      /\ thread[t].pc /= "idle" => Obj(t) \in Objects
  BY ThreadFacts
<1> USE DEF At, tableVars, StageMatches, OpenStages, SettingStages, AttemptStages, PCs
<1>n. "none" \notin Threads /\ "idle" \notin Threads
  BY ThreadNamesAssumption DEF Threads, Objects
<1>a. AfterCallback(t) \in {"unregister", "domain", "artifacts"}
  BY DEF AfterCallback, AfterDomain
<1>1. CASE BeginClose(t)
  <2> DEFINE o == Obj(t)
             plan == ActiveEntries(o)
             clear == o \in registry
             r == [thread[t] EXCEPT !.pc = "begun", !.plan = plan, !.clear = clear]
  <2>1. /\ thread[t].pc = "begin" /\ o \in Objects /\ obligation[o] \in {"none", "idle"}
        /\ obligation' = [obligation EXCEPT ![o] = "idle"]
        /\ life' = [e \in Objects |-> IF e \in ActiveEntries(o) THEN "Closing" ELSE life[e]]
    BY <1>f, <1>1 DEF BeginClose, CanBegin, AuthorityFree
  <2>2. ActiveEntries(o) \subseteq Objects
    BY <2>1 DEF ActiveEntries, Cascade, Descendants, Objects
  <2>b. clear \in BOOLEAN OBVIOUS
  <2>3. r \in ThreadStates /\ r.pc = "begun" /\ r.obj = o /\ r.mode = thread[t].mode
    <3> HIDE DEF plan, clear
    <3>1. plan \in SUBSET Objects BY <2>2 DEF plan
    <3> QED BY ZenonT(60), <1>f, <2>b, <3>1 DEF ThreadStates, Obj
  <2>4. thread' = [thread EXCEPT ![t] = r]
    BY ZenonT(60), <1>f, <1>1 DEF BeginClose, ThreadStates, AttemptInv, Shape
  <2>5. life' \in [Objects -> Lifecycles] BY SMTT(40), <1>f, <2>1 DEF Lifecycles, Cleaning
  <2> HIDE DEF r, o
  <2>6. Shape' BY SMTT(40), <2>1, <2>3, <2>4, <2>5 DEF AttemptInv, Shape
  <2>7. AttemptIsFenced' BY SMTT(40), <1>n, <2>1, <2>3, <2>4 DEF AttemptInv, Shape, AttemptIsFenced, Attempting
  <2> QED BY <2>6, <2>7 DEF AttemptInv
<1>2. CASE RefuseClose(t)
  <2>1. Fail(t) /\ thread[t].pc = "begin" /\ UNCHANGED <<life, obligation>> BY <1>2 DEF RefuseClose
  <2> QED BY <1>f, <2>1, FailPreserves
<1>3. CASE BeginAttempt(t)
  <2>1. thread[t].pc = "begun" /\ Obj(t) \in Objects /\ UNCHANGED life
    BY SMTT(40), <1>f, <1>3 DEF BeginAttempt
  <2>2. CASE Fail(t) /\ UNCHANGED obligation
    BY SMTT(40), <1>f, <2>1, <2>2, FailPreserves
  <2>3. CASE ~(Fail(t) /\ UNCHANGED obligation)
    <3> DEFINE o == Obj(t)
               p == IF thread[t].clear THEN "callback" ELSE AfterCallback(t)
               r == [thread[t] EXCEPT !.clear = FALSE, !.pc = p]
    <3>1. /\ obligation[o] = "idle" /\ obligation' = [obligation EXCEPT ![o] = t]
          /\ thread' = [thread EXCEPT ![t].clear = FALSE, ![t].pc = p]
      BY ZenonT(60), <1>3, <2>3 DEF BeginAttempt, OneAttempt
    <3>2. p \in AttemptStages BY <1>a
    <3>3. r \in ThreadStates /\ r.pc = p /\ r.obj = o /\ r.mode = thread[t].mode
      BY ZenonT(60), <1>f, <3>2 DEF ThreadStates, Obj
    <3>4. thread' = [thread EXCEPT ![t] = r]
      BY ZenonT(60), <1>f, <3>1 DEF ThreadStates, AttemptInv, Shape
    <3>5. o \in Objects BY <2>1
    <3> HIDE DEF r, o, p
    <3>6. Shape'
      <4>1. life' \in [Objects -> Lifecycles] BY <2>1 DEF AttemptInv, Shape
      <4>2. obligation' \in [Objects -> {"none", "idle"} \cup Threads]
        BY ZenonT(60), <3>1 DEF AttemptInv, Shape
      <4>3. thread' \in [Threads -> ThreadStates] BY <3>3, <3>4 DEF AttemptInv, Shape
      <4>4. \A u \in Threads : thread'[u].pc # "idle" => thread'[u].obj \in Objects
        BY <3>3, <3>4, <3>5 DEF AttemptInv, Shape
      <4>5. \A u \in Threads : StageMatches(thread'[u].pc, thread'[u].mode)
        BY <3>2, <3>3, <3>4 DEF AttemptInv, Shape
      <4> QED BY <4>1, <4>2, <4>3, <4>4, <4>5 DEF Shape
    <3>7. ASSUME NEW u \in Threads, Attempting(u)' PROVE obligation'[thread'[u].obj] = u
      <4>1. CASE u = t
        BY ZenonT(60), <3>1, <3>3, <3>4, <3>5, <4>1 DEF AttemptInv, Shape
      <4>2. CASE u /= t
        <5>1. thread'[u] = thread[u] BY <3>4, <4>2
        <5>2. Attempting(u) BY <3>7, <5>1 DEF Attempting
        <5>3. obligation[thread[u].obj] = u BY <5>2 DEF AttemptInv, AttemptIsFenced
        <5>4. thread[u].obj \in Objects BY <5>2 DEF AttemptInv, Shape, Attempting
        <5>5. thread[u].obj /= o BY <1>n, <3>1, <5>3
        <5> QED BY <3>1, <5>1, <5>3, <5>4, <5>5 DEF AttemptInv, Shape
      <4> QED BY <4>1, <4>2
    <3> QED BY <3>6, <3>7 DEF AttemptInv, AttemptIsFenced
  <2> QED BY <2>2, <2>3
<1>4. CASE TakeRetired(t)
  <2>1. /\ \/ AfterRelease(t, FALSE) \/ AfterRelease(t, TRUE) \/ Go(t, "release")
        /\ thread[t].pc = "take" /\ UNCHANGED <<life, obligation>>
    BY ZenonT(60), <1>4 DEF TakeRetired
  <2>2. thread[t].mode \in {"close", "drop", "reap"} => Attempting(t) BY <2>1 DEF Attempting
  <2> QED BY ZenonT(60), <1>f, <2>1, <2>2, GoPreserves, AfterReleaseSteps
<1>5. CASE ReleaseBatch(t)
  <2>1. /\ AfterRelease(t, FALSE) \/ Go(t, "take")
        /\ thread[t].pc = "release" /\ UNCHANGED <<life, obligation>>
    BY ZenonT(60), <1>5 DEF ReleaseBatch
  <2>2. thread[t].mode \in {"close", "drop", "reap"} => Attempting(t) BY <2>1 DEF Attempting
  <2> QED BY ZenonT(60), <1>f, <2>1, <2>2, GoPreserves, AfterReleaseSteps
<1>6. CASE ClearCallback(t)
  <2>1. Go(t, "take") /\ thread[t].pc = "callback" /\ UNCHANGED <<life, obligation>>
    BY <1>6 DEF ClearCallback
  <2>2. thread[t].mode \in {"close", "drop", "reap"} => Attempting(t) BY SMTT(40), <2>1 DEF Attempting
  <2> QED BY SMTT(40), <1>f, <2>1, <2>2, GoPreserves
<1>7. CASE ClearRegistry(t)
  <2>1. /\ Go(t, AfterCallback(t)) \/ Failing(t, AfterCallback(t))
        /\ thread[t].pc = "registry" /\ UNCHANGED <<life, obligation>>
    BY <1>7 DEF ClearRegistry
  <2>2. thread[t].mode \in {"close", "drop", "reap"} => Attempting(t) BY SMTT(40), <2>1 DEF Attempting
  <2> QED BY SMTT(40), <1>f, <1>a, <2>1, <2>2, GoPreserves
<1>8. CASE DomainCleanup(t)
  <2>1. /\ Go(t, "unregister") \/ Failing(t, "unregister")
        /\ thread[t].pc = "domain" /\ UNCHANGED <<life, obligation>>
    BY SMTT(40), <1>8 DEF DomainCleanup
  <2>2. thread[t].mode \in {"close", "drop", "reap"} => Attempting(t) BY SMTT(40), <2>1 DEF Attempting
  <2> QED BY SMTT(40), <1>f, <2>1, <2>2, GoPreserves
<1>9. CASE StopNotifiers(t)
  <2>1. /\ Go(t, "unregister") \/ Failing(t, "unregister")
        /\ thread[t].pc = "artifacts" /\ UNCHANGED <<life, obligation>>
    BY <1>9 DEF StopNotifiers
  <2>2. thread[t].mode \in {"close", "drop", "reap"} => Attempting(t) BY SMTT(40), <2>1 DEF Attempting
  <2> QED BY <1>f, <2>1, <2>2, GoPreserves
<1>10. CASE UnregisterRuntimes(t)
  <2> DEFINE next == IF thread[t].mode = "quarantine" THEN "begin" ELSE "finish"
  <2>1. /\ Go(t, next) \/ Failing(t, next)
        /\ thread[t].pc = "unregister" /\ UNCHANGED <<life, obligation>>
    BY <1>10 DEF UnregisterRuntimes
  <2>2. thread[t].mode \in {"close", "drop", "reap"} => Attempting(t) BY <2>1 DEF Attempting
  <2> QED BY SMTT(40), <1>f, <2>1, <2>2, GoPreserves
<1>11. CASE FinishClose(t)
  <2>1. thread[t].pc = "finish" /\ Obj(t) \in Objects BY SMTT(40), <1>f, <1>11 DEF FinishClose
  <2>2. Fail(t) \/ Return(t) BY SMTT(40), <1>11 DEF FinishClose, EndJob
  <2>3. life' \in [Objects -> Lifecycles]
    BY <1>f, <1>11 DEF FinishClose, Lifecycles, Cleaning, Terminal
  <2>4. CASE UNCHANGED obligation
    BY <2>1, <2>2, <2>3, <2>4, FailPreserves, ReturnPreserves
  <2>5. CASE ~UNCHANGED obligation
    <3>1. /\ obligation[Obj(t)] = t
          /\ \E v \in {"none", "idle"} : obligation' = [obligation EXCEPT ![Obj(t)] = v]
      BY <1>11, <2>5 DEF FinishClose, FinishAllowed, CurrentAttempt
    <3> DEFINE o == Obj(t)
               failed == [Idle EXCEPT !.pc = "failed", !.obj = o, !.mode = thread[t].mode]
    <3>2. \E r \in {Idle, failed} : thread' = [thread EXCEPT ![t] = r]
      BY SMTT(40), <2>2 DEF Fail, Return
    <3>3. Idle \in ThreadStates /\ Idle.pc = "idle"
      BY DEF Idle, ThreadStates, Modes, NoObject
    <3>4. failed \in ThreadStates /\ failed.pc = "failed" /\ failed.obj = o
      BY ZenonT(60), <1>f, <2>1 DEF Idle, ThreadStates, Modes, NoObject
    <3>5. o \in Objects /\ obligation[o] = t /\ o = thread[t].obj BY <2>1, <3>1 DEF Obj
    <3> HIDE DEF failed
    <3>6. PICK r \in ThreadStates : /\ thread' = [thread EXCEPT ![t] = r] /\ r.pc \in {"idle", "failed"}
                                    /\ r.pc = "failed" => r.obj = o
      BY ZenonT(60), <3>2, <3>3, <3>4
    <3>7. PICK v \in {"none", "idle"} : obligation' = [obligation EXCEPT ![o] = v]
      BY ZenonT(60), <3>1
    <3> HIDE DEF o
    <3>8. Shape' BY <2>3, <3>5, <3>6, <3>7 DEF AttemptInv, Shape
    <3>9. AttemptIsFenced'
      BY <3>5, <3>6, <3>7 DEF AttemptInv, Shape, AttemptIsFenced, Attempting
    <3> QED BY <3>8, <3>9 DEF AttemptInv
  <2> QED BY SMTT(40), <2>4, <2>5
<1> QED BY SMTT(40), <1>1, <1>2, <1>3, <1>4, <1>5, <1>6, <1>7, <1>8, <1>9, <1>10, <1>11 DEF AttemptStep

\* A step of anyone keeps the fence.
LEMMA FenceStep ==
    ASSUME AttemptInv, [Next]_vars
    PROVE  AttemptInv'
<1>l. life \in [Objects -> Lifecycles] BY DEF AttemptInv, Shape
<1> USE DEF StageMatches, OpenStages, SettingStages, AttemptStages, PCs, Modes, tableVars
<1>1. ASSUME NEW o \in Demuxes \cup Frontends, OpenRoot(o) PROVE AttemptInv'
  <2>1. UNCHANGED <<obligation, thread>> /\ life' = [life EXCEPT ![o] = "Live"]
    BY <1>1 DEF OpenRoot
  <2>2. life' \in [Objects -> Lifecycles] BY ZenonT(60), <1>l, <2>1 DEF Lifecycles
  <2> QED BY <2>1, <2>2 DEF AttemptInv, Shape, AttemptIsFenced, Attempting
<1>2. ASSUME NEW t \in Clients, NEW c \in Children, OpenChild(t, c) PROVE AttemptInv'
  <2>1. /\ life' = [life EXCEPT ![c] = "Prepared"] /\ UNCHANGED obligation
        /\ thread' = [thread EXCEPT ![t] = [Idle EXCEPT !.pc = "prepare", !.mode = "open", !.obj = c]]
    BY <1>2 DEF OpenChild
  <2>2. life' \in [Objects -> Lifecycles] BY ZenonT(60), <1>l, <2>1 DEF Lifecycles
  <2> QED BY ZenonT(60), <2>1, <2>2, CallPreserves DEF Threads, Objects
<1>3. ASSUME NEW t \in Clients, NEW f \in Frontends, SetCallback(t, f) PROVE AttemptInv'
  <2>1. /\ UNCHANGED <<life, obligation>>
        /\ thread' = [thread EXCEPT ![t] = [Idle EXCEPT !.pc = "setting", !.mode = "setCallback",
                                                        !.obj = f]]
    BY <1>3 DEF SetCallback
  <2> QED BY ZenonT(60), <1>l, <2>1, CallPreserves DEF Threads, Objects
<1>4. ASSUME NEW t \in Clients, NEW o \in Objects, Close(t, o) PROVE AttemptInv'
  <2>1. /\ UNCHANGED <<life, obligation>>
        /\ thread' = [thread EXCEPT ![t] = [Idle EXCEPT !.pc = "begin", !.mode = "close", !.obj = o]]
    BY <1>4 DEF Close
  <2> QED BY ZenonT(60), <1>l, <2>1, CallPreserves DEF Threads
<1>5. ASSUME NEW t \in Clients, NEW o \in Objects, Drop(t, o) PROVE AttemptInv'
  <2>1. /\ UNCHANGED <<life, obligation>>
        /\ thread' = [thread EXCEPT ![t] = [Idle EXCEPT !.pc = "begin", !.mode = "drop", !.obj = o]]
    BY <1>5 DEF Drop
  <2> QED BY ZenonT(60), <1>l, <2>1, CallPreserves DEF Threads
<1>6. ASSUME NEW o \in Objects, JobDone(o) PROVE AttemptInv'
  <2>1. Return(o) /\ UNCHANGED <<life, obligation>> BY <1>6 DEF JobDone, EndJob
  <2> QED BY <1>l, <2>1, ReturnPreserves DEF Threads
<1>7. ASSUME NEW o \in Objects, RetryLater(o) PROVE AttemptInv'
  <2>1. Go(o, "begin") /\ thread[o].pc = "failed" /\ UNCHANGED <<life, obligation>>
    BY <1>7 DEF RetryLater, At
  <2> QED BY <1>l, <2>1, GoPreserves DEF Threads
<1>8. ASSUME NEW o \in Objects, Deadline(o) PROVE AttemptInv'
  <2> DEFINE plan == ActiveEntries(o)
             p == IF o \in registry THEN "callback" ELSE "unregister"
             r == [Idle EXCEPT !.pc = p, !.mode = "quarantine", !.obj = o, !.plan = plan]
  <2>1. /\ life' = [e \in Objects |-> IF e \in plan THEN "Quarantined" ELSE life[e]]
        /\ UNCHANGED obligation /\ thread' = [thread EXCEPT ![o] = r]
    BY <1>8 DEF Deadline
  <2>2. plan \in SUBSET Objects BY DEF ActiveEntries, Cascade, Descendants, Objects
  <2>3. p \in PCs OBVIOUS
  <2>4. life' \in [Objects -> Lifecycles] BY <1>l, <2>1 DEF Lifecycles, Terminal
  <2>5. r \in ThreadStates /\ r.pc = p /\ r.mode = "quarantine" /\ r.obj = o
    <3> HIDE DEF plan, p
    <3> QED BY ZenonT(60), <2>2, <2>3 DEF Idle, ThreadStates, NoObject
  <2>6. p \in {"callback", "unregister"} OBVIOUS
  <2> HIDE DEF r, p, plan
  <2> QED BY ZenonT(60), <2>1, <2>4, <2>5, <2>6, MoveOutside DEF Threads, Moves
<1>9. CASE UNCHANGED vars
  BY <1>9 DEF vars, AttemptInv, Shape, AttemptIsFenced, Attempting
<1> QED BY <1>1, <1>2, <1>3, <1>4, <1>5, <1>6, <1>7, <1>8, <1>9, ClientSteps, AttemptSteps DEF Next

\* Spec => []AttemptInv, from which the theorems below follow.
LEMMA FenceHolds == Spec => []AttemptInv
<1>1. Init => AttemptInv BY InitShape
<1>2. AttemptInv /\ [Next]_vars => AttemptInv' BY FenceStep
<1> QED BY <1>1, <1>2, PTL DEF Spec

\* close(), Drop and the reaper never run two cleanup attempts of one root
\* at the same time, for any number of objects, Binder threads, failures
\* and calls: the attempt fence of ObjectCloseTxn is exclusive.
THEOREM OneAttempt_Correct == Spec => []OneAttemptPerRoot
<1>1. AttemptInv => OneAttemptPerRoot BY SMTT(40), FenceIsExclusive
<1> QED BY <1>1, FenceHolds, PTL

\* An entry that is terminal is not among those a cascade changes, and no
\* other step changes the lifecycle of one.
LEMMA TerminalStep ==
    ASSUME AttemptInv, [Next]_vars, NEW o \in Objects, life[o] \in Terminal
    PROVE  life'[o] = life[o]
<1>l. life \in [Objects -> Lifecycles] BY DEF AttemptInv, Shape
<1>a. \A r \in Objects : o \notin ActiveEntries(r) BY DEF ActiveEntries
<1> USE DEF tableVars, Terminal
<1>1. CASE \E r \in Demuxes \cup Frontends : OpenRoot(r) BY <1>l, <1>1 DEF OpenRoot
<1>2. CASE \E t \in Clients, c \in Children : OpenChild(t, c) BY <1>l, <1>2 DEF OpenChild
<1>3. CASE \E t \in Clients, f \in Frontends : SetCallback(t, f) BY <1>3 DEF SetCallback
<1>4. CASE \E t \in Clients, r \in Objects : Close(t, r) \/ Drop(t, r) BY <1>4 DEF Close, Drop
<1>5. ASSUME NEW t \in Clients, ClientStep(t) PROVE life'[o] = life[o]
  <2>1. CASE PublishChild(t) BY <1>l, <2>1 DEF PublishChild
  <2>2. CASE ~PublishChild(t)
    BY <1>5, <2>2 DEF ClientStep, PrepareChildArtifact, CommitChildArtifact, RollbackChild,
       DropUnpublished, PrepareCallback, CommitCallback, CloseFailed, EnqueueRetry
  <2> QED BY <2>1, <2>2
<1>6. ASSUME NEW t \in Threads, AttemptStep(t) PROVE life'[o] = life[o]
  <2>1. CASE BeginClose(t)
    <3>1. Obj(t) \in Objects BY <2>1, ThreadFacts DEF BeginClose, At
    <3> QED BY <1>a, <2>1, <3>1 DEF BeginClose
  <2>2. CASE FinishClose(t)
    <3>1. Obj(t) \in Objects BY SMTT(40), <2>2, ThreadFacts DEF FinishClose, At
    <3> QED BY SMTT(40), <1>a, <2>2, <3>1 DEF FinishClose
  <2>3. CASE ~BeginClose(t) /\ ~FinishClose(t)
    BY ZenonT(60), <1>6, <2>3 DEF AttemptStep, RefuseClose, BeginAttempt, TakeRetired, ReleaseBatch,
       ClearCallback, ClearRegistry, DomainCleanup, StopNotifiers, UnregisterRuntimes
  <2> QED BY <2>1, <2>2, <2>3
<1>7. ASSUME NEW r \in Objects, JobDone(r) \/ RetryLater(r) PROVE life'[o] = life[o]
  BY <1>7 DEF JobDone, RetryLater
<1>8. ASSUME NEW r \in Objects, Deadline(r) PROVE life'[o] = life[o]
  BY <1>a, <1>8 DEF Deadline
<1>9. CASE UNCHANGED vars BY <1>9 DEF vars
<1> QED BY <1>1, <1>2, <1>3, <1>4, <1>5, <1>6, <1>7, <1>8, <1>9 DEF Next

\* Closed and Quarantined are final for any instance: neither a late
\* completion nor a deadline nor the cascade of the parent changes them.
THEOREM Terminal_Final == Spec => TerminalIsFinal
<1>1. AttemptInv /\ [Next]_vars
        => [\A o \in Objects : life[o] \in Terminal => life'[o] = life[o]]_vars
  BY TerminalStep
<1> QED BY <1>1, FenceHolds, PTL DEF Spec, TerminalIsFinal

-----------------------------------------------------------------------------
(***************************************************************************)
(* TreeConsistent: the object tree and what it holds agree.                *)
(***************************************************************************)
Ended == Cleaning \cup Terminal
CleanupModes == {"close", "drop", "reap", "quarantine"}

\* What is true of a thread in state r, stage by stage.
StageFacts(r) ==
    /\ r.mode = "open" =>
          /\ r.pc \in OpenStages \cup {"take", "release"}
          /\ r.obj \in Children /\ life[r.obj] = "Prepared"
          /\ r.pc # "dropUnpublished" => r.obj \in registered
    /\ r.mode = "setCallback" => r.pc \in SettingStages \cup {"take", "release"}
    /\ \A e \in r.plan : life[e] \in Ended
    /\ r.mode \in CleanupModes /\ r.pc \in AttemptStages \cup {"begun"} =>
          r.obj \in r.plan /\ ActiveEntries(r.obj) \subseteq r.plan
    /\ r.pc = "begun" /\ ~r.clear => r.obj \notin registry
    /\ r.mode \in CleanupModes /\ r.pc \in {"take", "release", "registry"} => r.obj \notin callbacks
    /\ r.pc \in {"domain", "artifacts", "unregister", "finish"} /\ r.ok => r.obj \notin registry
    /\ r.pc \in {"artifacts", "unregister", "finish"} /\ r.ok /\ r.mode # "quarantine" /\ r.obj \in Frontends
          => r.obj \notin registered
    /\ r.pc = "finish" => r.mode # "quarantine" /\ (r.ok => (r.plan \ Frontends) \cap registered = {})

TreeInv ==
    /\ \A c \in Children : life[c] \in {"Prepared", "Live"} => life[Parent[c]] = "Live"
    /\ \A o \in Objects : life[o] = "Live" => o \in registered
    /\ \A o \in Objects : life[o] = "Closed" => o \notin registered
    /\ \A f \in Frontends : /\ life[f] = "Closed" => f \notin registry
                            /\ f \in callbacks => f \in registry
    /\ \A t, u \in Threads : /\ thread[t].mode = "open" /\ thread[u].mode = "open"
                             /\ thread[t].obj = thread[u].obj
                             => t = u
    /\ \A t \in Threads : StageFacts(thread[t])

-----------------------------------------------------------------------------
\* What every step does to the tables: objects that are closing stay so and
\* gain neither a runtime nor a callback, and children appear under Live demuxes.
TablesAge ==
    /\ \A e \in Objects : life[e] \in Ended => life'[e] \in Ended
    /\ \A e \in Objects : life[e] \in Terminal => life'[e] \in Terminal
    /\ \A c \in Children : life[c] = "Absent" /\ life'[c] # "Absent" => life[Parent[c]] = "Live"
    /\ \A e \in Objects : e \in registered' => e \in registered \/ life[e] = "Absent"
    /\ \A e \in Objects : e \in registry' => e \in registry \/ life[e] = "Live"
    /\ \A e \in Objects : e \in callbacks' => e \in callbacks \/ life[e] \in {"Live", "Prepared"}

\* The entries a close of o still has to change only become fewer.
LEMMA ActiveShrink ==
    ASSUME TablesAge, NEW o \in Objects, life[o] \in Ended
    PROVE  ActiveEntries(o)' \subseteq ActiveEntries(o)
<1>1. \A c \in Children : Parent[c] = o /\ life'[c] # "Absent" => life[c] # "Absent"
  BY DEF TablesAge, Ended, Cleaning, Terminal
<1>2. \A e \in Objects : life'[e] \notin Terminal => life[e] \notin Terminal BY DEF TablesAge
<1>3. Children \subseteq Objects BY DEF Objects
<1> QED BY <1>1, <1>2, <1>3 DEF ActiveEntries, Cascade, Descendants

\* A thread that does not move keeps its facts.
LEMMA FactsKept ==
    ASSUME TablesAge, NEW r \in ThreadStates, StageFacts(r), StageMatches(r.pc, r.mode),
           r.mode = "open" =>
              /\ life'[r.obj] = "Prepared"
              /\ r.obj \in registered => r.obj \in registered'
    PROVE  StageFacts(r)'
<1>1. /\ r.mode \in Modes /\ r.plan \subseteq Objects
  BY DEF ThreadStates
<1>2. \A e \in r.plan : life[e] \in Ended /\ e \in Objects BY <1>1 DEF StageFacts
<1>3. \A e \in r.plan : life'[e] \in Ended BY <1>2 DEF TablesAge
<1>4. \A e \in r.plan : /\ e \in registered' => e \in registered
                        /\ e \in registry' => e \in registry
                        /\ e \in callbacks' => e \in callbacks
  BY <1>2 DEF TablesAge, Ended, Cleaning, Terminal
<1>5. r.pc \in AttemptStages \cup {"begun"} /\ r.mode # "open" /\ r.mode # "setCallback"
        => r.mode \in CleanupModes
  BY <1>1 DEF Modes, CleanupModes
<1>6. CASE r.mode = "open"
  BY <1>3, <1>6 DEF StageFacts, OpenStages, CleanupModes
<1>7. CASE r.mode = "setCallback"
  BY <1>3, <1>7 DEF StageFacts, SettingStages, CleanupModes
<1>8. CASE r.mode \in CleanupModes
  <2>1. r.mode # "open" /\ r.mode # "setCallback" BY <1>8 DEF CleanupModes
  <2>2. CASE r.pc \in AttemptStages \cup {"begun"}
    <3>1. r.obj \in r.plan /\ ActiveEntries(r.obj) \subseteq r.plan
      BY <1>8, <2>2 DEF StageFacts
    <3>2. ActiveEntries(r.obj)' \subseteq r.plan BY <1>2, <3>1, ActiveShrink
    <3> QED BY <1>2, <1>3, <1>4, <2>1, <2>2, <3>1, <3>2 DEF StageFacts
  <2>3. CASE r.pc \notin AttemptStages \cup {"begun"}
    BY <1>3, <2>1, <2>3 DEF StageFacts, AttemptStages
  <2> QED BY <2>2, <2>3
<1> QED BY <1>1, <1>6, <1>7, <1>8 DEF Modes, CleanupModes

\* One thread moves to r: what is left to show of a step.
LEMMA TreeStep ==
    ASSUME AttemptInv, TreeInv, TablesAge, NEW t \in Threads, NEW r, Moves(t, r),
           StageFacts(r)',
           \A u \in Threads \ {t} : thread[u].mode = "open" =>
              /\ life'[thread[u].obj] = "Prepared"
              /\ thread[u].obj \in registered => thread[u].obj \in registered',
           r.mode = "open" => \A u \in Threads \ {t} :
              thread[u].mode = "open" => thread[u].obj # r.obj,
           \A c \in Children : life'[c] \in {"Prepared", "Live"} => life'[Parent[c]] = "Live",
           \A o \in Objects : life'[o] = "Live" => o \in registered',
           \A o \in Objects : life'[o] = "Closed" => o \notin registered',
           \A f \in Frontends : /\ life'[f] = "Closed" => f \notin registry'
                                /\ f \in callbacks' => f \in registry'
    PROVE  TreeInv'
<1>1. \A u \in Threads : thread'[u] = IF u = t THEN r ELSE thread[u]
  BY DEF Moves, AttemptInv, Shape
<1>2. \A u \in Threads : /\ thread[u] \in ThreadStates /\ StageFacts(thread[u])
                         /\ StageMatches(thread[u].pc, thread[u].mode)
  BY DEF AttemptInv, Shape, TreeInv
<1>3. ASSUME NEW u \in Threads PROVE StageFacts(thread[u])'
  <2>1. CASE u = t
    <3>1. thread'[u] = r BY <1>1, <2>1
    <3> QED BY <3>1 DEF StageFacts, ActiveEntries, Cascade, Descendants
  <2>2. CASE u # t
    <3>1. PICK q \in ThreadStates : q = thread[u] BY <1>2
    <3>2. StageFacts(q)' BY <1>2, <2>2, <3>1, FactsKept
    <3>3. thread'[u] = q BY <1>1, <2>2, <3>1
    <3> QED BY <3>2, <3>3 DEF StageFacts, ActiveEntries, Cascade, Descendants
  <2> QED BY <2>1, <2>2
<1>4. \A u, v \in Threads : /\ thread'[u].mode = "open" /\ thread'[v].mode = "open"
                            /\ thread'[u].obj = thread'[v].obj
                            => u = v
  BY <1>1 DEF TreeInv
<1> QED BY <1>3, <1>4 DEF TreeInv

\* A step that leaves the tables alone.
LEMMA QuietStep ==
    ASSUME AttemptInv, TreeInv, NEW t \in Threads, NEW r, Moves(t, r),
           UNCHANGED <<life, registered, callbacks, registry>>,
           StageFacts(r),
           r.mode = "open" => thread[t].mode = "open" /\ r.obj = thread[t].obj
    PROVE  TreeInv'
<1>1. TablesAge BY DEF TablesAge
<1>2. StageFacts(r)' BY DEF StageFacts, ActiveEntries, Cascade, Descendants
<1>3. \A u \in Threads : StageFacts(thread[u]) BY DEF TreeInv
<1>4. \A u \in Threads \ {t} : thread[u].mode = "open" =>
        /\ life'[thread[u].obj] = "Prepared"
        /\ thread[u].obj \in registered => thread[u].obj \in registered'
  BY <1>3 DEF StageFacts
<1>5. r.mode = "open" => \A u \in Threads \ {t} :
        thread[u].mode = "open" => thread[u].obj # r.obj
  BY DEF TreeInv
<1> QED BY ZenonT(30), <1>1, <1>2, <1>4, <1>5, TreeStep DEF TreeInv

-----------------------------------------------------------------------------
(* How the actions move a thread. *)

\* Go as a move to a state that differs in its stage.
LEMMA GoMove ==
    ASSUME AttemptInv, NEW t \in Threads, NEW p \in PCs, Go(t, p)
    PROVE  \E r \in ThreadStates :
              /\ Moves(t, r) /\ r.pc = p /\ r.mode = thread[t].mode /\ r.obj = thread[t].obj
              /\ r.plan = thread[t].plan /\ r.clear = thread[t].clear /\ r.ok = thread[t].ok
<1>1. thread[t] \in ThreadStates BY DEF AttemptInv, Shape
<1> DEFINE r == [thread[t] EXCEPT !.pc = p]
<1>2. /\ r \in ThreadStates /\ r.pc = p /\ r.mode = thread[t].mode /\ r.obj = thread[t].obj
      /\ r.plan = thread[t].plan /\ r.clear = thread[t].clear /\ r.ok = thread[t].ok
  BY ZenonT(30), <1>1 DEF ThreadStates
<1>3. Moves(t, r) BY DEF Go, Moves
<1> HIDE DEF r
<1> QED BY ZenonT(30), <1>2, <1>3

\* Failing as a move to a state that is not ok.
LEMMA FailingMove ==
    ASSUME AttemptInv, NEW t \in Threads, NEW p \in PCs, Failing(t, p)
    PROVE  \E r \in ThreadStates :
              /\ Moves(t, r) /\ r.pc = p /\ r.mode = thread[t].mode /\ r.obj = thread[t].obj
              /\ r.plan = thread[t].plan /\ r.clear = thread[t].clear /\ r.ok = FALSE
<1>1. thread[t] \in ThreadStates BY DEF AttemptInv, Shape
<1> DEFINE r == [thread[t] EXCEPT !.pc = p, !.ok = FALSE]
<1>2. /\ r \in ThreadStates /\ r.pc = p /\ r.mode = thread[t].mode /\ r.obj = thread[t].obj
      /\ r.plan = thread[t].plan /\ r.clear = thread[t].clear /\ r.ok = FALSE
  BY ZenonT(30), <1>1 DEF ThreadStates
<1>3. Moves(t, r) BY ZenonT(60), <1>1 DEF Failing, Moves, ThreadStates
<1> HIDE DEF r
<1> QED BY ZenonT(30), <1>2, <1>3

\* A thread with nothing begun.
Fresh(r, p, q) == r.pc = p /\ r.mode = q /\ r.plan = {} /\ r.ok = TRUE

\* A return as a move to the idle state.
LEMMA ReturnMove ==
    ASSUME NEW t \in Threads, Return(t)
    PROVE  \E r \in ThreadStates : Moves(t, r) /\ Fresh(r, "idle", "close")
<1>1. Idle \in ThreadStates /\ Fresh(Idle, "idle", "close")
  BY DEF Idle, ThreadStates, PCs, Modes, NoObject, Fresh
<1> QED BY ZenonT(30), <1>1 DEF Return, Moves

\* A failure as a move outside the attempt.
LEMMA FailMove ==
    ASSUME AttemptInv, NEW t \in Threads, Fail(t)
    PROVE  \E r \in ThreadStates : Moves(t, r) /\ Fresh(r, "failed", thread[t].mode)
<1> DEFINE r == [Idle EXCEPT !.pc = "failed", !.obj = Obj(t), !.mode = thread[t].mode]
<1>1. thread[t] \in ThreadStates BY DEF AttemptInv, Shape
<1>2. r \in ThreadStates /\ Fresh(r, "failed", thread[t].mode)
  BY ZenonT(30), <1>1 DEF Idle, ThreadStates, PCs, Modes, NoObject, Obj, Fresh
<1>3. Moves(t, r) BY DEF Fail, Moves
<1> HIDE DEF r
<1> QED BY ZenonT(30), <1>2, <1>3

\* The start of a call as a move.
LEMMA CallMove ==
    ASSUME NEW t \in Threads, NEW o \in Objects, NEW p \in PCs, NEW q \in Modes,
           thread' = [thread EXCEPT ![t] = [Idle EXCEPT !.pc = p, !.mode = q, !.obj = o]]
    PROVE  \E r \in ThreadStates : Moves(t, r) /\ Fresh(r, p, q) /\ r.obj = o
<1> DEFINE r == [Idle EXCEPT !.pc = p, !.mode = q, !.obj = o]
<1>1. r \in ThreadStates /\ Fresh(r, p, q) /\ r.obj = o
  BY ZenonT(30) DEF Idle, ThreadStates, NoObject, Fresh
<1>2. Moves(t, r) BY DEF Moves
<1> HIDE DEF r
<1> QED BY ZenonT(30), <1>1, <1>2

\* Outside a close, an opening and a callback there is nothing to know.
LEMMA OutsideFacts ==
    ASSUME NEW r, r.pc \in {"idle", "begin", "failed", "enqueue"}, r.mode \in CleanupModes,
           \A e \in r.plan : life[e] \in Ended
    PROVE  StageFacts(r)
BY DEF StageFacts, CleanupModes, AttemptStages

\* What an action knows of the thread that takes it.
LEMMA TreeFacts ==
    ASSUME AttemptInv, TreeInv, NEW t \in Threads
    PROVE  /\ thread[t] \in ThreadStates /\ StageFacts(thread[t])
           /\ StageMatches(thread[t].pc, thread[t].mode)
           /\ thread[t].pc # "idle" => thread[t].obj \in Objects
           /\ thread[t].pc \notin OpenStages \cup SettingStages \cup {"take", "release"}
                => thread[t].mode \in CleanupModes
           /\ \A e \in thread[t].plan : life[e] \in Ended
           /\ life \in [Objects -> Lifecycles]
<1>1. /\ thread[t] \in ThreadStates /\ StageFacts(thread[t])
      /\ StageMatches(thread[t].pc, thread[t].mode)
      /\ thread[t].pc # "idle" => thread[t].obj \in Objects
      /\ life \in [Objects -> Lifecycles]
  BY DEF AttemptInv, Shape, TreeInv
<1>2. thread[t].mode \in Modes BY <1>1 DEF ThreadStates
<1> QED BY ZenonT(30), <1>1, <1>2 DEF StageFacts, Modes, CleanupModes

\* Where the callback stage of a cleanup leads.
LEMMA AfterCallbackFacts ==
    ASSUME NEW t \in Threads
    PROVE  /\ AfterCallback(t) \in {"unregister", "domain", "artifacts"}
           /\ AfterCallback(t) \in {"unregister", "artifacts"} =>
                 thread[t].mode = "quarantine" \/ thread[t].obj \notin Frontends
BY DEF AfterCallback, AfterDomain, Obj

\* A thread goes on to the next stage of its cleanup.
LEMMA StageFactsNext ==
    ASSUME NEW t \in Threads, NEW r, StageFacts(thread[t]),
           thread[t].mode \in CleanupModes, thread[t].pc \in AttemptStages \cup {"begun"},
           r.mode = thread[t].mode, r.obj = thread[t].obj, r.plan = thread[t].plan,
           r.pc \in AttemptStages \ {"finish"},
           r.pc \in {"take", "release", "registry"} => r.obj \notin callbacks,
           r.pc \in {"domain", "artifacts", "unregister"} /\ r.ok => r.obj \notin registry,
           r.pc \in {"artifacts", "unregister"} /\ r.ok /\ r.mode # "quarantine"
              => r.obj \notin Frontends \/ r.obj \notin registered
    PROVE  StageFacts(r)
BY ZenonT(30) DEF StageFacts, AttemptStages, CleanupModes

-----------------------------------------------------------------------------
(* Steps that leave the tables alone. *)

\* A return that leaves the tables alone keeps the tree.
LEMMA QuietReturn ==
    ASSUME AttemptInv, TreeInv, NEW t \in Threads, Return(t),
           UNCHANGED <<life, registered, callbacks, registry>>
    PROVE  TreeInv'
<1>1. PICK r \in ThreadStates : Moves(t, r) /\ Fresh(r, "idle", "close") BY ReturnMove
<1>2. StageFacts(r) BY <1>1, OutsideFacts DEF Fresh, CleanupModes
<1> QED BY <1>1, <1>2, QuietStep DEF Fresh

\* So does a failure.
LEMMA QuietFail ==
    ASSUME AttemptInv, TreeInv, NEW t \in Threads, Fail(t), thread[t].mode \in CleanupModes,
           UNCHANGED <<life, registered, callbacks, registry>>
    PROVE  TreeInv'
<1>1. PICK r \in ThreadStates : Moves(t, r) /\ Fresh(r, "failed", thread[t].mode) BY FailMove
<1>2. StageFacts(r) BY <1>1, OutsideFacts DEF Fresh
<1> QED BY <1>1, <1>2, QuietStep DEF Fresh, CleanupModes

\* So does a move to a stage outside the attempts.
LEMMA QuietOutside ==
    ASSUME AttemptInv, TreeInv, NEW t \in Threads, NEW p \in {"begin", "enqueue"}, Go(t, p),
           thread[t].mode \in CleanupModes,
           UNCHANGED <<life, registered, callbacks, registry>>
    PROVE  TreeInv'
<1>1. p \in PCs BY DEF PCs
<1>2. PICK r \in ThreadStates :
              /\ Moves(t, r) /\ r.pc = p /\ r.mode = thread[t].mode /\ r.obj = thread[t].obj
              /\ r.plan = thread[t].plan /\ r.clear = thread[t].clear /\ r.ok = thread[t].ok
  BY <1>1, GoMove
<1>3. StageFacts(r) BY <1>2, TreeFacts, OutsideFacts
<1> QED BY <1>2, <1>3, QuietStep DEF CleanupModes

\* A cleanup goes on, or goes on with a failure noted.
LEMMA QuietStage ==
    ASSUME AttemptInv, TreeInv, NEW t \in Threads, NEW p \in AttemptStages \ {"finish"},
           thread[t].mode \in CleanupModes, thread[t].pc \in AttemptStages,
           UNCHANGED <<life, registered, callbacks, registry>>,
           p \in {"take", "release", "registry"} => thread[t].obj \notin callbacks,
           \/ Failing(t, p)
           \/ /\ Go(t, p)
              /\ p \in {"domain", "artifacts", "unregister"} /\ thread[t].ok =>
                    /\ thread[t].obj \notin registry
                    /\ p # "domain" /\ thread[t].mode # "quarantine"
                          => thread[t].obj \notin Frontends \/ thread[t].obj \notin registered
    PROVE  TreeInv'
<1>1. p \in PCs BY DEF PCs, AttemptStages
<1>2. PICK r \in ThreadStates :
              /\ Moves(t, r) /\ r.pc = p /\ r.mode = thread[t].mode /\ r.obj = thread[t].obj
              /\ r.plan = thread[t].plan
              /\ r.pc \in {"domain", "artifacts", "unregister"} /\ r.ok =>
                    /\ r.obj \notin registry
                    /\ r.pc # "domain" /\ r.mode # "quarantine"
                          => r.obj \notin Frontends \/ r.obj \notin registered
  <2>1. CASE Failing(t, p) BY ZenonT(30), <1>1, <2>1, FailingMove
  <2>2. CASE ~Failing(t, p)
    <3>1. PICK r \in ThreadStates :
              /\ Moves(t, r) /\ r.pc = p /\ r.mode = thread[t].mode /\ r.obj = thread[t].obj
              /\ r.plan = thread[t].plan /\ r.ok = thread[t].ok
      BY ZenonT(30), <1>1, <2>2, GoMove
    <3> QED BY <3>1, <2>2
  <2> QED BY <2>1, <2>2
<1>3. StageFacts(thread[t]) BY ZenonT(30), TreeFacts
<1>4. StageFacts(r) BY ZenonT(30), <1>2, <1>3, StageFactsNext
<1> QED BY <1>2, <1>4, QuietStep DEF CleanupModes

\* An opening goes on.
LEMMA QuietOpen ==
    ASSUME AttemptInv, TreeInv, NEW t \in Threads,
           NEW p \in OpenStages \cup {"take", "release"}, Go(t, p) \/ Failing(t, p),
           thread[t].mode = "open", thread[t].pc # "dropUnpublished",
           UNCHANGED <<life, registered, callbacks, registry>>
    PROVE  TreeInv'
<1>1. p \in PCs BY DEF PCs, OpenStages
<1>2. PICK r \in ThreadStates :
              /\ Moves(t, r) /\ r.pc = p /\ r.mode = "open" /\ r.obj = thread[t].obj
              /\ r.plan = thread[t].plan
  <2>1. CASE Go(t, p) BY <1>1, <2>1, GoMove
  <2>2. CASE Failing(t, p)
    <3>1. PICK r \in ThreadStates :
              /\ Moves(t, r) /\ r.pc = p /\ r.mode = thread[t].mode /\ r.obj = thread[t].obj
              /\ r.plan = thread[t].plan /\ r.ok = FALSE
      BY ZenonT(30), <1>1, <2>2, FailingMove
    <3> QED BY <3>1
  <2> QED BY <2>1, <2>2
<1>3. StageFacts(thread[t]) BY TreeFacts
<1>4. StageFacts(r) BY ZenonT(30), <1>2, <1>3 DEF StageFacts, OpenStages, CleanupModes
<1> QED BY <1>2, <1>4, QuietStep

\* So does a step of a setCallback.
LEMMA QuietSetting ==
    ASSUME AttemptInv, TreeInv, NEW t \in Threads,
           NEW p \in {"registering", "take", "release"}, Go(t, p), thread[t].mode = "setCallback",
           UNCHANGED <<life, registered, callbacks, registry>>
    PROVE  TreeInv'
<1>1. p \in PCs BY DEF PCs
<1>2. PICK r \in ThreadStates :
              /\ Moves(t, r) /\ r.pc = p /\ r.mode = "setCallback" /\ r.obj = thread[t].obj
              /\ r.plan = thread[t].plan
  BY <1>1, GoMove
<1>3. StageFacts(thread[t]) BY TreeFacts
<1>4. StageFacts(r) BY ZenonT(30), <1>2, <1>3 DEF StageFacts, SettingStages, CleanupModes
<1> QED BY ZenonT(30), <1>2, <1>4, QuietStep

\* So does the start of a call.
LEMMA QuietCall ==
    ASSUME AttemptInv, TreeInv, NEW t \in Threads, NEW o \in Objects,
           NEW p \in {"begin", "setting"}, NEW q \in {"close", "drop", "setCallback"},
           p = "setting" <=> q = "setCallback",
           thread' = [thread EXCEPT ![t] = [Idle EXCEPT !.pc = p, !.mode = q, !.obj = o]],
           UNCHANGED <<life, registered, callbacks, registry>>
    PROVE  TreeInv'
<1>1. p \in PCs /\ q \in Modes BY DEF PCs, Modes
<1>2. PICK r \in ThreadStates : Moves(t, r) /\ Fresh(r, p, q) /\ r.obj = o
  BY ZenonT(30), <1>1, CallMove
<1>3. StageFacts(r) BY <1>2 DEF Fresh, StageFacts, SettingStages, CleanupModes, AttemptStages
<1> QED BY <1>2, <1>3, QuietStep DEF Fresh

\* So does the end of the release of the retired callbacks.
LEMMA TreeAfterRelease ==
    ASSUME AttemptInv, TreeInv, NEW t \in Threads, NEW ok \in BOOLEAN, AfterRelease(t, ok),
           thread[t].pc \in {"take", "release"},
           UNCHANGED <<life, registered, callbacks, registry>>
    PROVE  TreeInv'
<1>f. thread[t] \in ThreadStates /\ StageFacts(thread[t]) BY TreeFacts
<1>a. AfterCallback(t) \in {"unregister", "domain", "artifacts"} BY ZenonT(30), AfterCallbackFacts
<1>1. CASE thread[t].mode = "open"
  <2>1. Go(t, "publish") \/ Failing(t, "rollback") BY <1>1 DEF AfterRelease
  <2> QED BY <1>1, <2>1, QuietOpen DEF OpenStages
<1>2. CASE thread[t].mode = "setCallback"
  BY <1>2, QuietReturn DEF AfterRelease
<1>3. CASE thread[t].mode \in CleanupModes
  <2>1. thread[t].obj \notin callbacks BY <1>f, <1>3 DEF StageFacts
  <2>2. CASE Go(t, "registry") BY ZenonT(30), <1>3, <2>1, <2>2, QuietStage DEF AttemptStages
  <2>3. CASE Failing(t, AfterCallback(t))
    BY <1>3, <1>a, <2>3, QuietStage DEF AttemptStages
  <2> QED BY <1>3, <2>2, <2>3 DEF AfterRelease, CleanupModes
<1> QED BY ZenonT(30), <1>f, <1>1, <1>2, <1>3 DEF ThreadStates, Modes, CleanupModes

-----------------------------------------------------------------------------
(* Steps that change the tables. *)

\* The openings of the other threads are of other children.
LEMMA OtherOpenings ==
    ASSUME AttemptInv, TreeInv, NEW t \in Threads
    PROVE  \A u \in Threads \ {t} : thread[u].mode = "open" =>
              /\ thread[u].obj \in Children /\ life[thread[u].obj] = "Prepared"
              /\ thread[t].mode = "open" => thread[u].obj # thread[t].obj
BY ZenonT(30) DEF TreeInv, StageFacts

\* Opening a demux or a frontend: a fresh entry, Live with its runtime.
LEMMA TreeOpenRoot ==
    ASSUME AttemptInv, TreeInv, NEW o \in Demuxes \cup Frontends, OpenRoot(o)
    PROVE  TreeInv'
<1>1. /\ life[o] = "Absent" /\ life' = [life EXCEPT ![o] = "Live"]
      /\ registered' = registered \cup {o} /\ UNCHANGED <<callbacks, registry, thread>>
  BY DEF OpenRoot, callbackVars, storeVars
<1>2. o \in Objects /\ o \in Threads /\ o \notin Children
  BY ObjectsAssumption DEF Objects, Threads
<1>3. life \in [Objects -> Lifecycles] /\ thread \in [Threads -> ThreadStates] BY DEF AttemptInv, Shape
<1>4. \A e \in Objects : life'[e] = IF e = o THEN "Live" ELSE life[e] BY <1>1, <1>3
<1>5. Children \subseteq Objects /\ \A c \in Children : Parent[c] \in Objects
  BY ParentAssumption DEF Objects
<1>6. TablesAge BY <1>1, <1>2, <1>4, <1>5 DEF TablesAge, Ended, Cleaning, Terminal
<1>7. PICK r \in ThreadStates : r = thread[o] BY <1>2, <1>3
<1>8. Moves(o, r) BY <1>1, <1>3, <1>7 DEF Moves
<1>9. \A u \in Threads : thread[u].mode = "open" =>
        life'[thread[u].obj] = "Prepared" /\ (thread[u].obj \in registered => thread[u].obj \in registered')
  <2>1. \A u \in Threads : thread[u].mode = "open" =>
          thread[u].obj \in Children /\ life[thread[u].obj] = "Prepared"
    BY ZenonT(30) DEF TreeInv, StageFacts
  <2> QED BY <1>1, <1>2, <1>4, <1>5, <2>1
<1>10. StageFacts(r) /\ StageMatches(r.pc, r.mode) BY <1>2, <1>7, TreeFacts
<1>11. StageFacts(r)' BY ZenonT(30), <1>2, <1>6, <1>7, <1>9, <1>10, FactsKept
<1>12. r.mode = "open" => \A u \in Threads \ {o} : thread[u].mode = "open" => thread[u].obj # r.obj
  BY <1>2, <1>7, OtherOpenings
<1>13. \A c \in Children : life'[c] \in {"Prepared", "Live"} => life'[Parent[c]] = "Live"
  BY <1>1, <1>2, <1>4, <1>5 DEF TreeInv
<1>14. \A e \in Objects : /\ life'[e] = "Live" => e \in registered'
                          /\ life'[e] = "Closed" => e \notin registered'
  BY <1>1, <1>4 DEF TreeInv
<1>15. \A f \in Frontends : /\ life'[f] = "Closed" => f \notin registry'
                            /\ f \in callbacks' => f \in registry'
  BY <1>1, <1>4 DEF TreeInv, Objects
<1> QED BY ZenonT(30), <1>2, <1>6, <1>8, <1>9, <1>11, <1>12, <1>13, <1>14, <1>15, TreeStep

\* Opening a child: a Prepared entry, under a Live demux.
LEMMA TreeOpenChild ==
    ASSUME AttemptInv, TreeInv, NEW t \in Clients, NEW c \in Children, OpenChild(t, c)
    PROVE  TreeInv'
<1>1. /\ life[c] = "Absent" /\ life' = [life EXCEPT ![c] = "Prepared"]
      /\ registered' = registered \cup {c} /\ UNCHANGED <<callbacks, registry>>
      /\ life[Parent[c]] = "Live"
      /\ thread' = [thread EXCEPT ![t] = [Idle EXCEPT !.pc = "prepare", !.mode = "open", !.obj = c]]
  BY DEF OpenChild, OwnerLive, callbackVars, storeVars
<1>2. t \in Threads /\ c \in Objects BY DEF Threads, Objects
<1>3. "prepare" \in PCs /\ "open" \in Modes BY DEF PCs, Modes
<1>4. PICK r \in ThreadStates : Moves(t, r) /\ Fresh(r, "prepare", "open") /\ r.obj = c
  <2>1. PICK p \in PCs, q \in Modes : p = "prepare" /\ q = "open" BY <1>3
  <2>2. thread' = [thread EXCEPT ![t] = [Idle EXCEPT !.pc = p, !.mode = q, !.obj = c]]
    BY <1>1, <2>1
  <2>3. \E r \in ThreadStates : Moves(t, r) /\ Fresh(r, p, q) /\ r.obj = c
    BY ZenonT(30), <1>2, <2>2, CallMove
  <2> QED BY <2>1, <2>3
<1>5. life \in [Objects -> Lifecycles] BY DEF AttemptInv, Shape
<1>6. \A e \in Objects : life'[e] = IF e = c THEN "Prepared" ELSE life[e] BY <1>1, <1>5
<1>7. /\ Children \subseteq Objects /\ Frontends \subseteq Objects /\ c \notin Frontends
      /\ \A e \in Children : Parent[e] \in Objects /\ Parent[e] # c
  BY ParentAssumption, ObjectsAssumption DEF Objects
<1>8. TablesAge BY <1>1, <1>2, <1>6, <1>7 DEF TablesAge, Ended, Cleaning, Terminal
<1>9. StageFacts(r)'
  BY <1>1, <1>2, <1>4, <1>6 DEF Fresh, StageFacts, OpenStages, CleanupModes
<1>10. \A u \in Threads \ {t} : thread[u].mode = "open" =>
         /\ thread[u].obj # c /\ life'[thread[u].obj] = "Prepared"
         /\ thread[u].obj \in registered => thread[u].obj \in registered'
  BY <1>1, <1>2, <1>6, <1>7, OtherOpenings
<1>11. \A e \in Children : life'[e] \in {"Prepared", "Live"} => life'[Parent[e]] = "Live"
  BY <1>1, <1>6, <1>7 DEF TreeInv
<1>12. \A e \in Objects : /\ life'[e] = "Live" => e \in registered'
                          /\ life'[e] = "Closed" => e \notin registered'
  BY <1>1, <1>6 DEF TreeInv
<1>13. \A f \in Frontends : /\ life'[f] = "Closed" => f \notin registry'
                            /\ f \in callbacks' => f \in registry'
  BY <1>1, <1>6, <1>7 DEF TreeInv
<1> QED BY <1>2, <1>4, <1>8, <1>9, <1>10, <1>11, <1>12, <1>13, TreeStep

\* A step of the store or of the registry of callbacks.
LEMMA CallbackStep ==
    ASSUME AttemptInv, TreeInv, NEW t \in Threads, NEW r, Moves(t, r),
           UNCHANGED <<life, registered>>, StageFacts(r)',
           r.mode = "open" => thread[t].mode = "open" /\ r.obj = thread[t].obj,
           \A e \in Objects : e \in registry' => e \in registry \/ life[e] = "Live",
           \A e \in Objects : e \in callbacks' => e \in callbacks \/ life[e] \in {"Live", "Prepared"},
           \A f \in Frontends : f \in callbacks' => f \in registry'
    PROVE  TreeInv'
<1>1. TablesAge BY DEF TablesAge
<1>2. \A u \in Threads \ {t} : thread[u].mode = "open" =>
        /\ life'[thread[u].obj] = "Prepared"
        /\ thread[u].obj \in registered => thread[u].obj \in registered'
  BY OtherOpenings
<1>3. r.mode = "open" => \A u \in Threads \ {t} :
        thread[u].mode = "open" => thread[u].obj # r.obj
  BY OtherOpenings
<1>4. \A f \in Frontends : life'[f] = "Closed" => f \notin registry'
  BY DEF TreeInv, Objects
<1>5. /\ \A c \in Children : life'[c] \in {"Prepared", "Live"} => life'[Parent[c]] = "Live"
      /\ \A o \in Objects : life'[o] = "Live" => o \in registered'
      /\ \A o \in Objects : life'[o] = "Closed" => o \notin registered'
  BY DEF TreeInv
<1> QED BY <1>1, <1>2, <1>3, <1>4, <1>5, TreeStep

\* A child's callback enters the store; only a frontend's has to be in the registry.
LEMMA TreeCommitChildArtifact ==
    ASSUME AttemptInv, TreeInv, NEW t \in Threads, CommitChildArtifact(t)
    PROVE  TreeInv'
<1>1. /\ thread[t].pc = "constructed" /\ callbacks' = callbacks \cup {thread[t].obj}
      /\ Go(t, "take") /\ UNCHANGED <<life, registered, registry>>
  BY DEF CommitChildArtifact, At, Obj, tableVars
<1>2. /\ thread[t].mode = "open" /\ thread[t].obj \in Children /\ life[thread[t].obj] = "Prepared"
      /\ thread[t].obj \in registered /\ \A e \in thread[t].plan : life[e] \in Ended
  BY ZenonT(30), <1>1, TreeFacts DEF StageMatches, OpenStages, StageFacts
<1>3. "take" \in PCs BY DEF PCs
<1>4. PICK r \in ThreadStates :
              /\ Moves(t, r) /\ r.pc = "take" /\ r.mode = thread[t].mode /\ r.obj = thread[t].obj
              /\ r.plan = thread[t].plan /\ r.clear = thread[t].clear /\ r.ok = thread[t].ok
  BY <1>1, <1>3, GoMove
<1>5. StageFacts(r)' BY ZenonT(30), <1>1, <1>2, <1>4 DEF StageFacts, CleanupModes
<1>6. thread[t].obj \notin Frontends BY <1>2, ObjectsAssumption
<1>7. \A f \in Frontends : f \in callbacks' => f \in registry' BY <1>1, <1>6 DEF TreeInv
<1> QED BY <1>1, <1>2, <1>4, <1>5, <1>7, CallbackStep

\* A frontend callback is committed together with its registry entry.
LEMMA TreeCommitCallback ==
    ASSUME AttemptInv, TreeInv, NEW t \in Threads, CommitCallback(t)
    PROVE  TreeInv'
<1>1. /\ thread[t].pc = "registering" /\ Go(t, "take") /\ UNCHANGED <<life, registered>>
      /\ \/ /\ life[thread[t].obj] = "Live"
            /\ callbacks' = callbacks \cup {thread[t].obj} /\ registry' = registry \cup {thread[t].obj}
         \/ UNCHANGED <<callbacks, registry>>
  BY ZenonT(30) DEF CommitCallback, At, Obj, tableVars
<1>2. thread[t].mode = "setCallback" /\ \A e \in thread[t].plan : life[e] \in Ended
  BY <1>1, TreeFacts DEF StageMatches, SettingStages
<1>3. "take" \in PCs BY DEF PCs
<1>4. PICK r \in ThreadStates :
              /\ Moves(t, r) /\ r.pc = "take" /\ r.mode = thread[t].mode /\ r.obj = thread[t].obj
              /\ r.plan = thread[t].plan /\ r.clear = thread[t].clear /\ r.ok = thread[t].ok
  BY <1>1, <1>3, GoMove
<1>5. StageFacts(r)' BY <1>1, <1>2, <1>4 DEF StageFacts, CleanupModes
<1>6. \A f \in Frontends : f \in callbacks' => f \in registry' BY ZenonT(30), <1>1 DEF TreeInv
<1> QED BY <1>1, <1>2, <1>4, <1>5, <1>6, CallbackStep

\* A cleanup takes the callback of its root out of the store.
LEMMA TreeClearCallback ==
    ASSUME AttemptInv, TreeInv, NEW t \in Threads, ClearCallback(t)
    PROVE  TreeInv'
<1>1. /\ thread[t].pc = "callback" /\ callbacks' = callbacks \ {thread[t].obj}
      /\ Go(t, "take") /\ UNCHANGED <<life, registered, registry>>
  BY DEF ClearCallback, At, Obj, tableVars
<1>2. /\ thread[t].mode \in CleanupModes /\ \A e \in thread[t].plan : life[e] \in Ended
      /\ thread[t].obj \in thread[t].plan /\ ActiveEntries(thread[t].obj) \subseteq thread[t].plan
  BY ZenonT(30), <1>1, TreeFacts DEF StageFacts, OpenStages, SettingStages, AttemptStages
<1>3. "take" \in PCs BY DEF PCs
<1>4. PICK r \in ThreadStates :
              /\ Moves(t, r) /\ r.pc = "take" /\ r.mode = thread[t].mode /\ r.obj = thread[t].obj
              /\ r.plan = thread[t].plan /\ r.clear = thread[t].clear /\ r.ok = thread[t].ok
  BY ZenonT(30), <1>1, <1>3, GoMove
<1>5. ActiveEntries(r.obj)' \subseteq r.plan
  BY <1>1, <1>2, <1>4 DEF ActiveEntries, Cascade, Descendants
<1>6. StageFacts(r)' BY ZenonT(30), <1>1, <1>2, <1>4, <1>5 DEF StageFacts, CleanupModes
<1>7. \A f \in Frontends : f \in callbacks' => f \in registry' BY ZenonT(30), <1>1 DEF TreeInv
<1> QED BY ZenonT(30), <1>1, <1>2, <1>4, <1>6, <1>7, CallbackStep DEF CleanupModes

\* A cleanup removes the registry entry of its root.
LEMMA TreeClearRegistry ==
    ASSUME AttemptInv, TreeInv, NEW t \in Threads, ClearRegistry(t)
    PROVE  TreeInv'
<1>1. /\ thread[t].pc = "registry" /\ registry' = registry \ {thread[t].obj}
      /\ UNCHANGED <<life, registered, callbacks>>
      /\ Go(t, AfterCallback(t)) \/ Failing(t, AfterCallback(t))
  BY ZenonT(30) DEF ClearRegistry, At, Obj, tableVars, storeVars
<1>2. /\ thread[t].mode \in CleanupModes /\ \A e \in thread[t].plan : life[e] \in Ended
      /\ thread[t].obj \in thread[t].plan /\ ActiveEntries(thread[t].obj) \subseteq thread[t].plan
      /\ thread[t].obj \notin callbacks
  BY ZenonT(30), <1>1, TreeFacts DEF StageFacts, OpenStages, SettingStages, AttemptStages
<1>3. /\ AfterCallback(t) \in {"unregister", "domain", "artifacts"}
      /\ AfterCallback(t) \in {"unregister", "artifacts"} =>
            thread[t].mode = "quarantine" \/ thread[t].obj \notin Frontends
  BY AfterCallbackFacts
<1>4. PICK r \in ThreadStates :
              /\ Moves(t, r) /\ r.pc = AfterCallback(t) /\ r.mode = thread[t].mode
              /\ r.obj = thread[t].obj /\ r.plan = thread[t].plan
  <2>1. AfterCallback(t) \in PCs BY <1>3 DEF PCs
  <2>2. CASE Go(t, AfterCallback(t)) BY <2>1, <2>2, GoMove
  <2>3. CASE Failing(t, AfterCallback(t)) BY ZenonT(30), <2>1, <2>3, FailingMove
  <2> QED BY ZenonT(30), <1>1, <2>2, <2>3
<1>5. ActiveEntries(r.obj)' \subseteq r.plan
  BY <1>1, <1>2, <1>4 DEF ActiveEntries, Cascade, Descendants
<1>6. StageFacts(r)' BY ZenonT(30), <1>1, <1>2, <1>3, <1>4, <1>5 DEF StageFacts, CleanupModes
<1>7. \A f \in Frontends : f \in callbacks' => f \in registry' BY ZenonT(30), <1>1, <1>2 DEF TreeInv
<1> QED BY ZenonT(30), <1>1, <1>2, <1>4, <1>6, <1>7, CallbackStep DEF CleanupModes

\* A step that gives up runtimes.
LEMMA ReleaseStep ==
    ASSUME AttemptInv, TreeInv, NEW t \in Threads, NEW r, Moves(t, r), NEW gone,
           registered' = registered \ gone, UNCHANGED <<life, callbacks, registry>>,
           \A e \in gone : life[e] # "Live" /\ (life[e] = "Prepared" =>
              thread[t].mode = "open" /\ e = thread[t].obj),
           StageFacts(r)',
           r.mode = "open" => thread[t].mode = "open" /\ r.obj = thread[t].obj
    PROVE  TreeInv'
<1>1. TablesAge BY DEF TablesAge
<1>2. \A u \in Threads \ {t} : thread[u].mode = "open" =>
        /\ life'[thread[u].obj] = "Prepared"
        /\ thread[u].obj \in registered => thread[u].obj \in registered'
  BY OtherOpenings
<1>3. r.mode = "open" => \A u \in Threads \ {t} :
        thread[u].mode = "open" => thread[u].obj # r.obj
  BY OtherOpenings
<1>4. /\ \A c \in Children : life'[c] \in {"Prepared", "Live"} => life'[Parent[c]] = "Live"
      /\ \A o \in Objects : life'[o] = "Live" => o \in registered'
      /\ \A o \in Objects : life'[o] = "Closed" => o \notin registered'
      /\ \A f \in Frontends : /\ life'[f] = "Closed" => f \notin registry'
                              /\ f \in callbacks' => f \in registry'
  BY DEF TreeInv
<1> QED BY ZenonT(30), <1>1, <1>2, <1>3, <1>4, TreeStep

\* The rollback of a child that could not be published.
LEMMA TreeRollbackChild ==
    ASSUME AttemptInv, TreeInv, NEW t \in Threads, RollbackChild(t)
    PROVE  TreeInv'
<1>1. /\ thread[t].pc = "rollback" /\ registered' = registered \ {thread[t].obj}
      /\ UNCHANGED <<life, callbacks, registry>>
      /\ Return(t) \/ Go(t, "dropUnpublished")
  BY DEF RollbackChild, At, Obj, callbackVars, storeVars
<1>2. /\ thread[t].mode = "open" /\ thread[t].obj \in Children /\ life[thread[t].obj] = "Prepared"
      /\ \A e \in thread[t].plan : life[e] \in Ended
  BY ZenonT(30), <1>1, TreeFacts DEF StageMatches, OpenStages, StageFacts
<1>3. CASE Return(t)
  <2>1. PICK r \in ThreadStates : Moves(t, r) /\ Fresh(r, "idle", "close") BY <1>3, ReturnMove
  <2>2. StageFacts(r)' BY ZenonT(30), <2>1 DEF Fresh, StageFacts, CleanupModes, AttemptStages
  <2> QED BY ZenonT(30), <1>1, <1>2, <2>1, <2>2, ReleaseStep DEF Fresh
<1>4. CASE Go(t, "dropUnpublished")
  <2>1. "dropUnpublished" \in PCs BY DEF PCs
  <2>2. PICK r \in ThreadStates :
              /\ Moves(t, r) /\ r.pc = "dropUnpublished" /\ r.mode = thread[t].mode
              /\ r.obj = thread[t].obj /\ r.plan = thread[t].plan
    BY ZenonT(30), <1>4, <2>1, GoMove
  <2>3. StageFacts(r)' BY ZenonT(30), <1>1, <1>2, <2>2 DEF StageFacts, OpenStages, CleanupModes
  <2> DEFINE gone == {thread[t].obj}
  <2>4. registered' = registered \ gone /\ \A e \in gone : e = thread[t].obj BY <1>1
  <2> HIDE DEF gone
  <2>5. \A e \in gone : life[e] # "Live" /\ (life[e] = "Prepared" =>
           thread[t].mode = "open" /\ e = thread[t].obj)
    BY <1>2, <2>4
  <2> QED BY ZenonT(30), <1>1, <1>2, <2>2, <2>3, <2>4, <2>5, ReleaseStep
<1> QED BY <1>1, <1>3, <1>4

\* The domain cleanup releases the backend of a frontend.
LEMMA TreeDomainCleanup ==
    ASSUME AttemptInv, TreeInv, NEW t \in Threads, DomainCleanup(t)
    PROVE  TreeInv'
<1>1. /\ thread[t].pc = "domain" /\ UNCHANGED <<life, callbacks, registry>>
      /\ \/ /\ life[thread[t].obj] \in Cleaning /\ registered' = registered \ {thread[t].obj}
            /\ Go(t, "unregister")
         \/ Failing(t, "unregister") /\ UNCHANGED registered
  BY DEF DomainCleanup, At, Obj, callbackVars, storeVars
<1>2. /\ thread[t].mode \in CleanupModes /\ \A e \in thread[t].plan : life[e] \in Ended
      /\ thread[t].obj \in thread[t].plan /\ ActiveEntries(thread[t].obj) \subseteq thread[t].plan
      /\ thread[t].ok => thread[t].obj \notin registry
  BY ZenonT(30), <1>1, TreeFacts DEF StageFacts, OpenStages, SettingStages, AttemptStages
<1>3. CASE Failing(t, "unregister") /\ UNCHANGED registered
  BY ZenonT(30), <1>1, <1>2, <1>3, QuietStage DEF AttemptStages
<1>4. CASE /\ life[thread[t].obj] \in Cleaning /\ registered' = registered \ {thread[t].obj}
           /\ Go(t, "unregister")
  <2>1. "unregister" \in PCs BY DEF PCs
  <2>2. PICK r \in ThreadStates :
              /\ Moves(t, r) /\ r.pc = "unregister" /\ r.mode = thread[t].mode
              /\ r.obj = thread[t].obj /\ r.plan = thread[t].plan /\ r.ok = thread[t].ok
    BY ZenonT(30), <1>4, <2>1, GoMove
  <2>3. ActiveEntries(r.obj)' \subseteq r.plan
    BY ZenonT(30), <1>1, <1>2, <2>2 DEF ActiveEntries, Cascade, Descendants
  <2>4. StageFacts(r)' BY ZenonT(30), <1>1, <1>2, <1>4, <2>2, <2>3 DEF StageFacts, CleanupModes
  <2> QED BY ZenonT(30), <1>1, <1>2, <1>4, <2>2, <2>4, ReleaseStep DEF Cleaning, CleanupModes
<1> QED BY ZenonT(30), <1>1, <1>3, <1>4

\* The public runtimes of the plan are unregistered.
LEMMA TreeUnregisterRuntimes ==
    ASSUME AttemptInv, TreeInv, NEW t \in Threads, UnregisterRuntimes(t)
    PROVE  TreeInv'
<1> DEFINE next == IF thread[t].mode = "quarantine" THEN "begin" ELSE "finish"
           entries == thread[t].plan \ Frontends
<1>1. /\ thread[t].pc = "unregister" /\ UNCHANGED <<life, callbacks, registry>>
      /\ \E rejected \in SUBSET entries :
            /\ registered' = registered \ (entries \ rejected)
            /\ (rejected = {} /\ Go(t, next)) \/ Failing(t, next)
  <2>1. thread[t].pc = "unregister" /\ UNCHANGED <<life, callbacks, registry>>
    BY ZenonT(30) DEF UnregisterRuntimes, At, callbackVars, storeVars
  <2>2. CASE \A e \in entries : HasRuntime(e)
    <3>1. PICK rejected \in SUBSET entries :
              /\ registered' = registered \ (entries \ rejected)
              /\ IF rejected = {} THEN Go(t, next) /\ UNCHANGED faults
                                  ELSE Failing(t, next) /\ Fault
      BY <2>2 DEF UnregisterRuntimes
    <3>2. (rejected = {} /\ Go(t, next)) \/ Failing(t, next) BY ZenonT(30), <3>1
    <3> QED BY ZenonT(30), <2>1, <3>1, <3>2
  <2>3. CASE ~ \A e \in entries : HasRuntime(e)
    <3>1. Failing(t, next) /\ registered' = registered BY ZenonT(30), <2>3 DEF UnregisterRuntimes
    <3>2. entries \in SUBSET entries /\ registered = registered \ (entries \ entries) OBVIOUS
    <3> QED BY ZenonT(30), <2>1, <3>1, <3>2
  <2> QED BY ZenonT(30), <2>1, <2>2, <2>3
<1>2. PICK rejected \in SUBSET entries :
            /\ registered' = registered \ (entries \ rejected)
            /\ (rejected = {} /\ Go(t, next)) \/ Failing(t, next)
  BY <1>1
<1>3. /\ thread[t].mode \in CleanupModes /\ \A e \in thread[t].plan : life[e] \in Ended
      /\ thread[t].obj \in thread[t].plan /\ ActiveEntries(thread[t].obj) \subseteq thread[t].plan
      /\ thread[t].ok => thread[t].obj \notin registry
      /\ thread[t].ok /\ thread[t].mode # "quarantine" /\ thread[t].obj \in Frontends
            => thread[t].obj \notin registered
  BY ZenonT(30), <1>1, TreeFacts DEF StageFacts, OpenStages, SettingStages, AttemptStages
<1>4. next \in PCs /\ next \in {"begin", "finish"} /\ (next = "begin" <=> thread[t].mode = "quarantine")
  BY DEF PCs
<1> DEFINE gone == entries \ rejected
<1>5. gone \subseteq thread[t].plan /\ registered' = registered \ gone BY ZenonT(30), <1>2
<1>6. rejected = {} => gone = thread[t].plan \ Frontends OBVIOUS
<1> HIDE DEF next, gone, entries
<1>7. PICK r \in ThreadStates :
              /\ Moves(t, r) /\ r.pc = next /\ r.mode = thread[t].mode
              /\ r.obj = thread[t].obj /\ r.plan = thread[t].plan
              /\ r.ok => thread[t].ok /\ rejected = {}
  <2>1. CASE Failing(t, next)
    <3>1. PICK r \in ThreadStates :
              /\ Moves(t, r) /\ r.pc = next /\ r.mode = thread[t].mode
              /\ r.obj = thread[t].obj /\ r.plan = thread[t].plan /\ r.ok = FALSE
      BY ZenonT(30), <1>4, <2>1, FailingMove
    <3> QED BY ZenonT(30), <3>1
  <2>2. CASE rejected = {} /\ Go(t, next)
    <3>1. PICK r \in ThreadStates :
              /\ Moves(t, r) /\ r.pc = next /\ r.mode = thread[t].mode
              /\ r.obj = thread[t].obj /\ r.plan = thread[t].plan /\ r.ok = thread[t].ok
      BY ZenonT(30), <1>4, <2>2, GoMove
    <3> QED BY ZenonT(30), <2>2, <3>1
  <2> QED BY ZenonT(30), <1>2, <2>1, <2>2
<1>8. ActiveEntries(r.obj)' \subseteq r.plan
  BY ZenonT(30), <1>1, <1>3, <1>7 DEF ActiveEntries, Cascade, Descendants
<1>9. StageFacts(r)'
  BY ZenonT(30), <1>1, <1>3, <1>4, <1>5, <1>6, <1>7, <1>8 DEF StageFacts, CleanupModes, AttemptStages
<1> QED BY ZenonT(30), <1>1, <1>3, <1>5, <1>7, <1>9, ReleaseStep DEF Ended, Cleaning, Terminal, CleanupModes

\* A child becomes Live only while its demux is.
LEMMA TreePublishChild ==
    ASSUME AttemptInv, TreeInv, NEW t \in Threads, PublishChild(t)
    PROVE  TreeInv'
<1> DEFINE c == thread[t].obj
<1>1. /\ thread[t].pc = "publish" /\ life' = [life EXCEPT ![c] = "Live"] /\ Return(t)
      /\ UNCHANGED <<registered, callbacks, registry>>
  BY DEF PublishChild, At, Obj, callbackVars, storeVars
<1>2. thread[t].mode = "open" /\ c \in Children /\ life[c] = "Prepared" /\ c \in registered
  BY ZenonT(30), <1>1, TreeFacts DEF StageMatches, OpenStages, StageFacts
<1> HIDE DEF c
<1>3. PICK r \in ThreadStates : Moves(t, r) /\ Fresh(r, "idle", "close") BY ZenonT(30), <1>1, ReturnMove
<1>4. StageFacts(r)' BY <1>3 DEF Fresh, StageFacts, CleanupModes, AttemptStages
<1>5. life \in [Objects -> Lifecycles] BY DEF AttemptInv, Shape
<1>6. /\ c \in Objects /\ Children \subseteq Objects /\ Frontends \subseteq Objects
      /\ \A e \in Children : Parent[e] \in Objects /\ Parent[e] # c
  BY <1>2, ParentAssumption, ObjectsAssumption DEF Objects
<1>7. \A e \in Objects : life'[e] = IF e = c THEN "Live" ELSE life[e] BY <1>1, <1>5
<1>8. TablesAge BY <1>1, <1>2, <1>6, <1>7 DEF TablesAge, Ended, Cleaning, Terminal
<1>9. \A u \in Threads \ {t} : thread[u].mode = "open" =>
         /\ life'[thread[u].obj] = "Prepared"
         /\ thread[u].obj \in registered => thread[u].obj \in registered'
  BY <1>1, <1>2, <1>6, <1>7, OtherOpenings DEF c
<1>10. \A e \in Children : life'[e] \in {"Prepared", "Live"} => life'[Parent[e]] = "Live"
  BY ZenonT(30), <1>2, <1>6, <1>7 DEF TreeInv
<1>11. \A e \in Objects : /\ life'[e] = "Live" => e \in registered'
                          /\ life'[e] = "Closed" => e \notin registered'
  BY <1>1, <1>2, <1>7 DEF TreeInv
<1>12. \A f \in Frontends : /\ life'[f] = "Closed" => f \notin registry'
                            /\ f \in callbacks' => f \in registry'
  BY <1>1, <1>6, <1>7 DEF TreeInv
<1> QED BY <1>3, <1>4, <1>8, <1>9, <1>10, <1>11, <1>12, TreeStep DEF Fresh

\* The entries a close of an object that is closing still has to change.
LEMMA ActiveAreCleaning ==
    ASSUME AttemptInv, TreeInv, NEW o \in Objects, life[o] \in Ended
    PROVE  /\ ActiveEntries(o) \subseteq Objects
           /\ \A e \in ActiveEntries(o) : life[e] \in Cleaning
           /\ \A c \in Children : life[c] \in {"Prepared", "Live"} =>
                 c \notin ActiveEntries(o) /\ Parent[c] \notin ActiveEntries(o)
<1>1. life \in [Objects -> Lifecycles] BY DEF AttemptInv, Shape
<1>2. ActiveEntries(o) \subseteq Objects BY DEF ActiveEntries, Cascade, Descendants, Objects
<1>3. ASSUME NEW e \in ActiveEntries(o) PROVE life[e] \in Cleaning
  <2>1. life[e] \in Lifecycles /\ life[e] \notin Terminal BY <1>1, <1>2 DEF ActiveEntries
  <2>2. life[e] \notin {"Absent", "Prepared", "Live"}
    <3>1. CASE e = o BY <3>1 DEF Ended, Cleaning, Terminal
    <3>2. CASE e # o
      <4>1. e \in Children /\ Parent[e] = o /\ life[e] # "Absent"
        BY <3>2 DEF ActiveEntries, Cascade, Descendants
      <4> QED BY <4>1 DEF TreeInv, Ended, Cleaning, Terminal
    <3> QED BY <3>1, <3>2
  <2> QED BY <2>1, <2>2 DEF Lifecycles
<1>4. ASSUME NEW c \in Children, life[c] \in {"Prepared", "Live"}
      PROVE  c \notin ActiveEntries(o) /\ Parent[c] \notin ActiveEntries(o)
  BY <1>3, <1>4 DEF TreeInv, Cleaning
<1> QED BY <1>2, <1>3, <1>4

\* A cascade moves on: its active entries go from Cleaning to Cleaning, or end.
LEMMA CascadeStep ==
    ASSUME AttemptInv, TreeInv, NEW t \in Threads, NEW r, Moves(t, r),
           NEW o \in Objects, life[o] \in Ended, NEW v \in Ended,
           life' = [e \in Objects |-> IF e \in ActiveEntries(o) THEN v ELSE life[e]],
           UNCHANGED <<registered, callbacks, registry>>,
           v = "Closed" => \A e \in ActiveEntries(o) :
              e \notin registered /\ (e \in Frontends => e \notin registry),
           StageFacts(r)', r.mode # "open"
    PROVE  TreeInv'
<1> DEFINE A == ActiveEntries(o)
<1>1. /\ A \subseteq Objects /\ \A e \in A : life[e] \in Cleaning
      /\ \A c \in Children : life[c] \in {"Prepared", "Live"} => c \notin A /\ Parent[c] \notin A
  BY ActiveAreCleaning
<1>2. \A e \in Objects : life'[e] = IF e \in A THEN v ELSE life[e] OBVIOUS
<1> HIDE DEF A
<1>3. /\ Children \subseteq Objects /\ Frontends \subseteq Objects
      /\ \A e \in Children : Parent[e] \in Objects
  BY ParentAssumption DEF Objects
<1>4. v \notin {"Absent", "Prepared", "Live"} BY DEF Ended, Cleaning, Terminal
<1>5. \A e \in A : life[e] \notin Terminal /\ life[e] \notin {"Absent", "Prepared", "Live"}
  BY <1>1 DEF Cleaning, Terminal
<1>6. TablesAge BY <1>2, <1>3, <1>4, <1>5 DEF TablesAge
<1>7. \A u \in Threads \ {t} : thread[u].mode = "open" =>
         /\ life'[thread[u].obj] = "Prepared"
         /\ thread[u].obj \in registered => thread[u].obj \in registered'
  BY <1>1, <1>2, <1>3, OtherOpenings
<1>8. \A e \in Children : life'[e] \in {"Prepared", "Live"} => life'[Parent[e]] = "Live"
  BY <1>1, <1>2, <1>3, <1>4 DEF TreeInv
<1>9. \A e \in Objects : /\ life'[e] = "Live" => e \in registered'
                         /\ life'[e] = "Closed" => e \notin registered'
  BY ZenonT(30), <1>2, <1>4 DEF TreeInv, A
<1>10. \A f \in Frontends : /\ life'[f] = "Closed" => f \notin registry'
                            /\ f \in callbacks' => f \in registry'
  BY ZenonT(30), <1>2, <1>3 DEF TreeInv, A
<1> QED BY <1>6, <1>7, <1>8, <1>9, <1>10, TreeStep

\* The commit of a close: all of the plan has been released.
LEMMA TreeFinishClose ==
    ASSUME AttemptInv, TreeInv, NEW t \in Threads, FinishClose(t)
    PROVE  TreeInv'
<1> DEFINE o == thread[t].obj
           v == IF thread[t].ok THEN "Closed" ELSE "CleanupPending"
<1>1. /\ thread[t].pc = "finish" /\ UNCHANGED <<registered, callbacks, registry>>
      /\ Fail(t) \/ Return(t)
      /\ \/ UNCHANGED life
         \/ /\ life[o] \in Cleaning
            /\ life' = [e \in Objects |-> IF e \in ActiveEntries(o) THEN v ELSE life[e]]
  BY ZenonT(60) DEF FinishClose, At, Obj, callbackVars, storeVars, EndJob, FinishAllowed, RootReady,
     CleanupComplete
<1>2. /\ thread[t].mode \in CleanupModes /\ thread[t].mode # "quarantine"
      /\ ActiveEntries(o) \subseteq thread[t].plan
      /\ thread[t].ok => /\ o \notin registry /\ (o \in Frontends => o \notin registered)
                         /\ (thread[t].plan \ Frontends) \cap registered = {}
      /\ o \in Objects
  BY ZenonT(30), <1>1, TreeFacts DEF StageFacts, OpenStages, SettingStages, AttemptStages
<1>3. PICK r \in ThreadStates :
        /\ Moves(t, r) /\ r.pc \in {"idle", "failed"} /\ r.mode \in CleanupModes /\ r.plan = {}
  <2>1. CASE Return(t) BY ZenonT(30), <2>1, ReturnMove DEF Fresh, CleanupModes
  <2>2. CASE Fail(t) BY ZenonT(30), <1>2, <2>2, FailMove DEF Fresh
  <2> QED BY ZenonT(30), <1>1, <2>1, <2>2
<1>4. StageFacts(r) BY <1>3 DEF StageFacts, CleanupModes, AttemptStages
<1>5. StageFacts(r)' BY <1>3 DEF StageFacts, CleanupModes, AttemptStages
<1>6. CASE UNCHANGED life BY ZenonT(30), <1>1, <1>3, <1>4, <1>6, QuietStep DEF CleanupModes
<1>7. CASE /\ life[o] \in Cleaning
           /\ life' = [e \in Objects |-> IF e \in ActiveEntries(o) THEN v ELSE life[e]]
  <2>1. v \in Ended /\ (v = "Closed" => thread[t].ok) BY DEF Ended, Cleaning, Terminal
  <2>2. \A e \in ActiveEntries(o) : e \in Frontends => e = o
    BY ObjectsAssumption DEF ActiveEntries, Cascade, Descendants
  <2>3. v = "Closed" => \A e \in ActiveEntries(o) :
          e \notin registered /\ (e \in Frontends => e \notin registry)
    BY <1>2, <2>1, <2>2
  <2>4. life[o] \in Ended BY <1>7 DEF Ended
  <2> HIDE DEF v, o
  <2> QED BY ZenonT(30), <1>1, <1>2, <1>3, <1>5, <1>7, <2>1, <2>3, <2>4, CascadeStep DEF CleanupModes
<1> QED BY <1>1, <1>6, <1>7

\* A step that leaves the lives alone leaves the active entries alone.
LEMMA ActiveKept ==
    ASSUME NEW o \in Objects,
           \A e \in Objects : /\ life'[e] # "Absent" => life[e] # "Absent"
                              /\ life'[e] \notin Terminal => life[e] \notin Terminal
    PROVE  ActiveEntries(o)' \subseteq ActiveEntries(o)
BY DEF ActiveEntries, Cascade, Descendants, Objects

\* The deadline quarantines the cascade.
LEMMA TreeDeadline ==
    ASSUME AttemptInv, TreeInv, NEW o \in Objects, Deadline(o)
    PROVE  TreeInv'
<1> DEFINE plan == ActiveEntries(o)
           p == IF o \in registry THEN "callback" ELSE "unregister"
           s == [Idle EXCEPT !.pc = p, !.mode = "quarantine", !.obj = o, !.plan = plan]
<1>1. /\ life[o] \in Cleaning /\ UNCHANGED <<registered, callbacks, registry>>
      /\ life' = [e \in Objects |-> IF e \in plan THEN "Quarantined" ELSE life[e]]
      /\ thread' = [thread EXCEPT ![o] = s]
  BY DEF Deadline, callbackVars, storeVars
<1>2. o \in Threads /\ o \in plan /\ life[o] \in Ended
  BY <1>1 DEF Threads, ActiveEntries, Cascade, Ended, Cleaning, Terminal
<1>3. plan \subseteq Objects BY <1>2, ActiveAreCleaning
<1>4. p \in {"callback", "unregister"} /\ (p = "unregister" => o \notin registry) OBVIOUS
<1>5. /\ s.pc = p /\ s.mode = "quarantine" /\ s.obj = o /\ s.plan = plan
  <2> HIDE DEF p, plan
  <2> QED BY ZenonT(30) DEF Idle
<1>6. Moves(o, s) BY <1>1 DEF Moves
<1>7. PICK r : Moves(o, r) /\ r.pc = p /\ r.mode = "quarantine" /\ r.obj = o /\ r.plan = plan
  <2> HIDE DEF s, p, plan
  <2> QED BY <1>5, <1>6
<1>8. \A e \in plan : life'[e] = "Quarantined" BY <1>1, <1>3
<1>9. ActiveEntries(o)' \subseteq plan
  <2>1. \A e \in plan : life[e] \in Cleaning BY <1>2, ActiveAreCleaning
  <2>2. \A e \in Objects : /\ life'[e] # "Absent" => life[e] # "Absent"
                           /\ life'[e] \notin Terminal => life[e] \notin Terminal
    BY <1>1, <2>1 DEF Cleaning, Terminal
  <2> QED BY <2>2, ActiveKept
<1>10. \A e \in plan : life'[e] \in Ended BY <1>8 DEF Ended, Terminal
<1> HIDE DEF p, plan, s
<1>11. StageFacts(r)'
  <2>1. ActiveEntries(r.obj)' \subseteq r.plan BY <1>7, <1>9
  <2> QED BY ZenonT(30), <1>1, <1>2, <1>4, <1>7, <1>10, <2>1 DEF StageFacts, CleanupModes, AttemptStages
<1>12. "Quarantined" \in Ended BY DEF Ended, Terminal
<1> QED BY <1>1, <1>2, <1>7, <1>11, <1>12, CascadeStep DEF plan

\* A close takes the cascade out of service.
LEMMA TreeBeginClose ==
    ASSUME AttemptInv, TreeInv, NEW t \in Threads, BeginClose(t)
    PROVE  TreeInv'
<1> DEFINE o == thread[t].obj
           A == ActiveEntries(o)
           clear == o \in registry
           s == [thread[t] EXCEPT !.pc = "begun", !.plan = A, !.clear = clear]
<1>1. /\ thread[t].pc = "begin" /\ CascadeReady(o) /\ UNCHANGED <<registered, callbacks, registry>>
      /\ life' = [e \in Objects |-> IF e \in A THEN "Closing" ELSE life[e]]
      /\ thread' = [thread EXCEPT ![t].pc = "begun", ![t].plan = A, ![t].clear = clear]
  BY ZenonT(30) DEF BeginClose, At, Obj, CanBegin, callbackVars, storeVars
<1>2. thread[t].mode \in CleanupModes /\ o \in Objects /\ thread[t] \in ThreadStates
      /\ life \in [Objects -> Lifecycles]
  BY <1>1, TreeFacts DEF OpenStages, SettingStages
<1>3. A \subseteq Objects BY <1>2 DEF ActiveEntries, Cascade, Descendants, Objects
<1>4. o \in A /\ \A e \in A : life[e] \in {"Live"} \cup Cleaning
  BY ZenonT(30), <1>1 DEF CascadeReady, ActiveEntries, Cascade, Closeable, Cleaning, Terminal
<1>5. \A c \in Children : /\ life[c] = "Prepared" => c \notin A /\ Parent[c] \notin A
                          /\ life[c] = "Live" /\ Parent[c] \in A => c \in A
  <2> TAKE c \in Children
  <2>1. Parent[c] \in A => Parent[c] = o
    BY ParentAssumption, ObjectsAssumption DEF ActiveEntries, Cascade, Descendants
  <2>2. life[c] \in {"Prepared", "Live"} /\ Parent[c] = o => c \in Descendants(o)
    BY DEF Descendants
  <2>3. life[c] = "Prepared" => c \notin A BY <1>4 DEF Cleaning
  <2>4. c \in Descendants(o) => life[c] \in Closeable \cup Terminal BY <1>1 DEF CascadeReady
  <2>5. life[c] = "Live" /\ c \in Descendants(o) => c \in A
    BY DEF ActiveEntries, Cascade, Terminal
  <2> QED BY ZenonT(30), <2>1, <2>2, <2>3, <2>4, <2>5 DEF Closeable, Cleaning, Terminal
<1>6. PICK r : /\ Moves(t, r) /\ r.pc = "begun" /\ r.mode = thread[t].mode /\ r.obj = o
               /\ r.plan = A /\ r.clear = clear
  <2>b. clear \in BOOLEAN OBVIOUS
  <2>1. /\ s.pc = "begun" /\ s.mode = thread[t].mode /\ s.obj = o /\ s.plan = A /\ s.clear = clear
    <3>1. thread[t] = [pc |-> thread[t].pc, mode |-> thread[t].mode, obj |-> o, plan |-> thread[t].plan,
                       clear |-> thread[t].clear, ok |-> thread[t].ok]
      BY <1>2 DEF ThreadStates
    <3> HIDE DEF A, clear
    <3> QED BY ZenonT(30), <1>2 DEF ThreadStates
  <2>2. Moves(t, s) BY ZenonT(60), <1>1, <1>2 DEF Moves, ThreadStates, AttemptInv, Shape
  <2> HIDE DEF s, A, clear, o
  <2> QED BY ZenonT(30), <2>1, <2>2
<1>7. \A e \in Objects : life'[e] = IF e \in A THEN "Closing" ELSE life[e] BY <1>1
<1>8. /\ Children \subseteq Objects /\ Frontends \subseteq Objects
      /\ \A e \in Children : Parent[e] \in Objects
  BY ParentAssumption DEF Objects
<1>9. ActiveEntries(r.obj)' \subseteq r.plan
  <2>1. \A e \in Objects : /\ life'[e] # "Absent" => life[e] # "Absent"
                           /\ life'[e] \notin Terminal => life[e] \notin Terminal
    BY <1>4, <1>7 DEF Cleaning, Terminal
  <2>2. r.obj \in Objects /\ ActiveEntries(r.obj) = r.plan BY <1>2, <1>6
  <2> QED BY <2>1, <2>2, ActiveKept
<1>10. TablesAge
  <2>1. \A e \in A : life[e] \notin Terminal /\ life[e] # "Absent" BY <1>4 DEF Cleaning, Terminal
  <2>2. "Closing" \in Ended BY DEF Ended, Cleaning
  <2> HIDE DEF A
  <2> QED BY <1>1, <1>7, <1>8, <2>1, <2>2 DEF TablesAge
<1>11. StageFacts(r)'
  <2>1. \A e \in A : life'[e] \in Ended BY <1>3, <1>7 DEF Ended, Cleaning
  <2>2. r.obj \in r.plan /\ ActiveEntries(r.obj)' \subseteq r.plan BY ZenonT(30), <1>4, <1>6, <1>9
  <2>3. ~r.clear => r.obj \notin registry BY ZenonT(30), <1>6
  <2>4. r.mode \in CleanupModes /\ r.pc = "begun" /\ \A e \in r.plan : life'[e] \in Ended
    BY <1>2, <1>6, <2>1
  <2> QED BY <1>1, <2>2, <2>3, <2>4 DEF StageFacts, CleanupModes, AttemptStages
<1> HIDE DEF A, o
<1>12. \A u \in Threads \ {t} : thread[u].mode = "open" =>
         /\ life'[thread[u].obj] = "Prepared"
         /\ thread[u].obj \in registered => thread[u].obj \in registered'
  BY <1>1, <1>5, <1>7, <1>8, OtherOpenings
<1>13. \A e \in Children : life'[e] \in {"Prepared", "Live"} => life'[Parent[e]] = "Live"
  BY ZenonT(30), <1>5, <1>7, <1>8 DEF TreeInv
<1>14. \A e \in Objects : /\ life'[e] = "Live" => e \in registered'
                          /\ life'[e] = "Closed" => e \notin registered'
  BY <1>1, <1>7 DEF TreeInv
<1>15. \A f \in Frontends : /\ life'[f] = "Closed" => f \notin registry'
                            /\ f \in callbacks' => f \in registry'
  BY <1>1, <1>7, <1>8 DEF TreeInv
<1>16. r.mode # "open" BY <1>2, <1>6 DEF CleanupModes
<1> QED BY ZenonT(30), <1>6, <1>10, <1>11, <1>12, <1>13, <1>14, <1>15, <1>16, TreeStep

\* A later attempt plans what is still active.
LEMMA TreeBeginAttempt ==
    ASSUME AttemptInv, TreeInv, NEW t \in Threads, BeginAttempt(t)
    PROVE  TreeInv'
<1>1. thread[t].pc = "begun" /\ UNCHANGED <<life, registered, callbacks, registry>>
  BY DEF BeginAttempt, At, callbackVars, storeVars
<1>2. /\ thread[t].mode \in CleanupModes /\ thread[t] \in ThreadStates /\ StageFacts(thread[t])
      /\ ~thread[t].clear => thread[t].obj \notin registry
  BY ZenonT(30), <1>1, TreeFacts DEF StageFacts, OpenStages, SettingStages
<1>3. CASE Fail(t) BY ZenonT(30), <1>1, <1>2, <1>3, QuietFail
<1>4. CASE ~Fail(t)
  <2> DEFINE p == IF thread[t].clear THEN "callback" ELSE AfterCallback(t)
             s == [thread[t] EXCEPT !.clear = FALSE, !.pc = p]
  <2>1. thread' = [thread EXCEPT ![t].clear = FALSE, ![t].pc = p]
    BY ZenonT(30), <1>4 DEF BeginAttempt
  <2>2. /\ AfterCallback(t) \in {"unregister", "domain", "artifacts"}
        /\ AfterCallback(t) \in {"unregister", "artifacts"} =>
              thread[t].mode = "quarantine" \/ thread[t].obj \notin Frontends
    BY AfterCallbackFacts
  <2>3. /\ s.pc = p /\ s.mode = thread[t].mode /\ s.obj = thread[t].obj /\ s.plan = thread[t].plan
    <3> HIDE DEF p
    <3> QED BY ZenonT(30), <1>2 DEF ThreadStates
  <2>4. Moves(t, s) BY ZenonT(60), <1>2, <2>1 DEF Moves, ThreadStates, AttemptInv, Shape
  <2> HIDE DEF s
  <2>5. PICK r : /\ Moves(t, r) /\ r.pc = p /\ r.mode = thread[t].mode /\ r.obj = thread[t].obj
                 /\ r.plan = thread[t].plan
    BY <2>3, <2>4
  <2>6. /\ p \in {"callback", "unregister", "domain", "artifacts"}
        /\ p \in {"unregister", "domain", "artifacts"} => thread[t].obj \notin registry
        /\ p \in {"unregister", "artifacts"} =>
              thread[t].mode = "quarantine" \/ thread[t].obj \notin Frontends
    BY <1>2, <2>2
  <2> HIDE DEF p
  <2>7. StageFacts(r) BY <1>1, <1>2, <2>5, <2>6, StageFactsNext DEF AttemptStages
  <2> QED BY <1>1, <1>2, <2>5, <2>7, QuietStep DEF CleanupModes
<1> QED BY <1>3, <1>4

\* The hand-over to the reaper moves two threads, the client and the lane.
LEMMA TreeEnqueueRetry ==
    ASSUME AttemptInv, TreeInv, NEW t \in Clients, EnqueueRetry(t)
    PROVE  TreeInv'
<1>1. /\ thread[t].pc = "enqueue" /\ UNCHANGED <<life, registered, callbacks, registry>>
      /\ t \in Threads
  BY DEF EnqueueRetry, At, tableVars, callbackVars, storeVars, Threads
<1>2. CASE Return(t) BY <1>1, <1>2, QuietReturn
<1>3. CASE ~Return(t)
  <2> DEFINE o == Obj(t)
             lane == [Idle EXCEPT !.pc = "begin", !.obj = o, !.mode = "reap"]
  <2>1. thread' = [thread EXCEPT ![t] = Idle, ![o] = lane]
    BY ZenonT(30), <1>3 DEF EnqueueRetry, Return
  <2>2. o \in Threads BY <1>1, TreeFacts DEF Threads, Obj
  <2>3. /\ lane.pc = "begin" /\ lane.mode = "reap" /\ lane.plan = {}
        /\ Idle.pc = "idle" /\ Idle.mode = "close" /\ Idle.plan = {}
    BY ZenonT(30) DEF Idle
  <2>4. PICK l, i : l = lane /\ i = Idle OBVIOUS
  <2>5. \A u \in Threads : thread'[u] \in {thread[u], i, l}
    <3> HIDE DEF lane, o
    <3> QED BY <1>1, <2>1, <2>2, <2>4 DEF AttemptInv, Shape
  <2>6. StageFacts(l)' /\ StageFacts(i)'
    BY <2>3, <2>4 DEF StageFacts, CleanupModes, AttemptStages
  <2>7. l.mode # "open" /\ i.mode # "open" BY <2>3, <2>4
  <2> HIDE DEF lane, o
  <2>8. ASSUME NEW u \in Threads PROVE StageFacts(thread[u])'
    <3>1. CASE thread'[u] = thread[u]
      <4>1. StageFacts(thread[u]) BY ZenonT(30) DEF TreeInv
      <4> QED BY ZenonT(30), <1>1, <3>1, <4>1 DEF StageFacts, ActiveEntries, Cascade, Descendants
    <3>2. CASE thread'[u] = l
      BY ZenonT(30), <2>6, <3>2 DEF StageFacts, ActiveEntries, Cascade, Descendants
    <3>3. CASE thread'[u] = i
      BY ZenonT(30), <2>6, <3>3 DEF StageFacts, ActiveEntries, Cascade, Descendants
    <3> QED BY <2>5, <3>1, <3>2, <3>3
  <2>9. \A u, v \in Threads : /\ thread'[u].mode = "open" /\ thread'[v].mode = "open"
                              /\ thread'[u].obj = thread'[v].obj
                              => u = v
    BY <2>5, <2>7 DEF TreeInv
  <2> QED BY <1>1, <2>8, <2>9 DEF TreeInv
<1> QED BY <1>2, <1>3

\* The steps of a client keep the tree.
LEMMA TreeClientStep ==
    ASSUME AttemptInv, TreeInv, NEW t \in Clients, ClientStep(t)
    PROVE  TreeInv'
<1>t. t \in Threads BY DEF Threads
<1>f. StageMatches(thread[t].pc, thread[t].mode) /\ StageFacts(thread[t])
      /\ (thread[t].pc = "failed" => thread[t].mode \in CleanupModes)
  BY <1>t, TreeFacts DEF OpenStages, SettingStages
<1> USE DEF At, tableVars, callbackVars, storeVars
<1>1. CASE PrepareChildArtifact(t)
  <2>1. /\ Go(t, "rollback") \/ Go(t, "constructed")
        /\ thread[t].pc = "prepare" /\ UNCHANGED <<life, registered, callbacks, registry>>
    BY <1>1 DEF PrepareChildArtifact
  <2> QED BY ZenonT(30), <1>t, <1>f, <2>1, QuietOpen DEF StageMatches, OpenStages
<1>2. CASE PrepareCallback(t)
  <2>1. /\ Go(t, "take") \/ Go(t, "registering")
        /\ thread[t].pc = "setting" /\ UNCHANGED <<life, registered, callbacks, registry>>
    BY <1>2 DEF PrepareCallback
  <2> QED BY <1>t, <1>f, <2>1, QuietSetting DEF StageMatches, SettingStages
<1>3. CASE DropUnpublished(t)
  BY <1>t, <1>3, QuietReturn DEF DropUnpublished
<1>4. CASE CloseFailed(t)
  <2>1. /\ Return(t) \/ Go(t, "enqueue")
        /\ thread[t].pc = "failed" /\ UNCHANGED <<life, registered, callbacks, registry>>
    BY <1>4 DEF CloseFailed
  <2> QED BY <1>t, <1>f, <2>1, QuietOutside, QuietReturn
<1> QED BY <1>t, <1>1, <1>2, <1>3, <1>4, TreeCommitChildArtifact, TreePublishChild, TreeRollbackChild,
           TreeCommitCallback, TreeEnqueueRetry DEF ClientStep

\* The steps of an attempt keep the tree.
LEMMA TreeAttemptStep ==
    ASSUME AttemptInv, TreeInv, NEW t \in Threads, AttemptStep(t)
    PROVE  TreeInv'
<1>f. /\ StageFacts(thread[t]) /\ thread[t] \in ThreadStates
      /\ thread[t].pc \notin OpenStages \cup SettingStages \cup {"take", "release"}
           => thread[t].mode \in CleanupModes
  BY ZenonT(30), TreeFacts
<1> USE DEF At, tableVars, callbackVars, storeVars
<1>1. CASE RefuseClose(t)
  BY <1>f, <1>1, QuietFail DEF RefuseClose, OpenStages, SettingStages
<1>r. ASSUME Go(t, "take") \/ Go(t, "release"), thread[t].pc \in {"take", "release"},
             UNCHANGED <<life, registered, callbacks, registry>>
      PROVE  TreeInv'
  <2>1. CASE thread[t].mode = "open" BY <1>r, <2>1, QuietOpen
  <2>2. CASE thread[t].mode = "setCallback" BY <1>r, <2>2, QuietSetting
  <2>3. CASE thread[t].mode \in CleanupModes
    <3>1. PICK p \in {"take", "release"} : Go(t, p) BY <1>r
    <3>2. /\ p \in AttemptStages \ {"finish"} /\ thread[t].pc \in AttemptStages
          /\ p \notin {"domain", "artifacts", "unregister"}
      BY <1>r DEF AttemptStages
    <3>3. thread[t].obj \notin callbacks BY <1>f, <1>r, <2>3 DEF StageFacts
    <3> QED BY <1>r, <2>3, <3>1, <3>2, <3>3, QuietStage
  <2> QED BY <1>f, <2>1, <2>2, <2>3 DEF ThreadStates, Modes, CleanupModes
<1>2. CASE TakeRetired(t)
  <2>1. /\ \/ AfterRelease(t, FALSE) \/ AfterRelease(t, TRUE) \/ Go(t, "release")
        /\ thread[t].pc = "take" /\ UNCHANGED <<life, registered, callbacks, registry>>
    BY ZenonT(60), <1>2 DEF TakeRetired
  <2> QED BY ZenonT(30), <1>r, <2>1, TreeAfterRelease
<1>3. CASE ReleaseBatch(t)
  <2>1. /\ AfterRelease(t, FALSE) \/ Go(t, "take")
        /\ thread[t].pc = "release" /\ UNCHANGED <<life, registered, callbacks, registry>>
    BY ZenonT(60), <1>3 DEF ReleaseBatch
  <2> QED BY ZenonT(30), <1>r, <2>1, TreeAfterRelease
<1>4. CASE StopNotifiers(t)
  <2>1. /\ Go(t, "unregister") \/ Failing(t, "unregister")
        /\ thread[t].pc = "artifacts" /\ UNCHANGED <<life, registered, callbacks, registry>>
    BY <1>4 DEF StopNotifiers
  <2>2. thread[t].mode \in CleanupModes BY <1>f, <2>1 DEF OpenStages, SettingStages
  <2>3. thread[t].ok => /\ thread[t].obj \notin registry
                        /\ thread[t].mode # "quarantine"
                             => thread[t].obj \notin Frontends \/ thread[t].obj \notin registered
    BY ZenonT(30), <1>f, <2>1 DEF StageFacts
  <2>4. PICK p \in {"unregister"} : Go(t, p) \/ Failing(t, p) BY <2>1
  <2>5. /\ p \in AttemptStages \ {"finish"} /\ thread[t].pc \in AttemptStages
        /\ p \notin {"take", "release", "registry"}
    BY <2>1 DEF AttemptStages
  <2> QED BY <2>1, <2>2, <2>3, <2>4, <2>5, QuietStage
<1> QED BY <1>1, <1>2, <1>3, <1>4, TreeBeginClose, TreeBeginAttempt, TreeClearCallback,
           TreeClearRegistry, TreeDomainCleanup, TreeUnregisterRuntimes, TreeFinishClose
    DEF AttemptStep

\* Every step keeps the tree.
LEMMA TreeNext == AttemptInv /\ TreeInv /\ [Next]_vars => TreeInv'
<1> SUFFICES ASSUME AttemptInv, TreeInv, [Next]_vars PROVE TreeInv' OBVIOUS
<1> USE DEF tableVars, callbackVars, storeVars
<1>1. ASSUME NEW t \in Clients, NEW f \in Frontends, SetCallback(t, f) PROVE TreeInv'
  <2>1. /\ UNCHANGED <<life, registered, callbacks, registry>> /\ t \in Threads /\ f \in Objects
        /\ thread' = [thread EXCEPT ![t] = [Idle EXCEPT !.pc = "setting", !.mode = "setCallback",
                                                        !.obj = f]]
    BY <1>1 DEF SetCallback, Threads, Objects
  <2> QED BY ZenonT(30), <2>1, QuietCall
<1>2. ASSUME NEW t \in Clients, NEW o \in Objects, Close(t, o) PROVE TreeInv'
  <2>1. /\ UNCHANGED <<life, registered, callbacks, registry>> /\ t \in Threads
        /\ thread' = [thread EXCEPT ![t] = [Idle EXCEPT !.pc = "begin", !.mode = "close", !.obj = o]]
    BY <1>2 DEF Close, Threads
  <2> QED BY ZenonT(30), <2>1, QuietCall
<1>3. ASSUME NEW t \in Clients, NEW o \in Objects, Drop(t, o) PROVE TreeInv'
  <2>1. /\ UNCHANGED <<life, registered, callbacks, registry>> /\ t \in Threads
        /\ thread' = [thread EXCEPT ![t] = [Idle EXCEPT !.pc = "begin", !.mode = "drop", !.obj = o]]
    BY <1>3 DEF Drop, Threads
  <2> QED BY ZenonT(30), <2>1, QuietCall
<1>4. ASSUME NEW o \in Objects, JobDone(o) PROVE TreeInv'
  BY <1>4, QuietReturn DEF JobDone, EndJob, Threads
<1>5. ASSUME NEW o \in Objects, RetryLater(o) PROVE TreeInv'
  <2>1. /\ Go(o, "begin") /\ thread[o].pc = "failed" /\ o \in Threads
        /\ UNCHANGED <<life, registered, callbacks, registry>>
    BY <1>5 DEF RetryLater, At, Threads
  <2>2. thread[o].mode \in CleanupModes BY <2>1, TreeFacts DEF OpenStages, SettingStages
  <2> QED BY <2>1, <2>2, QuietOutside
<1>6. CASE UNCHANGED vars
  BY ZenonT(30), <1>6 DEF vars, TreeInv, StageFacts, ActiveEntries, Cascade, Descendants
<1> QED BY ZenonT(30), <1>1, <1>2, <1>3, <1>4, <1>5, <1>6, TreeOpenRoot, TreeOpenChild, TreeDeadline,
           TreeClientStep, TreeAttemptStep DEF Next

\* A callable child has a Live demux that holds its runtime, and a Closed
\* object has given back its runtime and its callbacks, for any number of
\* objects, threads, failures and calls (object_close_txn.rs).
THEOREM Tree_Consistent == Spec => []TreeConsistent
<1>1. Init => TreeInv
  <2> SUFFICES ASSUME Init PROVE TreeInv OBVIOUS
  <2>1. /\ \A o \in Objects : life[o] = "Absent"
        /\ callbacks = {} /\ \A t \in Threads : thread[t] = Idle
    BY DEF Init
  <2>2. \A c \in Children : c \in Objects BY DEF Objects
  <2>3. \A f \in Frontends : f \in Objects BY DEF Objects
  <2>4. Idle.pc = "idle" /\ Idle.mode = "close" /\ Idle.plan = {} BY DEF Idle
  <2>5. StageFacts(Idle) BY <2>4 DEF StageFacts, CleanupModes, AttemptStages
  <2> QED BY <2>1, <2>2, <2>3, <2>4, <2>5 DEF TreeInv
<1>2. AttemptInv /\ TreeInv => TreeConsistent
  <2> SUFFICES ASSUME AttemptInv, TreeInv PROVE TreeConsistent OBVIOUS
  <2>1. \A c \in Children : c \in Objects /\ Parent[c] \in Objects /\ Parent[c] \notin Children
    BY ParentAssumption, ObjectsAssumption DEF Objects
  <2>2. LiveChildHasLiveDemux BY <2>1 DEF TreeInv, LiveChildHasLiveDemux, HasRuntime
  <2>3. ClosedHoldsNothing BY DEF TreeInv, ClosedHoldsNothing
  <2> QED BY <2>2, <2>3 DEF TreeConsistent
<1>3. AttemptInv /\ [Next]_vars => AttemptInv' BY FenceStep
<1>4. Init => AttemptInv BY InitShape
<1> QED BY <1>1, <1>2, <1>3, <1>4, TreeNext, PTL DEF Spec
=============================================================================
