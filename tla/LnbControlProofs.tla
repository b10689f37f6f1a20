-------------------------- MODULE LnbControlProofs --------------------------
(***************************************************************************)
(* Proofs about LnbControl, for any threads, profile, outcomes and bounds. *)
(***************************************************************************)
EXTENDS LnbControl, TLAPS

\* The types the rail count needs, with the count itself.
RailInv ==
    /\ railRefs \in Int
    /\ RailCountExact

\* Taking or giving back one lease moves the count by the same amount.
LEMMA RetainFixed == ASSUME RailInv, RetainFixedPowerLease PROVE RailInv'
<1>1. Assigned' <=> Assigned BY DEF RetainFixedPowerLease, Assigned
<1>2. FixedLease' BY DEF RetainFixedPowerLease, FixedLease
<1>3. CASE FixedLease
  BY <1>1, <1>2, <1>3 DEF RailInv, RailCountExact, RetainFixedPowerLease
<1>4. CASE ~FixedLease
  BY <1>1, <1>2, <1>4 DEF RailInv, RailCountExact, RetainFixedPowerLease
<1> QED BY <1>3, <1>4

\* Giving up a fixed lease keeps the counts.
LEMMA ReleaseFixed == ASSUME RailInv, ReleaseFixedPowerLease PROVE RailInv'
<1>1. Assigned' <=> Assigned BY DEF ReleaseFixedPowerLease, Assigned
<1>2. ~FixedLease' BY DEF ReleaseFixedPowerLease, FixedLease
<1>3. CASE FixedLease
  BY <1>1, <1>2, <1>3 DEF RailInv, RailCountExact, ReleaseFixedPowerLease
<1>4. CASE ~FixedLease
  BY <1>1, <1>2, <1>4 DEF RailInv, RailCountExact, ReleaseFixedPowerLease
<1> QED BY <1>3, <1>4

\* Giving up an assignment keeps the counts.
LEMMA ReleaseAssignment == ASSUME RailInv, ReleaseLnbAssignment PROVE RailInv'
<1>1. FixedLease' <=> FixedLease BY DEF ReleaseLnbAssignment, FixedLease
<1>2. ~Assigned' BY DEF ReleaseLnbAssignment, Assigned
<1>3. CASE Assigned
  BY <1>1, <1>2, <1>3 DEF RailInv, RailCountExact, ReleaseLnbAssignment
<1>4. CASE ~Assigned
  BY <1>1, <1>2, <1>4 DEF RailInv, RailCountExact, ReleaseLnbAssignment
<1> QED BY <1>3, <1>4

\* A step keeps both leases and the count, or changes them together.
LEMMA RailStep ==
    ASSUME RailInv, [Next]_vars
    PROVE  RailInv'
<1> USE DEF RailInv, RailCountExact, FixedLease, Assigned, registryVars, objectVars
<1>1. ASSUME NEW t \in Threads, ThreadStep(t) PROVE RailInv'
  <2>1. CASE AcquireGate(t) BY <2>1 DEF AcquireGate
  <2>2. CASE Backend(t) BY <2>2 DEF Backend
  <2>3. CASE Complete(t) BY <2>3 DEF Complete
  <2>4. CASE PrepareControl(t) BY <2>4 DEF PrepareControl
  <2>5. CASE FinishControl(t) BY <2>5 DEF FinishControl
  <2>6. CASE PrepareAssign(t) BY <2>6 DEF PrepareAssign
  <2>7. CASE FinishAssign(t) BY <2>7 DEF FinishAssign
  <2>8. CASE StartOwnerLoss(t) BY <2>8 DEF StartOwnerLoss
  <2>9. CASE PrepareClose(t) BY <2>9 DEF PrepareClose
  <2>10. CASE FinishLnbClose(t) BY <2>10 DEF FinishLnbClose
  <2>11. CASE DropRelation(t) BY <2>11, ReleaseAssignment DEF DropRelation
  <2>12. CASE PrepareEnsure(t) 
    <3>1. RetainFixedPowerLease \/ UNCHANGED <<leases, railRefs>> BY ZenonT(60), <2>12 DEF PrepareEnsure
    <3> QED BY <3>1, RetainFixed
  <2>13. CASE FinishEnsure(t)
    <3>1. ReleaseFixedPowerLease \/ UNCHANGED <<leases, railRefs>>
      BY ZenonT(60), <2>13 DEF FinishEnsure, RollbackNewLease
    <3> QED BY <3>1, ReleaseFixed
  <2>14. CASE FenceOperation(t) BY <2>14 DEF FenceOperation
  <2>15. CASE CommitOperation(t) BY <2>15 DEF CommitOperation
  <2>16. CASE StartRelease(t) BY <2>16 DEF StartRelease
  <2>17. CASE PrepareRelease(t) 
    <3>1. ReleaseFixedPowerLease \/ UNCHANGED <<leases, railRefs>> BY ZenonT(60), <2>17 DEF PrepareRelease
    <3> QED BY <3>1, ReleaseFixed
  <2>18. CASE FinishRelease(t) BY <2>18 DEF FinishRelease
  <2>19. CASE CloseWorkers(t) BY <2>19 DEF CloseWorkers
  <2> QED BY <1>1, <2>1, <2>2, <2>3, <2>4, <2>5, <2>6, <2>7, <2>8, <2>9, <2>10, <2>11,
             <2>12, <2>13, <2>14, <2>15, <2>16, <2>17, <2>18, <2>19 DEF ThreadStep
<1>2. ASSUME NEW t \in Threads, StartUseCase(t) PROVE RailInv'
  BY <1>2 DEF StartUseCase, StartRollbackOpen, StartCloseLnb, StartCloseFrontend, StartControl,
     StartSetLnb, StartBegin, WorkerTerminal, ReapClosedWorkers
<1>3. ASSUME NEW b \in BOOLEAN, SetCallback(b) PROVE RailInv'
  BY <1>3 DEF SetCallback
<1>4. CASE OpenFrontend \/ OpenLnb \/ QuarantineFrontend \/ QuarantineLnb \/ StopOperation
           \/ ReapStoppedWorkers
  BY <1>4 DEF OpenFrontend, OpenLnb, QuarantineFrontend, QuarantineLnb, StopOperation,
     ReapStoppedWorkers
<1>5. CASE UNCHANGED vars BY <1>5 DEF vars
<1> QED BY <1>1, <1>2, <1>3, <1>4, <1>5 DEF Next

\* The reference count of the rail is the number of leases on it.
THEOREM RailCountCorrect == Spec => []RailCountExact
<1>1. Init => RailInv BY DEF Init, RailInv, RailCountExact, FixedLease, Assigned
<1>2. RailInv /\ [Next]_vars => RailInv' BY RailStep
<1>3. RailInv => RailCountExact BY DEF RailInv
<1> QED BY <1>1, <1>2, <1>3, PTL DEF Spec

(***************************************************************************)
(* The I/O gate makes one thread at a time the author of the registry's    *)
(* electrical state and of the rail; what that thread prepared stays true  *)
(* until it finishes.                                                      *)
(***************************************************************************)
Runtimes == [state : LnbStates, voltage : Profile, generation : 0..MaxGeneration,
             callback : BOOLEAN]

Typed ==
    /\ lnb \in Runtimes
    /\ frontend \in [life : Lifecycles, inc : Nat]
    /\ endpoint \in [life : Lifecycles, inc : Nat]
    /\ gate \in Threads \cup {NoThread}
    /\ pc \in [Threads -> Steps] /\ call \in [Threads -> Calls]

InTxn == {"prepare", "backend", "finish", "relock"}
Applies == {"control", "ensure", "release"}

\* Only the holder of the gate is between its preparation and its finish.
GateExclusive == \A t \in Threads : pc[t] \in InTxn => gate = t

\* What a thread at step p with the locals c knows of the registry and the rail.
TxnFacts(p, c) ==
    /\ p = "backend" => c.txn \in Applies \cup {"close"}
    /\ p = "backend" /\ c.txn = "close" => ~c.closed
    /\ p \in {"backend", "finish"} /\ c.txn \in Applies =>
          lnb.state = "Applying" /\ lnb.generation = c.gen /\ c.gen < MaxGeneration
    /\ p \in {"backend", "finish"} /\ c.txn = "close" /\ ~c.closed =>
          lnb.state = "Closing" /\ c.target = "None"
    /\ p = "backend" /\ c.txn \in Applies => rail = lnb.voltage
    /\ p = "finish" /\ c.txn \in Applies =>
          /\ c.outcome = "Applied" => rail = c.target
          /\ c.outcome = "Rejected" => rail = lnb.voltage
    /\ p = "finish" /\ c.txn = "close" /\ ~c.closed /\ c.outcome = "Applied" => rail = "None"
    /\ p = "backend" /\ FixedLease => c.target = "15V"

LnbInv ==
    /\ Typed
    /\ GateExclusive
    /\ RegistryMatchesRail
    /\ \A t \in Threads : TxnFacts(pc[t], call[t])

\* The idle call is a call.
LEMMA NoCallTyped == NoCall \in Calls /\ NoCall.use = "none" /\ NoCall.ok
BY ProfileAssumption, BoundsAssumption DEF NoCall, Calls, Uses, Txns

\* The invariant holds initially.
LEMMA LnbInit == Init => LnbInv
<1> SUFFICES ASSUME Init PROVE LnbInv OBVIOUS
<1> USE ThreadsAssumption, ProfileAssumption, BoundsAssumption DEF Init
<1>2. Typed BY NoCallTyped DEF Typed, Runtimes, LnbStates, Lifecycles, Operations, Steps
<1> QED BY <1>2 DEF LnbInv, GateExclusive, RegistryMatchesRail, TxnFacts, InTxn

(* What the operators on the registry's record return. *)
LEMMA InStateFacts ==
    ASSUME NEW r \in Runtimes, NEW s \in LnbStates
    PROVE  /\ InState(r, s) \in Runtimes
           /\ InState(r, s).state = s
           /\ InState(r, s).voltage = r.voltage
           /\ InState(r, s).generation = r.generation
BY DEF InState, Runtimes

\* What reopening a device leaves of the registry.
LEMMA ReopenFacts ==
    ASSUME NEW r \in Runtimes
    PROVE  /\ Reopen(r) \in Runtimes
           /\ Reopen(r).state = "Open"
           /\ Reopen(r).voltage = r.voltage
           /\ Reopen(r).generation = r.generation
BY ZenonT(30) DEF Reopen, Runtimes, LnbStates

\* What begin_apply does to an entry.
LEMMA BeginApplyFacts ==
    ASSUME NEW r \in Runtimes
    PROVE  /\ BeginApply(r) \in Runtimes
           /\ BeginApply(r).voltage = r.voltage
           /\ BeginApply(r).generation = r.generation
           /\ BeginApply(r).state \in {"Applying", "Failed", "Quarantined"}
           /\ CanApply(r) => BeginApply(r).state = "Applying"
           /\ BeginApply(r).state = "Applying" => r.state = "Open"
BY InStateFacts, BoundsAssumption DEF BeginApply, CanApply, LnbStates, Runtimes

\* What finish_apply does to an entry.
LEMMA FinishApplyFacts ==
    ASSUME NEW r \in Runtimes, NEW c \in Calls, ApplyCurrent(r, c) => c.gen < MaxGeneration
    PROVE  /\ FinishApply(r, c) \in Runtimes
           /\ FinishApply(r, c).state \in {"Open", "Failed", "Quarantined"}
           /\ FinishApply(r, c).state = "Open" =>
                 /\ ApplyCurrent(r, c)
                 /\ \/ c.outcome = "Applied" /\ FinishApply(r, c).voltage = c.target
                    \/ c.outcome = "Rejected" /\ FinishApply(r, c).voltage = r.voltage
<1> DEFINE n == [r EXCEPT !.state = "Open", !.voltage = c.target, !.generation = c.gen + 1]
<1>1. ASSUME c.gen < MaxGeneration PROVE n \in Runtimes /\ n.state = "Open" /\ n.voltage = c.target
  <2>1. c.target \in Profile /\ c.gen \in 0..MaxGeneration BY DEF Calls
  <2>2. c.gen + 1 \in 0..MaxGeneration BY <1>1, <2>1, BoundsAssumption
  <2> QED BY ZenonT(30), <2>1, <2>2 DEF Runtimes, LnbStates
<1>2. CASE ~ApplyCurrent(r, c)
  BY <1>2, InStateFacts DEF FinishApply, LnbStates
<1>3. CASE ApplyCurrent(r, c) /\ c.outcome = "Applied"
  BY ZenonT(30), <1>1, <1>3 DEF FinishApply
<1>4. CASE ApplyCurrent(r, c) /\ c.outcome = "Rejected"
  BY <1>4, InStateFacts DEF FinishApply, LnbStates
<1>5. CASE ApplyCurrent(r, c) /\ c.outcome \notin {"Applied", "Rejected"}
  BY <1>5, InStateFacts DEF FinishApply, LnbStates
<1> QED BY <1>2, <1>3, <1>4, <1>5

\* What begin_close does to an entry.
LEMMA BeginCloseFacts ==
    ASSUME NEW r \in Runtimes
    PROVE  /\ BeginClose(r) \in Runtimes
           /\ BeginClose(r).voltage = r.voltage
           /\ BeginClose(r).generation = r.generation
           /\ BeginClose(r).state \in {"Closing", "Closed", "Failed"}
           /\ BeginClose(r).state = "Closed" <=> r.state = "Closed"
           /\ r.state \in {"Open", "Failed"} => BeginClose(r).state = "Closing"
BY InStateFacts DEF BeginClose, LnbStates

\* What finish_close does to an entry.
LEMMA FinishCloseFacts ==
    ASSUME NEW r \in Runtimes, NEW c \in Calls
    PROVE  /\ FinishClose(r, c) \in Runtimes
           /\ FinishClose(r, c).state \in {"Closed", "Failed", "Quarantined"}
           /\ FinishClose(r, c).state = "Closed" =>
                 \/ c.closed /\ FinishClose(r, c) = r
                 \/ ~c.closed /\ c.outcome = "Applied" /\ FinishClose(r, c).voltage = "None"
<1> DEFINE n == [r EXCEPT !.state = "Closed", !.voltage = "None", !.callback = FALSE]
<1>1. n \in Runtimes /\ n.state = "Closed" /\ n.voltage = "None"
  BY ZenonT(30), ProfileAssumption DEF Runtimes, LnbStates
<1>2. CASE ~CloseCurrent(r, c)
  BY <1>2, InStateFacts DEF FinishClose, LnbStates
<1>3. CASE CloseCurrent(r, c) /\ c.closed
  BY <1>3 DEF FinishClose, CloseCurrent
<1>4. CASE CloseCurrent(r, c) /\ ~c.closed /\ c.outcome = "Applied"
  BY ZenonT(30), <1>1, <1>4 DEF FinishClose
<1>5. CASE CloseCurrent(r, c) /\ ~c.closed /\ c.outcome = "Rejected"
  BY <1>5, InStateFacts DEF FinishClose, LnbStates
<1>6. CASE CloseCurrent(r, c) /\ ~c.closed /\ c.outcome \notin {"Applied", "Rejected"}
  BY <1>6, InStateFacts DEF FinishClose, LnbStates
<1> QED BY <1>2, <1>3, <1>4, <1>5, <1>6

(* What the use cases make of a thread's locals. *)
LEMMA StartCall ==
    ASSUME NEW use \in Uses, NEW txn \in Txns, NEW inc \in Nat
    PROVE  LET c == [NoCall EXCEPT !.use = use, !.txn = txn, !.inc = inc]
           IN  c \in Calls /\ c.use = use /\ c.txn = txn /\ c.inc = inc /\ c.ok
BY ZenonT(30), NoCallTyped DEF Calls, NoCall

\* A call with one of its flags changed is a call.
LEMMA FlagCalls ==
    ASSUME NEW d \in Calls
    PROVE  /\ \A x \in Txns : LET c == [d EXCEPT !.txn = x] IN
                  /\ c \in Calls /\ c.txn = x /\ c.use = d.use /\ c.ok = d.ok /\ c.closed = d.closed
           /\ LET c == [d EXCEPT !.newly = FALSE] IN
                  /\ c \in Calls /\ c.txn = d.txn /\ c.use = d.use /\ c.ok = d.ok
                  /\ c.closed = d.closed
           /\ LET c == [d EXCEPT !.ok = FALSE] IN
                  /\ c \in Calls /\ c.txn = d.txn /\ c.use = d.use /\ c.ok = FALSE
                  /\ c.closed = d.closed
BY ZenonT(30) DEF Calls

\* Thread t moves to step p with the locals c.
Moved(t, p, c) ==
    /\ pc' = [pc EXCEPT ![t] = p]
    /\ call' = [call EXCEPT ![t] = c]

\* A thread that moved is where it moved to, and the others are where they were.
LEMMA MovedTo ==
    ASSUME Typed, NEW t \in Threads, NEW p \in Steps, NEW c \in Calls, Moved(t, p, c)
    PROVE  /\ pc' \in [Threads -> Steps] /\ call' \in [Threads -> Calls]
           /\ pc'[t] = p /\ call'[t] = c
           /\ \A u \in Threads \ {t} : pc'[u] = pc[u] /\ call'[u] = call[u]
BY DEF Typed, Moved

\* A step of the thread that holds the gate, or takes it.
LEMMA HolderStep ==
    ASSUME LnbInv, NEW t \in Threads, NEW p \in Steps, NEW c \in Calls, Moved(t, p, c),
           gate \in {t, NoThread}, gate' \in {t, NoThread}, p \in InTxn => gate' = t,
           lnb' \in Runtimes, frontend' \in [life : Lifecycles, inc : Nat],
           endpoint' \in [life : Lifecycles, inc : Nat],
           RegistryMatchesRail', TxnFacts(p, c)'
    PROVE  LnbInv'
<1>1. Typed' BY MovedTo DEF Typed, LnbInv
<1>2. \A u \in Threads \ {t} : pc'[u] \notin InTxn
  BY MovedTo, ThreadsAssumption DEF LnbInv, GateExclusive
<1>3. pc'[t] = p /\ call'[t] = c BY MovedTo DEF LnbInv
<1>4. GateExclusive' BY <1>2, <1>3 DEF GateExclusive
<1>5. ASSUME NEW u \in Threads PROVE TxnFacts(pc[u], call[u])'
  <2>1. CASE u = t BY <1>3, <2>1
  <2>2. CASE u # t BY <1>2, <2>2 DEF TxnFacts, InTxn
  <2> QED BY <2>1, <2>2
<1> QED BY <1>1, <1>4, <1>5 DEF LnbInv

\* A step of a thread that is outside its transaction.
LEMMA OutsideStep ==
    ASSUME LnbInv, NEW t \in Threads, NEW p \in Steps \ InTxn, NEW c \in Calls, Moved(t, p, c),
           gate' = gate \/ (gate = t /\ gate' = NoThread),
           UNCHANGED <<lnb, rail>>, FixedLease' => FixedLease,
           frontend' \in [life : Lifecycles, inc : Nat],
           endpoint' \in [life : Lifecycles, inc : Nat]
    PROVE  LnbInv'
<1>1. Typed' BY MovedTo DEF Typed, LnbInv
<1>2. pc'[t] = p /\ call'[t] = c BY MovedTo DEF LnbInv
<1>3. GateExclusive' BY MovedTo DEF LnbInv, GateExclusive
<1>4. ASSUME NEW u \in Threads PROVE TxnFacts(pc[u], call[u])'
  <2>1. CASE u = t BY <1>2, <2>1 DEF TxnFacts, InTxn
  <2>2. CASE u # t
    <3>1. pc'[u] = pc[u] /\ call'[u] = call[u] BY <2>2, MovedTo DEF LnbInv
    <3> QED BY <3>1 DEF TxnFacts, LnbInv
  <2> QED BY <2>1, <2>2
<1>5. RegistryMatchesRail' BY DEF LnbInv, RegistryMatchesRail
<1> QED BY <1>1, <1>3, <1>4, <1>5 DEF LnbInv

\* A step of no thread.
LEMMA ObjectStep ==
    ASSUME LnbInv, UNCHANGED <<lnb, rail, leases, gate, pc, call>>,
           frontend' \in [life : Lifecycles, inc : Nat],
           endpoint' \in [life : Lifecycles, inc : Nat]
    PROVE  LnbInv'
BY DEF LnbInv, Typed, GateExclusive, RegistryMatchesRail, TxnFacts, FixedLease

(* The section in which a gate holder hands the gate back. *)
LEMMA EndTxnMoves ==
    ASSUME Typed, NEW t \in Threads, NEW p \in Steps, NEW newly \in BOOLEAN, NEW ok \in BOOLEAN,
           EndTxn(t, p, newly, ok)
    PROVE  \E c \in Calls : /\ Moved(t, p, c) /\ gate' = NoThread
                            /\ c.use = call[t].use /\ c.inc = call[t].inc /\ c.ok = ok
<1> DEFINE c == [NoCall EXCEPT !.use = call[t].use, !.inc = call[t].inc, !.newly = newly, !.ok = ok]
<1>1. call[t] \in Calls BY DEF Typed
<1>2. c \in Calls /\ c.use = call[t].use /\ c.inc = call[t].inc /\ c.ok = ok
  <2>1. call[t].use \in Uses /\ call[t].inc \in Nat BY <1>1 DEF Calls
  <2> QED BY ZenonT(30), <2>1, NoCallTyped DEF Calls, NoCall
<1>3. Moved(t, p, c) /\ gate' = NoThread BY DEF EndTxn, Moved, Goto
<1> HIDE DEF c
<1> QED BY <1>2, <1>3

\* A return as a move.
LEMMA ReturnMoves ==
    ASSUME NEW t, Return(t)
    PROVE  Moved(t, "idle", NoCall) /\ gate' = IF gate = t THEN NoThread ELSE gate
BY DEF Return, Moved, Goto

\* The step after a release as a move.
LEMMA AfterReleaseMoves ==
    ASSUME Typed, NEW t \in Threads, NEW ok \in BOOLEAN, AfterRelease(t, ok), gate = t
    PROVE  \E p \in {"idle", "ownerLoss"}, c \in Calls :
              /\ Moved(t, p, c) /\ gate' = NoThread
              /\ p = "ownerLoss" => call[t].use = "closeFrontend" /\ c.use = call[t].use
              /\ p = "idle" => c = NoCall /\ call[t].use # "closeFrontend"
<1>1. CASE call[t].use = "closeFrontend"
  <2> DEFINE b == call[t].ok /\ ok
  <2>1. EndTxn(t, "ownerLoss", FALSE, b) BY ZenonT(30), <1>1 DEF AfterRelease
  <2>2. b \in BOOLEAN OBVIOUS
  <2> HIDE DEF b
  <2>3. PICK c \in Calls : /\ Moved(t, "ownerLoss", c) /\ gate' = NoThread /\ c.use = call[t].use
    <3>1. "ownerLoss" \in Steps /\ FALSE \in BOOLEAN BY DEF Steps
    <3> QED BY <2>1, <2>2, <3>1, EndTxnMoves, Zenon
  <2> QED BY <1>1, <2>3
<1>2. CASE call[t].use # "closeFrontend"
  <2>1. Return(t) BY <1>2 DEF AfterRelease
  <2> QED BY <1>2, <2>1, ReturnMoves, NoCallTyped
<1> QED BY <1>1, <1>2

\* The refusal of a begin as a move.
LEMMA BeginFailedMoves ==
    ASSUME Typed, NEW t \in Threads, BeginFailed(t)
    PROVE  \E p \in {"idle", "release"}, c \in Calls :
              /\ Moved(t, p, c) /\ (gate' = gate \/ (gate = t /\ gate' = NoThread))
              /\ c.use \in {"none", call[t].use}
<1>1. CASE call[t].newly
  <2> DEFINE c == [call[t] EXCEPT !.newly = FALSE]
  <2>1. call[t] \in Calls /\ call \in [Threads -> Calls] BY DEF Typed
  <2>2. c \in Calls /\ c.use = call[t].use BY ZenonT(30), <2>1, FlagCalls
  <2>3. Moved(t, "release", c) /\ gate' = gate BY <1>1, <2>1 DEF BeginFailed, Goto, Moved
  <2> HIDE DEF c
  <2> QED BY <2>2, <2>3
<1>2. CASE ~call[t].newly
  <2>1. Return(t) BY <1>2 DEF BeginFailed
  <2> QED BY <2>1, ReturnMoves, NoCallTyped
<1> QED BY <1>1, <1>2

\* The start of a use case as a move.
LEMMA StartMoves ==
    ASSUME Typed, NEW t \in Threads, NEW use \in Uses, NEW txn \in Txns, NEW inc \in Nat,
           NEW p, Start(t, use, txn, inc, p)
    PROVE  \E c \in Calls : /\ Moved(t, p, c) /\ pc[t] = "idle"
                            /\ c.use = use /\ c.txn = txn /\ c.inc = inc /\ c.ok
<1> DEFINE c == [NoCall EXCEPT !.use = use, !.txn = txn, !.inc = inc]
<1>1. c \in Calls /\ c.use = use /\ c.txn = txn /\ c.inc = inc /\ c.ok BY ZenonT(30), StartCall
<1>2. Moved(t, p, c) /\ pc[t] = "idle" BY DEF Start, Moved, Goto
<1> HIDE DEF c
<1> QED BY <1>1, <1>2

(* The steps under the gate. *)
LEMMA HolderFacts ==
    ASSUME LnbInv, NEW t \in Threads
    PROVE  /\ Typed /\ lnb \in Runtimes /\ call[t] \in Calls /\ call \in [Threads -> Calls]
           /\ lnb.state \in LnbStates /\ lnb.voltage \in Profile /\ lnb.generation \in 0..MaxGeneration
           /\ frontend \in [life : Lifecycles, inc : Nat] /\ frontend.inc \in Nat
           /\ endpoint \in [life : Lifecycles, inc : Nat] /\ endpoint.inc \in Nat
           /\ pc[t] \in InTxn => gate = t
           /\ RegistryMatchesRail /\ TxnFacts(pc[t], call[t])
BY DEF LnbInv, Typed, GateExclusive, Runtimes

\* Taking the I/O gate keeps the invariant.
LEMMA AcquireGateStep == ASSUME LnbInv, NEW t \in Threads, AcquireGate(t) PROVE LnbInv'
<1>1. Moved(t, "prepare", call[t]) BY DEF AcquireGate, Goto, Moved, LnbInv, Typed
<1>3. RegistryMatchesRail' BY HolderFacts DEF AcquireGate, registryVars, RegistryMatchesRail
<1> QED BY <1>1, <1>3, HolderFacts, HolderStep DEF AcquireGate, registryVars, objectVars, Steps, TxnFacts

\* The device call keeps the invariant.
LEMMA BackendStep == ASSUME LnbInv, NEW t \in Threads, Backend(t) PROVE LnbInv'
<1>1. PICK o \in Outcomes :
         /\ call' = [call EXCEPT ![t].outcome = o]
         /\ rail' \in CASE o = "Applied"  -> {call[t].target}
                        [] o = "Rejected" -> {rail}
                        [] OTHER          -> {rail, call[t].target}
  BY ZenonT(30) DEF Backend
<1>2. o \in {"Applied", "Rejected", "Indeterminate"} BY OutcomesAssumption
<1>3. PICK c \in Calls :
      /\ Moved(t, "finish", c) /\ c.outcome = o
      /\ c.txn = call[t].txn /\ c.target = call[t].target /\ c.gen = call[t].gen
      /\ c.closed = call[t].closed
  <2> DEFINE c == [call[t] EXCEPT !.outcome = o]
  <2>1. /\ c \in Calls /\ c.outcome = o
        /\ c.txn = call[t].txn /\ c.target = call[t].target /\ c.gen = call[t].gen
        /\ c.closed = call[t].closed
    BY <1>2, HolderFacts DEF Calls
  <2>2. Moved(t, "finish", c) BY ZenonT(30), <1>1, HolderFacts DEF Backend, Goto, Moved
  <2> HIDE DEF c
  <2> QED BY <2>1, <2>2
<1>5. gate = t /\ gate' = gate BY HolderFacts DEF Backend, InTxn
<1>6. lnb' = lnb /\ leases' = leases /\ pc[t] = "backend" BY DEF Backend
<1>7. TxnFacts("finish", c)'
  BY <1>1, <1>2, <1>3, <1>6, HolderFacts DEF TxnFacts, FixedLease
<1>8. RegistryMatchesRail'
  BY <1>6, HolderFacts DEF TxnFacts, RegistryMatchesRail, Applies
<1> QED BY <1>3, <1>5, <1>6, <1>7, <1>8, HolderFacts, HolderStep DEF Backend, objectVars, Steps

\* The first section of a control keeps the invariant.
LEMMA PrepareControlStep == ASSUME LnbInv, NEW t \in Threads, PrepareControl(t) PROVE LnbInv'
<1>1. PICK v \in Profile :
          LET refused == ~EndpointLive(t) \/ VoltageRefused(v) IN
          /\ lnb' = IF refused THEN lnb ELSE BeginApply(lnb)
          /\ IF refused \/ ~CanApply(lnb)
             THEN Return(t)
             ELSE /\ Goto(t, "backend")
                  /\ call' = [call EXCEPT ![t].target = v, ![t].gen = lnb.generation]
                  /\ UNCHANGED gate
  BY DEF PrepareControl
<1>2. pc[t] = "prepare" /\ gate = t /\ call[t].txn = "control" /\ UNCHANGED <<rail, leases, frontend, endpoint>>
  BY HolderFacts DEF PrepareControl, InTxn, objectVars
<1>3. CASE Return(t)
  <2>1. lnb' \in Runtimes /\ RegistryMatchesRail'
    BY <1>1, <1>2, HolderFacts, BeginApplyFacts DEF RegistryMatchesRail
  <2> QED BY <1>2, <1>3, <2>1, ReturnMoves, NoCallTyped, HolderFacts, HolderStep DEF TxnFacts, Steps, InTxn
<1>4. CASE ~Return(t)
  <2>1. PICK c \in Calls :
        /\ Moved(t, "backend", c) /\ c.target = v /\ c.gen = lnb.generation /\ c.txn = "control"
    <3> DEFINE c == [call[t] EXCEPT !.target = v, !.gen = lnb.generation]
    <3>1. /\ c \in Calls /\ c.target = v /\ c.gen = lnb.generation /\ c.txn = "control"
      BY ZenonT(30), <1>2, HolderFacts DEF Calls
    <3>2. Moved(t, "backend", c) BY ZenonT(30), <1>1, <1>4, HolderFacts DEF Goto, Moved
    <3> HIDE DEF c
    <3> QED BY <3>1, <3>2
  <2>2. gate' = gate BY <1>1, <1>4
  <2>3. lnb' = BeginApply(lnb) /\ CanApply(lnb) /\ ~VoltageRefused(v) BY <1>1, <1>4
  <2>4. /\ lnb' \in Runtimes /\ lnb'.state = "Applying" /\ lnb'.voltage = lnb.voltage
        /\ lnb'.generation = lnb.generation
    BY <2>3, HolderFacts, BeginApplyFacts
  <2>5. RegistryMatchesRail' BY <2>4 DEF RegistryMatchesRail
  <2>6. TxnFacts("backend", c)'
    BY <1>2, <2>1, <2>3, <2>4, HolderFacts, BoundsAssumption
    DEF TxnFacts, Applies, FixedLease, VoltageRefused, CanApply, RegistryMatchesRail
  <2> QED BY <1>2, <2>1, <2>2, <2>4, <2>5, <2>6, HolderFacts, HolderStep DEF Steps
<1> QED BY <1>3, <1>4

\* The section that ends a transaction on the rail, whatever step follows.
LEMMA FinishStep ==
    ASSUME LnbInv, NEW t \in Threads, gate = t, NEW p \in Steps \ InTxn, NEW c \in Calls,
           Moved(t, p, c), gate' = NoThread, lnb' \in Runtimes,
           RegistryMatchesRail', UNCHANGED <<frontend, endpoint>>
    PROVE  LnbInv'
BY HolderFacts, HolderStep DEF TxnFacts, InTxn

\* FinishApply keeps the registry in agreement with the rail.
LEMMA FinishApplyMatches ==
    ASSUME LnbInv, NEW t \in Threads, pc[t] = "finish", call[t].txn \in Applies,
           lnb' = FinishApply(lnb, call[t]), rail' = rail
    PROVE  lnb' \in Runtimes /\ RegistryMatchesRail' /\ gate = t
           /\ lnb'.state \in {"Open", "Failed", "Quarantined"}
<1>1. lnb \in Runtimes /\ call[t] \in Calls /\ TxnFacts(pc[t], call[t]) /\ gate = t
  BY HolderFacts DEF InTxn
<1>2. call[t].gen < MaxGeneration BY <1>1 DEF TxnFacts
<1>3. /\ lnb' \in Runtimes
      /\ lnb'.state \in {"Open", "Failed", "Quarantined"}
      /\ lnb'.state = "Open" =>
            \/ call[t].outcome = "Applied" /\ lnb'.voltage = call[t].target
            \/ call[t].outcome = "Rejected" /\ lnb'.voltage = lnb.voltage
  BY <1>1, <1>2, FinishApplyFacts
<1> QED BY <1>1, <1>3 DEF TxnFacts, RegistryMatchesRail

\* The last section of a control keeps the invariant.
LEMMA FinishControlStep == ASSUME LnbInv, NEW t \in Threads, FinishControl(t) PROVE LnbInv'
<1>1. pc[t] = "finish" /\ call[t].txn \in Applies /\ lnb' = FinishApply(lnb, call[t])
      /\ Return(t) /\ UNCHANGED <<rail, frontend, endpoint>>
  BY DEF FinishControl, Applies, objectVars
<1>2. lnb' \in Runtimes /\ RegistryMatchesRail' /\ gate = t BY <1>1, FinishApplyMatches
<1>3. Moved(t, "idle", NoCall) /\ gate' = NoThread BY <1>1, <1>2, ReturnMoves
<1>4. "idle" \in Steps \ InTxn BY DEF Steps, InTxn
<1> QED BY <1>1, <1>2, <1>3, <1>4, NoCallTyped, FinishStep

\* The first section of setLnb keeps the invariant.
LEMMA PrepareAssignStep == ASSUME LnbInv, NEW t \in Threads, PrepareAssign(t) PROVE LnbInv'
<1>1. gate = t /\ call[t].txn = "assign" /\ UNCHANGED <<lnb, rail, leases, frontend, endpoint>>
  BY HolderFacts DEF PrepareAssign, InTxn, registryVars, objectVars
<1>2. RegistryMatchesRail' BY <1>1, HolderFacts DEF RegistryMatchesRail
<1>3. CASE Return(t)
  <2>1. Moved(t, "idle", NoCall) /\ gate' = NoThread BY <1>1, <1>3, ReturnMoves
  <2>2. "idle" \in Steps \ InTxn BY DEF Steps, InTxn
  <2> QED BY <1>1, <1>2, <2>1, <2>2, HolderFacts, NoCallTyped, FinishStep
<1>4. CASE ~Return(t)
  <2>1. PICK c \in Calls : c = call[t] /\ Moved(t, "finish", c)
    BY <1>4, HolderFacts DEF PrepareAssign, Goto, Moved
  <2>2. gate' = gate BY <1>4 DEF PrepareAssign
  <2>3. TxnFacts("finish", c)' BY <1>1, <2>1 DEF TxnFacts, Applies
  <2> QED BY <1>1, <1>2, <2>1, <2>2, <2>3, HolderFacts, HolderStep DEF Steps
<1> QED BY <1>3, <1>4

\* The last section of setLnb keeps the invariant.
LEMMA FinishAssignStep == ASSUME LnbInv, NEW t \in Threads, FinishAssign(t) PROVE LnbInv'
<1>1. gate = t /\ UNCHANGED <<lnb, rail, frontend, endpoint>> /\ Return(t)
  BY HolderFacts DEF FinishAssign, InTxn, objectVars
<1>2. RegistryMatchesRail' BY <1>1, HolderFacts DEF RegistryMatchesRail
<1>3. Moved(t, "idle", NoCall) /\ gate' = NoThread BY <1>1, ReturnMoves
<1>4. "idle" \in Steps \ InTxn BY DEF Steps, InTxn
<1> QED BY <1>1, <1>2, <1>3, <1>4, HolderFacts, NoCallTyped, FinishStep

\* The first section of an LNB close keeps the invariant.
LEMMA PrepareCloseStep == ASSUME LnbInv, NEW t \in Threads, PrepareClose(t) PROVE LnbInv'
<1>1. pc[t] = "prepare" /\ gate = t /\ call[t].txn = "close"
      /\ UNCHANGED <<rail, leases, frontend, endpoint>>
  BY HolderFacts DEF PrepareClose, InTxn, objectVars
<1>2. lnb' \in {lnb, BeginClose(lnb)} BY DEF PrepareClose
<1>3. lnb' \in Runtimes /\ RegistryMatchesRail'
  BY <1>1, <1>2, HolderFacts, BeginCloseFacts DEF RegistryMatchesRail
<1>4. CASE CloseFailed(t)
  <2>1. "complete" \in Steps \ InTxn BY DEF Steps, InTxn
  <2>2. PICK c \in Calls : Moved(t, "complete", c) /\ gate' = NoThread
    BY ZenonT(30), <1>4, <2>1, HolderFacts, EndTxnMoves DEF CloseFailed
  <2> QED BY <1>1, <1>3, <2>1, <2>2, FinishStep
<1>5. CASE ~CloseFailed(t)
  <2>1. /\ ~FixedLease /\ CanClose(lnb) /\ lnb' = BeginClose(lnb) /\ gate' = gate
        /\ Goto(t, IF lnb.state = "Closed" THEN "finish" ELSE "backend")
        /\ call' = [call EXCEPT ![t].target = "None", ![t].gen = lnb.generation,
                                ![t].closed = lnb.state = "Closed"]
    BY <1>5 DEF PrepareClose, CloseRefused
  <2>2. PICK p \in {"finish", "backend"}, c \in Calls :
           /\ p = IF lnb.state = "Closed" THEN "finish" ELSE "backend"
           /\ Moved(t, p, c) /\ c.target = "None" /\ c.txn = "close"
           /\ c.closed <=> lnb.state = "Closed"
    <3> DEFINE c == [call[t] EXCEPT !.target = "None", !.gen = lnb.generation,
                                    !.closed = lnb.state = "Closed"]
               p == IF lnb.state = "Closed" THEN "finish" ELSE "backend"
    <3>1. /\ c \in Calls /\ c.target = "None" /\ c.txn = "close"
          /\ c.closed <=> lnb.state = "Closed"
      BY ZenonT(30), <1>1, HolderFacts, ProfileAssumption DEF Calls
    <3>2. Moved(t, p, c) BY ZenonT(30), <2>1, HolderFacts DEF Goto, Moved
    <3>3. p \in {"finish", "backend"} OBVIOUS
    <3> HIDE DEF c
    <3> QED BY <3>1, <3>2, <3>3
  <2>3. c.closed \/ lnb'.state = "Closing"
    BY <2>1, <2>2, HolderFacts, BeginCloseFacts DEF CanClose
  <2>4. TxnFacts(p, c)' 
    BY <1>1, <2>1, <2>2, <2>3 DEF TxnFacts, Applies, FixedLease
  <2> QED BY <1>1, <1>3, <2>1, <2>2, <2>4, HolderFacts, HolderStep DEF Steps
<1> QED BY <1>4, <1>5

\* The last section of an LNB close keeps the invariant.
LEMMA FinishLnbCloseStep == ASSUME LnbInv, NEW t \in Threads, FinishLnbClose(t) PROVE LnbInv'
<1>1. pc[t] = "finish" /\ gate = t /\ call[t].txn = "close" /\ lnb' = FinishClose(lnb, call[t])
      /\ UNCHANGED <<rail, leases, frontend, endpoint>>
  BY HolderFacts DEF FinishLnbClose, InTxn, objectVars
<1>2. lnb' \in Runtimes /\ RegistryMatchesRail'
  BY ZenonT(30), <1>1, HolderFacts, FinishCloseFacts DEF RegistryMatchesRail, TxnFacts
<1>3. PICK p \in {"complete", "dropRelation"}, ok \in BOOLEAN : EndTxn(t, p, FALSE, ok)
  <2>1. call[t].ok \in BOOLEAN BY HolderFacts DEF Calls
  <2> QED BY <2>1, Zenon DEF FinishLnbClose, CloseFailed
<1>4. p \in Steps \ InTxn BY DEF Steps, InTxn
<1>5. PICK c \in Calls : Moved(t, p, c) /\ gate' = NoThread
  BY ZenonT(30), <1>3, <1>4, HolderFacts, EndTxnMoves
<1> QED BY <1>1, <1>2, <1>4, <1>5, FinishStep

\* The first section of ensure_fixed_power keeps the invariant.
LEMMA PrepareEnsureStep == ASSUME LnbInv, NEW t \in Threads, PrepareEnsure(t) PROVE LnbInv'
<1> DEFINE newly   == ~FixedLease
           applied == lnb.state = "Open" /\ lnb.voltage = "15V"
           opened  == IF lnb.state = "Closed" THEN Reopen(lnb) ELSE lnb
<1>1. pc[t] = "prepare" /\ gate = t /\ call[t].txn = "ensure" /\ UNCHANGED <<rail, frontend, endpoint>>
  BY HolderFacts DEF PrepareEnsure, InTxn, objectVars
<1>2. /\ opened \in Runtimes /\ opened.voltage = lnb.voltage /\ opened.generation = lnb.generation
      /\ opened.state = "Open" => lnb.state \in {"Open", "Closed"}
  BY HolderFacts, ReopenFacts
<1>3. CASE ~FrontendLive(t) 
  <2>1. Return(t) /\ lnb' = lnb BY <1>3 DEF PrepareEnsure
  <2>2. Moved(t, "idle", NoCall) /\ gate' = NoThread BY <1>1, <2>1, ReturnMoves
  <2>3. RegistryMatchesRail' BY <1>1, <2>1, HolderFacts DEF RegistryMatchesRail
  <2>4. "idle" \in Steps \ InTxn BY DEF Steps, InTxn
  <2> QED BY <1>1, <2>1, <2>2, <2>3, <2>4, HolderFacts, NoCallTyped, FinishStep
<1>4. CASE FrontendLive(t) /\ applied
  <2>1. EndTxn(t, "fence", newly, TRUE) /\ lnb' = lnb BY ZenonT(30), <1>4 DEF PrepareEnsure
  <2>2. newly \in BOOLEAN OBVIOUS
  <2> HIDE DEF newly
  <2>3. "fence" \in Steps \ InTxn BY DEF Steps, InTxn
  <2>4. PICK c \in Calls : Moved(t, "fence", c) /\ gate' = NoThread
    BY ZenonT(30), <2>1, <2>2, <2>3, HolderFacts, EndTxnMoves
  <2>5. RegistryMatchesRail' BY <1>1, <2>1, HolderFacts DEF RegistryMatchesRail
  <2> QED BY <1>1, <2>1, <2>3, <2>4, <2>5, HolderFacts, FinishStep
<1>5. CASE FrontendLive(t) /\ ~applied /\ CanApply(opened)
  <2>1. /\ lnb' = BeginApply(opened) /\ Goto(t, "backend") /\ gate' = gate
        /\ call' = [call EXCEPT ![t].target = "15V", ![t].gen = opened.generation,
                                ![t].newly = newly]
    BY ZenonT(30), <1>5 DEF PrepareEnsure
  <2>2. PICK c \in Calls :
           Moved(t, "backend", c) /\ c.target = "15V" /\ c.gen = lnb.generation /\ c.txn = "ensure"
    <3> DEFINE c == [call[t] EXCEPT !.target = "15V", !.gen = opened.generation, !.newly = newly]
    <3>1. opened.generation \in 0..MaxGeneration /\ newly \in BOOLEAN BY <1>2, HolderFacts
    <3>2. Moved(t, "backend", c) BY ZenonT(30), <2>1, HolderFacts DEF Goto, Moved
    <3> HIDE DEF newly, opened
    <3>3. c \in Calls /\ c.target = "15V" /\ c.gen = lnb.generation /\ c.txn = "ensure"
      BY ZenonT(30), <1>1, <1>2, <3>1, HolderFacts, ProfileAssumption DEF Calls
    <3> HIDE DEF c
    <3> QED BY <3>2, <3>3
  <2> HIDE DEF newly, opened, applied
  <2>3. /\ lnb' \in Runtimes /\ lnb'.state = "Applying" /\ lnb'.voltage = lnb.voltage
        /\ lnb'.generation = lnb.generation
    BY <1>2, <1>5, <2>1, BeginApplyFacts
  <2>4. rail = lnb.voltage /\ lnb.generation < MaxGeneration
    BY <1>2, <1>5, HolderFacts, BoundsAssumption DEF CanApply, RegistryMatchesRail
  <2>5. TxnFacts("backend", c)' BY <1>1, <2>2, <2>3, <2>4 DEF TxnFacts, Applies
  <2>6. RegistryMatchesRail' BY <2>3 DEF RegistryMatchesRail
  <2> QED BY <1>1, <2>1, <2>2, <2>3, <2>5, <2>6, HolderFacts, HolderStep DEF Steps
<1>6. CASE FrontendLive(t) /\ ~applied /\ ~CanApply(opened)
  <2>1. Return(t) /\ lnb' = BeginApply(opened) BY ZenonT(30), <1>6 DEF PrepareEnsure
  <2> HIDE DEF opened, applied
  <2>2. Moved(t, "idle", NoCall) /\ gate' = NoThread BY <1>1, <2>1, ReturnMoves
  <2>3. lnb' \in Runtimes /\ RegistryMatchesRail'
    BY <1>2, <2>1, BeginApplyFacts DEF RegistryMatchesRail
  <2>4. "idle" \in Steps \ InTxn BY DEF Steps, InTxn
  <2> QED BY <1>1, <2>2, <2>3, <2>4, NoCallTyped, FinishStep
<1> QED BY <1>3, <1>4, <1>5, <1>6

\* The last section of ensure_fixed_power keeps the invariant.
LEMMA FinishEnsureStep == ASSUME LnbInv, NEW t \in Threads, FinishEnsure(t) PROVE LnbInv'
<1>1. pc[t] = "finish" /\ call[t].txn \in Applies /\ lnb' = FinishApply(lnb, call[t])
      /\ UNCHANGED <<rail, frontend, endpoint>>
  BY DEF FinishEnsure, Applies, objectVars
<1>2. lnb' \in Runtimes /\ RegistryMatchesRail' /\ gate = t BY <1>1, FinishApplyMatches
<1>3. "idle" \in Steps \ InTxn /\ "fence" \in Steps \ InTxn BY DEF Steps, InTxn
<1>4. CASE Return(t)
  BY <1>1, <1>2, <1>3, <1>4, ReturnMoves, NoCallTyped, FinishStep
<1>5. CASE ~Return(t)
  <2>1. EndTxn(t, "fence", call[t].newly, TRUE) BY ZenonT(30), <1>5 DEF FinishEnsure
  <2>2. call[t].newly \in BOOLEAN BY HolderFacts DEF Calls
  <2>3. PICK c \in Calls : Moved(t, "fence", c) /\ gate' = NoThread
    BY ZenonT(30), <1>3, <2>1, <2>2, HolderFacts, EndTxnMoves
  <2> QED BY <1>1, <1>2, <1>3, <2>3, FinishStep
<1> QED BY <1>4, <1>5

\* A holder that is done with the rail and goes where its caller continues.
LEMMA AfterReleaseStep ==
    ASSUME LnbInv, NEW t \in Threads, gate = t, NEW ok \in BOOLEAN, AfterRelease(t, ok),
           lnb' \in Runtimes, RegistryMatchesRail', UNCHANGED <<frontend, endpoint>>
    PROVE  LnbInv'
<1>1. PICK p \in {"idle", "ownerLoss"}, c \in Calls : Moved(t, p, c) /\ gate' = NoThread
  BY HolderFacts, AfterReleaseMoves
<1>2. p \in Steps \ InTxn BY DEF Steps, InTxn
<1> QED BY <1>1, <1>2, FinishStep

\* The first section of a release keeps the invariant.
LEMMA PrepareReleaseStep == ASSUME LnbInv, NEW t \in Threads, PrepareRelease(t) PROVE LnbInv'
<1>1. pc[t] = "prepare" /\ gate = t /\ call[t].txn = "release" /\ UNCHANGED <<rail, frontend, endpoint>>
  BY HolderFacts DEF PrepareRelease, InTxn, objectVars
<1>2. CASE /\ \E ok \in BOOLEAN : AfterRelease(t, ok)
           /\ lnb' = lnb \/ (lnb' = BeginApply(lnb) /\ ~CanApply(lnb))
  <2>1. lnb' \in Runtimes /\ RegistryMatchesRail'
    BY <1>1, <1>2, HolderFacts, BeginApplyFacts DEF RegistryMatchesRail
  <2> QED BY <1>1, <1>2, <2>1, AfterReleaseStep
<1>3. CASE /\ ReleaseFixedPowerLease /\ CanApply(lnb) /\ lnb' = BeginApply(lnb)
           /\ Goto(t, "backend") /\ gate' = gate
           /\ call' = [call EXCEPT ![t].target = "None", ![t].gen = lnb.generation]
  <2>1. PICK c \in Calls :
        /\ Moved(t, "backend", c) /\ c.target = "None" /\ c.gen = lnb.generation /\ c.txn = "release"
    <3> DEFINE c == [call[t] EXCEPT !.target = "None", !.gen = lnb.generation]
    <3>1. /\ c \in Calls /\ c.target = "None" /\ c.gen = lnb.generation /\ c.txn = "release"
      BY ZenonT(30), <1>1, HolderFacts, ProfileAssumption DEF Calls
    <3>2. Moved(t, "backend", c) BY ZenonT(30), <1>3, HolderFacts DEF Goto, Moved
    <3> HIDE DEF c
    <3> QED BY <3>1, <3>2
  <2>2. /\ lnb' \in Runtimes /\ lnb'.state = "Applying" /\ lnb'.voltage = lnb.voltage
        /\ lnb'.generation = lnb.generation
    BY <1>3, HolderFacts, BeginApplyFacts
  <2>3. RegistryMatchesRail' BY <2>2 DEF RegistryMatchesRail
  <2>4. ~FixedLease' BY <1>3 DEF ReleaseFixedPowerLease, FixedLease
  <2>5. TxnFacts("backend", c)'
    BY <1>1, <1>3, <2>1, <2>2, <2>4, HolderFacts, BoundsAssumption
    DEF TxnFacts, Applies, CanApply, RegistryMatchesRail
  <2> QED BY <1>1, <1>3, <2>1, <2>2, <2>3, <2>5, HolderFacts, HolderStep DEF Steps
<1> QED
  <2>1. CASE ~FixedLease \/ ~OperationTerminal BY ZenonT(30), <1>2, <2>1 DEF PrepareRelease
  <2>2. CASE FixedLease /\ OperationTerminal /\ (railRefs /= 1 \/ lnb.voltage = "None")
    <3>1. AfterRelease(t, TRUE) /\ lnb' = lnb BY <2>2, Zenon DEF PrepareRelease
    <3> QED BY ZenonT(30), <1>2, <3>1
  <2>3. CASE FixedLease /\ OperationTerminal /\ railRefs = 1 /\ lnb.voltage /= "None"
             /\ CanApply(lnb)
    BY <1>3, <2>3 DEF PrepareRelease
  <2>4. CASE FixedLease /\ OperationTerminal /\ railRefs = 1 /\ lnb.voltage /= "None"
             /\ ~CanApply(lnb)
    BY ZenonT(30), <1>2, <2>4 DEF PrepareRelease
  <2> QED BY <2>1, <2>2, <2>3, <2>4

\* The last section of a release keeps the invariant.
LEMMA FinishReleaseStep == ASSUME LnbInv, NEW t \in Threads, FinishRelease(t) PROVE LnbInv'
<1>1. pc[t] = "finish" /\ call[t].txn \in Applies /\ lnb' = FinishApply(lnb, call[t])
      /\ UNCHANGED <<rail, leases, frontend, endpoint>>
  BY DEF FinishRelease, Applies, objectVars
<1>2. lnb' \in Runtimes /\ RegistryMatchesRail' /\ gate = t BY <1>1, FinishApplyMatches
<1>3. CASE AfterRelease(t, TRUE) BY ZenonT(30), <1>1, <1>2, <1>3, AfterReleaseStep
<1>4. CASE ~AfterRelease(t, TRUE)
  <2>1. PICK c \in Calls : c = call[t] /\ Moved(t, "relock", c)
    <3>1. Goto(t, "relock") /\ call' = call BY <1>4, Zenon DEF FinishRelease
    <3>2. call' = [call EXCEPT ![t] = call[t]] BY <3>1, HolderFacts
    <3> QED BY <3>1, <3>2, HolderFacts DEF Goto, Moved
  <2>2. gate' = gate BY ZenonT(30), <1>4 DEF FinishRelease
  <2>3. TxnFacts("relock", c)' BY DEF TxnFacts
  <2> QED BY <1>1, <1>2, <2>1, <2>2, <2>3, HolderFacts, HolderStep DEF Steps
<1> QED BY ZenonT(30), <1>3, <1>4

(* The steps outside the gate. *)
LEMMA OutsideSteps ==
    ASSUME LnbInv, NEW t \in Threads,
           \/ StartOwnerLoss(t) \/ DropRelation(t) \/ StartRelease(t) \/ CloseWorkers(t)
           \/ FenceOperation(t) \/ CommitOperation(t) \/ Complete(t)
    PROVE  LnbInv'
<1> USE DEF registryVars, objectVars
<1>1. Typed /\ call[t] \in Calls /\ call \in [Threads -> Calls]
      /\ frontend \in [life : Lifecycles, inc : Nat] /\ endpoint \in [life : Lifecycles, inc : Nat]
  BY HolderFacts
<1>2. ASSUME NEW p \in Steps \ InTxn, NEW c \in Calls, Moved(t, p, c), gate' = gate,
             UNCHANGED <<lnb, rail>>, FixedLease' => FixedLease, UNCHANGED <<frontend, endpoint>>
      PROVE  LnbInv'
  BY <1>1, <1>2, OutsideStep
<1>3. CASE StartOwnerLoss(t)
  <2>1. PICK c \in Calls : Moved(t, "gate", c)
    <3> DEFINE c == [call[t] EXCEPT !.txn = "close"]
    <3>1. c \in Calls BY <1>1 DEF Calls, Txns
    <3>2. Moved(t, "gate", c) BY <1>1, <1>3 DEF StartOwnerLoss, Goto, Moved
    <3> QED BY <3>1, <3>2
  <2> QED BY <1>2, <1>3, <2>1 DEF StartOwnerLoss, Steps, InTxn, FixedLease
<1>4. CASE DropRelation(t)
  <2>1. Moved(t, "complete", call[t]) BY <1>1, <1>4 DEF DropRelation, Goto, Moved
  <2> QED BY <1>1, <1>2, <1>4, <2>1 DEF DropRelation, ReleaseLnbAssignment, Steps, InTxn, FixedLease
<1>5. CASE StartRelease(t)
  <2>1. PICK p \in {"gate", "ownerLoss", "idle"}, c \in Calls : Moved(t, p, c)
    <3> DEFINE c == [call[t] EXCEPT !.txn = "release"]
    <3>1. c \in Calls BY <1>1 DEF Calls, Txns
    <3>2. Moved(t, "gate", c) \/ Moved(t, "ownerLoss", call[t]) \/ Moved(t, "idle", NoCall)
      BY <1>1, <1>5 DEF StartRelease, Goto, Moved
    <3> HIDE DEF c
    <3> QED BY <1>1, <3>1, <3>2, NoCallTyped
  <2> QED BY <1>2, <1>5, <2>1 DEF StartRelease, Steps, InTxn, FixedLease
<1>6. CASE CloseWorkers(t)
  <2>1. PICK p \in {"ownerLoss", "release"}, c \in Calls : Moved(t, p, c)
    <3> DEFINE c == [call[t] EXCEPT !.ok = FALSE]
    <3>1. c \in Calls BY ZenonT(30), <1>1 DEF Calls
    <3>2. Moved(t, "ownerLoss", c) \/ Moved(t, "release", call[t])
      BY <1>1, <1>6 DEF CloseWorkers, Goto, Moved
    <3> HIDE DEF c
    <3> QED BY <1>1, <3>1, <3>2
  <2> QED BY <1>2, <1>6, <2>1 DEF CloseWorkers, Steps, InTxn, FixedLease
<1>7. ASSUME NEW p \in Steps \ InTxn, NEW c \in Calls, Moved(t, p, c),
             gate' = gate \/ (gate = t /\ gate' = NoThread),
             UNCHANGED <<lnb, rail, leases, endpoint>>,
             frontend' \in [life : Lifecycles, inc : Nat]
      PROVE  LnbInv'
  BY <1>1, <1>7, OutsideStep DEF FixedLease
<1>8. ASSUME BeginFailed(t), UNCHANGED <<lnb, rail, leases, endpoint>>,
             frontend' \in [life : Lifecycles, inc : Nat]
      PROVE  LnbInv'
  <2>1. PICK p \in {"idle", "release"}, c \in Calls :
           Moved(t, p, c) /\ (gate' = gate \/ (gate = t /\ gate' = NoThread))
    BY <1>1, <1>8, BeginFailedMoves
  <2>2. p \in Steps \ InTxn BY DEF Steps, InTxn
  <2> QED BY <1>7, <1>8, <2>1, <2>2
<1>9. CASE FenceOperation(t)
  <2>1. UNCHANGED <<lnb, rail, leases, endpoint>> BY <1>9 DEF FenceOperation
  <2>2. frontend' \in [life : Lifecycles, inc : Nat]
    <3>1. [frontend EXCEPT !.life = "Quarantined"] \in [life : Lifecycles, inc : Nat]
      BY <1>1 DEF Lifecycles
    <3>2. frontend' = frontend \/ frontend' = [frontend EXCEPT !.life = "Quarantined"]
      BY <1>9, Zenon DEF FenceOperation
    <3> QED BY <1>1, <3>1, <3>2
  <2>3. CASE BeginFailed(t) BY <1>8, <2>1, <2>2, <2>3
  <2>4. CASE ~BeginFailed(t)
    <3>1. Goto(t, "commit") /\ UNCHANGED <<call, gate>> BY <1>9, <2>4, Zenon DEF FenceOperation
    <3>2. Moved(t, "commit", call[t]) BY <1>1, <3>1 DEF Goto, Moved
    <3>3. "commit" \in Steps \ InTxn BY DEF Steps, InTxn
    <3> QED BY <1>1, <1>7, <2>1, <2>2, <3>1, <3>2, <3>3
  <2> QED BY <2>3, <2>4
<1>10. CASE CommitOperation(t)
  <2>1. UNCHANGED <<lnb, rail, leases, endpoint, frontend>> BY <1>10 DEF CommitOperation
  <2>2. CASE BeginFailed(t) BY <1>1, <1>8, <2>1, <2>2
  <2>3. CASE ~BeginFailed(t)
    <3>1. Return(t) BY <1>10, <2>3, Zenon DEF CommitOperation
    <3>2. "idle" \in Steps \ InTxn BY DEF Steps, InTxn
    <3> QED BY <1>1, <1>7, <2>1, <3>1, <3>2, ReturnMoves, NoCallTyped
  <2> QED BY <2>2, <2>3
<1>11. CASE Complete(t)
  <2>1. Return(t) /\ UNCHANGED <<lnb, rail, leases>> BY <1>11 DEF Complete
  <2>2. /\ frontend' \in [life : Lifecycles, inc : Nat]
        /\ endpoint' \in [life : Lifecycles, inc : Nat]
    <3>1. \A l \in {"Closed", "CleanupPending"} :
             /\ [frontend EXCEPT !.life = l] \in [life : Lifecycles, inc : Nat]
             /\ [endpoint EXCEPT !.life = l] \in [life : Lifecycles, inc : Nat]
      BY <1>1 DEF Lifecycles
    <3> QED BY <1>1, <1>11, <3>1 DEF Complete
  <2>3. "idle" \in Steps \ InTxn BY DEF Steps, InTxn
  <2> QED BY <2>1, <2>2, <2>3, ReturnMoves, NoCallTyped, OutsideStep DEF FixedLease
<1> QED BY <1>3, <1>4, <1>5, <1>6, <1>9, <1>10, <1>11

\* The start of a use case keeps the invariant.
LEMMA StartSteps == ASSUME LnbInv, NEW t \in Threads, StartUseCase(t) PROVE LnbInv'
<1> USE DEF registryVars, objectVars
<1>1. Typed /\ frontend \in [life : Lifecycles, inc : Nat] /\ endpoint \in [life : Lifecycles, inc : Nat]
      /\ frontend.inc \in Nat /\ endpoint.inc \in Nat /\ lnb \in Runtimes
  BY HolderFacts
<1>2. \A l \in Lifecycles : /\ [frontend EXCEPT !.life = l] \in [life : Lifecycles, inc : Nat]
                            /\ [endpoint EXCEPT !.life = l] \in [life : Lifecycles, inc : Nat]
  BY <1>1
<1>3. "gate" \in Steps \ InTxn /\ "release" \in Steps \ InTxn /\ "closeWorkers" \in Steps \ InTxn
  BY DEF Steps, InTxn
<1>4. ASSUME NEW use \in Uses, NEW txn \in Txns, NEW inc \in Nat, NEW p \in Steps \ InTxn,
             Start(t, use, txn, inc, p), UNCHANGED <<lnb, rail, leases, gate>>,
             frontend' \in [life : Lifecycles, inc : Nat],
             endpoint' \in [life : Lifecycles, inc : Nat]
      PROVE  LnbInv'
  <2>1. PICK c \in Calls : Moved(t, p, c) BY <1>1, <1>4, StartMoves
  <2> QED BY <1>4, <2>1, OutsideStep DEF FixedLease
<1>5. CASE StartCloseLnb(t)
  <2>1. endpoint' \in [life : Lifecycles, inc : Nat] /\ frontend' = frontend
    BY <1>2, <1>5 DEF StartCloseLnb, Lifecycles
  <2> QED BY <1>1, <1>3, <1>4, <1>5, <2>1 DEF StartCloseLnb, Uses, Txns
<1>6. CASE StartCloseFrontend(t)
  <2>1. frontend' \in [life : Lifecycles, inc : Nat] /\ endpoint' = endpoint
    BY <1>2, <1>6 DEF StartCloseFrontend, Lifecycles
  <2> QED BY <1>1, <1>3, <1>4, <1>6, <2>1 DEF StartCloseFrontend, Uses, Txns
<1>7. CASE StartControl(t) \/ StartSetLnb(t) \/ StartBegin(t)
  <2>1. CASE StartControl(t) BY <1>1, <1>3, <1>4, <2>1 DEF StartControl, Uses, Txns
  <2>2. CASE StartSetLnb(t) BY <1>1, <1>3, <1>4, <2>2 DEF StartSetLnb, Uses, Txns
  <2>3. CASE StartBegin(t) BY <1>1, <1>3, <1>4, <2>3 DEF StartBegin, Uses, Txns
  <2> QED BY <1>7, <2>1, <2>2, <2>3
<1>8. CASE WorkerTerminal(t) \/ ReapClosedWorkers(t)
  BY <1>1, <1>3, <1>4, <1>8 DEF WorkerTerminal, ReapClosedWorkers, Uses, Txns
<1>9. CASE StartRollbackOpen(t)
  <2>1. PICK c \in Calls : Moved(t, "gate", c)
    BY <1>1, <1>9, StartMoves DEF StartRollbackOpen, Uses, Txns
  <2>2. lnb.state \in {"Open", "Closed"} /\ lnb' = Reopen(lnb)
        /\ UNCHANGED <<rail, leases, frontend, endpoint, gate>>
    BY <1>9 DEF StartRollbackOpen
  <2>3. lnb' \in Runtimes /\ lnb'.state = "Open" /\ lnb'.voltage = lnb.voltage
    BY <1>1, <2>2, ReopenFacts
  <2>4. RegistryMatchesRail' BY <2>2, <2>3 DEF LnbInv, RegistryMatchesRail
  <2>5. "gate" \in Steps /\ "gate" \notin InTxn BY DEF Steps, InTxn
  <2>6. /\ pc' \in [Threads -> Steps] /\ call' \in [Threads -> Calls] /\ pc'[t] = "gate"
        /\ \A u \in Threads \ {t} : pc'[u] = pc[u] /\ call'[u] = call[u]
    BY <1>1, <2>1, <2>5, MovedTo
  <2>7. Typed' BY <1>1, <2>2, <2>3, <2>6 DEF Typed
  <2>8. GateExclusive' BY <2>2, <2>5, <2>6 DEF LnbInv, GateExclusive
  <2>9. ASSUME NEW u \in Threads PROVE TxnFacts(pc[u], call[u])'
    <3>1. CASE u = t BY <2>6, <3>1 DEF TxnFacts
    <3>2. CASE u # t
      <4>1. pc'[u] = pc[u] /\ call'[u] = call[u] BY <2>6, <3>2
      <4> QED BY ZenonT(30), <2>2, <4>1 DEF LnbInv, TxnFacts, FixedLease
    <3> QED BY <3>1, <3>2
  <2> QED BY <2>4, <2>7, <2>8, <2>9 DEF LnbInv
<1> QED BY <1>5, <1>6, <1>7, <1>8, <1>9 DEF StartUseCase

\* The steps of no thread.
LEMMA EnvironmentSteps ==
    ASSUME LnbInv,
           \/ OpenFrontend \/ OpenLnb \/ QuarantineFrontend \/ QuarantineLnb \/ StopOperation
           \/ ReapStoppedWorkers \/ (\E b \in BOOLEAN : SetCallback(b)) \/ UNCHANGED vars
    PROVE  LnbInv'
<1> USE DEF registryVars, objectVars
<1>1. Typed /\ frontend \in [life : Lifecycles, inc : Nat] /\ endpoint \in [life : Lifecycles, inc : Nat]
      /\ frontend.inc \in Nat /\ endpoint.inc \in Nat /\ lnb \in Runtimes
  BY DEF LnbInv, Typed
<1>2. \A l \in Lifecycles : /\ [frontend EXCEPT !.life = l] \in [life : Lifecycles, inc : Nat]
                            /\ [endpoint EXCEPT !.life = l] \in [life : Lifecycles, inc : Nat]
  BY <1>1
<1>3. CASE OpenFrontend
  <2>1. [life |-> "Live", inc |-> frontend.inc + 1] \in [life : Lifecycles, inc : Nat]
    BY <1>1 DEF Lifecycles
  <2> QED BY <1>1, <1>3, <2>1, ObjectStep DEF OpenFrontend
<1>4. CASE QuarantineFrontend \/ QuarantineLnb
  BY <1>1, <1>2, <1>4, ObjectStep DEF QuarantineFrontend, QuarantineLnb, Lifecycles
<1>5. CASE StopOperation \/ ReapStoppedWorkers \/ UNCHANGED vars
  BY <1>1, <1>5, ObjectStep DEF StopOperation, ReapStoppedWorkers, vars
<1>6. ASSUME lnb.state \in {"Open", "Closed"}, lnb' \in Runtimes, lnb'.state = "Open",
             lnb'.voltage = lnb.voltage, UNCHANGED <<rail, leases, gate, pc, call, frontend>>,
             endpoint' \in [life : Lifecycles, inc : Nat]
      PROVE  LnbInv'
  <2>1. Typed' BY <1>1, <1>6 DEF Typed
  <2>2. GateExclusive' BY <1>6 DEF LnbInv, GateExclusive
  <2>3. RegistryMatchesRail' BY <1>6 DEF LnbInv, RegistryMatchesRail
  <2>4. \A u \in Threads : TxnFacts(pc[u], call[u])' BY <1>6 DEF LnbInv, TxnFacts, FixedLease
  <2> QED BY <2>1, <2>2, <2>3, <2>4 DEF LnbInv
<1>7. CASE OpenLnb
  <2>1. [life |-> "Live", inc |-> endpoint.inc + 1] \in [life : Lifecycles, inc : Nat]
    BY <1>1 DEF Lifecycles
  <2> QED BY <1>1, <1>6, <1>7, <2>1, ReopenFacts DEF OpenLnb
<1>8. ASSUME NEW b \in BOOLEAN, SetCallback(b) PROVE LnbInv'
  <2>1. /\ lnb' \in Runtimes /\ lnb'.state = lnb.state /\ lnb'.voltage = lnb.voltage
    BY <1>1, <1>8 DEF SetCallback, Runtimes
  <2> QED BY <1>1, <1>6, <1>8, <2>1 DEF SetCallback
<1> QED BY <1>3, <1>4, <1>5, <1>7, <1>8

\* Every step keeps the invariant.
LEMMA LnbStep == ASSUME LnbInv, [Next]_vars PROVE LnbInv'
<1>1. ASSUME NEW t \in Threads, ThreadStep(t) PROVE LnbInv'
  BY <1>1, AcquireGateStep, BackendStep, PrepareControlStep, FinishControlStep, PrepareAssignStep,
     FinishAssignStep, PrepareCloseStep, FinishLnbCloseStep, PrepareEnsureStep, FinishEnsureStep,
     PrepareReleaseStep, FinishReleaseStep, OutsideSteps, Zenon DEF ThreadStep
<1> QED BY <1>1, StartSteps, EnvironmentSteps DEF Next

\* Only a hardware call moves the rail, and under a lease it asks for 15 V.
LEMMA PowerStep ==
    ASSUME LnbInv, [Next]_vars
    PROVE  FixedLease /\ FixedLease' /\ rail = "15V" => rail' = "15V"
<1> SUFFICES ASSUME FixedLease, rail = "15V", rail' # rail PROVE rail' = "15V"
  OBVIOUS
<1>1. ASSUME NEW t \in Threads, Backend(t) PROVE rail' = "15V"
  <2>1. call[t].target = "15V" BY <1>1, HolderFacts DEF Backend, TxnFacts
  <2>2. rail' \in {rail, call[t].target} BY <1>1 DEF Backend
  <2> QED BY <2>1, <2>2
<1>2. ASSUME NEW t \in Threads, ThreadStep(t) PROVE Backend(t)
  <2>1. ~(AcquireGate(t) \/ Complete(t) \/ StartOwnerLoss(t) \/ DropRelation(t) \/ StartRelease(t))
    BY DEF AcquireGate, Complete, StartOwnerLoss, DropRelation, StartRelease, registryVars
  <2>2. ~(PrepareControl(t) \/ FinishControl(t) \/ PrepareAssign(t) \/ FinishAssign(t))
    BY DEF PrepareControl, FinishControl, PrepareAssign, FinishAssign, registryVars
  <2>3. ~(PrepareClose(t) \/ FinishLnbClose(t) \/ PrepareEnsure(t) \/ FinishEnsure(t))
    BY ZenonT(30) DEF PrepareClose, FinishLnbClose, PrepareEnsure, FinishEnsure
  <2>4. ~(FenceOperation(t) \/ CommitOperation(t) \/ CloseWorkers(t))
    BY DEF FenceOperation, CommitOperation, CloseWorkers, registryVars
  <2>5. ~(PrepareRelease(t) \/ FinishRelease(t)) BY ZenonT(30) DEF PrepareRelease, FinishRelease
  <2> QED BY <1>2, <2>1, <2>2, <2>3, <2>4, <2>5, Zenon DEF ThreadStep
<1>3. ASSUME NEW t \in Threads, StartUseCase(t) PROVE FALSE
  BY <1>3 DEF StartUseCase, StartRollbackOpen, StartCloseLnb, StartCloseFrontend, StartControl,
     StartSetLnb, StartBegin, WorkerTerminal, ReapClosedWorkers, registryVars
<1>4. ~(\/ OpenFrontend \/ OpenLnb \/ QuarantineFrontend \/ QuarantineLnb \/ StopOperation
        \/ ReapStoppedWorkers \/ (\E b \in BOOLEAN : SetCallback(b)) \/ UNCHANGED vars)
  BY DEF OpenFrontend, OpenLnb, QuarantineFrontend, QuarantineLnb, StopOperation,
     ReapStoppedWorkers, SetCallback, vars, registryVars
<1> QED BY <1>1, <1>2, <1>3, <1>4 DEF Next

\* A 15 V rail under a fixed-power lease stays at 15 V.
THEOREM PowerKept == Spec => LeaseKeepsPower
<1>1. Init => LnbInv BY LnbInit
<1>2. LnbInv /\ [Next]_vars => LnbInv' BY LnbStep
<1>3. LnbInv /\ [Next]_vars => [FixedLease /\ FixedLease' /\ rail = "15V" => rail' = "15V"]_vars
  BY PowerStep
<1> QED BY <1>1, <1>2, <1>3, PTL DEF Spec, LeaseKeepsPower
(***************************************************************************)
(* The close of the frontend: what it has behind it stays behind it.       *)
(***************************************************************************)
\* The closing thread passed the check for the fixed-power lease; it is past
\* the gate; it released the assignment.
PowerGone(p, c) ==
    /\ c.use = "closeFrontend"
    /\ \/ p \in {"backend", "finish"} /\ c.txn = "close"
       \/ p = "dropRelation"
       \/ p = "complete" /\ c.ok
PastGate(p, c) == c.use = "closeFrontend" /\ (p = "dropRelation" \/ (p = "complete" /\ c.ok))
RelationGone(p, c) == c.use = "closeFrontend" /\ p = "complete" /\ c.ok

\* A setLnb() that was admitted and has not added its lease yet.
Assigning(p, c) == p = "finish" /\ c.txn = "assign"

CloseInv ==
    /\ \A t \in Threads : call[t].use = "closeFrontend" =>
          frontend.life \in {"Closing", "Quarantined"}
    /\ \A t, u \in Threads : call[t].use = "closeFrontend" /\ call[u].use = "closeFrontend" => t = u
    /\ \A t \in Threads : PowerGone(pc[t], call[t]) => ~FixedLease
    /\ \A t, u \in Threads : PastGate(pc[t], call[t]) => ~Assigning(pc[u], call[u])
    /\ \A t \in Threads : RelationGone(pc[t], call[t]) => ~Assigned
    /\ frontend.life = "Closed" =>
          ~FixedLease /\ ~Assigned /\ \A u \in Threads : ~Assigning(pc[u], call[u])

\* A step of a thread that starts no close of the frontend and ends none.
LEMMA CloseMove ==
    ASSUME LnbInv, CloseInv, NEW t \in Threads, NEW p \in Steps, NEW c \in Calls, Moved(t, p, c),
           c.use = "closeFrontend" => call[t].use = "closeFrontend",
           frontend' = frontend \/ frontend'.life = "Quarantined",
           FixedLease' => FixedLease \/ frontend.life = "Live",
           Assigned' => Assigned \/ Assigning(pc[t], call[t]),
           Assigning(p, c) => frontend.life = "Live",
           PowerGone(p, c) => PowerGone(pc[t], call[t]) \/ ~FixedLease',
           PastGate(p, c) => \/ PastGate(pc[t], call[t])
                             \/ gate = t,
           RelationGone(p, c) => RelationGone(pc[t], call[t]) \/ ~Assigned'
    PROVE  CloseInv'
<1>1. /\ pc'[t] = p /\ call'[t] = c
      /\ \A u \in Threads \ {t} : pc'[u] = pc[u] /\ call'[u] = call[u]
  BY ZenonT(30), MovedTo DEF LnbInv
<1>2. \A u \in Threads : call'[u].use = "closeFrontend" => call[u].use = "closeFrontend"
  BY ZenonT(30), <1>1
<1>3. \A u \in Threads : Assigning(pc[u], call[u])' => Assigning(pc[u], call[u]) \/ frontend.life = "Live"
  BY <1>1 DEF Assigning
<1>4. \A u \in Threads : call'[u].use = "closeFrontend" =>
         frontend.life \in {"Closing", "Quarantined"} /\ frontend'.life \in {"Closing", "Quarantined"}
  BY ZenonT(30), <1>2 DEF CloseInv
<1>5. ASSUME NEW u \in Threads, PowerGone(pc[u], call[u])' PROVE ~FixedLease'
  <2>1. frontend.life # "Live" BY ZenonT(30), <1>4, <1>5 DEF PowerGone
  <2>2. CASE u = t BY ZenonT(30), <1>1, <1>5, <2>1, <2>2 DEF CloseInv, PowerGone
  <2>3. CASE u # t BY ZenonT(30), <1>1, <1>5, <2>1, <2>3 DEF CloseInv, PowerGone
  <2> QED BY ZenonT(30), <2>2, <2>3
<1>6. ASSUME NEW u \in Threads, NEW w \in Threads, PastGate(pc[u], call[u])'
      PROVE  ~Assigning(pc[w], call[w])'
  <2>1. frontend.life # "Live" BY <1>4, <1>6 DEF PastGate
  <2>2. CASE u # t BY ZenonT(30), <1>1, <1>3, <1>6, <2>1, <2>2 DEF CloseInv, PastGate
  <2>3. CASE u = t
    <3>1. CASE PastGate(pc[t], call[t]) BY ZenonT(30), <1>3, <2>1, <3>1 DEF CloseInv
    <3>2. CASE gate = t
      <4>1. ASSUME w # t PROVE ~Assigning(pc[w], call[w])
        BY ZenonT(30), <3>2, <4>1 DEF LnbInv, GateExclusive, Assigning, InTxn
      <4>2. pc'[t] # "finish" BY <1>6, <2>3 DEF PastGate
      <4> QED BY <1>1, <1>3, <2>1, <4>1, <4>2 DEF Assigning
    <3> QED BY ZenonT(30), <1>1, <1>6, <2>3, <3>1, <3>2 DEF PastGate
  <2> QED BY <2>2, <2>3
<1>7. ASSUME NEW u \in Threads, RelationGone(pc[u], call[u])' PROVE ~Assigned'
  <2>1. CASE u # t
    <3>1. RelationGone(pc[u], call[u]) /\ PastGate(pc[u], call[u])
      BY ZenonT(30), <1>1, <1>7, <2>1 DEF RelationGone, PastGate
    <3> QED BY ZenonT(30), <3>1 DEF CloseInv
  <2>2. CASE u = t
    <3>1. CASE RelationGone(pc[t], call[t])
      <4>1. PastGate(pc[t], call[t]) BY <3>1 DEF RelationGone, PastGate
      <4> QED BY ZenonT(30), <3>1, <4>1 DEF CloseInv
    <3> QED BY ZenonT(30), <1>1, <1>7, <2>2, <3>1 DEF RelationGone
  <2> QED BY <2>1, <2>2
<1>8. ASSUME frontend'.life = "Closed"
      PROVE  ~FixedLease' /\ ~Assigned' /\ \A u \in Threads : ~Assigning(pc[u], call[u])'
  <2>1. frontend.life = "Closed" BY ZenonT(30), <1>8
  <2> QED BY ZenonT(30), <1>3, <2>1 DEF CloseInv
<1> QED BY ZenonT(30), <1>2, <1>4, <1>5, <1>6, <1>7, <1>8 DEF CloseInv

\* A step of no thread that closes nothing.
LEMMA CloseStay ==
    ASSUME CloseInv, UNCHANGED <<pc, call, leases>>,
           \/ frontend' = frontend
           \/ frontend'.life = "Quarantined"
           \/ frontend.life = "Closed" /\ frontend'.life = "Live"
    PROVE  CloseInv'
BY DEF CloseInv, PowerGone, PastGate, RelationGone, Assigning, FixedLease, Assigned

\* The steps that no closing frontend depends on.
LEMMA CloseSimpleSteps ==
    ASSUME LnbInv, CloseInv, NEW t \in Threads,
           \/ AcquireGate(t) \/ Backend(t) \/ PrepareControl(t) \/ FinishControl(t)
           \/ PrepareAssign(t) \/ FinishAssign(t)
    PROVE  CloseInv'
<1> USE DEF registryVars, objectVars
<1>1. Typed /\ call[t] \in Calls /\ call \in [Threads -> Calls] BY HolderFacts
<1>2. ASSUME NEW p \in {"prepare", "idle"}, NEW c \in Calls, Moved(t, p, c),
             UNCHANGED <<frontend, leases>>, c.use \in {"none", call[t].use}
      PROVE  CloseInv'
  BY ZenonT(30), <1>2, CloseMove DEF Steps, PowerGone, PastGate, RelationGone, Assigning, FixedLease, Assigned
<1>3. CASE AcquireGate(t)
  <2>1. Moved(t, "prepare", call[t]) BY <1>1, <1>3 DEF AcquireGate, Goto, Moved
  <2> QED BY <1>1, <1>2, <1>3, <2>1 DEF AcquireGate
<1>4. CASE Backend(t)
  <2>1. PICK o \in Outcomes : call' = [call EXCEPT ![t].outcome = o] BY ZenonT(30), <1>4 DEF Backend
  <2>2. PICK c \in Calls : Moved(t, "finish", c) /\ c.use = call[t].use /\ c.txn = call[t].txn
    <3> DEFINE c == [call[t] EXCEPT !.outcome = o]
    <3>1. c \in Calls /\ c.use = call[t].use /\ c.txn = call[t].txn
      BY <1>1, OutcomesAssumption DEF Calls
    <3>2. Moved(t, "finish", c) BY ZenonT(30), <1>1, <1>4, <2>1 DEF Backend, Goto, Moved
    <3> HIDE DEF c
    <3> QED BY ZenonT(30), <3>1, <3>2
  <2>3. pc[t] = "backend" /\ UNCHANGED <<frontend, leases>> BY <1>4 DEF Backend
  <2>4. call[t].txn # "assign" BY ZenonT(30), <2>3, HolderFacts DEF TxnFacts, Applies
  <2> QED BY ZenonT(30), <2>2, <2>3, <2>4, CloseMove
          DEF Steps, PowerGone, PastGate, RelationGone, Assigning, FixedLease, Assigned
<1>5. CASE PrepareControl(t)
  <2>1. call[t].txn = "control" /\ UNCHANGED <<frontend, leases>> BY <1>5 DEF PrepareControl
  <2>2. CASE Return(t) BY ZenonT(30), <1>2, <2>1, <2>2, ReturnMoves, NoCallTyped
  <2>3. CASE ~Return(t)
    <3>1. PICK v \in Profile :
             Goto(t, "backend") /\ call' = [call EXCEPT ![t].target = v, ![t].gen = lnb.generation]
      BY <1>5, <2>3 DEF PrepareControl
    <3>2. PICK c \in Calls : Moved(t, "backend", c) /\ c.use = call[t].use /\ c.txn = "control"
      <4> DEFINE c == [call[t] EXCEPT !.target = v, !.gen = lnb.generation]
      <4>1. c \in Calls /\ c.use = call[t].use /\ c.txn = "control"
        BY ZenonT(30), <1>1, <2>1, HolderFacts DEF Calls
      <4>2. Moved(t, "backend", c) BY ZenonT(30), <1>1, <3>1 DEF Goto, Moved
      <4> HIDE DEF c
      <4> QED BY ZenonT(30), <4>1, <4>2
    <3> QED BY ZenonT(30), <2>1, <3>2, CloseMove
            DEF Steps, PowerGone, PastGate, RelationGone, Assigning, FixedLease, Assigned
  <2> QED BY <2>2, <2>3
<1>6. CASE FinishControl(t)
  BY ZenonT(30), <1>2, <1>6, ReturnMoves, NoCallTyped DEF FinishControl
<1>7. CASE PrepareAssign(t)
  <2>1. call[t].txn = "assign" /\ UNCHANGED <<frontend, leases>> BY ZenonT(30), <1>7 DEF PrepareAssign
  <2>2. CASE Return(t) BY ZenonT(30), <1>2, <2>1, <2>2, ReturnMoves, NoCallTyped
  <2>3. CASE ~Return(t)
    <3>1. Goto(t, "finish") /\ call' = call /\ frontend.life = "Live"
      BY <1>7, <2>3, Zenon DEF PrepareAssign, FrontendLive
    <3>2. Moved(t, "finish", call[t]) BY <1>1, <3>1 DEF Goto, Moved
    <3> QED BY <1>1, <2>1, <3>1, <3>2, CloseMove
            DEF Steps, PowerGone, PastGate, RelationGone, Assigning, FixedLease, Assigned
  <2> QED BY <2>2, <2>3
<1>8. CASE FinishAssign(t)
  <2>1. /\ Return(t) /\ UNCHANGED frontend /\ leases' = leases \cup {"assignment"}
        /\ Assigning(pc[t], call[t])
    BY <1>8 DEF FinishAssign, Assigning
  <2> QED BY ZenonT(30), <2>1, ReturnMoves, NoCallTyped, CloseMove
          DEF Steps, PowerGone, PastGate, RelationGone, Assigning, FixedLease, Assigned
<1> QED BY <1>3, <1>4, <1>5, <1>6, <1>7, <1>8

\* The steps of LNB objects and a closing frontend.
LEMMA CloseLnbSteps ==
    ASSUME LnbInv, CloseInv, NEW t \in Threads,
           \/ StartOwnerLoss(t) \/ PrepareClose(t) \/ FinishLnbClose(t) \/ DropRelation(t)
    PROVE  CloseInv'
<1> USE DEF registryVars, objectVars
<1>1. Typed /\ call[t] \in Calls /\ call \in [Threads -> Calls] BY HolderFacts
<1>2. CASE StartOwnerLoss(t)
  <2>1. PICK c \in Calls : Moved(t, "gate", c) /\ c.use = call[t].use
    <3> DEFINE c == [call[t] EXCEPT !.txn = "close"]
    <3>1. c \in Calls /\ c.use = call[t].use BY <1>1 DEF Calls, Txns
    <3>2. Moved(t, "gate", c) BY <1>1, <1>2 DEF StartOwnerLoss, Goto, Moved
    <3> HIDE DEF c
    <3> QED BY <3>1, <3>2
  <2> QED BY <1>2, <2>1, CloseMove
          DEF StartOwnerLoss, Steps, PowerGone, PastGate, RelationGone, Assigning, FixedLease, Assigned
<1>3. ASSUME CloseFailed(t), UNCHANGED <<frontend, leases>> PROVE CloseInv'
  <2>1. "complete" \in Steps BY DEF Steps
  <2>2. PICK c \in Calls : Moved(t, "complete", c) /\ c.use = call[t].use /\ ~c.ok
    BY ZenonT(30), <1>1, <1>3, <2>1, EndTxnMoves DEF CloseFailed
  <2> QED BY <1>3, <2>1, <2>2, CloseMove
          DEF PowerGone, PastGate, RelationGone, Assigning, FixedLease, Assigned
<1>4. CASE PrepareClose(t)
  <2>1. call[t].txn = "close" /\ UNCHANGED <<frontend, leases>> BY <1>4 DEF PrepareClose
  <2>2. CASE CloseFailed(t) BY ZenonT(30), <1>3, <2>1, <2>2
  <2>3. CASE ~CloseFailed(t)
    <3>1. /\ ~FixedLease
          /\ Goto(t, IF lnb.state = "Closed" THEN "finish" ELSE "backend")
          /\ call' = [call EXCEPT ![t].target = "None", ![t].gen = lnb.generation,
                                  ![t].closed = lnb.state = "Closed"]
      BY <1>4, <2>3 DEF PrepareClose, CloseRefused
    <3>2. PICK p \in {"finish", "backend"}, c \in Calls :
             Moved(t, p, c) /\ c.use = call[t].use /\ c.txn = "close"
      <4> DEFINE c == [call[t] EXCEPT !.target = "None", !.gen = lnb.generation,
                                      !.closed = lnb.state = "Closed"]
                 p == IF lnb.state = "Closed" THEN "finish" ELSE "backend"
      <4>1. c \in Calls /\ c.txn = "close" /\ c.use = call[t].use
        BY ZenonT(30), <1>1, <2>1, HolderFacts, ProfileAssumption DEF Calls
      <4>2. Moved(t, p, c) BY ZenonT(30), <1>1, <3>1 DEF Goto, Moved
      <4>3. p \in {"finish", "backend"} OBVIOUS
      <4> HIDE DEF c
      <4> QED BY <4>1, <4>2, <4>3
    <3> QED BY <2>1, <3>1, <3>2, CloseMove
            DEF Steps, PowerGone, PastGate, RelationGone, Assigning, FixedLease, Assigned
  <2> QED BY <2>2, <2>3
<1>5. CASE FinishLnbClose(t)
  <2>1. /\ pc[t] = "finish" /\ gate = t /\ call[t].txn = "close" /\ UNCHANGED <<frontend, leases>>
    BY ZenonT(30), <1>5, HolderFacts DEF FinishLnbClose, InTxn
  <2>2. CASE CloseFailed(t) BY <1>3, <2>1, <2>2
  <2>3. CASE ~CloseFailed(t)
    <3>1. EndTxn(t, "dropRelation", FALSE, call[t].ok) BY <1>5, <2>3, Zenon DEF FinishLnbClose
    <3>2. call[t].ok \in BOOLEAN /\ "dropRelation" \in Steps BY <1>1 DEF Calls, Steps
    <3>3. PICK c \in Calls : Moved(t, "dropRelation", c) /\ c.use = call[t].use
      BY ZenonT(30), <1>1, <3>1, <3>2, EndTxnMoves
    <3> QED BY <2>1, <3>2, <3>3, CloseMove
            DEF PowerGone, PastGate, RelationGone, Assigning, FixedLease, Assigned
  <2> QED BY <2>2, <2>3
<1>6. CASE DropRelation(t)
  <2>1. Moved(t, "complete", call[t]) BY <1>1, <1>6 DEF DropRelation, Goto, Moved
  <2>2. pc[t] = "dropRelation" /\ frontend' = frontend /\ leases' = leases \ {"assignment"}
    BY <1>6 DEF DropRelation, ReleaseLnbAssignment
  <2> QED BY <1>1, <2>1, <2>2, CloseMove
          DEF Steps, PowerGone, PastGate, RelationGone, Assigning, FixedLease, Assigned
<1> QED BY <1>2, <1>4, <1>5, <1>6

\* The begin of a close and the gate.
LEMMA CloseBeginSteps ==
    ASSUME LnbInv, CloseInv, NEW t \in Threads,
           \/ PrepareEnsure(t) \/ FinishEnsure(t) \/ FenceOperation(t) \/ CommitOperation(t)
    PROVE  CloseInv'
<1> USE DEF registryVars, objectVars
<1>1. Typed /\ call[t] \in Calls /\ call \in [Threads -> Calls] BY HolderFacts
<1>2. ASSUME NEW p \in {"idle", "fence", "commit", "release"}, NEW c \in Calls, Moved(t, p, c),
             c.use \in {"none", call[t].use},
             frontend' = frontend \/ frontend'.life = "Quarantined",
             FixedLease' => FixedLease \/ frontend.life = "Live", Assigned' => Assigned
      PROVE  CloseInv'
  BY ZenonT(30), <1>2, CloseMove DEF Steps, PowerGone, PastGate, RelationGone, Assigning
<1>3. CASE PrepareEnsure(t)
  <2>1. /\ call[t].txn = "ensure" /\ frontend' = frontend
        /\ FixedLease' => FixedLease \/ frontend.life = "Live"
        /\ Assigned' => Assigned
    <3>1. leases' = leases \/ (FrontendLive(t) /\ RetainFixedPowerLease)
      BY <1>3, ZenonT(60) DEF PrepareEnsure
    <3> QED BY <1>3, <3>1 DEF PrepareEnsure, RetainFixedPowerLease, FixedLease, Assigned, FrontendLive
  <2>2. CASE Return(t) BY ZenonT(30), <1>2, <2>1, <2>2, ReturnMoves, NoCallTyped
  <2>3. CASE EndTxn(t, "fence", ~FixedLease, TRUE)
    <3> DEFINE b == ~FixedLease
    <3>1. EndTxn(t, "fence", b, TRUE) /\ b \in BOOLEAN /\ "fence" \in Steps BY ZenonT(30), <2>3 DEF Steps
    <3> HIDE DEF b
    <3>2. PICK c \in Calls : Moved(t, "fence", c) /\ c.use = call[t].use
      BY ZenonT(30), <1>1, <3>1, EndTxnMoves
    <3> QED BY ZenonT(30), <1>2, <2>1, <3>2
  <2>4. CASE ~Return(t) /\ ~EndTxn(t, "fence", ~FixedLease, TRUE)
    <3>1. PICK g \in 0..MaxGeneration, b \in BOOLEAN :
             /\ Goto(t, "backend")
             /\ call' = [call EXCEPT ![t].target = "15V", ![t].gen = g, ![t].newly = b]
      <4> DEFINE opened  == IF lnb.state = "Closed" THEN Reopen(lnb) ELSE lnb
      <4>1. opened.generation \in 0..MaxGeneration BY ZenonT(30), HolderFacts, ReopenFacts
      <4>2. /\ Goto(t, "backend")
            /\ call' = [call EXCEPT ![t].target = "15V", ![t].gen = opened.generation,
                                    ![t].newly = ~FixedLease]
        BY <1>3, <2>4, Zenon DEF PrepareEnsure
      <4> QED BY ZenonT(30), <4>1, <4>2
    <3>2. PICK c \in Calls : Moved(t, "backend", c) /\ c.use = call[t].use /\ c.txn = "ensure"
      <4> DEFINE c == [call[t] EXCEPT !.target = "15V", !.gen = g, !.newly = b]
      <4>1. Moved(t, "backend", c) BY ZenonT(30), <1>1, <3>1 DEF Goto, Moved
      <4>2. c \in Calls /\ c.use = call[t].use /\ c.txn = "ensure"
        BY ZenonT(30), <1>1, <2>1, ProfileAssumption DEF Calls
      <4> HIDE DEF c
      <4> QED BY <4>1, <4>2
    <3> QED BY ZenonT(30), <2>1, <3>2, CloseMove DEF Steps, PowerGone, PastGate, RelationGone, Assigning
  <2> QED BY ZenonT(30), <2>2, <2>3, <2>4
<1>4. CASE FinishEnsure(t)
  <2>1. frontend' = frontend /\ (FixedLease' => FixedLease) /\ (Assigned' => Assigned)
    BY <1>4, Zenon DEF FinishEnsure, RollbackNewLease, ReleaseFixedPowerLease, FixedLease, Assigned
  <2>2. CASE Return(t) BY ZenonT(30), <1>2, <2>1, <2>2, ReturnMoves, NoCallTyped
  <2>3. CASE ~Return(t)
    <3>1. EndTxn(t, "fence", call[t].newly, TRUE) BY <1>4, <2>3, Zenon DEF FinishEnsure
    <3>2. call[t].newly \in BOOLEAN /\ "fence" \in Steps BY <1>1 DEF Calls, Steps
    <3>3. PICK c \in Calls : Moved(t, "fence", c) /\ c.use = call[t].use
      BY ZenonT(30), <1>1, <3>1, <3>2, EndTxnMoves
    <3> QED BY ZenonT(30), <1>2, <2>1, <3>3
  <2> QED BY <2>2, <2>3
<1>5. ASSUME BeginFailed(t), leases' = leases, frontend' = frontend \/ frontend'.life = "Quarantined"
      PROVE  CloseInv'
  <2>1. PICK p \in {"idle", "release"}, c \in Calls : Moved(t, p, c) /\ c.use \in {"none", call[t].use}
    BY <1>1, <1>5, BeginFailedMoves
  <2> QED BY <1>2, <1>5, <2>1 DEF FixedLease, Assigned
<1>6. CASE FenceOperation(t)
  <2>1. leases' = leases BY <1>6 DEF FenceOperation
  <2>2. frontend' = frontend \/ frontend' = [frontend EXCEPT !.life = "Quarantined"]
    BY <1>6, Zenon DEF FenceOperation
  <2>3. frontend' = frontend \/ frontend'.life = "Quarantined" BY <2>2, <1>1 DEF Typed
  <2>4. CASE BeginFailed(t) BY <1>5, <2>1, <2>3, <2>4
  <2>5. CASE ~BeginFailed(t)
    <3>1. Goto(t, "commit") /\ call' = call BY <1>6, <2>5, Zenon DEF FenceOperation
    <3>2. Moved(t, "commit", call[t]) BY <1>1, <3>1 DEF Goto, Moved
    <3> QED BY <1>1, <1>2, <2>1, <2>3, <3>2 DEF FixedLease, Assigned
  <2> QED BY <2>4, <2>5
<1>7. CASE CommitOperation(t)
  <2>1. UNCHANGED <<leases, frontend>> BY <1>7 DEF CommitOperation
  <2>2. CASE BeginFailed(t) BY <1>5, <2>1, <2>2
  <2>3. CASE ~BeginFailed(t)
    <3>1. Return(t) BY <1>7, <2>3, Zenon DEF CommitOperation
    <3> QED BY ZenonT(30), <1>2, <2>1, <3>1, ReturnMoves, NoCallTyped DEF FixedLease, Assigned
  <2> QED BY <2>2, <2>3
<1> QED BY <1>3, <1>4, <1>6, <1>7

\* The releases of a closing frontend.
LEMMA CloseReleaseSteps ==
    ASSUME LnbInv, CloseInv, NEW t \in Threads,
           \/ StartRelease(t) \/ PrepareRelease(t) \/ FinishRelease(t) \/ CloseWorkers(t)
    PROVE  CloseInv'
<1> USE DEF registryVars, objectVars
<1>1. Typed /\ call[t] \in Calls /\ call \in [Threads -> Calls] BY HolderFacts
<1>2. ASSUME NEW p \in {"idle", "gate", "ownerLoss", "release", "relock"}, NEW c \in Calls,
             Moved(t, p, c), c.use \in {"none", call[t].use}, frontend' = frontend,
             FixedLease' => FixedLease, Assigned' => Assigned
      PROVE  CloseInv'
  BY ZenonT(30), <1>2, CloseMove DEF Steps, PowerGone, PastGate, RelationGone, Assigning
<1>3. CASE StartRelease(t)
  <2>1. PICK p \in {"gate", "ownerLoss", "idle"}, c \in Calls :
           Moved(t, p, c) /\ c.use \in {"none", call[t].use}
    <3> DEFINE c == [call[t] EXCEPT !.txn = "release"]
    <3>1. c \in Calls /\ c.use = call[t].use BY <1>1 DEF Calls, Txns
    <3>2. Moved(t, "gate", c) \/ Moved(t, "ownerLoss", call[t]) \/ Moved(t, "idle", NoCall)
      BY <1>1, <1>3 DEF StartRelease, Goto, Moved
    <3> HIDE DEF c
    <3> QED BY <1>1, <3>1, <3>2, NoCallTyped
  <2> QED BY <1>2, <1>3, <2>1 DEF StartRelease, FixedLease, Assigned
<1>4. CASE CloseWorkers(t)
  <2>1. PICK p \in {"ownerLoss", "release"}, c \in Calls : Moved(t, p, c) /\ c.use = call[t].use
    <3> DEFINE c == [call[t] EXCEPT !.ok = FALSE]
    <3>1. c \in Calls /\ c.use = call[t].use BY ZenonT(30), <1>1 DEF Calls
    <3>2. Moved(t, "ownerLoss", c) \/ Moved(t, "release", call[t])
      BY <1>1, <1>4 DEF CloseWorkers, Goto, Moved
    <3> HIDE DEF c
    <3> QED BY <1>1, <3>1, <3>2
  <2> QED BY <1>2, <1>4, <2>1 DEF CloseWorkers, FixedLease, Assigned
<1>5. ASSUME NEW ok \in BOOLEAN, AfterRelease(t, ok), gate = t, frontend' = frontend,
             FixedLease' => FixedLease, Assigned' => Assigned
      PROVE  CloseInv'
  <2>1. PICK p \in {"idle", "ownerLoss"}, c \in Calls :
              /\ Moved(t, p, c)
              /\ p = "ownerLoss" => call[t].use = "closeFrontend" /\ c.use = call[t].use
              /\ p = "idle" => c = NoCall /\ call[t].use # "closeFrontend"
    BY <1>1, <1>5, AfterReleaseMoves
  <2>2. c.use \in {"none", call[t].use} BY <2>1, NoCallTyped
  <2> QED BY <1>2, <1>5, <2>1, <2>2
<1>6. CASE PrepareRelease(t)
  <2>1. gate = t /\ call[t].txn = "release" /\ frontend' = frontend
    BY <1>6, HolderFacts DEF PrepareRelease, InTxn
  <2>2. (FixedLease' => FixedLease) /\ (Assigned' => Assigned)
    BY <1>6, Zenon DEF PrepareRelease, ReleaseFixedPowerLease, FixedLease, Assigned
  <2>3. CASE AfterRelease(t, TRUE) BY ZenonT(30), <1>5, <2>1, <2>2, <2>3
  <2>4. CASE AfterRelease(t, FALSE) BY ZenonT(30), <1>5, <2>1, <2>2, <2>4
  <2>5. CASE ~AfterRelease(t, TRUE) /\ ~AfterRelease(t, FALSE)
    <3>1. /\ Goto(t, "backend")
          /\ call' = [call EXCEPT ![t].target = "None", ![t].gen = lnb.generation]
      BY <1>6, <2>5, Zenon DEF PrepareRelease
    <3>2. PICK c \in Calls : Moved(t, "backend", c) /\ c.use = call[t].use /\ c.txn = "release"
      <4> DEFINE c == [call[t] EXCEPT !.target = "None", !.gen = lnb.generation]
      <4>1. c \in Calls /\ c.use = call[t].use /\ c.txn = "release"
        BY ZenonT(30), <1>1, <2>1, HolderFacts, ProfileAssumption DEF Calls
      <4>2. Moved(t, "backend", c) BY ZenonT(30), <1>1, <3>1 DEF Goto, Moved
      <4> HIDE DEF c
      <4> QED BY ZenonT(30), <4>1, <4>2
    <3> QED BY ZenonT(30), <2>1, <2>2, <3>2, CloseMove DEF Steps, PowerGone, PastGate, RelationGone, Assigning
  <2> QED BY ZenonT(30), <2>3, <2>4, <2>5
<1>7. CASE FinishRelease(t)
  <2>1. pc[t] = "finish" /\ gate = t /\ UNCHANGED <<leases, frontend>>
    BY ZenonT(30), <1>7, HolderFacts DEF FinishRelease, InTxn
  <2>2. CASE AfterRelease(t, TRUE) BY ZenonT(30), <1>5, <2>1, <2>2 DEF FixedLease, Assigned
  <2>3. CASE ~AfterRelease(t, TRUE)
    <3>1. Goto(t, "relock") /\ call' = call BY <1>7, <2>3, Zenon DEF FinishRelease
    <3>2. Moved(t, "relock", call[t]) BY <1>1, <3>1 DEF Goto, Moved
    <3> QED BY <1>1, <1>2, <2>1, <3>2 DEF FixedLease, Assigned
  <2> QED BY ZenonT(30), <2>2, <2>3
<1> QED BY <1>3, <1>4, <1>6, <1>7

\* The attempt to close the frontend ends, or the one to close the endpoint.
LEMMA CloseComplete == ASSUME LnbInv, CloseInv, NEW t \in Threads, Complete(t) PROVE CloseInv'
<1> USE DEF registryVars, objectVars
<1>1. Moved(t, "idle", NoCall) /\ leases' = leases /\ pc[t] = "complete"
  BY ReturnMoves DEF Complete
<1>2. CASE ~(call[t].use = "closeFrontend" /\ frontend.life = "Closing")
  <2>1. frontend' = frontend BY <1>2 DEF Complete
  <2> QED BY ZenonT(30), <1>1, <2>1, NoCallTyped, CloseMove
          DEF Steps, PowerGone, PastGate, RelationGone, Assigning, FixedLease, Assigned
<1>3. CASE call[t].use = "closeFrontend" /\ frontend.life = "Closing"
  <2>1. frontend'.life = IF call[t].ok THEN "Closed" ELSE "CleanupPending"
    BY <1>3 DEF Complete, LnbInv, Typed
  <2>2. /\ pc'[t] = "idle" /\ call'[t] = NoCall
        /\ \A u \in Threads \ {t} : pc'[u] = pc[u] /\ call'[u] = call[u]
    BY ZenonT(30), <1>1, NoCallTyped, MovedTo DEF LnbInv, Steps
  <2>3. \A u \in Threads : call'[u].use # "closeFrontend"
    BY ZenonT(30), <1>3, <2>2, NoCallTyped DEF CloseInv
  <2>4. ASSUME call[t].ok
        PROVE  ~FixedLease /\ ~Assigned /\ \A u \in Threads : ~Assigning(pc[u], call[u])
    BY ZenonT(30), <1>1, <1>3, <2>4 DEF CloseInv, PowerGone, PastGate, RelationGone
  <2>5. ASSUME call[t].ok
        PROVE  ~FixedLease' /\ ~Assigned' /\ \A u \in Threads : ~Assigning(pc[u], call[u])'
    BY <1>1, <2>2, <2>4, <2>5 DEF Assigning, FixedLease, Assigned
  <2> QED BY ZenonT(30), <2>1, <2>3, <2>5 DEF CloseInv, PowerGone, PastGate, RelationGone
<1> QED BY <1>2, <1>3

\* The start of a use case and a closing frontend.
LEMMA CloseStarts == ASSUME LnbInv, CloseInv, NEW t \in Threads, StartUseCase(t) PROVE CloseInv'
<1> USE DEF registryVars, objectVars
<1>1. Typed /\ call[t] \in Calls /\ call \in [Threads -> Calls]
      /\ frontend.inc \in Nat /\ endpoint.inc \in Nat
  BY HolderFacts
<1>2. ASSUME NEW use \in Uses, NEW txn \in Txns, NEW inc \in Nat, NEW p \in {"gate", "release"},
             Start(t, use, txn, inc, p), use # "closeFrontend", UNCHANGED <<leases, frontend>>
      PROVE  CloseInv'
  <2>1. p \in Steps BY DEF Steps
  <2>2. PICK c \in Calls : Moved(t, p, c) /\ c.use = use BY <1>1, <1>2, StartMoves
  <2> QED BY <1>2, <2>1, <2>2, CloseMove
          DEF PowerGone, PastGate, RelationGone, Assigning, FixedLease, Assigned
<1>3. CASE StartRollbackOpen(t) BY <1>1, <1>2, <1>3 DEF StartRollbackOpen, Uses, Txns
<1>4. CASE StartCloseLnb(t) BY <1>1, <1>2, <1>4 DEF StartCloseLnb, Uses, Txns
<1>5. CASE StartControl(t) BY <1>1, <1>2, <1>5 DEF StartControl, Uses, Txns
<1>6. CASE StartSetLnb(t) BY <1>1, <1>2, <1>6 DEF StartSetLnb, Uses, Txns
<1>7. CASE StartBegin(t) BY <1>1, <1>2, <1>7 DEF StartBegin, Uses, Txns
<1>8. CASE WorkerTerminal(t) BY <1>1, <1>2, <1>8 DEF WorkerTerminal, Uses, Txns
<1>9. CASE ReapClosedWorkers(t) BY <1>1, <1>2, <1>9 DEF ReapClosedWorkers, Uses, Txns
<1>10. CASE StartCloseFrontend(t)
  <2>1. /\ Start(t, "closeFrontend", "none", frontend.inc, "closeWorkers") /\ leases' = leases
        /\ frontend.life \in {"Live", "CleanupPending"} /\ frontend'.life = "Closing"
    BY <1>1, <1>10 DEF StartCloseFrontend, Typed
  <2>2. PICK c \in Calls : Moved(t, "closeWorkers", c)
    BY <1>1, <2>1, StartMoves DEF Uses, Txns
  <2>3. /\ pc'[t] = "closeWorkers"
        /\ \A u \in Threads \ {t} : pc'[u] = pc[u] /\ call'[u] = call[u]
    BY <1>1, <2>2, MovedTo DEF Steps
  <2>4. \A u \in Threads : call[u].use # "closeFrontend" BY ZenonT(30), <2>1 DEF CloseInv
  <2> QED BY ZenonT(30), <2>1, <2>3, <2>4 DEF CloseInv, PowerGone, PastGate, RelationGone, Assigning
<1> QED BY <1>3, <1>4, <1>5, <1>6, <1>7, <1>8, <1>9, <1>10 DEF StartUseCase

\* Every step keeps what a closing frontend relies on.
LEMMA CloseStep == ASSUME LnbInv, CloseInv, [Next]_vars PROVE CloseInv'
<1> USE DEF registryVars, objectVars
<1>1. ASSUME NEW t \in Threads, ThreadStep(t) PROVE CloseInv'
  BY <1>1, CloseSimpleSteps, CloseLnbSteps, CloseBeginSteps, CloseReleaseSteps, CloseComplete, Zenon
  DEF ThreadStep
<1>2. CASE OpenFrontend BY <1>2, CloseStay DEF OpenFrontend
<1>3. CASE QuarantineFrontend BY <1>3, CloseStay DEF QuarantineFrontend, LnbInv, Typed
<1>4. CASE OpenLnb \/ QuarantineLnb \/ StopOperation \/ ReapStoppedWorkers \/ UNCHANGED vars
  BY <1>4, CloseStay DEF OpenLnb, QuarantineLnb, StopOperation, ReapStoppedWorkers, vars
<1>5. CASE \E b \in BOOLEAN : SetCallback(b) BY <1>5, CloseStay DEF SetCallback
<1> QED BY <1>1, <1>2, <1>3, <1>4, <1>5, CloseStarts DEF Next

\* The registry, the rail and the frontend agree on who powers what.
THEOREM RailAccountedFor == Spec => []RailAccounted
<1>1. Init => LnbInv /\ CloseInv
  <2> SUFFICES ASSUME Init PROVE LnbInv /\ CloseInv OBVIOUS
  <2>1. CloseInv
    BY NoCallTyped DEF Init, CloseInv, PowerGone, PastGate, RelationGone, Assigning, FixedLease, Assigned
  <2> QED BY <2>1, LnbInit
<1>2. (LnbInv /\ CloseInv) /\ [Next]_vars => (LnbInv /\ CloseInv)' BY LnbStep, CloseStep
<1>3. LnbInv /\ CloseInv => RailAccounted
  BY DEF LnbInv, CloseInv, RailAccounted, ClosedFrontendHoldsNoRail
<1> QED BY <1>1, <1>2, <1>3, PTL DEF Spec
=============================================================================
