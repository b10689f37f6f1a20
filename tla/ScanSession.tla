----------------------------- MODULE ScanSession -----------------------------
(***************************************************************************)
(* ChannelScanController.kt over a TunerController of its own: the scan    *)
(* thread goes from candidate to candidate, finds the streams of a BS      *)
(* transponder, collects service information and publishes it.  The        *)
(* framework may take the tuner away at any moment; ResourceLossFence      *)
(* keeps what is published apart from what was lost.                       *)
(***************************************************************************)
EXTENDS TunerControl, Sequences

CONSTANTS MaxCand, MaxLoss

VARIABLES
  ctl,          \* the controller
  scan,         \* the scan thread
  fence,        \* ResourceLossFence
  notice,       \* the loss callback the controller executor is delivering
  told,         \* generations reported lost, in order
  losses        \* resource losses so far

scanVars == <<ctl, scan, fence, notice, told, losses>>

ScanInit ==
  /\ ctl = NewController
  /\ scan = [at |-> "next", gen |-> 0, left |-> MaxCand, bs |-> FALSE, cancelled |-> FALSE,
             completed |-> FALSE, ready |-> FALSE, failed |-> FALSE]
  /\ fence = [active |-> 0, lost |-> 0, terminal |-> FALSE]
  /\ notice = None
  /\ told = <<>>
  /\ losses = 0

-----------------------------------------------------------------------------
(* ResourceLossFence                                                       *)

IsLost(g) == fence.lost = g
Locked == scan.at = "publishing" \/ (notice # None /\ notice.checked)

\* onLost, first half, on the controller executor: take the lock, look at the
\* active generation.
OnLostCheck ==
  /\ notice # None /\ ~notice.checked /\ ~Locked
  /\ notice' = IF fence.active \notin {0, notice.gen} THEN None ELSE [notice EXCEPT !.checked = TRUE]
  /\ UNCHANGED <<ctl, scan, fence, told, losses>>

\* onLost, second half: the active generation is read again.
OnLostSet ==
  /\ notice # None /\ notice.checked
  /\ fence' = [fence EXCEPT !.lost = notice.gen, !.terminal = @ \/ fence.active = notice.gen]
  /\ notice' = None
  /\ UNCHANGED <<ctl, scan, told, losses>>

-----------------------------------------------------------------------------
(* The controller executor: callbacks of the framework                     *)

Free == notice = None /\ ~ctl.released

ScanTunerLost(f) ==
  /\ Free /\ losses < MaxLoss /\ LossAccepted(ctl)
  /\ losses' = losses + 1
  /\ ctl' = LoseTuner(ctl, f)
  /\ notice' = [gen |-> LostGeneration(ctl), checked |-> FALSE]
  /\ told' = Append(told, LostGeneration(ctl))
  /\ UNCHANGED <<scan, fence>>

ScanCallback ==
  /\ Free /\ ctl.disc /\ Active(ctl.op)
  /\ \/ ctl' = OnInputStreamIds(ctl)
     \/ ctl' = OnScanStopped(ctl)
     \/ \E ok \in BOOLEAN : ctl' = OnLocked(ctl, ok)
  /\ UNCHANGED <<scan, fence, notice, told, losses>>

\* A section arrives: the PMT filters follow what it says.
ScanSectionIngested(f) ==
  /\ Free /\ ctl.accepted /\ \E p \in Pid : FilterOpen(ctl, p)
  /\ ~fence.terminal
  /\ \E pmt \in SUBSET Dynamic : ctl' = UpdateDynamic(ctl, pmt, {}, {}, ctl.gen, f)
  /\ UNCHANGED <<scan, fence, notice, told, losses>>

-----------------------------------------------------------------------------
(* The scan thread                                                         *)

To(at) == scan' = [scan EXCEPT !.at = at]
EndScan == scan' = [scan EXCEPT !.at = "end", !.gen = 0]

\* The head of the loop: a candidate to tune, or a BS transponder to explore.
NextCandidate ==
  /\ scan.at = "next"
  /\ IF scan.cancelled \/ fence.terminal \/ scan.left = 0 THEN EndScan
     ELSE \/ scan' = [scan EXCEPT !.at = "tune", !.left = @ - 1]
          \/ scan' = [scan EXCEPT !.at = IF scan.bs THEN "discover" ELSE "prepare", !.left = @ - 1]
  /\ UNCHANGED <<ctl, fence, notice, told, losses>>

\* prepareBsCandidateSource: the frontend of the transponders is fixed once.
PrepareBs(f) ==
  /\ scan.at = "prepare" /\ Free
  /\ ctl' = Reset(ctl, f)
  /\ \/ ~ResetFails(ctl, f) /\ scan' = [scan EXCEPT !.at = "discover", !.bs = TRUE]
     \/ EndScan
  /\ UNCHANGED <<fence, notice, told, losses>>

\* discoverIsdbsStreamIds: start, wait with a timeout, take the result.
Discover(f) ==
  /\ scan.at = "discover" /\ Free /\ ctl.gen < MaxScanGen
  /\ LET r == Reset(ctl, f) IN
     \/ ResetFails(ctl, f) /\ ctl' = r /\ EndScan
     \/ /\ ~ResetFails(ctl, f)
        /\ \E ok \in BOOLEAN : ctl' = StartDiscovery(r, ok)
        /\ To("await")
  /\ UNCHANGED <<fence, notice, told, losses>>

AwaitDiscovery ==
  /\ scan.at = "await"
  /\ scan' = [scan EXCEPT !.at = "result", !.completed = ~Active(ctl.op)]
  /\ UNCHANGED <<ctl, fence, notice, told, losses>>

\* resultWithCleanup: a failed cancel hides neither a loss nor a failed start.
DiscoveryResult(f) ==
  /\ scan.at = "result" /\ Free
  /\ LET op == IF scan.completed THEN ctl.op ELSE FinishOp(ctl.op, "timed_out")
         c == CancelDiscovery([ctl EXCEPT !.op = op], f)
         throws == ctl.disc /\ f[1] = "cancel" /\ op.outcome \notin {"lost", "start_failed"}
     IN /\ ctl' = c
        /\ scan' = IF throws THEN [scan EXCEPT !.at = "end", !.gen = 0, !.completed = FALSE]
                   ELSE [scan EXCEPT !.at = "bs_activate", !.gen = op.gen, !.completed = FALSE,
                                     !.ready = op.outcome = "stopped" /\ op.ids,
                                     !.failed = op.outcome = "lost"]
  /\ UNCHANGED <<fence, notice, told, losses>>

\* tuneForScan
Tune(f) ==
  /\ scan.at = "tune" /\ Free /\ ctl.gen < MaxScanGen
  /\ LET r == Reset(ctl, f) IN
     \/ ResetFails(ctl, f) /\ ctl' = r /\ EndScan
     \/ ~ResetFails(ctl, f) /\ ctl' = r /\ To("next")
     \/ /\ f \in {NoFault} \cup ({"open", "broken"} \X Initial)
        /\ ctl' = AcceptTune(r, f)
        /\ IF ctl'.accepted THEN scan' = [scan EXCEPT !.at = "activate", !.gen = ctl'.gen] ELSE EndScan
  /\ UNCHANGED <<fence, notice, told, losses>>

\* activate: store, then look whether the loss came first.
Activate ==
  /\ scan.at \in {"activate", "bs_activate"}
  /\ fence' = [fence EXCEPT !.active = scan.gen]
  /\ To(IF scan.at = "activate" THEN "activated" ELSE "bs_activated")
  /\ UNCHANGED <<ctl, notice, told, losses>>

ActivatedUnchecked ==
  /\ scan.at \in {"activated", "bs_activated"}
  /\ To(IF scan.at = "activated" THEN "collect" ELSE "bs_check")
  /\ UNCHANGED <<ctl, fence, notice, told, losses>>

Activated ==
  /\ scan.at \in {"activated", "bs_activated"}
  /\ fence' = [fence EXCEPT !.terminal = @ \/ IsLost(scan.gen)]
  /\ To(IF scan.at = "activated" THEN "collect" ELSE "bs_check")
  /\ UNCHANGED <<ctl, notice, told, losses>>

\* After the discovery: stop on a loss, else tune what was found.
UseDiscovery ==
  /\ scan.at = "bs_check"
  /\ \/ /\ scan.failed \/ fence.terminal
        /\ ~Locked
        /\ fence' = [fence EXCEPT !.lost = scan.gen, !.terminal = TRUE]
        /\ scan' = [scan EXCEPT !.at = "end", !.gen = 0, !.failed = FALSE, !.ready = FALSE]
     \/ /\ ~scan.failed /\ ~fence.terminal
        /\ fence' = [fence EXCEPT !.active = 0]
        /\ scan' = [scan EXCEPT !.at = IF scan.ready /\ ~scan.cancelled THEN "tune" ELSE "next",
                                !.gen = 0, !.ready = FALSE]
  /\ UNCHANGED <<ctl, notice, told, losses>>

\* collectSiForCandidate: poll, refresh the PMT filters, stop for one of the
\* reasons the policy knows, close the filters.
RefreshFilters(f) ==
  /\ scan.at = "collect" /\ Free /\ ~scan.cancelled /\ ~fence.terminal /\ ~IsLost(scan.gen)
  /\ \E pmt \in SUBSET Dynamic : ctl' = UpdateDynamic(ctl, pmt, {}, {}, ctl.gen, f)
  /\ ctl' # ctl
  /\ UNCHANGED <<scan, fence, notice, told, losses>>

CollectionEnds(f) ==
  /\ scan.at = "collect" /\ Free
  /\ ctl' = CloseFilters(ctl, f)
  /\ \E ready \in BOOLEAN :
       scan' = [scan EXCEPT !.at = "finish", !.failed = CloseFails(ctl, Pid, f), !.ready = ready]
  /\ UNCHANGED <<fence, notice, told, losses>>

\* finishCollection and mayPublishChannels
FinishCollection ==
  /\ scan.at = "finish"
  /\ IF IsLost(scan.gen)
       THEN fence' = [fence EXCEPT !.terminal = TRUE] /\ To("stop")
       ELSE /\ UNCHANGED fence
            /\ To(IF scan.failed THEN "stop"
                  ELSE IF scan.cancelled \/ ~scan.ready THEN "clear" ELSE "publish")
  /\ UNCHANGED <<ctl, notice, told, losses>>

\* publishIfCurrent, under the publication lock.
PublishBegin ==
  /\ scan.at = "publish" /\ ~Locked
  /\ IF IsLost(scan.gen) THEN fence' = [fence EXCEPT !.terminal = TRUE] /\ To("stop")
     ELSE UNCHANGED fence /\ To("publishing")
  /\ UNCHANGED <<ctl, notice, told, losses>>

PublishEnd ==
  /\ scan.at = "publishing"
  /\ To(IF fence.terminal THEN "stop" ELSE "clear")
  /\ UNCHANGED <<ctl, fence, notice, told, losses>>

\* The finally block: clearActive, then the next candidate or the end.
ClearActive ==
  /\ scan.at \in {"clear", "stop"}
  /\ fence' = [fence EXCEPT !.active = IF @ = scan.gen THEN 0 ELSE @]
  /\ scan' = [scan EXCEPT !.at = IF scan.at = "clear" THEN "next" ELSE "end",
                          !.gen = 0, !.ready = FALSE, !.failed = FALSE]
  /\ UNCHANGED <<ctl, notice, told, losses>>

\* close: tried again by the manager while something is left.
ReleaseScan(f) ==
  /\ scan.at = "end" /\ Free
  /\ ctl' = ReleaseController(ctl, f)
  /\ UNCHANGED <<scan, fence, notice, told, losses>>

CancelScan ==
  /\ ~scan.cancelled /\ scan.at # "end"
  /\ scan' = [scan EXCEPT !.cancelled = TRUE]
  /\ UNCHANGED <<ctl, fence, notice, told, losses>>

ScanThread ==
  \/ NextCandidate \/ AwaitDiscovery \/ Activate \/ Activated \/ UseDiscovery
  \/ FinishCollection \/ PublishBegin \/ PublishEnd \/ ClearActive
  \/ \E f \in Fault : \/ PrepareBs(f) \/ Discover(f) \/ DiscoveryResult(f) \/ Tune(f)
                      \/ RefreshFilters(f) \/ CollectionEnds(f) \/ ReleaseScan(f)

ScanNext ==
  \/ ScanThread \/ CancelScan \/ OnLostCheck \/ OnLostSet \/ ScanCallback
  \/ \E f \in Fault : ScanTunerLost(f) \/ ScanSectionIngested(f)

ScanSpec == ScanInit /\ [][ScanNext]_scanVars

-----------------------------------------------------------------------------
(* Properties                                                              *)

\* An accepted tune owns filters of its own generation only, a controller
\* that is released owns nothing.
ScanControllerSound == ControllerSound(ctl)

Delivered == {told[i] : i \in DOMAIN told} \ (IF notice = None THEN {} ELSE {notice.gen})

\* After the loss of a generation was delivered nothing of it is published,
\* and the scan tunes no further candidate if that generation was the active
\* one: wherever the loss falls between tune, activation, collection,
\* publication and the end of the candidate.
NothingAfterLoss ==
  /\ scan.at = "publishing" => scan.gen \notin Delivered
  /\ fence.active # 0 /\ fence.active \in Delivered /\ scan.at \notin {"activated", "bs_activated"}
       => fence.terminal
  /\ fence.terminal => scan.at \notin {"prepare", "discover", "tune"}
=============================================================================
