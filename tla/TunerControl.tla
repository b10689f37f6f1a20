---------------------------- MODULE TunerControl -----------------------------
(***************************************************************************)
(* TunerController.kt and SectionFilterPolicy.kt: one controller per       *)
(* session or scan, whose state belongs to a single executor.  Every call  *)
(* of a client and every callback of the framework is one task of that     *)
(* executor, so each is one operator from controller state to controller   *)
(* state; ScanSession is the client that uses them.                        *)
(*                                                                         *)
(* The framework fails where the code expects it to: a Fault names the     *)
(* call of the task that fails, at most one per task.                      *)
(***************************************************************************)
EXTENDS NullValue, Naturals, FiniteSets, TLC

CONSTANTS
  Initial,      \* the well-known section PIDs (PAT ... TDT)
  Dynamic,      \* PIDs announced by the stream (PMT, ECM, EMM)
  MaxScanGen        \* bound on tune generations

Pid == Initial \cup Dynamic

\* Which call of a task fails: closing, opening (nothing is left) or opening
\* and then closing a section filter; cancelling a scan; another cleanup
\* (playback, listener, CAS, caption parser).
Fault == ({"none", "cancel", "other"} \X {None}) \cup ({"close", "open", "broken"} \X Pid)
NoFault == <<"none", None>>

NoFilter == [st |-> "none", gen |-> 0]
NoScan == [gen |-> 0, outcome |-> "none", lost |-> FALSE, ids |-> FALSE, continued |-> FALSE]

NewController ==
  [gen |-> 0, accepted |-> FALSE, released |-> FALSE,
   handles |-> [p \in Pid |-> NoFilter],
   pmt |-> {}, ecm |-> {}, emm |-> {},
   op |-> NoScan, disc |-> FALSE,        \* streamIdDiscovery, if any, is op
   playing |-> 0]                        \* generation the pipeline plays

FilterOpen(c, p) == c.handles[p].st = "open"
Owned(c) == {p \in Pid : c.handles[p].st # "none"}

-----------------------------------------------------------------------------
(* Section filters                                                         *)

\* TunerSectionFilterHandle.close: a filter that does not close stays owned
\* and delivers nothing more.
CloseFilter(c, p, f) ==
  [c EXCEPT !.handles[p] =
     IF @.st = "none" THEN @
     ELSE IF f = <<"close", p>> THEN [@ EXCEPT !.st = "closing"] ELSE NoFilter]

CloseFails(c, ps, f) == \E p \in ps : f = <<"close", p>> /\ c.handles[p].st # "none"

\* closeSectionFiltersOnController
CloseFilters(c, f) ==
  LET h == [p \in Pid |-> CloseFilter(c, p, f).handles[p]]
      left == {p \in Pid : h[p].st # "none"}
  IN [c EXCEPT !.handles = h, !.pmt = @ \cap left, !.ecm = @ \cap left, !.emm = @ \cap left]

\* openOwnedFilter with createSectionFilter
OpenFilter(c, p, g, f) ==
  IF FilterOpen(c, p) \/ CloseFails(c, {p}, f) THEN c
  ELSE [c EXCEPT !.handles[p] =
          IF f = <<"open", p>> THEN NoFilter
          ELSE [st |-> IF f = <<"broken", p>> THEN "closing" ELSE "open", gen |-> g]]

OpenThrows(c, p, f) == ~FilterOpen(c, p) /\ (f = <<"broken", p>> \/ CloseFails(c, {p}, f))

\* replaceDynamicPids for one of the three sets: close what is gone, and only
\* when that succeeded open what is new, up to the first that throws.
ReplaceDynamic(c, set, next, f) ==
  LET gone == (c[set] \ next) \ Initial
      closed == [c EXCEPT !.handles = [p \in Pid |-> IF p \in gone THEN CloseFilter(c, p, f).handles[p] ELSE @[p]],
                          ![set] = {p \in @ : p \in next \/ CloseFails(c, {p}, f)}]
      missing == {p \in next : p \notin closed[set] \/ ~FilterOpen(closed, p)}
      broken == {p \in missing : OpenThrows(closed, p, f)}
      want == IF broken = {} THEN missing ELSE broken
      opened == [closed EXCEPT !.handles = [p \in Pid |-> IF p \in want THEN OpenFilter(closed, p, c.gen, f).handles[p] ELSE @[p]]]
  IN IF CloseFails(c, gone, f) THEN closed
     ELSE [opened EXCEPT ![set] = @ \cup {p \in want : FilterOpen(opened, p)}]

\* updateDynamicSectionFiltersOnController
UpdateDynamic(c, pmt, ecm, emm, g, f) ==
  IF ~c.accepted \/ g # c.gen THEN c
  ELSE ReplaceDynamic(ReplaceDynamic(ReplaceDynamic(c, "pmt", pmt, f), "ecm", ecm, f), "emm", emm, f)

-----------------------------------------------------------------------------
(* Stream-id discovery: StreamIdDiscoveryOperation                         *)

Active(op) == op.outcome = "scanning"
AcceptsLoss(op) == ~op.lost /\ op.outcome # "cancelled"
FinishOp(op, outcome) == IF Active(op) THEN [op EXCEPT !.outcome = outcome] ELSE op
LoseResources(op) == [FinishOp(op, "lost") EXCEPT !.lost = TRUE]

\* cancelStreamIdDiscoveryOnController: owned until cancelScanning succeeded.
CancelDiscovery(c, f) ==
  IF ~c.disc \/ f[1] = "cancel" THEN c
  ELSE [c EXCEPT !.op = FinishOp(@, "cancelled"), !.disc = FALSE]

OnInputStreamIds(c) == [c EXCEPT !.op.ids = @ \/ (c.disc /\ Active(c.op))]
OnScanStopped(c) == IF c.disc THEN [c EXCEPT !.op = FinishOp(@, "stopped")] ELSE c

\* continueAfterLock: the scan is asked for exactly once more.
OnLocked(c, ok) ==
  IF ~c.disc \/ ~Active(c.op) \/ c.op.continued THEN c
  ELSE [c EXCEPT !.op = [IF ok THEN @ ELSE FinishOp(@, "start_failed") EXCEPT !.continued = TRUE]]

-----------------------------------------------------------------------------
(* Tuning, loss and release                                                *)

Invalidate(c) == [c EXCEPT !.accepted = FALSE]
StopPlaying(c, f) == IF f[1] = "other" THEN c ELSE [c EXCEPT !.playing = 0]

ResetPlayback(c, f) == CancelDiscovery(StopPlaying(Invalidate(c), f), f)

\* resetBeforeTune: invalidate first, then try every cleanup.
Reset(c, f) == CancelDiscovery(CloseFilters(StopPlaying(Invalidate(c), f), f), f)
ResetFails(c, f) == f[1] = "other" \/ CloseFails(c, Pid, f) \/ (c.disc /\ f[1] = "cancel")

\* tuneResolvedChannel after a successful reset, with initializeAcceptedTune:
\* the generation is spent before the initial filters are known to be open.
Prepared(c, f) ==
  LET n == [c EXCEPT !.gen = @ + 1] IN
  [n EXCEPT !.handles = [p \in Pid |-> IF p \in Initial THEN OpenFilter(n, p, n.gen, f).handles[p] ELSE @[p]]]

AcceptTune(c, f) ==
  LET p == Prepared(c, f) IN
  IF \A i \in Initial : FilterOpen(p, i) THEN [p EXCEPT !.accepted = TRUE]
  ELSE Reset(p, IF f[1] = "broken" THEN <<"close", f[2]>> ELSE NoFault)

\* startStreamIdDiscoveryOnController after a successful reset.
StartDiscovery(c, ok) ==
  [c EXCEPT !.gen = @ + 1, !.disc = TRUE,
            !.op = [NoScan EXCEPT !.gen = c.gen + 1, !.outcome = IF ok THEN "scanning" ELSE "start_failed"]]

\* handleTunerResourceLostOnController: refused unless something is owned.
LossAccepted(c) == c.accepted \/ (c.disc /\ AcceptsLoss(c.op))
LostGeneration(c) == IF c.disc THEN c.op.gen ELSE c.gen

LoseTuner(c, f) ==
  LET lost == IF c.disc THEN [c EXCEPT !.op = LoseResources(@)] ELSE c IN
  CloseFilters(CancelDiscovery(StopPlaying(Invalidate(lost), f), f), f)

\* releaseOnController: retried until every part is released.
ReleaseController(c, f) ==
  LET r == Reset(c, f) IN [r EXCEPT !.released = ~ResetFails(c, f)]

-----------------------------------------------------------------------------
(* What the state of a controller promises                                 *)

\* An accepted tune stands on a clean controller: no discovery of an earlier
\* generation is still owned, every filter owned belongs to this generation,
\* and nothing plays for another one.  A released controller owns nothing.
ControllerSound(c) ==
  /\ c.accepted => /\ ~c.disc /\ ~c.released
                   /\ \A p \in Owned(c) : c.handles[p].gen = c.gen
                   /\ c.playing \in {0, c.gen}
  /\ ~c.accepted => \A p \in Pid : ~FilterOpen(c, p)
  /\ c.released => Owned(c) = {} /\ ~c.disc /\ c.playing = 0
=============================================================================
