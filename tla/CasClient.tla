------------------------------ MODULE CasClient ------------------------------
(***************************************************************************)
(* The MediaCas client of the TV input: the ledger of plugins and sessions *)
(* (CasController.kt), the bridge that owns a MediaCas under construction  *)
(* (ManagedFrameworkMediaCasBridge.kt) and the entry points of             *)
(* TunerController.kt that run it.                                         *)
(*                                                                         *)
(* The controller executor runs one task at a time; a task is one action.  *)
(* The main looper constructs MediaCas instances and posts their events to *)
(* the executor.  Every call to the framework may fail: F is the set of    *)
(* calls that fail during one task.                                        *)
(***************************************************************************)
EXTENDS NullValue, Naturals, Sequences, FiniteSets, SequencesExt

CONSTANTS
  System,      \* CA system ids the client supports
  EmmSystem,   \* those of them whose EMMs it delivers
  EsPid,         \* elementary PIDs
  Metadata,    \* the sets of CA descriptors a PMT and CAT can carry
  Bridge,      \* identities of MediaCas bridges, reused once unreachable
  MaxCasGen,      \* bound on the tune generation
  MaxEvents     \* bound on the events waiting for the executor

VARIABLES
  cas,         \* the CasController with its bridges
  wanted,      \* the metadata of the last update
  events,       \* events posted to the controller executor
  casTune         \* tuneAccepted and tuneGeneration of the TunerController

casVars == <<cas, wanted, events, casTune>>

-----------------------------------------------------------------------------
(* Metadata: what the descriptors ask for                                  *)

Supported(m) == {e \in m : e.sys \in System}

\* A PROGRAM descriptor gives no session of its own when an ES descriptor
\* names the same service, system and ECM PID.
SessionEntries(m) ==
  {e \in Supported(m) :
     /\ e.source # "CAT" /\ e.ecm # None
     /\ e.source = "PROGRAM" =>
          ~\E f \in Supported(m) : /\ f.source = "ES" /\ f.svc = e.svc
                                   /\ f.sys = e.sys /\ f.ecm = e.ecm}

KeyOf(e) == [svc |-> e.svc, sys |-> e.sys, ecm |-> e.ecm]

Bindings(m) == {KeyOf(e) : e \in SessionEntries(m)}

PidsFor(m, k) == {e.es : e \in {f \in SessionEntries(m) : KeyOf(f) = k}} \ {None}

EmmSystems(m) == {e.sys : e \in {f \in Supported(m) : f.source = "CAT"}} \cap EmmSystem

\* An unsupported system, or one ES PID that two sessions ask for.
Rejected(m) ==
  \/ Supported(m) # m
  \/ \E k, l \in Bindings(m) : k # l /\ PidsFor(m, k) \cap PidsFor(m, l) # {}

Key == UNION {Bindings(m) : m \in Metadata}

-----------------------------------------------------------------------------
(* State                                                                   *)

NoSystem  == [bridge |-> None]
NoSession == [desc |-> None]
NewSession == [es |-> {}, desc |-> "none", pids |-> {}, linked |-> FALSE,
               ecmOk |-> FALSE, retiring |-> FALSE, closed |-> FALSE]
NewSystem(b, g) == [bridge |-> b, gen |-> g, retiring |-> FALSE, invalid |-> FALSE,
                    reclaimed |-> FALSE, init |-> TRUE, late |-> FALSE]

Owns(c, s) == c.sys[s] # NoSystem
Open(c, k) == c.ses[k] # NoSession
Sessions(c, s) == {k \in Key : k.sys = s /\ Open(c, k)}
Owner(c, b) == {s \in System : c.sys[s].bridge = b}

CasInit ==
  /\ cas = [sys |-> [s \in System |-> NoSystem], ses |-> [k \in Key |-> NoSession],
            ecm |-> {}, emm |-> {}, closed |-> FALSE, recv |-> 0, terminal |-> None,
            br |-> [b \in Bridge |-> [phase |-> "none", closing |-> FALSE, lost |-> FALSE]],
            err |-> FALSE, diag |-> {}]
  /\ wanted = {}
  /\ events = <<>>
  /\ casTune = [accepted |-> FALSE, gen |-> 0]

-----------------------------------------------------------------------------
(* Readiness                                                               *)

SessionLinked(c, k) ==
  LET t == c.ses[k] IN
  ~t.retiring /\ ~t.closed /\ t.linked /\ t.ecmOk /\ t.desc # "none" /\ k \in c.ecm /\ t.es # {}

SessionReady(c, k) ==
  LET t == c.ses[k] IN
  /\ ~t.retiring /\ ~t.closed
  /\ t.linked /\ t.ecmOk /\ t.desc # "none"
  /\ k \in c.ecm
  /\ t.es # {} /\ t.es \subseteq t.pids

ReadyServices(c) ==
  LET live == {k \in Key : Open(c, k) /\ ~c.sys[k.sys].retiring /\ ~c.sys[k.sys].init}
  IN  IF c.closed \/ c.terminal = c.recv THEN {}
      ELSE {k.svc : k \in {j \in live : \A l \in live : l.svc = j.svc => SessionReady(c, l)}}

IsServiceDescramblingReady(v) ==
  casTune.accepted /\ casTune.gen = cas.recv /\ v \in ReadyServices(cas)

-----------------------------------------------------------------------------
(* Closing.  Every operator returns the controller after the step; err     *)
(* says that it threw.                                                     *)

Quiet(c) == [c EXCEPT !.err = FALSE]
Threw(c) == [c EXCEPT !.err = TRUE]

ThrewAfter(c, err) == [c EXCEPT !.err = @ \/ err]

\* completeCleanup: every action runs, the first failure is rethrown.
CompleteCleanup(c, Act(_, _), S) ==
  FoldLeft(LAMBDA d, x : ThrewAfter(Act(Quiet(d), x), d.err), Quiet(c), SetToSeq(S))

ForgetMetadata(c) == [c EXCEPT !.ecm = {}, !.emm = {}]

RecordInvalidation(c, s) ==
  ForgetMetadata([c EXCEPT
    !.sys[s].invalid = TRUE, !.sys[s].retiring = TRUE,
    !.ses = [k \in Key |-> IF k \in Sessions(c, s) THEN [c.ses[k] EXCEPT !.retiring = TRUE]
                           ELSE c.ses[k]]])

\* The bridge closes a handle only if one was opened; once closing it is
\* never used again.
CloseDescrambler(c, k, F) ==
  IF c.ses[k].desc \in {"open", "closing"} /\ <<"closeDescrambler", k>> \in F
    THEN Threw([c EXCEPT !.ses[k].desc = "closing"])
    ELSE [c EXCEPT !.ses[k].desc = "none", !.ses[k].pids = {}, !.ses[k].linked = FALSE]

UnlinkFails(c, k, F) ==
  c.ses[k].linked /\ (c.ses[k].desc = "closing" \/ <<"void", k>> \in F)

ForgetSession(d, k) == IF d.err THEN d ELSE [d EXCEPT !.ses[k] = NoSession]

CloseSessionLocked(c, k, F) ==
  LET s == k.sys
      r == [c EXCEPT !.ses[k].retiring = TRUE]
      u == [r EXCEPT !.ses[k].linked = FALSE]
  IN  CASE c.sys[s].invalid \/ c.sys[s].reclaimed -> r
        [] UnlinkFails(c, k, F) -> Threw(r)
        [] ~c.ses[k].closed /\ <<"sessionInvalid", k>> \in F -> Threw(RecordInvalidation(u, s))
        [] ~c.ses[k].closed /\ <<"closeSession", k>> \in F -> Threw(u)
        [] OTHER -> ForgetSession(CloseDescrambler([u EXCEPT !.ses[k].closed = TRUE], k, F), k)

CloseAtOnce(c, b, F) ==
  LET r == [c EXCEPT !.br[b].closing = TRUE] IN
  IF c.br[b].phase = "up" /\ <<"closeCas", b>> \in F THEN Threw(r)
  ELSE [r EXCEPT !.br[b].phase = IF @ = "up" THEN "none" ELSE @]

\* MediaCas.close through the bridge: refused while the constructor runs.
CloseCas(c, b, F) ==
  LET r == [c EXCEPT !.br[b].closing = TRUE] IN
  IF \/ c.br[b].phase = "constructing"
     \/ c.br[b].phase = "up" /\ <<"closeCas", b>> \in F
    THEN Threw(r)
    ELSE [r EXCEPT !.br[b].phase = IF @ = "posted" THEN "posted" ELSE "none"]

CloseSessions(c, s, F) ==
  CompleteCleanup(c, LAMBDA e, k : CloseSessionLocked(e, k, F), Sessions(c, s))

CloseDescramblers(c, s, F) ==
  CompleteCleanup(c, LAMBDA e, k : CloseDescrambler(e, k, F), Sessions(c, s))

ForgetSystem(c, s, err) ==
  IF c.err THEN c
  ELSE [c EXCEPT !.sys[s] = NoSystem, !.err = err,
                 !.ses = [k \in Key |-> IF k.sys = s THEN NoSession ELSE c.ses[k]]]

CloseBridge(c, s, err, F) ==
  IF c.err THEN c ELSE ForgetSystem(CloseCas(c, c.sys[s].bridge, F), s, err)

\* The sessions are closed, and threw if d.err.  A system that was invalidated
\* or reclaimed still owns the descramblers of its sessions.
CloseRest(d, s, propagate, F) ==
  IF d.err /\ ~d.sys[s].invalid THEN d
  ELSE CloseBridge(IF d.sys[s].invalid \/ d.sys[s].reclaimed THEN CloseDescramblers(d, s, F)
                   ELSE Quiet(d), s, propagate /\ d.err, F)

CloseSystem(c, s, propagate, F) ==
  IF ~Owns(c, s) THEN c
  ELSE CloseRest(CloseSessions([c EXCEPT !.sys[s].retiring = TRUE, !.sys[s].init = FALSE], s, F),
                 s, propagate, F)

RetireAll(c) ==
  ForgetMetadata([c EXCEPT !.sys = [s \in System |->
    IF Owns(c, s) THEN [c.sys[s] EXCEPT !.retiring = TRUE] ELSE NoSystem]])

ClearForClearService(c, propagate, F) ==
  CompleteCleanup(RetireAll(c), LAMBDA d, s : CloseSystem(d, s, propagate, F), System)

ClearForResourceLoss(c, F) == ClearForClearService(c, FALSE, F)

\* The framework has closed the descramblers: they go before the sessions.
CloseReclaimed(c, s, F) == IF c.err THEN c ELSE CloseSystem(c, s, FALSE, F)

OnTunerResourcesReclaimed(c, F) ==
  CompleteCleanup(RetireAll(c), LAMBDA d, s : CloseReclaimed(CloseDescramblers(d, s, F), s, F),
                  System)

-----------------------------------------------------------------------------
(* Connection events                                                       *)

\* finishUnavailableCas: everything is released, playback stops.
FinishUnavailableCas(c, F) == Quiet(ClearForResourceLoss(c, F))

\* setOnConnectionChanged: only the tune in force hears a change.
ConnectionLost(c, g, F) ==
  IF casTune.accepted /\ g = casTune.gen THEN FinishUnavailableCas(c, F) ELSE c

FailInitialization(c, s, F) ==
  LET g == c.sys[s].gen
      r == ForgetMetadata([c EXCEPT !.sys[s].init = FALSE, !.sys[s].retiring = TRUE,
                                    !.terminal = g])
  IN  Quiet(CloseSystem(ConnectionLost(r, g, F), s, FALSE, F))

OnTimeout(c, s, F) ==
  IF c.sys[s].init /\ c.sys[s].late THEN FailInitialization(c, s, F) ELSE c

OnConstructed(c, s, F) ==
  IF c.sys[s].retiring THEN Quiet(CloseSystem(c, s, FALSE, F)) ELSE c

OnCapacity(c, s, n, F) ==
  CASE c.closed \/ c.sys[s].retiring \/ ~c.sys[s].init -> c
    [] c.sys[s].gen # c.recv \/ n = 0 \/ c.sys[s].late -> FailInitialization(c, s, F)
    [] OTHER -> [c EXCEPT !.sys[s].init = FALSE]

OnFailure(c, s, F) ==
  IF ~c.sys[s].retiring /\ c.sys[s].init THEN FailInitialization(c, s, F) ELSE c

OnResourceLost(c, s, F) ==
  LET r == ForgetMetadata([c EXCEPT
             !.sys[s].init = FALSE, !.sys[s].reclaimed = TRUE, !.sys[s].retiring = TRUE,
             !.terminal = c.sys[s].gen,
             !.ses = [k \in Key |-> IF k \in Sessions(c, s)
                                      THEN [c.ses[k] EXCEPT !.retiring = TRUE] ELSE c.ses[k]]])
  IN  IF c.sys[s].reclaimed \/ c.closed THEN c ELSE ConnectionLost(r, c.sys[s].gen, F)

-----------------------------------------------------------------------------
(* Applying metadata.  A step adds the diagnostics it raises to c.diag.    *)

FreeBridges ==
  {b \in Bridge : /\ cas.br[b].phase = "none" /\ Owner(cas, b) = {}
                   /\ \A i \in 1..Len(events) : events[i].bridge # b}

\* The n-th bridge of a task, so that two systems get different ones.
FreshBridge(c) == CHOOSE b \in FreeBridges : Owner(c, b) = {} /\ c.br[b].phase = "none"

Diagnose(c, d) == [c EXCEPT !.diag = @ \cup {d}]

CreateBridge(c, s, F) ==
  LET b == FreshBridge(c)
      r == [c EXCEPT !.sys[s] = NewSystem(b, c.recv),
                     !.br[b] = [phase |-> "posted", closing |-> FALSE, lost |-> FALSE]]
  IN  IF <<"begin", s>> \in F
        THEN Diagnose(FailInitialization([c EXCEPT !.sys[s] = NewSystem(b, c.recv)], s, F), "error")
        ELSE Diagnose(r, "initializing")

EnsurePlugin(c, s, F) ==
  CASE ~Owns(c, s) -> CreateBridge(c, s, F)
    [] Owns(c, s) /\ c.sys[s].retiring -> Diagnose(c, "error")
    [] Owns(c, s) /\ ~c.sys[s].retiring /\ c.sys[s].init -> Diagnose(c, "initializing")
    [] OTHER -> c

PluginUsable(c, s) == Owns(c, s) /\ ~c.sys[s].retiring /\ ~c.sys[s].init

EnsureSession(c, k, F) ==
  LET s == k.sys IN
  CASE Open(c, k) -> c
    [] ~Open(c, k) /\ <<"openInvalid", k>> \in F ->
         Diagnose(Quiet(CloseSystem(RecordInvalidation(c, s), s, TRUE, F)), "invalidated")
    [] ~Open(c, k) /\ <<"open", k>> \in F ->
         Diagnose(Quiet(CloseSystem(c, s, TRUE, F)), "error")
    [] OTHER -> [c EXCEPT !.ses[k] = NewSession]

\* A private-data failure; an invalidated MediaCas retires its system.
PrivateData(c, id, s, F) ==
  CASE <<"privateInvalid", id>> \in F -> Diagnose(RecordInvalidation(c, s), "invalidated")
    [] <<"private", id>> \in F -> Diagnose(c, "error")
    [] OTHER -> c

\* syncDescramblerPids: PIDs that left the metadata are removed.
SyncPids(c, k, F) ==
  LET stale == c.ses[k].pids \ c.ses[k].es
      kept  == {p \in stale : <<"removePid", k>> \in F \/ c.ses[k].desc = "closing"}
      r     == [c EXCEPT !.ses[k].pids = @ \ (stale \ kept)]
  IN  IF kept = {} THEN r ELSE Diagnose(r, "error")

BindPids(d, k, F) ==
  IF d.ses[k].retiring THEN d
  ELSE SyncPids(IF d.ses[k].es # {} /\ d.ses[k].desc = "none"
                  THEN [d EXCEPT !.ses[k].desc = "lazy"] ELSE d, k, F)

BindOpened(e, m, k, F) ==
  IF Open(e, k)
    THEN BindPids(PrivateData([e EXCEPT !.ses[k].es = PidsFor(m, k)], k, k.sys, F), k, F)
    ELSE e

BindUsing(p, m, k, F) ==
  IF PluginUsable(p, k.sys) THEN BindOpened(EnsureSession(p, k, F), m, k, F) ELSE p

BindSession(c, m, k, F) ==
  IF "invalidated" \in c.diag THEN c ELSE BindUsing(EnsurePlugin(c, k.sys, F), m, k, F)

EmmPrivateData(p, s, F) == IF PluginUsable(p, s) THEN PrivateData(p, s, s, F) ELSE p

BindEmm(c, s, F) ==
  IF "invalidated" \in c.diag THEN c ELSE EmmPrivateData(EnsurePlugin(c, s, F), s, F)

RebuildPidIndexes(c, m) ==
  [c EXCEPT !.ecm = {k \in Key : /\ Open(c, k) /\ ~c.ses[k].retiring
                                  /\ ~c.sys[k.sys].retiring},
            !.emm = {s \in EmmSystems(m) : Owns(c, s) /\ ~c.sys[s].retiring}]

RetireObsolete(c, m) ==
  LET target == {k.sys : k \in Bindings(m)} \cup EmmSystems(m) IN
  [c EXCEPT
    !.sys = [s \in System |-> IF Owns(c, s) /\ s \notin target
                               THEN [c.sys[s] EXCEPT !.retiring = TRUE] ELSE c.sys[s]],
    !.ses = [k \in Key |-> IF Open(c, k) /\ k \notin Bindings(m)
                            THEN [c.ses[k] EXCEPT !.retiring = TRUE] ELSE c.ses[k]]]

CloseRetired(c, F) ==
  LET sys == {s \in System : Owns(c, s) /\ c.sys[s].retiring}
      ses == {k \in Key : Open(c, k) /\ c.ses[k].retiring /\ k.sys \notin sys}
  IN  CompleteCleanup(c, LAMBDA d, x : IF x \in System THEN CloseSystem(d, x, TRUE, F)
                                       ELSE CloseSessionLocked(d, x, F), sys \cup ses)

Published(c, m) == IF c.diag = {} THEN RebuildPidIndexes(c, m) ELSE c

BindSessions(c, m, F) ==
  FoldLeft(LAMBDA d, k : BindSession(d, m, k, F), c, SetToSeq(Bindings(m)))

ApplyBindings(c, m, F) ==
  IF c.err THEN c
  ELSE Published(FoldLeft(LAMBDA d, s : BindEmm(d, s, F), BindSessions(c, m, F),
                          SetToSeq(EmmSystems(m))), m)

\* The systems retired earlier are gone, or their close threw.
ReplaceBindings(c, m, F) ==
  IF c.err THEN c
  ELSE IF Rejected(m) THEN Diagnose(c, "error")
  ELSE ApplyBindings(CloseRetired(RetireObsolete(c, m), F), m, F)

CloseRetiredSystems(c, F) ==
  CompleteCleanup(c, LAMBDA d, s : CloseSystem(d, s, TRUE, F),
                  {s \in System : Owns(c, s) /\ c.sys[s].retiring})

\* updateFromCaMetadata.  The result has err when it threw and diag for the
\* diagnostics it returned.
UpdateFromCaMetadata(c, m, g, F) ==
  LET c0 == ForgetMetadata([c EXCEPT !.recv = g, !.diag = {}])
  IN  CASE c.terminal = g -> Diagnose(c, "error")
        [] c.terminal # g /\ m = {} -> ClearForClearService(c0, TRUE, F)
        [] OTHER -> ReplaceBindings(CloseRetiredSystems(c0, F), m, F)

-----------------------------------------------------------------------------
(* Sections                                                                *)

LiveSession(c, k) ==
  /\ Owns(c, k.sys) /\ ~c.sys[k.sys].retiring
  /\ Open(c, k) /\ ~c.ses[k].retiring /\ ~c.ses[k].closed

\* The first good ECM links the key token; every one adds the missing PIDs.
LinkKey(c, k, F) ==
  LET h == [c EXCEPT !.ses[k].desc = IF @ = "lazy" THEN "open" ELSE @]
      t == [h EXCEPT !.ses[k].linked = TRUE, !.ses[k].ecmOk = TRUE]
      missing == t.ses[k].es \ t.ses[k].pids
      added   == {p \in missing : <<"addPid", p>> \notin F}
      r == [t EXCEPT !.ses[k].pids = @ \cup added]
  IN  IF ~c.ses[k].linked /\ (c.ses[k].desc = "none" \/ <<"token", k>> \in F)
        THEN Diagnose(h, "error")
        ELSE IF added = missing THEN r ELSE Diagnose(r, "error")

EcmToSession(c, k, F) ==
  CASE "invalidated" \in c.diag -> c
    [] "invalidated" \notin c.diag /\ ~LiveSession(c, k) -> Diagnose(c, "error")
    [] OTHER -> IF <<"ecmInvalid", k>> \in F THEN Diagnose(RecordInvalidation(c, k.sys), "invalidated")
                ELSE IF <<"ecm", k>> \in F THEN Diagnose(c, "error")
                ELSE LinkKey(c, k, F)

EmmToPlugin(c, s, F) ==
  IF "invalidated" \in c.diag THEN c
  ELSE IF ~Owns(c, s) THEN EnsurePlugin(c, s, F)
  ELSE IF <<"emmInvalid", s>> \in F THEN Diagnose(RecordInvalidation(c, s), "invalidated")
  ELSE c

\* An invalidated MediaCas found while delivering a section ends the CAS of
\* this tune.
FinishDelivery(c, F) ==
  IF "invalidated" \in c.diag THEN FinishUnavailableCas(c, F) ELSE c

OnEcmSection(c, e, F) ==
  FinishDelivery(FoldLeft(LAMBDA d, k : EcmToSession(d, k, F), c,
                          SetToSeq({k \in c.ecm : k.ecm = e})), F)

OnEmmSection(c, F) ==
  FinishDelivery(FoldLeft(LAMBDA d, s : EmmToPlugin(d, s, F), c, SetToSeq(c.emm)), F)

-----------------------------------------------------------------------------
(* Tasks of the controller executor                                        *)

\* The calls that can fail while resources of c are released.
CloseCalls(c) ==
  LET open == {k \in Key : Open(c, k)} IN
       {<<"void", k>> : k \in {j \in open : c.ses[j].linked}}
  \cup {<<x, k>> : x \in {"closeSession", "sessionInvalid"},
                    k \in {j \in open : ~c.ses[j].closed}}
  \cup {<<"closeDescrambler", k>> : k \in {j \in open : c.ses[j].desc \in {"open", "closing"}}}
  \cup {<<"closeCas", b>> : b \in {a \in Bridge : c.br[a].phase = "up"}}

\* The further calls an update makes.
UpdateCalls(c, m) ==
       {<<x, k>> : x \in {"open", "openInvalid"},
                   k \in {j \in Bindings(m) : ~Open(c, j) /\ PluginUsable(c, j.sys)}}
  \cup {<<x, k>> : x \in {"private", "privateInvalid"},
                    k \in {j \in Bindings(m) : PluginUsable(c, j.sys)}}
  \cup {<<x, s>> : x \in {"private", "privateInvalid"},
                    s \in {t \in EmmSystems(m) : PluginUsable(c, t)}}
  \cup {<<"removePid", k>> : k \in {j \in Bindings(m) : Open(c, j) /\ ~(c.ses[j].pids \subseteq PidsFor(m, j))}}
  \cup {<<"begin", s>> : s \in {t \in System : ~Owns(c, t)}}
  \cup {<<"filters", 0>>}

AtMostOne(calls) == {{}} \cup {{x} : x \in calls}

Settled(c) == [c EXCEPT !.err = FALSE, !.diag = {}]

UpdateRejected(u, F) == u.err \/ u.diag \cap {"error", "invalidated"} # {} \/ <<"filters", 0>> \in F

ClearIfRejected(u, F) ==
  IF UpdateRejected(u, F) THEN ClearForResourceLoss(Settled(u), F) ELSE u

\* updateCasMetadataAndFilters: a failed update releases everything, and that
\* may fail as well.
UpdateCasMetadata(m) ==
  /\ casTune.accepted /\ ~cas.closed
  /\ Cardinality(FreeBridges) >= Cardinality(System)
  /\ \E F \in AtMostOne(UpdateCalls(cas, m) \cup CloseCalls(cas))
               \cup {{<<"filters", 0>>, x} : x \in CloseCalls(cas)} :
       cas' = Settled(ClearIfRejected(UpdateFromCaMetadata(cas, m, casTune.gen, F), F))
  /\ wanted' = m
  /\ UNCHANGED <<events, casTune>>

DeliverEcm(e) ==
  /\ casTune.accepted /\ ~cas.closed
  /\ LET keys == {k \in cas.ecm : k.ecm = e}
         calls == {<<x, k>> : x \in {"ecm", "ecmInvalid", "token"}, k \in keys}
                    \cup {<<"addPid", p>> : p \in EsPid}
     IN  /\ keys # {}
         /\ \E F \in {A \cup B : A \in AtMostOne(calls), B \in AtMostOne(CloseCalls(cas))} :
              /\ (F \subseteq calls \/ \E x \in F : x[1] = "ecmInvalid")
              /\ cas' = Settled(OnEcmSection(cas, e, F))
  /\ UNCHANGED <<wanted, events, casTune>>

DeliverEmm ==
  /\ casTune.accepted /\ ~cas.closed /\ cas.emm # {}
  /\ \E s \in cas.emm, B \in AtMostOne(CloseCalls(cas)) :
       cas' = Settled(OnEmmSection(cas, B \cup {<<"emmInvalid", s>>}))
  /\ UNCHANGED <<wanted, events, casTune>>

\* A retune releases the CAS of the old tune before it starts; the rest of
\* the tune may fail as well.
Retune ==
  /\ ~cas.closed /\ casTune.gen < MaxCasGen
  /\ \E F \in AtMostOne(CloseCalls(cas)), ok \in BOOLEAN :
       LET c == ClearForResourceLoss(cas, F) IN
       /\ cas' = Settled(c)
       /\ casTune' = IF ok /\ ~c.err THEN [accepted |-> TRUE, gen |-> casTune.gen + 1]
                  ELSE [casTune EXCEPT !.accepted = FALSE]
  /\ wanted' = {}
  /\ UNCHANGED events

TunerResourceLost ==
  /\ casTune.accepted
  /\ \E F \in AtMostOne(CloseCalls(cas)) : cas' = Settled(OnTunerResourcesReclaimed(cas, F))
  /\ casTune' = [casTune EXCEPT !.accepted = FALSE]
  /\ UNCHANGED <<wanted, events>>

\* release: repeated by the live session until it succeeds.
Release ==
  /\ ~cas.closed \/ \E s \in System : Owns(cas, s)
  /\ \E F \in AtMostOne(CloseCalls(cas)) :
       cas' = Settled(ClearForResourceLoss([cas EXCEPT !.closed = TRUE], F))
  /\ casTune' = [casTune EXCEPT !.accepted = FALSE]
  /\ UNCHANGED <<wanted, events>>

Dispatch(e, s, F) ==
  CASE e.kind = "timeout" -> OnTimeout(cas, s, F)
    [] e.kind = "constructed" -> OnConstructed(cas, s, F)
    [] e.kind = "capacity" -> OnCapacity(cas, s, e.arg, F)
    [] e.kind = "failure" -> OnFailure(cas, s, F)
    [] e.kind = "lost" -> OnResourceLost(cas, s, F)

\* An event whose system has left the ledger is dropped.
ConnectionEvent ==
  /\ events # <<>>
  /\ events' = Tail(events)
  /\ LET e == Head(events) IN
     IF Owner(cas, e.bridge) = {} THEN UNCHANGED cas
     ELSE \E s \in Owner(cas, e.bridge), F \in AtMostOne(CloseCalls(cas)) :
            cas' = Settled(Dispatch(e, s, F))
  /\ UNCHANGED <<wanted, casTune>>

-----------------------------------------------------------------------------
(* The main looper                                                         *)

Event(kind, b, n) == [kind |-> kind, bridge |-> b, arg |-> n]

PostEvent(es) == Len(events) + Len(es) <= MaxEvents /\ events' = events \o es

ConstructBegin(b) ==
  /\ cas.br[b].phase = "posted"
  /\ cas' = [cas EXCEPT !.br[b].phase = IF cas.br[b].closing THEN "none" ELSE "constructing"]
  /\ UNCHANGED <<wanted, events, casTune>>

ConstructEnd(b) ==
  /\ cas.br[b].phase = "constructing"
  /\ \/ /\ cas' = [cas EXCEPT !.br[b].phase = "up"]
        /\ PostEvent(<<Event("constructed", b, 0)>>)
     \/ /\ cas' = [cas EXCEPT !.br[b].phase = "none"]
        /\ PostEvent(<<Event("constructed", b, 0), Event("failure", b, 0)>>)
  /\ UNCHANGED <<wanted, casTune>>

\* The plugin reports its session capacity; only the notice awaited matters.
NotifyCapacity(b) ==
  /\ cas.br[b].phase = "up"
  /\ \E s \in Owner(cas, b) : cas.sys[s].init
  /\ ~\E i \in 1..Len(events) : events[i].kind = "capacity" /\ events[i].bridge = b
  /\ \E n \in {0, 1} : PostEvent(<<Event("capacity", b, n)>>)
  /\ UNCHANGED <<cas, wanted, casTune>>

NotifyLost(b) ==
  /\ cas.br[b].phase = "up" /\ ~cas.br[b].lost
  /\ cas' = [cas EXCEPT !.br[b].lost = TRUE]
  /\ PostEvent(<<Event("lost", b, 0)>>)
  /\ UNCHANGED <<wanted, casTune>>

DeadlinePasses(s) ==
  /\ Owns(cas, s) /\ cas.sys[s].init /\ ~cas.sys[s].late
  /\ cas' = [cas EXCEPT !.sys[s].late = TRUE]
  /\ PostEvent(<<Event("timeout", cas.sys[s].bridge, 0)>>)
  /\ UNCHANGED <<wanted, casTune>>

CasNext ==
  \/ \E m \in Metadata : UpdateCasMetadata(m)
  \/ \E e \in {k.ecm : k \in Key} : DeliverEcm(e)
  \/ DeliverEmm \/ Retune \/ TunerResourceLost \/ Release \/ ConnectionEvent
  \/ \E b \in Bridge : ConstructBegin(b) \/ ConstructEnd(b) \/ NotifyCapacity(b) \/ NotifyLost(b)
  \/ \E s \in System : DeadlinePasses(s)

CasSpec == CasInit /\ [][CasNext]_casVars

-----------------------------------------------------------------------------
(* Properties                                                              *)

\* A service counts as descramblable only when every session that the last
\* metadata asks for it is complete: its plugin is alive, its key token is
\* linked to an open descrambler and all its elementary PIDs are registered
\* (isServiceDescramblingReady gates the start of playback).
ReadyMeansWhole ==
  \A k \in Key : IsServiceDescramblingReady(k.svc) =>
    /\ \E j \in Bindings(wanted) : j.svc = k.svc
    /\ \A j \in Bindings(wanted) : j.svc = k.svc =>
         /\ PluginUsable(cas, j.sys) /\ cas.br[cas.sys[j.sys].bridge].phase = "up"
         /\ Open(cas, j) /\ cas.ses[j].linked /\ ~cas.ses[j].closed
         /\ cas.ses[j].desc = "open" /\ cas.ses[j].pids = PidsFor(wanted, j)

\* The ledger and what exists outside agree, whatever closes, times out or
\* retunes meanwhile: a MediaCas that exists or is being built has an owner
\* (ManagedFrameworkMediaCasBridge, onConstructed), a MediaCas session is closed
\* only after its token was taken off the descrambler, and no elementary PID
\* is registered with two descramblers (closeSessionLocked).
CasResourcesOwned ==
  /\ \A b \in Bridge : cas.br[b].phase \in {"constructing", "up"} => Owner(cas, b) # {}
  /\ \A k \in Key : Open(cas, k) =>
       /\ Owns(cas, k.sys)
       /\ cas.ses[k].closed => ~cas.ses[k].linked
       /\ cas.ses[k].linked => cas.ses[k].desc \in {"open", "closing"}
       /\ \A j \in Key \ {k} : Open(cas, j) => cas.ses[j].pids \cap cas.ses[k].pids = {}

=============================================================================
