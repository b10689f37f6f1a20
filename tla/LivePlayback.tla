----------------------------- MODULE LivePlayback ----------------------------
(***************************************************************************)
(* A live session of the TV input: the session executor                    *)
(* (MaleicacidLiveSession.kt, PlaybackStartGate.kt) decides whether there  *)
(* is anything to play, and the playback executor (PlaybackPipeline.kt)    *)
(* plays it, restarts itself after errors and reports by messages.  The    *)
(* tuner controller between them is its generation, whether the tune is    *)
(* accepted and whether the service has its key.  A session task is cut at *)
(* every call that waits for another executor.                             *)
(***************************************************************************)
EXTENDS NullValue, Integers, Sequences

CONSTANTS
  Kind,         \* the services to tune to: [audioOnly, cas]
  Version,      \* versions of the service's stream list
  Unsupported,  \* the versions without a stream the product can decode
  MaxPlayGen,       \* bound on playback generations
  MaxTune,      \* bound on tunes
  MaxQueue      \* bound on messages waiting for the session

\* No generation is null.
ASSUME NoGeneration == None \notin Nat

VARIABLES
  kind,         \* what the tuned service is
  pmt,          \* the stream list the SI engine knows, None while it is unresolved
  rating,       \* what the resolver would answer: allow, block or failed
  gate,         \* PlaybackStartState
  ses,          \* the session executor
  queue,        \* its messages
  tune,         \* [gen, accepted, linked, ready]: the controller and its CAS sessions
  pipe          \* the playback executor

liveVars == <<kind, pmt, rating, gate, ses, queue, tune, pipe>>

Signature == [pmt : Version, audio : BOOLEAN, key : BOOLEAN]
GateIdle == [k |-> "Idle", sig |-> None, gen |-> None]
GateStopped == [k |-> "Stopped", sig |-> None, gen |-> None]
Starting(s) == [k |-> "Starting", sig |-> s, gen |-> None]
WaitingFirstOutput(s, g) == [k |-> "Waiting", sig |-> s, gen |-> g]
Started(s, g) == [k |-> "Started", sig |-> s, gen |-> g]
Failed(s, g) == [k |-> "Failed", sig |-> s, gen |-> g]

LiveInit ==
  /\ kind \in Kind
  /\ pmt = None
  /\ rating = "allow"
  /\ gate = GateIdle
  /\ ses = [pc |-> "idle", tuned |-> 0, known |-> None, access |-> "unknown", noAudio |-> FALSE,
            weak |-> FALSE, released |-> "no"]
  /\ queue = <<[t |-> "tune"]>>
  /\ tune = [gen |-> 0, accepted |-> FALSE, linked |-> FALSE, ready |-> FALSE]
  /\ pipe = [gen |-> 0, run |-> FALSE, sig |-> None, notified |-> FALSE, surface |-> TRUE,
             recovered |-> FALSE, retry |-> None]

-----------------------------------------------------------------------------
(* PlaybackStartTransitions                                                *)

ShouldAttempt(s, sig) == s.k \in {"Idle", "Stopped"} \/ s.sig # sig
AllowRetry(s) == IF s.k \in {"Stopped", "Failed"} THEN GateIdle ELSE s
AfterRestartSameGeneration(s, sig, r, started) ==
  IF r.gen < 0 THEN s
  ELSE IF ~started THEN Failed(sig, s.gen)
  ELSE IF r.pending THEN WaitingFirstOutput(sig, s.gen) ELSE Started(sig, s.gen)

AfterRestartResult(s, sig, r, started) ==
  IF r.gen < 0 THEN s
  ELSE IF ~started THEN Failed(sig, r.gen)
  ELSE IF r.pending THEN WaitingFirstOutput(sig, r.gen) ELSE Started(sig, r.gen)
AcceptsGeneration(s, g) == s.gen # None /\ s.gen = g
AcceptsUnavailable(s, g) ==
  (g <= 0 \/ AcceptsGeneration(s, g)) /\ ~(s.k = "Failed" /\ s.gen = g)
FailCurrentGeneration(s, g) ==
  IF s.sig # None /\ AcceptsGeneration(s, g) THEN Failed(s.sig, g) ELSE s

-----------------------------------------------------------------------------
(* The pipeline.  Every stop and every start opens a new generation.       *)

Stop(p) == [p EXCEPT !.gen = @ + 1, !.run = FALSE, !.sig = None, !.notified = FALSE]

\* startOnPlaybackExecutor.  h says how it goes: "ok", "mute" (no audio filter,
\* video goes on), "surface" (none to show on), "filter", "sync" or "dirty" (a
\* resource of the playback before cannot be released).
Outcomes(p) ==
  IF ~p.surface /\ ~kind.audioOnly THEN {"surface", "dirty"}
  ELSE {"ok", "filter", "sync", "dirty"} \cup (IF kind.audioOnly THEN {} ELSE {"mute"})
StartPipe(p, sig, h) ==
  LET q == [Stop(p) EXCEPT !.gen = @ + 1, !.sig = sig]
  IN CASE h \in {"ok", "mute"} -> [q EXCEPT !.run = TRUE]
       [] h = "surface" -> q
       [] h \in {"filter", "sync"} -> Stop(q)
       [] h = "dirty" -> Stop(p)
StartResult(p, sig, h) ==
  [gen |-> IF h = "dirty" THEN p.gen + 1 ELSE p.gen + 2,
   pending |-> h \in {"ok", "mute"} /\ ~kind.audioOnly,
   audio |-> h = "ok" /\ sig.audio]

Unavailable(why, g) == [t |-> "unavailable", why |-> why, gen |-> g]
\* What the start itself reports before it returns.
StartNotice(p, h) ==
  CASE h = "surface" -> <<Unavailable("other", p.gen + 2)>>
    [] h = "filter" -> <<Unavailable(IF kind.audioOnly THEN "audio" ELSE "startup", p.gen + 2)>>
    [] h = "sync" -> <<Unavailable("startup", p.gen + 3)>>
    [] OTHER -> <<>>

\* Messages are dropped once the session is being released.
Room(n) == Len(queue) + n <= MaxQueue
GenLeft == pipe.gen + 3 <= MaxPlayGen
Post(msgs) == queue' = IF ses.released = "no" THEN queue \o msgs ELSE queue

\* A restart the playback executor makes by itself (restartCurrentPlayback-
\* Generation, handleAudioFailure): the session hears of it under the
\* generation it knows.
Restart(p, origin, sig, videoOnly) ==
  \E h \in Outcomes(p) :
    /\ pipe' = StartPipe(p, sig, h)
    /\ Post(IF h = "dirty" THEN <<Unavailable("recovery", origin)>>
            ELSE StartNotice(p, h)
                   \o <<[t |-> "restart", origin |-> origin, r |-> StartResult(p, sig, h),
                         videoOnly |-> videoOnly]>>)

PlaybackFrame == UNCHANGED <<kind, pmt, rating, gate, ses, tune>>
Playing == pipe.run /\ Room(2) /\ GenLeft

FirstFrame ==
  /\ Playing /\ ~pipe.notified /\ ~kind.audioOnly
  /\ pipe' = [pipe EXCEPT !.notified = TRUE]
  /\ Post(<<[t |-> "available", gen |-> pipe.gen]>>)
  /\ PlaybackFrame

\* First frame timeout, decoder start deadline, decoder failure: report, stop.
StartupFailure ==
  /\ Playing /\ ~kind.audioOnly
  /\ pipe' = Stop(pipe)
  /\ \E why \in {"startup", "other"} : Post(<<Unavailable(why, pipe.gen)>>)
  /\ PlaybackFrame

\* A failure that is reported while the pipeline goes on (output surface,
\* secure or malformed sample, back pressure).
OutputFailure ==
  /\ Playing /\ ~kind.audioOnly
  /\ \E why \in {"startup", "other"} : Post(<<Unavailable(why, pipe.gen)>>)
  /\ UNCHANGED pipe
  /\ PlaybackFrame

HandleAudioFailure ==
  /\ Playing /\ pipe.sig.audio
  /\ \/ /\ kind.audioOnly
        /\ pipe' = Stop(pipe)
        /\ \E why \in {"audio", "recovery"} : Post(<<Unavailable(why, pipe.gen)>>)
     \/ /\ ~kind.audioOnly
        /\ Restart(pipe, pipe.gen, [pipe.sig EXCEPT !.audio = FALSE], TRUE)
  /\ PlaybackFrame

AudioRouteChanged ==
  /\ Playing /\ pipe.sig.audio
  /\ Restart(pipe, pipe.gen, pipe.sig, FALSE)
  /\ PlaybackFrame

\* handleCodecError with a recoverable error: stop now, start again later.
RecoverCodec ==
  /\ Playing /\ ~pipe.recovered
  /\ \/ /\ pipe' = [Stop(pipe) EXCEPT !.recovered = TRUE,
                       !.retry = [stopped |-> pipe.gen + 1, origin |-> pipe.gen, sig |-> pipe.sig]]
        /\ UNCHANGED queue
     \/ /\ pipe' = [Stop(pipe) EXCEPT !.recovered = TRUE]
        /\ Post(<<Unavailable("recovery", pipe.gen)>>)
  /\ PlaybackFrame

RetryIsCurrent(p) == p.retry # None /\ p.retry.stopped = p.gen

RetryCodec ==
  /\ pipe.retry # None /\ Room(2) /\ GenLeft
  /\ LET p == [pipe EXCEPT !.retry = None]
     IN IF RetryIsCurrent(pipe) THEN Restart(p, pipe.retry.origin, pipe.retry.sig, FALSE)
        ELSE pipe' = p /\ UNCHANGED queue
  /\ PlaybackFrame

-----------------------------------------------------------------------------
(* The controller executor                                                 *)

\* handleTunerResourceLostOnController
TunerLost ==
  /\ tune.accepted /\ Room(1) /\ GenLeft
  /\ tune' = [tune EXCEPT !.accepted = FALSE, !.linked = FALSE, !.ready = FALSE]
  /\ pipe' = Stop(pipe)
  /\ Post(<<[t |-> "lost", gen |-> tune.gen]>>)
  /\ UNCHANGED <<kind, pmt, rating, gate, ses>>

\* handleTuneEventOnController
TuneEvent ==
  /\ tune.accepted /\ Room(1) /\ GenLeft
  /\ \E weak \in BOOLEAN :
       /\ pipe' = IF weak THEN Stop(pipe) ELSE pipe
       /\ Post(<<[t |-> "signal", weak |-> weak, gen |-> tune.gen]>>)
  /\ UNCHANGED <<kind, pmt, rating, gate, ses, tune>>

KeyLostSilently ==
  /\ tune.accepted /\ tune.linked /\ Room(1) /\ GenLeft
  /\ tune' = [tune EXCEPT !.linked = FALSE, !.ready = FALSE]
  /\ Post(<<Unavailable("nokey", pipe.gen)>>)
  /\ UNCHANGED <<kind, pmt, rating, gate, ses, pipe>>

\* finishUnavailableCasOnController, with stopAndReportUnavailable.
KeyLost ==
  /\ tune.accepted /\ tune.linked /\ Room(1) /\ GenLeft
  /\ tune' = [tune EXCEPT !.linked = FALSE, !.ready = FALSE]
  /\ pipe' = Stop(pipe)
  /\ Post(<<Unavailable("nokey", pipe.gen)>>)
  /\ UNCHANGED <<kind, pmt, rating, gate, ses>>

\* An ECM links the session's key: the client is told to look again.
KeyFound ==
  /\ tune.accepted /\ tune.linked /\ ~tune.ready /\ Room(1)
  /\ tune' = [tune EXCEPT !.ready = TRUE]
  /\ Post(<<[t |-> "refresh"]>>)
  /\ UNCHANGED <<kind, pmt, rating, gate, ses, pipe>>

\* onSectionOnController: new tables, and the same call.
SectionIngested ==
  /\ tune.accepted /\ Room(1)
  /\ pmt' \in Version \cup {None}
  /\ Post(<<[t |-> "refresh"]>>)
  /\ UNCHANGED <<kind, rating, gate, ses, tune, pipe>>

-----------------------------------------------------------------------------
(* The session executor                                                    *)

Msg == queue[1]
Takes(t) == ses.pc = "idle" /\ ses.released = "no" /\ queue # <<>> /\ Msg.t = t
Goes(pc) == ses' = [ses EXCEPT !.pc = pc]
SessionOnly == UNCHANGED <<kind, pmt, rating, tune, pipe>>

\* Every caller of stopPlayback() has put the gate to Stopped before.
StopPlayback ==
  /\ ses.pc = "stop" /\ GenLeft
  /\ pipe' = Stop(pipe)
  /\ Goes("idle")
  /\ UNCHANGED <<kind, pmt, rating, gate, queue, tune>>

\* contentAccessDecision, and what is remembered of it.
Access == CASE rating = "allow" -> "allowed" [] rating = "block" -> "blocked" [] OTHER -> ses.access

\* onTune
TakeTune ==
  /\ Takes("tune") /\ GenLeft /\ tune.gen < MaxTune
  /\ gate' = GateIdle
  /\ pmt' = None
  /\ pipe' = Stop(pipe)
  /\ queue' = Tail(queue)
  /\ \E ok \in BOOLEAN :
       LET g == IF ok THEN tune.gen + 1 ELSE tune.gen
       IN /\ tune' = [gen |-> g, accepted |-> ok, linked |-> FALSE, ready |-> FALSE]
          /\ ses' = [ses EXCEPT !.pc = IF ok THEN "refresh" ELSE "idle", !.tuned = IF ok THEN g ELSE 0,
                                !.known = None, !.access = "unknown", !.noAudio = FALSE, !.weak = FALSE]
  /\ UNCHANGED <<kind, rating>>

\* onSetSurface; the pipeline gets the surface first.
TakeSurface ==
  /\ Takes("surface") /\ GenLeft
  /\ LET p == [(IF pipe.run THEN Stop(pipe) ELSE pipe) EXCEPT !.surface = Msg.on]
     IN /\ pipe' = IF Msg.on THEN p ELSE Stop(p)
        /\ queue' = Tail(queue) \o (IF Msg.on THEN <<>> ELSE <<Unavailable("other", p.gen)>>)
  /\ gate' = IF Msg.on THEN GateIdle ELSE GateStopped
  /\ Goes(IF Msg.on THEN "refresh" ELSE "idle")
  /\ UNCHANGED <<kind, pmt, rating, tune>>

TakeRefresh ==
  /\ Takes("refresh")
  /\ queue' = Tail(queue)
  /\ Goes("refresh")
  /\ UNCHANGED gate /\ SessionOnly

\* refreshDynamicSiAndCasFilters up to updateCasMetadataAndFilters: the snapshot
\* is taken, the controller opens or keeps the CAS sessions and the filters.
Refresh ==
  /\ ses.pc = "refresh" /\ GenLeft
  /\ LET current == tune.accepted /\ ses.tuned = tune.gen
     IN \/ /\ ses.tuned = 0 \/ ~current
           /\ ses' = [ses EXCEPT !.pc = "idle", !.known = IF ses.tuned = 0 THEN @ ELSE pmt]
           /\ UNCHANGED <<gate, tune, pipe>>
        \/ /\ ses.tuned # 0 /\ current /\ pmt = None
           /\ ses' = [ses EXCEPT !.pc = "idle", !.known = None]
           /\ gate' = GateStopped
           /\ tune' = [tune EXCEPT !.linked = FALSE, !.ready = FALSE]
           /\ pipe' = Stop(pipe)
        \/ /\ ses.tuned # 0 /\ current /\ pmt # None
           /\ ses' = [ses EXCEPT !.pc = "eligible", !.known = pmt]
           /\ \E keep \in BOOLEAN :
                tune' = [tune EXCEPT !.linked = kind.cas, !.ready = @ /\ keep /\ kind.cas]
           /\ UNCHANGED <<gate, pipe>>
  /\ UNCHANGED <<kind, pmt, rating, queue>>

CasLinkageReady == tune.accepted /\ ses.tuned = tune.gen /\ tune.ready
LivePlaybackEligible == ses.known # None /\ (~kind.cas \/ CasLinkageReady)

Eligible ==
  /\ ses.pc = "eligible"
  /\ gate' = IF LivePlaybackEligible THEN gate ELSE GateStopped
  /\ Goes(IF LivePlaybackEligible THEN "decide" ELSE "stop")
  /\ UNCHANGED queue /\ SessionOnly

\* maybeStartPlayback up to the choice of streams: may this content be seen?
Decide ==
  /\ ses.pc = "decide"
  /\ IF ~LivePlaybackEligible THEN Goes("idle") /\ UNCHANGED gate
     ELSE /\ ses' = [ses EXCEPT !.access = Access,
                       !.pc = CASE Access = "blocked" -> "stop"
                                [] Access = "unknown" -> "idle"
                                [] ses.known \in Unsupported -> "stop"
                                [] OTHER -> "sign"]
          /\ gate' = IF ses'.pc = "stop" THEN GateStopped ELSE gate
  /\ UNCHANGED queue /\ SessionOnly

PlaybackSignature ==
  [pmt |-> ses.known, audio |-> ~ses.noAudio, key |-> kind.cas /\ CasLinkageReady]

Sign ==
  /\ ses.pc = "sign"
  /\ LET go == ShouldAttempt(gate, PlaybackSignature)
     IN /\ gate' = IF go THEN Starting(PlaybackSignature) ELSE gate
        /\ Goes(IF go THEN "start" ELSE "idle")
  /\ UNCHANGED queue /\ SessionOnly

\* TunerController.startPlayback, and the commit of its result.
StartPlayback ==
  /\ ses.pc = "start" /\ GenLeft /\ Room(1)
  /\ Goes("idle")
  /\ \/ /\ ~tune.accepted \/ ses.tuned # tune.gen \/ (kind.cas /\ ~tune.ready)
        /\ gate' = Failed(gate.sig, None)
        /\ UNCHANGED <<pipe, queue>>
     \/ /\ tune.accepted /\ ses.tuned = tune.gen /\ (kind.cas => tune.ready)
        /\ \E h \in Outcomes(pipe) :
             LET r == StartResult(pipe, gate.sig, h)
             IN /\ pipe' = [StartPipe(pipe, gate.sig, h) EXCEPT !.recovered = FALSE]
                /\ gate' = AfterRestartResult(gate, gate.sig, r, r.pending \/ (kind.audioOnly /\ r.audio))
                /\ Post(StartNotice(pipe, h))
  /\ UNCHANGED <<kind, pmt, rating, tune>>

\* handleFirstFrameAvailable
TakeAvailable ==
  /\ Takes("available")
  /\ queue' = Tail(queue)
  /\ IF gate.k # "Waiting" \/ gate.gen # Msg.gen THEN UNCHANGED <<gate, ses>>
     ELSE /\ ses' = [ses EXCEPT !.access = Access, !.pc = IF Access = "blocked" THEN "stop" ELSE "idle"]
          /\ gate' = IF Access = "blocked" THEN GateStopped ELSE Started(gate.sig, gate.gen)
  /\ SessionOnly

\* A restart without audio drops the audio from what is being played.
AcceptGenerationRestart(s, restart) ==
  IF ~AcceptsGeneration(s, restart.origin) THEN s
  ELSE AfterRestartResult(s, IF restart.videoOnly THEN [s.sig EXCEPT !.audio = FALSE] ELSE s.sig,
                          restart.r, restart.r.audio \/ restart.r.pending)

\* handlePlaybackGenerationRestart
TakeRestart ==
  /\ Takes("restart")
  /\ queue' = Tail(queue)
  /\ gate' = AcceptGenerationRestart(gate, Msg)
  /\ ses' = [ses EXCEPT !.noAudio = @ \/ (AcceptsGeneration(gate, Msg.origin) /\ Msg.videoOnly)]
  /\ SessionOnly

\* handlePlaybackUnavailable
TakeUnavailable ==
  /\ Takes("unavailable")
  /\ queue' = Tail(queue)
  /\ gate' = IF ~AcceptsUnavailable(gate, Msg.gen) THEN gate
             ELSE CASE Msg.why = "recovery" -> FailCurrentGeneration(gate, Msg.gen)
                    [] Msg.why = "audio" /\ kind.audioOnly -> FailCurrentGeneration(gate, Msg.gen)
                    [] Msg.why = "nokey" -> GateStopped
                    [] Msg.why = "startup" /\ gate.sig # None -> Failed(gate.sig, gate.gen)
                    [] OTHER -> gate
  /\ UNCHANGED ses /\ SessionOnly

\* handleTunerResourceLost
TakeLost ==
  /\ Takes("lost")
  /\ queue' = Tail(queue)
  /\ IF Msg.gen # ses.tuned THEN UNCHANGED <<gate, ses>>
     ELSE gate' = GateStopped /\ ses' = [ses EXCEPT !.weak = FALSE]
  /\ SessionOnly

\* handleFrontendTuneEvent
TakeSignal ==
  /\ Takes("signal")
  /\ queue' = Tail(queue)
  /\ \/ /\ Msg.gen # ses.tuned \/ (~Msg.weak /\ ~ses.weak)
        /\ UNCHANGED <<gate, ses>>
     \/ /\ Msg.gen = ses.tuned /\ Msg.weak
        /\ gate' = GateStopped
        /\ ses' = [ses EXCEPT !.weak = TRUE, !.pc = "stop"]
     \/ /\ Msg.gen = ses.tuned /\ ~Msg.weak /\ ses.weak
        /\ gate' = GateIdle
        /\ ses' = [ses EXCEPT !.weak = FALSE, !.pc = "refresh"]
  /\ SessionOnly

TakeParentalQuietly ==
  /\ Takes("parental")
  /\ queue' = Tail(queue)
  /\ ses' = [ses EXCEPT !.access = Access,
               !.pc = IF rating = "allow" /\ ses.known # None THEN "decide" ELSE "idle"]
  /\ gate' = CASE Access = "blocked" -> GateStopped
               [] ses'.pc = "decide" -> AllowRetry(gate)
               [] OTHER -> gate
  /\ SessionOnly

\* reevaluateParentalControls
TakeParental ==
  /\ Takes("parental")
  /\ queue' = Tail(queue)
  /\ ses' = [ses EXCEPT !.access = Access,
               !.pc = CASE Access = "blocked" -> "stop"
                        [] rating = "allow" /\ ses.known # None -> "decide"
                        [] OTHER -> "idle"]
  /\ gate' = CASE ses'.pc = "stop" -> GateStopped
               [] ses'.pc = "decide" -> AllowRetry(gate)
               [] OTHER -> gate
  /\ SessionOnly

\* onUnblockContent: the viewer's code is accepted for this programme.
TakeUnblock ==
  /\ Takes("unblock")
  /\ queue' = Tail(queue)
  /\ IF rating # "block" THEN UNCHANGED <<rating, gate, ses>>
     ELSE /\ rating' = "allow"
          /\ gate' = IF ses.known # None THEN AllowRetry(gate) ELSE gate
          /\ Goes(IF ses.known # None THEN "decide" ELSE "idle")
  /\ UNCHANGED <<kind, pmt, tune, pipe>>

\* onSelectTrack, audio: only a started playback is switched.  currentTune is
\* read without the controller's executor.
TakeSelectAudio ==
  /\ Takes("audio") /\ GenLeft
  /\ IF gate.k # "Started" \/ ses.known = None \/ ~tune.accepted \/ pipe.sig = None
     THEN UNCHANGED <<gate, ses, pipe>> /\ queue' = Tail(queue)
     ELSE LET sig == [PlaybackSignature EXCEPT !.audio = TRUE]
          IN \E h \in Outcomes(pipe) :
               LET r == StartResult(pipe, sig, h)
               IN /\ pipe' = StartPipe(pipe, sig, h)
                  /\ gate' = AfterRestartResult(gate, sig, r, r.audio)
                  /\ ses' = [ses EXCEPT !.noAudio = @ /\ ~r.audio]
                  /\ queue' = Tail(queue) \o StartNotice(pipe, h)
  /\ UNCHANGED <<kind, pmt, rating, tune>>

\* onRelease: nothing queued runs any more, and the release itself is tried
\* again until everything is closed.
AskRelease ==
  /\ ses.released = "no"
  /\ ses' = [ses EXCEPT !.released = "asked"]
  /\ queue' = <<>>
  /\ UNCHANGED <<kind, pmt, rating, gate, tune, pipe>>

ReleaseSession ==
  /\ ses.released = "asked" /\ ses.pc = "idle" /\ GenLeft
  /\ \E done \in BOOLEAN : ses' = [ses EXCEPT !.released = IF done THEN "done" ELSE "asked"]
  /\ gate' = GateStopped
  /\ tune' = [tune EXCEPT !.accepted = FALSE, !.linked = FALSE, !.ready = FALSE]
  /\ pipe' = [Stop(pipe) EXCEPT !.retry = None]
  /\ UNCHANGED <<kind, pmt, rating, queue>>

-----------------------------------------------------------------------------
(* The framework and the viewer                                            *)

Request ==
  /\ ses.released = "no" /\ Room(1)
  /\ \E m \in {[t |-> "tune"], [t |-> "audio"], [t |-> "unblock"],
               [t |-> "surface", on |-> TRUE], [t |-> "surface", on |-> FALSE]} : queue' = Append(queue, m)
  /\ UNCHANGED <<kind, pmt, rating, gate, ses, tune, pipe>>

\* Settings change with a broadcast, the programme without one.
RatingChanges ==
  /\ rating' \in {"allow", "block", "failed"} \ {rating}
  /\ \/ UNCHANGED queue
     \/ Room(1) /\ Post(<<[t |-> "parental"]>>)
  /\ UNCHANGED <<kind, pmt, gate, ses, tune, pipe>>

LiveNext ==
  \/ FirstFrame \/ StartupFailure \/ OutputFailure \/ HandleAudioFailure \/ AudioRouteChanged
  \/ RecoverCodec \/ RetryCodec
  \/ TunerLost \/ TuneEvent \/ KeyLost \/ KeyFound \/ SectionIngested
  \/ StopPlayback \/ TakeTune \/ TakeSurface \/ TakeRefresh \/ Refresh \/ Eligible \/ Decide \/ Sign
  \/ StartPlayback \/ TakeAvailable \/ TakeRestart \/ TakeUnavailable \/ TakeLost \/ TakeSignal
  \/ TakeParental \/ TakeUnblock \/ TakeSelectAudio \/ AskRelease \/ ReleaseSession
  \/ Request \/ RatingChanges

LiveSpec == LiveInit /\ [][LiveNext]_liveVars

-----------------------------------------------------------------------------
(* Properties                                                              *)

\* Content plays, or is about to play again after a codec error, only while the
\* session's last answer to the parental question is that it may be seen.
PlaysOnlyAllowed ==
  (pipe.run \/ RetryIsCurrent(pipe)) /\ ses.pc # "stop" => ses.access = "allowed"

\* A service that needs a key is played only with it and on an accepted tune: once
\* the key or the tune is gone the pipeline has been stopped, at the latest by the
\* session task that is looking at the new state.
PlaysOnlyKeyed ==
  (pipe.run \/ RetryIsCurrent(pipe)) =>
    /\ tune.accepted
    /\ kind.cas /\ ~tune.ready => ses.pc \in {"eligible", "stop"}

\* A running playback belongs to the session: its state names the generation, or a
\* message that will tell it is on the way, or its task is not finished.
PlaybackOwned ==
  pipe.run /\ ses.pc = "idle" /\ ses.released = "no" =>
    \/ gate.gen = pipe.gen
    \/ \E i \in DOMAIN queue : queue[i].t = "restart" /\ queue[i].r.gen = pipe.gen

=============================================================================
