------------------------- MODULE LivePlaybackProofs --------------------------
(***************************************************************************)
(* What a live session plays may be seen, has its key and is known to the  *)
(* session, for any number of tunes, restarts and stream versions.  The    *)
(* invariant says what the messages between the pipeline, the controller   *)
(* and the session mean: the restarts the session has not heard of form a  *)
(* chain of generations from the one it knows to the one that plays.       *)
(***************************************************************************)
EXTENDS LivePlayback, TLAPS

-----------------------------------------------------------------------------
(* The inductive invariant: shapes, permission and key                     *)

\* A playback runs, or will run again after a codec error.
Plays(p) == p.run \/ RetryIsCurrent(p)

\* The generation under which the session is to know it.
Target(p) == IF p.run THEN p.gen ELSE p.retry.origin

PipeOK(p) ==
  /\ p \in [gen : Nat, run : BOOLEAN, sig : {p.sig}, notified : BOOLEAN, surface : {p.surface},
            recovered : BOOLEAN, retry : {p.retry}]
  /\ p.retry # None => /\ p.retry.stopped \in Nat /\ p.retry.origin \in Nat
                       /\ p.retry.stopped = p.retry.origin + 1 /\ p.retry.stopped <= p.gen
                       /\ p.run => p.retry.stopped < p.gen

SesOK(s) ==
  /\ s \in [pc : {"idle", "refresh", "eligible", "decide", "sign", "start", "stop"},
            tuned : Nat, known : {s.known}, access : {"unknown", "allowed", "blocked"},
            noAudio : {s.noAudio}, weak : {s.weak}, released : {"no", "asked", "done"}]
  /\ s.pc \in {"eligible", "decide", "sign", "start"} => s.known # None
  /\ s.pc \in {"sign", "start"} => s.access = "allowed"

GateOK(g) ==
  /\ g \in [k : {"Idle", "Stopped", "Starting", "Waiting", "Started", "Failed"}, sig : {g.sig}, gen : {g.gen}]
  /\ g.k \in {"Idle", "Stopped"} => g.sig = None /\ g.gen = None

TuneOK(t) ==
  /\ t \in [gen : Nat, accepted : BOOLEAN, linked : {t.linked}, ready : {t.ready}]
  /\ t.accepted => t.gen > 0

Shapes ==
  /\ PipeOK(pipe) /\ SesOK(ses) /\ GateOK(gate) /\ TuneOK(tune)
  /\ tune.accepted => ses.tuned = tune.gen /\ pipe.gen > 0
  /\ gate.k = "Starting" <=> ses.pc = "start"

AllowedInv ==
  /\ gate.k \in {"Starting", "Waiting", "Started", "Failed"} => ses.access = "allowed"
  /\ PlaysOnlyAllowed

KeyedInv ==
  Plays(pipe) \/ pipe.sig # None =>
    /\ tune.accepted
    /\ kind.cas /\ ~tune.ready => ses.pc \in {"eligible", "stop"}

-----------------------------------------------------------------------------
(* The messages between the executors                                      *)

Restarts(q, i) == i \in 1..Len(q) /\ q[i].t = "restart"
KeyGone(q, i) == i \in 1..Len(q) /\ q[i].t = "unavailable" /\ q[i].why = "nokey"
Losses(q, i) == i \in 1..Len(q) /\ q[i].t = "lost"

IsSeq(q) == \E S : q \in Seq(S)

\* No restart in q leads beyond t.
Bounded(q, t) == \A i : Restarts(q, i) => q[i].r.gen <= t

\* What is true of the messages, n being the playback generation.
Messages(q, n, g, accepted) ==
  /\ \A i : Restarts(q, i) => /\ q[i].origin \in Nat /\ q[i].r.gen \in Nat
                              /\ q[i].origin < q[i].r.gen /\ q[i].r.gen <= n
  /\ \A i : KeyGone(q, i) => q[i].gen \in Nat /\ 0 < q[i].gen /\ q[i].gen < n
  /\ \A i : Losses(q, i) => q[i].gen \in Nat /\ 0 < q[i].gen /\ q[i].gen <= g /\ (q[i].gen = g => ~accepted)
  /\ \A i, j : Restarts(q, i) /\ Restarts(q, j) /\ i < j => q[i].r.gen <= q[j].origin

\* The restarts the session has not heard of lead from its generation to t.
Linked(q, g, t) ==
  /\ g \in Nat
  /\ \A i : KeyGone(q, i) => q[i].gen < g
  /\ \A i : Restarts(q, i) /\ q[i].r.gen > g =>
       q[i].origin = g \/ \E j : Restarts(q, j) /\ j < i /\ q[j].r.gen > g /\ q[j].r.gen = q[i].origin
  /\ g = t \/ \E i : Restarts(q, i) /\ q[i].r.gen > g /\ q[i].r.gen = t

\* The session knows what plays (p), or a message in q will tell it, or its
\* task (s) ends with a start or a stop.
Owned(q, p, s, g) ==
  Plays(p) /\ s.released = "no" =>
    \/ s.pc \in {"start", "stop"}
    \/ g.k = "Idle" /\ s.pc \in {"refresh", "eligible", "decide", "sign"}
    \/ g.k \in {"Waiting", "Started", "Failed"} /\ Linked(q, g.gen, Target(p))

OwnedInv ==
  /\ IsSeq(queue)
  /\ Messages(queue, pipe.gen, tune.gen, tune.accepted)
  /\ Plays(pipe) => Bounded(queue, Target(pipe))
  /\ Owned(queue, pipe, ses, gate)

\* Messages that tell neither of a restart nor of a lost key or tuner.
Plain(ms) ==
  /\ IsSeq(ms)
  /\ \A i : ~Restarts(ms, i) /\ ~KeyGone(ms, i) /\ ~Losses(ms, i)

LiveInv == Shapes /\ AllowedInv /\ KeyedInv /\ OwnedInv

-----------------------------------------------------------------------------
(* The pipeline                                                            *)

\* A stopped pipeline plays nothing, and a retry planned before is not current.
LEMMA Stopped ==
  ASSUME NEW p, PipeOK(p)
  PROVE  /\ PipeOK(Stop(p)) /\ ~Plays(Stop(p)) /\ Stop(p).gen = p.gen + 1 /\ Stop(p).sig = None
         /\ Stop(p).retry = p.retry
<1>1. /\ Stop(p) \in [gen : Nat, run : BOOLEAN, sig : {None}, notified : BOOLEAN, surface : {p.surface},
                      recovered : BOOLEAN, retry : {p.retry}]
      /\ Stop(p).gen = p.gen + 1 /\ Stop(p).run = FALSE
  <2> DEFINE n == p.gen + 1
  <2>1. n \in Nat /\ Stop(p) = [p EXCEPT !.gen = n, !.run = FALSE, !.sig = None, !.notified = FALSE]
    BY DEF PipeOK, Stop
  <2> HIDE DEF n
  <2>2. /\ Stop(p) \in [gen : Nat, run : BOOLEAN, sig : {None}, notified : BOOLEAN, surface : {p.surface},
                        recovered : BOOLEAN, retry : {p.retry}]
        /\ Stop(p).gen = n /\ Stop(p).run = FALSE
    BY ZenonT(30), <2>1 DEF PipeOK
  <2> QED
    BY Zenon, <2>2 DEF n
<1>2. p.gen \in Nat /\ (p.retry # None => p.retry.stopped \in Nat /\ p.retry.stopped <= p.gen)
  BY Zenon DEF PipeOK
<1>3. ~Plays(Stop(p))
  BY <1>1, <1>2 DEF Plays, RetryIsCurrent
<1>4. PipeOK(Stop(p))
  BY <1>1, <1>2 DEF PipeOK
<1> QED
  BY Zenon, <1>1, <1>3, <1>4

\* A start opens new generations; if it plays, the result names the last of them.
LEMMA PipeStarted ==
  ASSUME NEW p, PipeOK(p), NEW sig,
         NEW h \in {"ok", "mute", "surface", "filter", "sync", "dirty"}, NEW y, y = StartPipe(p, sig, h)
  PROVE  /\ PipeOK(y) /\ ~RetryIsCurrent(y) /\ y.gen > p.gen /\ y.retry = p.retry
         /\ y.sig # None => h # "dirty"
         /\ y.run => h \in {"ok", "mute"} /\ y.gen = p.gen + 2
         /\ h # "dirty" => StartResult(p, sig, h).gen = p.gen + 2 /\ y.gen >= p.gen + 2
         /\ StartResult(p, sig, h).gen \in Nat
<1> DEFINE q == [Stop(p) EXCEPT !.gen = @ + 1, !.sig = sig]
<1>0. p.gen \in Nat
  BY Zenon DEF PipeOK
<1>1. /\ PipeOK(Stop(p)) /\ ~Plays(Stop(p)) /\ Stop(p).gen = p.gen + 1 /\ Stop(p).sig = None
      /\ Stop(p).retry = p.retry
  BY Zenon, Stopped
<1>2. /\ q \in [gen : Nat, run : BOOLEAN, sig : {sig}, notified : BOOLEAN, surface : {Stop(p).surface},
                recovered : BOOLEAN, retry : {p.retry}]
      /\ q.gen = p.gen + 2 /\ q.run = FALSE
  <2> DEFINE o == Stop(p)
  <2>1. PipeOK(o) /\ o.gen = p.gen + 1 /\ o.retry = p.retry /\ o.run = FALSE
    BY Zenon, <1>0, <1>1 DEF Plays, PipeOK
  <2> DEFINE n == o.gen + 1
  <2>2. q = [o EXCEPT !.gen = n, !.sig = sig]
    BY Zenon
  <2> HIDE DEF o
  <2>5. n \in Nat /\ n = p.gen + 2
    BY <1>0, <2>1
  <2> HIDE DEF n, q
  <2>3. q \in [gen : Nat, run : BOOLEAN, sig : {sig}, notified : BOOLEAN, surface : {o.surface},
                recovered : BOOLEAN, retry : {p.retry}]
    BY ZenonT(30), <2>1, <2>2, <2>5 DEF PipeOK
  <2>4. q.gen = n /\ q.run = FALSE
    BY Zenon, <2>1, <2>2 DEF PipeOK
  <2> QED
    BY Zenon, <2>3, <2>4, <2>5 DEF o
<1>3. p.retry # None => p.retry.stopped \in Nat /\ p.retry.origin \in Nat
                        /\ p.retry.stopped = p.retry.origin + 1 /\ p.retry.stopped <= p.gen
  BY Zenon DEF PipeOK
<1>4. PipeOK(q) /\ q.gen = p.gen + 2 /\ q.retry = p.retry /\ ~q.run /\ ~RetryIsCurrent(q)
  <2> HIDE DEF q
  <2> QED
    BY <1>0, <1>2, <1>3 DEF PipeOK, RetryIsCurrent
<1>5. /\ PipeOK([q EXCEPT !.run = TRUE]) /\ [q EXCEPT !.run = TRUE].gen = p.gen + 2
      /\ [q EXCEPT !.run = TRUE].retry = p.retry /\ ~RetryIsCurrent([q EXCEPT !.run = TRUE])
  <2> HIDE DEF q
  <2> DEFINE r == [q EXCEPT !.run = TRUE]
  <2>1. r \in [gen : Nat, run : BOOLEAN, sig : {sig}, notified : BOOLEAN, surface : {q.surface},
               recovered : BOOLEAN, retry : {p.retry}] /\ r.gen = p.gen + 2
    BY ZenonT(30), <1>2, <1>4 DEF PipeOK
  <2> HIDE DEF r
  <2>2. PipeOK(r) /\ r.gen = p.gen + 2 /\ r.retry = p.retry /\ ~RetryIsCurrent(r)
    BY <1>0, <1>3, <2>1 DEF PipeOK, RetryIsCurrent
  <2> QED
    BY Zenon, <2>2 DEF r
<1>6. PipeOK(Stop(q)) /\ ~Plays(Stop(q)) /\ Stop(q).gen = p.gen + 3 /\ Stop(q).retry = p.retry
  <2> HIDE DEF q
  <2> QED
    BY <1>0, <1>4, Stopped
<1>7. /\ h \in {"ok", "mute"} => y = [q EXCEPT !.run = TRUE]
      /\ h = "surface" => y = q
      /\ h \in {"filter", "sync"} => y = Stop(q)
      /\ h = "dirty" => y = Stop(p)
  BY Zenon DEF StartPipe
<1>8. StartResult(p, sig, h).gen = IF h = "dirty" THEN p.gen + 1 ELSE p.gen + 2
  BY Zenon DEF StartResult
<1> HIDE DEF q
<1>9. CASE h \in {"ok", "mute"}
  <2>1. PipeOK(y) /\ y.gen = p.gen + 2 /\ y.retry = p.retry /\ ~RetryIsCurrent(y)
    BY <1>5, <1>7, <1>9, Zenon
  <2> QED
    BY <1>0, <1>8, <1>9, <2>1
<1>10. CASE h = "surface"
  BY <1>0, <1>4, <1>7, <1>8, <1>10
<1>11. CASE h \in {"filter", "sync"}
  BY <1>0, <1>6, <1>7, <1>8, <1>11 DEF Plays
<1>12. CASE h = "dirty"
  BY <1>0, <1>1, <1>7, <1>8, <1>12 DEF Plays
<1> QED
  BY Zenon, <1>9, <1>10, <1>11, <1>12

-----------------------------------------------------------------------------
(* The queue of the session                                                *)

\* Where the messages are after some are added.
LEMMA Joined ==
  ASSUME NEW q, NEW ms, IsSeq(q), IsSeq(ms)
  PROVE  /\ IsSeq(q \o ms) /\ Len(q) \in Nat /\ Len(ms) \in Nat
         /\ \A i : i \in 1..Len(q \o ms) <=> i \in 1..Len(q) \/ (i \in Int /\ i - Len(q) \in 1..Len(ms))
         /\ \A i \in 1..Len(q) : (q \o ms)[i] = q[i]
         /\ \A i \in Int : i - Len(q) \in 1..Len(ms) => (q \o ms)[i] = ms[i - Len(q)]
<1>1. PICK S : q \in Seq(S)
  BY Zenon DEF IsSeq
<1>2. PICK T : ms \in Seq(T)
  BY Zenon DEF IsSeq
<1>3. q \in Seq(S \cup T) /\ ms \in Seq(S \cup T)
  BY <1>1, <1>2
<1>4. q \o ms \in Seq(S \cup T) /\ Len(q) \in Nat /\ Len(ms) \in Nat /\ Len(q \o ms) = Len(q) + Len(ms)
  BY <1>3
<1>5. \A i \in 1..Len(q \o ms) : (q \o ms)[i] = IF i <= Len(q) THEN q[i] ELSE ms[i - Len(q)]
  BY <1>3
<1>6. \A i \in 1..Len(q) : (q \o ms)[i] = q[i]
  BY <1>4, <1>5
<1>7. \A i \in Int : i - Len(q) \in 1..Len(ms) => (q \o ms)[i] = ms[i - Len(q)]
  BY <1>4, <1>5
<1>8. \A i : i \in 1..Len(q \o ms) <=> i \in 1..Len(q) \/ (i \in Int /\ i - Len(q) \in 1..Len(ms))
  BY <1>4
<1> QED
  BY Zenon, <1>4, <1>6, <1>7, <1>8 DEF IsSeq

\* Plain messages change nothing of what the queue says.
LEMMA PlainPosted ==
  ASSUME NEW q, NEW ms, IsSeq(q), Plain(ms)
  PROVE  /\ IsSeq(q \o ms)
         /\ \A n, g, a : Messages(q, n, g, a) => Messages(q \o ms, n, g, a)
         /\ \A g, t : Linked(q, g, t) => Linked(q \o ms, g, t)
         /\ \A t : Bounded(q, t) => Bounded(q \o ms, t)
<1> DEFINE w == q \o ms
<1>0. IsSeq(ms)
  BY Zenon DEF Plain
<1>1. /\ IsSeq(w) /\ Len(q) \in Nat /\ Len(ms) \in Nat
      /\ \A i : i \in 1..Len(w) <=> i \in 1..Len(q) \/ (i \in Int /\ i - Len(q) \in 1..Len(ms))
      /\ \A i \in 1..Len(q) : w[i] = q[i]
      /\ \A i \in Int : i - Len(q) \in 1..Len(ms) => w[i] = ms[i - Len(q)]
  BY Zenon, <1>0, Joined
<1> HIDE DEF w
<1>2. \A i : Restarts(w, i) <=> Restarts(q, i)
  BY Zenon, <1>1 DEF Plain, Restarts
<1>3. \A i : KeyGone(w, i) <=> KeyGone(q, i)
  BY Zenon, <1>1 DEF Plain, KeyGone
<1>4. \A i : Losses(w, i) <=> Losses(q, i)
  BY Zenon, <1>1 DEF Plain, Losses
<1>5. \A i : Restarts(q, i) \/ KeyGone(q, i) \/ Losses(q, i) => w[i] = q[i]
  BY Zenon, <1>1 DEF Restarts, KeyGone, Losses
<1>6. \A n, g, a : Messages(q, n, g, a) => Messages(w, n, g, a)
  BY <1>2, <1>3, <1>4, <1>5 DEF Messages
<1>7. \A g, t : Linked(q, g, t) => Linked(w, g, t)
  <2> SUFFICES ASSUME NEW g, NEW t, Linked(q, g, t) PROVE Linked(w, g, t)
    BY Zenon
  <2>1. \A i : Restarts(w, i) /\ w[i].r.gen > g =>
          w[i].origin = g \/ \E j : Restarts(w, j) /\ j < i /\ w[j].r.gen > g /\ w[j].r.gen = w[i].origin
    BY Zenon, <1>2, <1>5 DEF Linked
  <2>2. g = t \/ \E i : Restarts(w, i) /\ w[i].r.gen > g /\ w[i].r.gen = t
    BY Zenon, <1>2, <1>5 DEF Linked
  <2> QED
    BY Zenon, <1>3, <1>5, <2>1, <2>2 DEF Linked
<1>8. \A t : Bounded(q, t) => Bounded(w, t)
  BY Zenon, <1>2, <1>5 DEF Bounded
<1> QED
  BY Zenon, <1>1, <1>6, <1>7, <1>8 DEF w

\* A restart is posted under the generation the session will know by then.
LEMMA RestartPosted ==
  ASSUME NEW q, NEW ms, IsSeq(q), IsSeq(ms), NEW k,
         \A i : (Restarts(ms, i) <=> i = k) /\ ~KeyGone(ms, i) /\ ~Losses(ms, i),
         NEW o \in Nat, NEW r \in Nat, ms[k].origin = o, ms[k].r.gen = r, o < r, Bounded(q, o),
         NEW n \in Nat, NEW m \in Nat, n <= m, r <= m, NEW g, NEW a, Messages(q, n, g, a)
  PROVE  /\ IsSeq(q \o ms) /\ Messages(q \o ms, m, g, a) /\ Bounded(q \o ms, r)
         /\ \A x : Linked(q, x, o) => Linked(q \o ms, x, r)
<1> DEFINE w == q \o ms
<1> DEFINE l == Len(q) + k
<1>1. /\ IsSeq(w) /\ Len(q) \in Nat /\ Len(ms) \in Nat
      /\ \A i : i \in 1..Len(w) <=> i \in 1..Len(q) \/ (i \in Int /\ i - Len(q) \in 1..Len(ms))
      /\ \A i \in 1..Len(q) : w[i] = q[i]
      /\ \A i \in Int : i - Len(q) \in 1..Len(ms) => w[i] = ms[i - Len(q)]
  BY Zenon, Joined
<1>0. k \in 1..Len(ms)
  BY Zenon DEF Restarts
<1> HIDE DEF w
<1>2. \A i : Restarts(w, i) <=> Restarts(q, i) \/ i = l
  <2>1. \A i \in 1..Len(q) : Restarts(w, i) <=> Restarts(q, i)
    BY ZenonT(30), <1>1 DEF Restarts
  <2>2. \A i \in Int : i - Len(q) \in 1..Len(ms) => (Restarts(w, i) <=> Restarts(ms, i - Len(q)))
    BY ZenonT(30), <1>1 DEF Restarts
  <2>3. \A i \in Int : i - Len(q) = k <=> i = l
    BY <1>0, <1>1
  <2>4. l \in Int /\ l - Len(q) = k /\ l \notin 1..Len(q)
    BY <1>0, <1>1
  <2>5. \A i \in Int : i - Len(q) \in 1..Len(ms) => (Restarts(w, i) <=> i = l)
    BY ZenonT(30), <2>2, <2>3
  <2>6. \A i : Restarts(w, i) => i \in 1..Len(q) \/ (i \in Int /\ i - Len(q) \in 1..Len(ms))
    BY ZenonT(30), <1>1 DEF Restarts
  <2>7. \A i : Restarts(q, i) => i \in 1..Len(q)
    BY Zenon DEF Restarts
  <2> HIDE DEF l
  <2>8. Restarts(w, l)
    BY Zenon, <1>0, <2>4, <2>5
  <2> QED
    BY ZenonT(30), <2>1, <2>5, <2>6, <2>7, <2>8
<1>3. \A i : KeyGone(w, i) <=> KeyGone(q, i)
  BY ZenonT(30), <1>1 DEF KeyGone
<1>4. \A i : Losses(w, i) <=> Losses(q, i)
  BY Zenon, <1>1 DEF Losses
<1>5. \A i : Restarts(q, i) \/ KeyGone(q, i) \/ Losses(q, i) => w[i] = q[i]
  BY Zenon, <1>1 DEF Restarts, KeyGone, Losses
<1>6. w[l].origin = o /\ w[l].r.gen = r /\ l \in Nat /\ ~Restarts(q, l) /\ \A i : Restarts(q, i) => i \in Nat /\ i < l
  <2>1. l \in Nat /\ l - Len(q) = k /\ l - Len(q) \in 1..Len(ms)
    BY <1>0, <1>1
  <2>2. w[l] = ms[k]
    BY <1>1, <2>1
  <2>3. \A i : Restarts(q, i) => i \in Nat /\ i < l
    BY <1>0, <1>1 DEF Restarts
  <2> QED
    BY <2>1, <2>2, <2>3
<1> HIDE DEF l
<1>7. \A i : Restarts(q, i) => q[i].r.gen \in Nat /\ q[i].r.gen <= o
  BY Zenon DEF Bounded, Messages
<1>8. Messages(w, m, g, a)
  <2>1. \A i : Restarts(w, i) => /\ w[i].origin \in Nat /\ w[i].r.gen \in Nat
                                 /\ w[i].origin < w[i].r.gen /\ w[i].r.gen <= m
    BY <1>2, <1>5, <1>6 DEF Messages
  <2>2. \A i : KeyGone(w, i) => w[i].gen \in Nat /\ 0 < w[i].gen /\ w[i].gen < m
    BY <1>3, <1>5 DEF Messages
  <2>3. \A i, j : Restarts(w, i) /\ Restarts(w, j) /\ i < j => w[i].r.gen <= w[j].origin
    BY <1>2, <1>5, <1>6, <1>7 DEF Messages
  <2> QED
    BY Zenon, <1>4, <1>5, <2>1, <2>2, <2>3 DEF Messages
<1>9. Bounded(w, r)
  BY <1>2, <1>5, <1>6, <1>7 DEF Bounded
<1>10. ASSUME NEW x, Linked(q, x, o) PROVE Linked(w, x, r)
  <2>0. x \in Nat /\ x <= o
    BY <1>7, <1>10 DEF Linked
  <2>1. ASSUME NEW i, Restarts(w, i), w[i].r.gen > x
        PROVE  w[i].origin = x \/ \E j : Restarts(w, j) /\ j < i /\ w[j].r.gen > x /\ w[j].r.gen = w[i].origin
    <3>1. CASE i = l
      BY Zenon, <1>2, <1>5, <1>6, <1>10, <3>1 DEF Linked
    <3>2. CASE i # l
      BY Zenon, <1>2, <1>5, <1>10, <2>1, <3>2 DEF Linked
    <3> QED
      BY Zenon, <3>1, <3>2
  <2>2. Restarts(w, l) /\ w[l].r.gen > x /\ w[l].r.gen = r
    BY <1>2, <1>6, <2>0
  <2>3. \A i : KeyGone(w, i) => w[i].gen < x
    BY Zenon, <1>3, <1>5, <1>10 DEF Linked
  <2> QED
    BY Zenon, <2>0, <2>1, <2>2, <2>3 DEF Linked
<1> QED
  BY Zenon, <1>1, <1>8, <1>9, <1>10 DEF w

\* The news of a lost key or tuner concerns an older playback or tune.
LEMMA LossPosted ==
  ASSUME NEW q, NEW m, IsSeq(q), NEW n \in Nat, NEW g \in Nat, NEW a, NEW b, Messages(q, n, g, a), b => a,
         \/ m.t = "unavailable" /\ m.why = "nokey" /\ m.gen \in Nat /\ 0 < m.gen /\ m.gen <= n
         \/ m.t = "lost" /\ m.gen = g /\ 0 < g /\ ~b
  PROVE  IsSeq(q \o <<m>>) /\ Messages(q \o <<m>>, n + 1, g, b)
<1> DEFINE ms == <<m>>
<1> DEFINE w == q \o ms
<1> DEFINE l == Len(q) + 1
<1>0. IsSeq(ms) /\ Len(ms) = 1 /\ ms[1] = m
  <2>1. ms \in Seq({m}) /\ Len(ms) = 1 /\ ms[1] = m
    OBVIOUS
  <2> QED
    BY ZenonT(30), <2>1 DEF IsSeq
<1> HIDE DEF ms
<1>1. /\ IsSeq(w) /\ Len(q) \in Nat /\ Len(ms) \in Nat
      /\ \A i : i \in 1..Len(w) <=> i \in 1..Len(q) \/ (i \in Int /\ i - Len(q) \in 1..Len(ms))
      /\ \A i \in 1..Len(q) : w[i] = q[i]
      /\ \A i \in Int : i - Len(q) \in 1..Len(ms) => w[i] = ms[i - Len(q)]
  BY ZenonT(30), <1>0, Joined
<1> HIDE DEF w
<1>2. \A i : i \in 1..Len(w) <=> i \in 1..Len(q) \/ i = l
  BY <1>0, <1>1
<1>3. w[l] = m /\ l \notin 1..Len(q)
  BY <1>0, <1>1
<1> HIDE DEF l
<1>4. \A i : Restarts(w, i) <=> Restarts(q, i)
  BY ZenonT(30), <1>1, <1>2, <1>3 DEF Restarts
<1>5. \A i : Restarts(q, i) => w[i] = q[i]
  BY Zenon, <1>1 DEF Restarts
<1>6. \A i : KeyGone(w, i) => w[i].gen \in Nat /\ 0 < w[i].gen /\ w[i].gen < n + 1
  <2>1. \A i : KeyGone(w, i) => i = l \/ (KeyGone(q, i) /\ w[i] = q[i])
    BY ZenonT(30), <1>1, <1>2 DEF KeyGone
  <2>2. KeyGone(w, l) => m.gen \in Nat /\ 0 < m.gen /\ m.gen <= n
    BY Zenon, <1>3 DEF KeyGone
  <2>3. \A i : KeyGone(q, i) => q[i].gen \in Nat /\ 0 < q[i].gen /\ q[i].gen < n
    BY Zenon DEF Messages
  <2> QED
    BY <1>3, <2>1, <2>2, <2>3
<1>7. \A i : Losses(w, i) => w[i].gen \in Nat /\ 0 < w[i].gen /\ w[i].gen <= g /\ (w[i].gen = g => ~b)
  <2>1. \A i : Losses(w, i) => i = l \/ (Losses(q, i) /\ w[i] = q[i])
    BY ZenonT(30), <1>1, <1>2 DEF Losses
  <2>2. Losses(w, l) => m.gen = g /\ 0 < g /\ ~b
    BY Zenon, <1>3 DEF Losses
  <2>3. \A i : Losses(q, i) => q[i].gen \in Nat /\ 0 < q[i].gen /\ q[i].gen <= g /\ (q[i].gen = g => ~b)
    BY Zenon DEF Messages
  <2> QED
    BY <1>3, <2>1, <2>2, <2>3
<1>8. \A i : Restarts(w, i) => /\ w[i].origin \in Nat /\ w[i].r.gen \in Nat
                               /\ w[i].origin < w[i].r.gen /\ w[i].r.gen <= n + 1
  BY <1>4, <1>5 DEF Messages
<1>9. \A i, j : Restarts(w, i) /\ Restarts(w, j) /\ i < j => w[i].r.gen <= w[j].origin
  BY Zenon, <1>4, <1>5 DEF Messages
<1> QED
  BY ZenonT(30), <1>1, <1>6, <1>7, <1>8, <1>9 DEF Messages, w, ms

\* Later generations of playback and tune leave the messages what they are.
LEMMA MessagesKept ==
  ASSUME NEW q, NEW n \in Nat, NEW g \in Nat, NEW a, Messages(q, n, g, a)
  PROVE  /\ \A m \in Nat : n <= m => Messages(q, m, g, a)
         /\ \A b : (b => a) => Messages(q, n, g, b)
         /\ \A b : Messages(q, n, g + 1, b)
         /\ \A x \in Nat : n < x => Linked(q, x, x)
<1>1. \A m \in Nat : n <= m => Messages(q, m, g, a)
  BY DEF Messages
<1>2. \A b : (b => a) => Messages(q, n, g, b)
  BY Zenon DEF Messages
<1>3. \A b : Messages(q, n, g + 1, b)
  BY DEF Messages
<1>4. \A x \in Nat : n < x => Linked(q, x, x)
  BY DEF Messages, Linked
<1> QED
  BY Zenon, <1>1, <1>2, <1>3, <1>4

\* Taking a message leaves the others what they are.
LEMMA MessageTaken ==
  ASSUME NEW q, IsSeq(q), q # <<>>
  PROVE  /\ IsSeq(Tail(q))
         /\ \A n, g, a : Messages(q, n, g, a) => Messages(Tail(q), n, g, a)
         /\ \A t : Bounded(q, t) => Bounded(Tail(q), t)
         /\ \A n, c, a, g, t : Messages(q, n, c, a) /\ Bounded(q, t) /\ Linked(q, g, t) =>
              IF q[1].t = "restart" /\ q[1].origin = g THEN Linked(Tail(q), q[1].r.gen, t) ELSE Linked(Tail(q), g, t)
<1> DEFINE w == Tail(q)
<1>0. PICK S : q \in Seq(S)
  BY Zenon DEF IsSeq
<1>1. /\ w \in Seq(S) /\ Len(q) \in Nat /\ Len(q) >= 1 /\ Len(w) = Len(q) - 1
      /\ \A i \in 1..Len(w) : w[i] = q[i + 1]
  BY <1>0
<1> HIDE DEF w
<1>2. \A i : Restarts(w, i) => Restarts(q, i + 1) /\ w[i] = q[i + 1] /\ i \in Nat /\ i > 0
  BY <1>1 DEF Restarts
<1>3. \A i : KeyGone(w, i) => KeyGone(q, i + 1) /\ w[i] = q[i + 1]
  BY <1>1 DEF KeyGone
<1>4. \A i : Losses(w, i) => Losses(q, i + 1) /\ w[i] = q[i + 1]
  BY <1>1 DEF Losses
<1>5. \A i : Restarts(q, i) => i \in Nat /\ (i = 1 \/ (i > 1 /\ Restarts(w, i - 1) /\ w[i - 1] = q[i]))
  BY <1>1 DEF Restarts
<1>6. \A n, g, a : Messages(q, n, g, a) => Messages(w, n, g, a)
  <2> SUFFICES ASSUME NEW n, NEW g, NEW a, Messages(q, n, g, a) PROVE Messages(w, n, g, a)
    BY Zenon
  <2>1. \A i : Restarts(w, i) => /\ w[i].origin \in Nat /\ w[i].r.gen \in Nat
                                 /\ w[i].origin < w[i].r.gen /\ w[i].r.gen <= n
    BY Zenon, <1>2 DEF Messages
  <2>2. \A i : KeyGone(w, i) => w[i].gen \in Nat /\ 0 < w[i].gen /\ w[i].gen < n
    BY Zenon, <1>3 DEF Messages
  <2>3. \A i : Losses(w, i) => w[i].gen \in Nat /\ 0 < w[i].gen /\ w[i].gen <= g /\ (w[i].gen = g => ~a)
    BY Zenon, <1>4 DEF Messages
  <2>4. ASSUME NEW i, NEW j, Restarts(w, i), Restarts(w, j), i < j PROVE w[i].r.gen <= w[j].origin
    <3>1. i + 1 < j + 1 /\ Restarts(q, i + 1) /\ Restarts(q, j + 1) /\ w[i] = q[i + 1] /\ w[j] = q[j + 1]
      BY <1>2, <2>4
    <3> QED
      BY Zenon, <3>1 DEF Messages
  <2> QED
    BY Zenon, <2>1, <2>2, <2>3, <2>4 DEF Messages
<1>7. \A t : Bounded(q, t) => Bounded(w, t)
  BY Zenon, <1>2 DEF Bounded
<1>8. ASSUME NEW g, NEW t, NEW h, Linked(q, g, t), Bounded(q, t), h \in Nat, h >= g,
             \A i : Restarts(w, i) => w[i].origin \in Nat /\ w[i].r.gen \in Nat /\ w[i].origin < w[i].r.gen,
             \A i : KeyGone(w, i) => w[i].gen \in Nat,
             h = g => ~(Restarts(q, 1) /\ q[1].r.gen > g),
             h # g => Restarts(q, 1) /\ q[1].r.gen = h /\ \A i : Restarts(w, i) => w[i].origin >= h
      PROVE  Linked(w, h, t)
  <2>1. ASSUME NEW i, Restarts(w, i), w[i].r.gen > h
        PROVE  w[i].origin = h \/ \E j : Restarts(w, j) /\ j < i /\ w[j].r.gen > h /\ w[j].r.gen = w[i].origin
    <3>0. Restarts(q, i + 1) /\ w[i] = q[i + 1] /\ i \in Nat /\ g \in Nat
      BY Zenon, <1>2, <1>8, <2>1 DEF Linked
    <3>1. \/ w[i].origin = g
          \/ \E j : Restarts(q, j) /\ j < i + 1 /\ q[j].r.gen > g /\ q[j].r.gen = w[i].origin
      BY <1>8, <2>1, <3>0 DEF Linked
    <3>2. CASE w[i].origin = g
      BY <1>8, <2>1, <3>0, <3>2
    <3>3. CASE \E j : Restarts(q, j) /\ j < i + 1 /\ q[j].r.gen > g /\ q[j].r.gen = w[i].origin
      <4>1. PICK j : Restarts(q, j) /\ j < i + 1 /\ q[j].r.gen > g /\ q[j].r.gen = w[i].origin
        BY Zenon, <3>3
      <4>2. CASE j = 1
        BY Zenon, <1>8, <4>1, <4>2
      <4>3. CASE j > 1
        <5>1. Restarts(w, j - 1) /\ w[j - 1] = q[j] /\ j \in Nat /\ j - 1 < i
          BY <1>5, <3>0, <4>1, <4>3
        <5> QED
          BY <1>8, <2>1, <3>0, <4>1, <5>1
      <4> QED
        BY Zenon, <1>5, <4>1, <4>2, <4>3
    <3> QED
      BY Zenon, <3>1, <3>2, <3>3
  <2>2. h = t \/ \E i : Restarts(w, i) /\ w[i].r.gen > h /\ w[i].r.gen = t
    <3>1. CASE g = t
      <4>1. h = g
        BY <1>8, <3>1 DEF Bounded, Linked
      <4> QED
        BY Zenon, <3>1, <4>1
    <3>2. CASE \E i : Restarts(q, i) /\ q[i].r.gen > g /\ q[i].r.gen = t
      <4>1. PICK i : Restarts(q, i) /\ q[i].r.gen > g /\ q[i].r.gen = t
        BY Zenon, <3>2
      <4>2. CASE i = 1
        BY Zenon, <1>8, <4>1, <4>2
      <4>3. CASE i > 1
        <5>1. Restarts(w, i - 1) /\ w[i - 1] = q[i]
          BY <1>5, <4>1, <4>3
        <5>2. h # g => w[i - 1].r.gen > h
          BY <1>8, <5>1
        <5> QED
          BY Zenon, <1>8, <4>1, <5>1, <5>2
      <4> QED
        BY Zenon, <1>5, <4>1, <4>2, <4>3
    <3> QED
      BY Zenon, <1>8, <3>1, <3>2 DEF Linked
  <2>3. \A i : KeyGone(w, i) => w[i].gen < h
    <3>1. \A i : KeyGone(w, i) => w[i].gen \in Nat
      BY Zenon, <1>8
    <3> QED
      BY <1>3, <1>8, <3>1 DEF Linked
  <2> QED
    BY Zenon, <1>8, <2>1, <2>2, <2>3 DEF Linked
<1>9. ASSUME NEW n, NEW c, NEW a, NEW g, NEW t, Messages(q, n, c, a), Bounded(q, t), Linked(q, g, t)
      PROVE  IF q[1].t = "restart" /\ q[1].origin = g THEN Linked(w, q[1].r.gen, t) ELSE Linked(w, g, t)
  <2>1. /\ \A i : Restarts(w, i) => w[i].origin \in Nat /\ w[i].r.gen \in Nat /\ w[i].origin < w[i].r.gen
        /\ \A i : KeyGone(w, i) => w[i].gen \in Nat
    BY ZenonT(30), <1>6, <1>9 DEF Messages
  <2>2. g \in Nat
    BY Zenon, <1>9 DEF Linked
  <2>3. q[1].t = "restart" => Restarts(q, 1)
    BY <1>1 DEF Restarts
  <2>4. CASE q[1].t = "restart" /\ q[1].origin = g
    <3>1. q[1].r.gen \in Nat /\ q[1].r.gen > g
      BY Zenon, <1>9, <2>2, <2>3, <2>4 DEF Messages
    <3>2. \A i : Restarts(w, i) => w[i].origin >= q[1].r.gen
      <4>1. \A i : Restarts(w, i) => Restarts(q, i + 1) /\ w[i] = q[i + 1] /\ 1 < i + 1
        BY <1>2
      <4>2. \A j : Restarts(q, j) /\ 1 < j => q[1].r.gen <= q[j].origin
        BY Zenon, <1>9, <2>3, <2>4 DEF Messages
      <4> QED
        BY Zenon, <2>1, <3>1, <4>1, <4>2
    <3>3. q[1].r.gen >= g /\ q[1].r.gen # g
      BY <2>2, <3>1
    <3>4. Linked(w, q[1].r.gen, t)
      BY Zenon, <1>8, <1>9, <2>1, <2>3, <2>4, <3>1, <3>2, <3>3
    <3> QED
      BY Zenon, <2>4, <3>4
  <2>5. CASE ~(q[1].t = "restart" /\ q[1].origin = g)
    <3>1. ~(Restarts(q, 1) /\ q[1].r.gen > g)
      <4> SUFFICES ASSUME Restarts(q, 1), q[1].r.gen > g PROVE FALSE
        BY Zenon
      <4>1. q[1].origin # g
        BY Zenon, <2>5 DEF Restarts
      <4>2. PICK j : Restarts(q, j) /\ j < 1
        BY Zenon, <1>9, <4>1 DEF Linked
      <4> QED
        BY <1>5, <4>2
    <3>3. g >= g
      BY <2>2
    <3>2. Linked(w, g, t)
      BY ZenonT(30), <1>8, <1>9, <2>1, <2>2, <3>1, <3>3
    <3> QED
      BY Zenon, <2>5, <3>2
  <2> QED
    BY Zenon, <2>4, <2>5
<1>10. IsSeq(w)
  BY Zenon, <1>1 DEF IsSeq
<1> QED
  BY Zenon, <1>6, <1>7, <1>9, <1>10 DEF w

\* Messages of every other kind tell nothing of restarts and losses.
LEMMA PlainMessage ==
  ASSUME NEW m, m.t \notin {"restart", "lost"}, m.t = "unavailable" => m.why # "nokey"
  PROVE  Plain(<<m>>)
<1> DEFINE ms == <<m>>
<1>1. ms \in Seq({m}) /\ \A i : i \in 1..Len(ms) => ms[i] = m
  OBVIOUS
<1> HIDE DEF ms
<1>2. Plain(ms)
  BY Zenon, <1>1 DEF Plain, IsSeq, Restarts, KeyGone, Losses
<1> QED
  BY Zenon, <1>2 DEF ms

\* Nor does what a start reports by itself.
LEMMA NoticePlain ==
  ASSUME NEW p, NEW h
  PROVE  Plain(StartNotice(p, h))
<1>1. Plain(<<>>)
  <2> DEFINE ms == <<>>
  <2>1. ms \in Seq({}) /\ \A i : i \notin 1..Len(ms)
    OBVIOUS
  <2> HIDE DEF ms
  <2>2. Plain(ms)
    BY Zenon, <2>1 DEF Plain, IsSeq, Restarts, KeyGone, Losses
  <2> QED
    BY Zenon, <2>2 DEF ms
<1>2. \A why, g : why # "nokey" => Plain(<<Unavailable(why, g)>>)
  <2> SUFFICES ASSUME NEW why, NEW g, why # "nokey" PROVE Plain(<<Unavailable(why, g)>>)
    BY Zenon
  <2> DEFINE m == Unavailable(why, g)
  <2>1. m.t = "unavailable" /\ m.why = why
    BY Zenon DEF Unavailable
  <2> HIDE DEF m
  <2>2. Plain(<<m>>)
    BY Zenon, <2>1, PlainMessage
  <2> QED
    BY Zenon, <2>2 DEF m
<1> QED
  BY Zenon, <1>1, <1>2 DEF StartNotice

\* One message after plain ones: the last is the only restart.
LEMMA LastMessage ==
  ASSUME NEW ms, Plain(ms), NEW m, m.t = "restart"
  PROVE  \E k : /\ IsSeq(ms \o <<m>>) /\ (ms \o <<m>>)[k] = m
                /\ \A i : /\ Restarts(ms \o <<m>>, i) <=> i = k
                          /\ ~KeyGone(ms \o <<m>>, i) /\ ~Losses(ms \o <<m>>, i)
<1> DEFINE one == <<m>>
<1>1. IsSeq(ms) /\ \A i : ~Restarts(ms, i) /\ ~KeyGone(ms, i) /\ ~Losses(ms, i)
  BY Zenon DEF Plain
<1>2. IsSeq(one) /\ Len(one) = 1 /\ one[1] = m
  <2>1. one \in Seq({m}) /\ Len(one) = 1 /\ one[1] = m
    OBVIOUS
  <2> QED
    BY ZenonT(30), <2>1 DEF IsSeq
<1> HIDE DEF one
<1> DEFINE w == ms \o one
<1> DEFINE k == Len(ms) + 1
<1>3. /\ IsSeq(w) /\ Len(ms) \in Nat /\ Len(one) \in Nat
      /\ \A i : i \in 1..Len(w) <=> i \in 1..Len(ms) \/ (i \in Int /\ i - Len(ms) \in 1..Len(one))
      /\ \A i \in 1..Len(ms) : w[i] = ms[i]
      /\ \A i \in Int : i - Len(ms) \in 1..Len(one) => w[i] = one[i - Len(ms)]
  BY ZenonT(30), <1>1, <1>2, Joined
<1> HIDE DEF w
<1>4. k \in 1..Len(w) /\ w[k] = m
  BY <1>2, <1>3
<1>5. \A i : i \in 1..Len(w) <=> i \in 1..Len(ms) \/ i = k
  BY <1>2, <1>3
<1>6. k \notin 1..Len(ms)
  BY <1>3
<1> HIDE DEF k
<1>7. \A i : (Restarts(w, i) <=> i = k) /\ ~KeyGone(w, i) /\ ~Losses(w, i)
  <2>1. \A i \in 1..Len(ms) : w[i] = ms[i]
    BY Zenon, <1>3
  <2>2. \A i \in 1..Len(ms) : ~Restarts(w, i) /\ ~KeyGone(w, i) /\ ~Losses(w, i)
    BY Zenon, <1>1, <2>1 DEF Restarts, KeyGone, Losses
  <2>3. Restarts(w, k) /\ ~KeyGone(w, k) /\ ~Losses(w, k)
    BY Zenon, <1>4 DEF Restarts, KeyGone, Losses
  <2>4. \A i : i \notin 1..Len(w) => ~Restarts(w, i) /\ ~KeyGone(w, i) /\ ~Losses(w, i)
    BY Zenon DEF Restarts, KeyGone, Losses
  <2> QED
    BY Zenon, <1>5, <1>6, <2>2, <2>3, <2>4
<1>8. \E l : /\ IsSeq(w) /\ w[l] = m
             /\ \A i : (Restarts(w, i) <=> i = l) /\ ~KeyGone(w, i) /\ ~Losses(w, i)
  BY ZenonT(30), <1>3, <1>4, <1>7
<1> QED
  BY ZenonT(30), <1>8 DEF w, one

-----------------------------------------------------------------------------
(* The playback executor and the controller                                *)

\* The steps that leave the session alone and start nothing new.
LEMMA SessionUntouched ==
  ASSUME Shapes, AllowedInv, KeyedInv, UNCHANGED <<kind, gate, ses>>, PipeOK(pipe'), TuneOK(tune'),
         pipe'.gen >= pipe.gen, tune'.gen = tune.gen, tune'.accepted => tune.accepted,
         Plays(pipe') => Plays(pipe),
         Plays(pipe') \/ pipe'.sig # None => /\ Plays(pipe) \/ pipe.sig # None
                                             /\ tune' = tune \/ (tune'.accepted /\ tune'.ready)
  PROVE  Shapes' /\ AllowedInv' /\ KeyedInv'
<1>1. Shapes'
  <2>1. pipe.gen \in Nat /\ pipe'.gen \in Nat
    BY Zenon DEF Shapes, PipeOK
  <2> QED
    BY <2>1 DEF Shapes
<1>2. AllowedInv'
  BY Zenon DEF AllowedInv, PlaysOnlyAllowed, Plays
<1>3. KeyedInv'
  BY Zenon DEF KeyedInv
<1> QED
  BY Zenon, <1>1, <1>2, <1>3

\* What plays is the same playback, and the session hears nothing of importance.
LEMMA PlaybackGoesOn ==
  ASSUME Shapes, OwnedInv, NEW ms, Plain(ms), queue' \in {queue, queue \o ms}, UNCHANGED <<gate, ses>>,
         tune'.gen = tune.gen, tune'.accepted = tune.accepted, PipeOK(pipe'), pipe'.gen >= pipe.gen,
         Plays(pipe') => Plays(pipe) /\ Target(pipe') = Target(pipe)
  PROVE  OwnedInv'
<1>1. IsSeq(queue) /\ Messages(queue, pipe.gen, tune.gen, tune.accepted) /\ pipe.gen \in Nat /\ pipe'.gen \in Nat
      /\ tune.gen \in Nat
  BY Zenon DEF OwnedInv, Shapes, PipeOK, TuneOK
<1>2. Messages(queue, pipe'.gen, tune.gen, tune.accepted)
  BY ZenonT(30), <1>1, MessagesKept
<1>3. /\ IsSeq(queue') /\ Messages(queue', pipe'.gen, tune.gen, tune.accepted)
      /\ \A g, t : Linked(queue, g, t) => Linked(queue', g, t)
      /\ \A t : Bounded(queue, t) => Bounded(queue', t)
  BY ZenonT(30), <1>1, <1>2, PlainPosted
<1>4. Plays(pipe') => Bounded(queue', Target(pipe'))
  BY Zenon, <1>3 DEF OwnedInv
<1>5. Owned(queue', pipe', ses, gate)
  BY Zenon, <1>3 DEF OwnedInv, Owned
<1> QED
  BY Zenon, <1>3, <1>4, <1>5 DEF OwnedInv

\* Once nothing plays, only the messages matter.
LEMMA PlaybackEnds ==
  ASSUME ~Plays(pipe'), IsSeq(queue'), Messages(queue', pipe'.gen, tune'.gen, tune'.accepted)
  PROVE  OwnedInv'
BY Zenon DEF OwnedInv, Owned

\* A restart by the playback executor: what plays keeps its place in the queue.
LEMMA RestartKeeps ==
  ASSUME LiveInv, NEW p, PipeOK(p), p.gen = pipe.gen, Plays(pipe), NEW origin, origin = Target(pipe),
         NEW sig, NEW v, Restart(p, origin, sig, v), PlaybackFrame
  PROVE  LiveInv'
<1> USE DEF LiveInv
<1>1. PICK h \in Outcomes(p) :
        /\ pipe' = StartPipe(p, sig, h)
        /\ Post(IF h = "dirty" THEN <<Unavailable("recovery", origin)>>
                ELSE StartNotice(p, h)
                       \o <<[t |-> "restart", origin |-> origin, r |-> StartResult(p, sig, h), videoOnly |-> v]>>)
  BY Zenon DEF Restart
<1>2. h \in {"ok", "mute", "surface", "filter", "sync", "dirty"}
  BY Zenon DEF Outcomes
<1>3. /\ PipeOK(pipe') /\ ~RetryIsCurrent(pipe') /\ pipe'.gen > p.gen /\ pipe'.retry = p.retry
      /\ pipe'.run => h \in {"ok", "mute"} /\ pipe'.gen = p.gen + 2
      /\ h # "dirty" => StartResult(p, sig, h).gen = p.gen + 2 /\ pipe'.gen >= p.gen + 2
  BY <1>1, <1>2, PipeStarted
<1>4. pipe.gen \in Nat /\ pipe'.gen \in Nat /\ UNCHANGED <<kind, gate, ses, tune>> /\ origin \in Nat /\ origin <= pipe.gen
  BY <1>3 DEF Shapes, PipeOK, PlaybackFrame, Target, Plays, RetryIsCurrent
<1>5. Shapes' /\ AllowedInv' /\ KeyedInv'
  <2>1. TuneOK(tune') /\ tune'.gen = tune.gen /\ pipe'.gen >= pipe.gen
    BY <1>3, <1>4 DEF Shapes
  <2> QED
    BY Zenon, <1>3, <1>4, <2>1, SessionUntouched
<1>6. CASE h = "dirty"
  <2> DEFINE ms == <<Unavailable("recovery", origin)>>
  <2>1. Plain(ms)
    <3> DEFINE m == Unavailable("recovery", origin)
    <3>1. m.t = "unavailable" /\ m.why = "recovery"
      BY Zenon DEF Unavailable
    <3> HIDE DEF m
    <3>2. Plain(<<m>>)
      BY Zenon, <3>1, PlainMessage
    <3> QED
      BY Zenon, <3>2 DEF m
  <2>2. queue' \in {queue, queue \o ms}
    BY Zenon, <1>1, <1>6 DEF Post
  <2> HIDE DEF ms
  <2>3. pipe'.gen >= pipe.gen /\ ~Plays(pipe')
    BY <1>3, <1>4, <1>6 DEF Plays
  <2> QED
    BY Zenon, <1>3, <1>4, <1>5, <2>1, <2>2, <2>3, PlaybackGoesOn
<1>7. CASE h # "dirty"
  <2> DEFINE m == [t |-> "restart", origin |-> origin, r |-> StartResult(p, sig, h), videoOnly |-> v]
  <2> DEFINE ms == StartNotice(p, h) \o <<m>>
  <2>1. PICK k : /\ IsSeq(ms) /\ ms[k] = m
                 /\ \A i : (Restarts(ms, i) <=> i = k) /\ ~KeyGone(ms, i) /\ ~Losses(ms, i)
    <3>1. m.t = "restart" /\ Plain(StartNotice(p, h))
      BY Zenon, NoticePlain
    <3> HIDE DEF m
    <3> QED
      BY ZenonT(30), <3>1, LastMessage
  <2>2. queue' = IF ses.released = "no" THEN queue \o ms ELSE queue
    BY Zenon, <1>1, <1>7 DEF Post
  <2>3. ms[k].origin = origin /\ ms[k].r.gen = p.gen + 2
    <3>1. m.origin = origin /\ m.r = StartResult(p, sig, h)
      BY Zenon
    <3> HIDE DEF m, ms
    <3> QED
      BY Zenon, <1>3, <1>7, <2>1, <3>1
  <2> HIDE DEF m, ms
  <2>4. Bounded(queue, origin) /\ IsSeq(queue) /\ Messages(queue, pipe.gen, tune.gen, tune.accepted)
    BY Zenon DEF OwnedInv
  <2>5. origin < p.gen + 2 /\ p.gen + 2 \in Nat /\ p.gen + 2 <= pipe'.gen /\ pipe.gen <= pipe'.gen
    BY <1>3, <1>4, <1>7
  <2>6. /\ IsSeq(queue \o ms) /\ Messages(queue \o ms, pipe'.gen, tune.gen, tune.accepted)
        /\ Bounded(queue \o ms, p.gen + 2)
        /\ \A x : Linked(queue, x, origin) => Linked(queue \o ms, x, p.gen + 2)
    BY Zenon, <1>4, <2>1, <2>3, <2>4, <2>5, RestartPosted
  <2>7. Messages(queue, pipe'.gen, tune.gen, tune.accepted) /\ Bounded(queue, pipe'.gen)
    <3>1. tune.gen \in Nat
      BY Zenon DEF Shapes, TuneOK
    <3>2. Messages(queue, pipe'.gen, tune.gen, tune.accepted)
      BY Zenon, <1>4, <2>4, <2>5, <3>1, MessagesKept
    <3> QED
      BY ZenonT(30), <3>2 DEF Messages, Bounded
  <2>8. Plays(pipe') => pipe'.run /\ Target(pipe') = p.gen + 2 /\ Target(pipe') = pipe'.gen
    BY Zenon, <1>3 DEF Plays, Target
  <2>9. Owned(queue', pipe', ses, gate)
    BY Zenon, <2>2, <2>6, <2>8 DEF OwnedInv, Owned
  <2>10. OwnedInv'
    BY Zenon, <1>4, <2>2, <2>4, <2>6, <2>7, <2>8, <2>9 DEF OwnedInv
  <2> QED
    BY Zenon, <1>5, <2>10
<1> QED
  BY Zenon, <1>6, <1>7

\* The steps of the playback executor that start nothing.
LEMMA PlaybackKeeps ==
  ASSUME LiveInv, FirstFrame \/ StartupFailure \/ OutputFailure \/ RecoverCodec
  PROVE  LiveInv'
<1> USE DEF LiveInv
<1>0. UNCHANGED <<kind, gate, ses, tune>> /\ PipeOK(pipe) /\ TuneOK(tune) /\ pipe.gen \in Nat
  BY Zenon DEF FirstFrame, StartupFailure, OutputFailure, RecoverCodec, PlaybackFrame, Shapes, PipeOK
<1>1. pipe.run
  BY Zenon DEF FirstFrame, StartupFailure, OutputFailure, RecoverCodec, Playing
<1>2. /\ PipeOK(pipe') /\ pipe'.gen >= pipe.gen
      /\ Plays(pipe') => Target(pipe') = Target(pipe)
      /\ pipe'.sig \in {pipe.sig, None}
  <2>1. CASE FirstFrame
    <3> DEFINE y == [pipe EXCEPT !.notified = TRUE]
    <3>1. y \in [gen : Nat, run : BOOLEAN, sig : {pipe.sig}, notified : BOOLEAN, surface : {pipe.surface},
                 recovered : BOOLEAN, retry : {pipe.retry}] /\ y.gen = pipe.gen /\ y.run = pipe.run
      BY ZenonT(30), <1>0 DEF PipeOK
    <3>2. pipe' = y
      BY Zenon, <2>1 DEF FirstFrame
    <3> HIDE DEF y
    <3>3. Target(y) = Target(pipe)
      BY Zenon, <1>1, <3>1 DEF Target
    <3>4. PipeOK(y)
      BY Zenon, <1>0, <3>1 DEF PipeOK
    <3> QED
      BY <1>0, <3>1, <3>2, <3>3, <3>4
  <2>2. CASE StartupFailure
    <3>1. pipe' = Stop(pipe)
      BY Zenon, <2>2 DEF StartupFailure
    <3> QED
      BY <1>0, <3>1, Stopped
  <2>3. CASE OutputFailure
    BY <1>0, <2>3 DEF OutputFailure
  <2>4. CASE RecoverCodec
    <3> DEFINE o == Stop(pipe)
    <3>1. PipeOK(o) /\ ~Plays(o) /\ o.gen = pipe.gen + 1 /\ o.sig = None /\ o.retry = pipe.retry
      BY Zenon, <1>0, Stopped
    <3> HIDE DEF o
    <3> DEFINE r == [stopped |-> pipe.gen + 1, origin |-> pipe.gen, sig |-> pipe.sig]
    <3>2. pipe' = [o EXCEPT !.recovered = TRUE, !.retry = r] \/ pipe' = [o EXCEPT !.recovered = TRUE]
      BY Zenon, <2>4 DEF RecoverCodec, o
    <3>3. r.stopped = pipe.gen + 1 /\ r.origin = pipe.gen
      BY Zenon
    <3> HIDE DEF r
    <3>4. ~o.run /\ o.run \in BOOLEAN
      BY Zenon, <3>1 DEF Plays, PipeOK
    <3>5. CASE pipe' = [o EXCEPT !.recovered = TRUE, !.retry = r]
      <4>1. /\ pipe' \in [gen : Nat, run : BOOLEAN, sig : {o.sig}, notified : BOOLEAN, surface : {o.surface},
                          recovered : BOOLEAN, retry : {r}]
            /\ pipe'.gen = o.gen /\ pipe'.run = o.run
        BY ZenonT(30), <3>1, <3>5 DEF PipeOK
      <4>2. PipeOK(pipe')
        BY <1>0, <3>1, <3>3, <3>4, <4>1 DEF PipeOK
      <4>3. Target(pipe') = pipe.gen /\ Target(pipe) = pipe.gen
        BY Zenon, <1>1, <3>3, <3>4, <4>1 DEF Target
      <4> QED
        BY <1>0, <3>1, <4>1, <4>2, <4>3
    <3>6. CASE pipe' = [o EXCEPT !.recovered = TRUE]
      <4>1. /\ pipe' \in [gen : Nat, run : BOOLEAN, sig : {o.sig}, notified : BOOLEAN, surface : {o.surface},
                          recovered : BOOLEAN, retry : {o.retry}]
            /\ pipe'.gen = o.gen /\ pipe'.run = o.run
        BY ZenonT(30), <3>1, <3>6 DEF PipeOK
      <4>2. PipeOK(pipe') /\ ~Plays(pipe')
        BY Zenon, <3>1, <4>1 DEF PipeOK, Plays, RetryIsCurrent
      <4> QED
        BY <1>0, <3>1, <4>1, <4>2
    <3> QED
      BY Zenon, <3>2, <3>5, <3>6
  <2> QED
    BY Zenon, <2>1, <2>2, <2>3, <2>4
<1>4. Plays(pipe)
  BY Zenon, <1>1 DEF Plays
<1>5. Shapes' /\ AllowedInv' /\ KeyedInv'
  <2>1. TuneOK(tune') /\ tune'.gen = tune.gen /\ tune'.accepted = tune.accepted /\ tune' = tune
    BY Zenon, <1>0
  <2> QED
    BY Zenon, <1>0, <1>2, <1>4, <2>1, SessionUntouched
<1>6. OwnedInv'
  <2>1. CASE FirstFrame
    <3> DEFINE m == [t |-> "available", gen |-> pipe.gen]
    <3>1. queue' \in {queue, queue \o <<m>>} /\ m.t = "available"
      BY Zenon, <2>1 DEF FirstFrame, Post
    <3> HIDE DEF m
    <3>2. Plain(<<m>>)
      BY Zenon, <3>1, PlainMessage
    <3> QED
      BY ZenonT(30), <1>0, <1>2, <1>4, <3>1, <3>2, PlaybackGoesOn
  <2>2. CASE StartupFailure \/ OutputFailure \/ RecoverCodec
    <3>1. PICK why \in {"startup", "other", "recovery"} : queue' \in {queue, queue \o <<Unavailable(why, pipe.gen)>>}
      BY Zenon, <2>2 DEF StartupFailure, OutputFailure, RecoverCodec, Post
    <3> DEFINE m == Unavailable(why, pipe.gen)
    <3>2. m.t = "unavailable" /\ m.why = why /\ queue' \in {queue, queue \o <<m>>}
      BY Zenon, <3>1 DEF Unavailable
    <3> HIDE DEF m
    <3>3. Plain(<<m>>)
      BY Zenon, <3>2, PlainMessage
    <3> QED
      BY ZenonT(30), <1>0, <1>2, <1>4, <3>2, <3>3, PlaybackGoesOn
  <2> QED
    BY Zenon, <2>1, <2>2
<1> QED
  BY Zenon, <1>5, <1>6

\* The playback executor's own restarts.
LEMMA RestartsKeep ==
  ASSUME LiveInv, HandleAudioFailure \/ AudioRouteChanged \/ RetryCodec
  PROVE  LiveInv'
<1> USE DEF LiveInv
<1>0. PlaybackFrame /\ UNCHANGED <<kind, gate, ses, tune>> /\ PipeOK(pipe) /\ TuneOK(tune) /\ pipe.gen \in Nat
  BY ZenonT(30) DEF HandleAudioFailure, AudioRouteChanged, RetryCodec, PlaybackFrame, Shapes, PipeOK
<1>1. CASE HandleAudioFailure \/ AudioRouteChanged
  <2>1. pipe.run /\ Plays(pipe) /\ pipe.gen = Target(pipe)
    BY ZenonT(30), <1>1 DEF HandleAudioFailure, AudioRouteChanged, Playing, Plays, Target
  <2>2. CASE \E sig, v : Restart(pipe, pipe.gen, sig, v)
    BY Zenon, <1>0, <2>1, <2>2, RestartKeeps
  <2>3. CASE pipe' = Stop(pipe) /\ \E why \in {"audio", "recovery"} : Post(<<Unavailable(why, pipe.gen)>>)
    <3>1. PipeOK(pipe') /\ ~Plays(pipe') /\ pipe'.gen = pipe.gen + 1 /\ pipe'.sig = None
      BY Zenon, <1>0, <2>3, Stopped
    <3>2. PICK why \in {"audio", "recovery"} : queue' \in {queue, queue \o <<Unavailable(why, pipe.gen)>>}
      BY Zenon, <2>3 DEF Post
    <3> DEFINE m == Unavailable(why, pipe.gen)
    <3>3. m.t = "unavailable" /\ m.why = why /\ queue' \in {queue, queue \o <<m>>}
      BY Zenon, <3>2 DEF Unavailable
    <3> HIDE DEF m
    <3>4. Plain(<<m>>)
      BY Zenon, <3>3, PlainMessage
    <3>5. Shapes' /\ AllowedInv' /\ KeyedInv'
      <4>1. TuneOK(tune') /\ tune'.gen = tune.gen /\ tune'.accepted = tune.accepted /\ pipe'.gen >= pipe.gen
        BY <1>0, <3>1
      <4> QED
        BY Zenon, <1>0, <3>1, <4>1, SessionUntouched
    <3>6. OwnedInv'
      <4>1. pipe'.gen >= pipe.gen
        BY <1>0, <3>1
      <4> QED
        BY ZenonT(30), <1>0, <3>1, <3>3, <3>4, <4>1, PlaybackGoesOn
    <3> QED
      BY Zenon, <3>5, <3>6
  <2> QED
    BY ZenonT(30), <1>1, <2>2, <2>3 DEF HandleAudioFailure, AudioRouteChanged
<1>2. CASE RetryCodec
  <2> DEFINE p == [pipe EXCEPT !.retry = None]
  <2>1. /\ p \in [gen : Nat, run : BOOLEAN, sig : {pipe.sig}, notified : BOOLEAN, surface : {pipe.surface},
                  recovered : BOOLEAN, retry : {None}]
        /\ p.gen = pipe.gen /\ p.run = pipe.run /\ p.sig = pipe.sig
    BY Zenon, <1>0 DEF PipeOK
  <2>2. IF RetryIsCurrent(pipe) THEN Restart(p, pipe.retry.origin, pipe.retry.sig, FALSE)
        ELSE pipe' = p /\ UNCHANGED queue
    BY ZenonT(30), <1>2 DEF RetryCodec
  <2> HIDE DEF p
  <2>3. PipeOK(p)
    BY Zenon, <2>1 DEF PipeOK
  <2>4. CASE RetryIsCurrent(pipe)
    <3>1. Plays(pipe) /\ ~pipe.run
      BY <1>0, <2>4 DEF Plays, PipeOK, RetryIsCurrent
    <3>2. pipe.retry.origin = Target(pipe)
      BY Zenon, <3>1 DEF Target
    <3> QED
      BY ZenonT(30), <1>0, <2>1, <2>2, <2>3, <2>4, <3>1, <3>2, RestartKeeps
  <2>5. CASE ~RetryIsCurrent(pipe)
    <3>1. pipe' = p /\ queue' = queue
      BY Zenon, <2>2, <2>5
    <3>2. ~RetryIsCurrent(p)
      BY Zenon, <2>1 DEF RetryIsCurrent
    <3>3. Plays(p) => pipe.run /\ p.run /\ Plays(pipe) /\ Target(p) = Target(pipe)
      BY Zenon, <2>1, <3>2 DEF Plays, Target
    <3>4. Shapes' /\ AllowedInv' /\ KeyedInv'
      <4>1. TuneOK(tune') /\ tune'.gen = tune.gen /\ tune'.accepted = tune.accepted /\ tune' = tune
            /\ pipe'.gen >= pipe.gen
        BY <1>0, <2>1, <3>1
      <4> QED
        BY Zenon, <1>0, <2>1, <2>3, <3>1, <3>3, <4>1, SessionUntouched
    <3>5. OwnedInv'
      <4>1. Plain(StartNotice(p, "ok"))
        BY Zenon, NoticePlain
      <4>2. pipe'.gen >= pipe.gen
        BY <1>0, <2>1, <3>1
      <4> QED
        BY Zenon, <1>0, <2>3, <3>1, <3>3, <4>1, <4>2, PlaybackGoesOn
    <3> QED
      BY Zenon, <3>4, <3>5
  <2> QED
    BY Zenon, <2>4, <2>5
<1> QED
  BY Zenon, <1>1, <1>2

\* The message of a loss, sent with the stop of what plays.
LEMMA LossKeeps ==
  ASSUME OwnedInv, pipe.gen \in Nat, pipe.gen > 0, tune.gen \in Nat, tune.gen > 0,
         NEW m, queue' \in {queue, queue \o <<m>>}, ~Plays(pipe'), pipe'.gen = pipe.gen + 1,
         tune'.gen = tune.gen, tune'.accepted => tune.accepted,
         \/ m.t = "unavailable" /\ m.why = "nokey" /\ m.gen = pipe.gen
         \/ m.t = "lost" /\ m.gen = tune.gen /\ ~tune'.accepted
  PROVE  OwnedInv'
<1> DEFINE a == tune.accepted
<1> DEFINE b == tune'.accepted
<1>1. IsSeq(queue) /\ Messages(queue, pipe.gen, tune.gen, a) /\ (b => a)
  BY Zenon DEF OwnedInv
<1>2. m.t = "lost" => ~b
  BY Zenon DEF Unavailable
<1> HIDE DEF a, b
<1>3. \/ m.t = "unavailable" /\ m.why = "nokey" /\ m.gen \in Nat /\ 0 < m.gen /\ m.gen <= pipe.gen
      \/ m.t = "lost" /\ m.gen = tune.gen /\ 0 < tune.gen /\ ~b
  BY <1>2
<1>4. IsSeq(queue \o <<m>>) /\ Messages(queue \o <<m>>, pipe.gen + 1, tune.gen, b)
  BY Zenon, <1>1, <1>3, LossPosted
<1>5. Messages(queue, pipe.gen + 1, tune.gen, b)
  <2> DEFINE n == pipe.gen + 1
  <2>1. n \in Nat /\ pipe.gen <= n
    OBVIOUS
  <2>2. Messages(queue, pipe.gen, tune.gen, b)
    BY ZenonT(30), <1>1, MessagesKept
  <2> HIDE DEF n
  <2>3. Messages(queue, n, tune.gen, b)
    BY ZenonT(30), <2>1, <2>2, MessagesKept
  <2> QED
    BY Zenon, <2>3 DEF n
<1>6. IsSeq(queue') /\ Messages(queue', pipe.gen + 1, tune.gen, b)
  BY ZenonT(30), <1>1, <1>4, <1>5
<1> QED
  BY Zenon, <1>6, PlaybackEnds DEF b

\* The controller's steps: a lost tuner, a weak signal or a lost key stops what plays.
LEMMA ControllerKeeps ==
  ASSUME LiveInv, TunerLost \/ TuneEvent \/ KeyLost \/ KeyFound \/ SectionIngested
  PROVE  LiveInv'
<1> USE DEF LiveInv
<1>0. /\ UNCHANGED <<kind, gate, ses>> /\ PipeOK(pipe) /\ TuneOK(tune) /\ pipe.gen \in Nat /\ tune.gen \in Nat
      /\ tune.accepted /\ pipe.gen > 0 /\ tune.gen > 0
  BY Zenon DEF TunerLost, TuneEvent, KeyLost, KeyFound, SectionIngested, Shapes, PipeOK, TuneOK
<1>1. CASE TunerLost \/ KeyLost
  <2>1. pipe' = Stop(pipe)
    BY Zenon, <1>1 DEF TunerLost, KeyLost
  <2>2. PipeOK(pipe') /\ ~Plays(pipe') /\ pipe'.gen = pipe.gen + 1 /\ pipe'.sig = None
    BY Zenon, <1>0, <2>1, Stopped
  <2>3. TuneOK(tune') /\ tune'.gen = tune.gen /\ (tune'.accepted => tune.accepted) /\ (TunerLost => ~tune'.accepted)
    BY ZenonT(30), <1>0, <1>1 DEF TunerLost, KeyLost, TuneOK
  <2>4. Shapes' /\ AllowedInv' /\ KeyedInv'
    <3>1. pipe'.gen >= pipe.gen
      BY <1>0, <2>2
    <3> QED
      BY Zenon, <1>0, <2>2, <2>3, <3>1, SessionUntouched
  <2>5. OwnedInv'
    <3>1. CASE TunerLost
      <4> DEFINE m == [t |-> "lost", gen |-> tune.gen]
      <4>1. queue' \in {queue, queue \o <<m>>} /\ m.t = "lost" /\ m.gen = tune.gen
        BY Zenon, <3>1 DEF TunerLost, Post
      <4> HIDE DEF m
      <4> QED
        BY <1>0, <2>2, <2>3, <3>1, <4>1, LossKeeps
    <3>2. CASE KeyLost
      <4> DEFINE m == Unavailable("nokey", pipe.gen)
      <4>1. queue' \in {queue, queue \o <<m>>} /\ m.t = "unavailable" /\ m.why = "nokey" /\ m.gen = pipe.gen
        BY Zenon, <3>2 DEF KeyLost, Post, Unavailable
      <4> HIDE DEF m
      <4> QED
        BY <1>0, <2>2, <2>3, <4>1, LossKeeps
    <3> QED
      BY Zenon, <1>1, <3>1, <3>2
  <2> QED
    BY Zenon, <2>4, <2>5
<1>2. CASE TuneEvent
  <2>1. PICK weak \in BOOLEAN : /\ pipe' = IF weak THEN Stop(pipe) ELSE pipe
                                /\ Post(<<[t |-> "signal", weak |-> weak, gen |-> tune.gen]>>)
    BY Zenon, <1>2 DEF TuneEvent
  <2>2. tune' = tune
    BY Zenon, <1>2 DEF TuneEvent
  <2>3. PipeOK(Stop(pipe)) /\ ~Plays(Stop(pipe)) /\ Stop(pipe).gen = pipe.gen + 1 /\ Stop(pipe).sig = None
    BY Zenon, <1>0, Stopped
  <2>4. /\ PipeOK(pipe') /\ pipe'.gen >= pipe.gen
        /\ Plays(pipe') => pipe' = pipe
        /\ pipe'.sig # None => pipe' = pipe
    BY <1>0, <2>1, <2>3
  <2>5. Shapes' /\ AllowedInv' /\ KeyedInv'
    BY Zenon, <1>0, <2>2, <2>4, SessionUntouched
  <2> DEFINE m == [t |-> "signal", weak |-> weak, gen |-> tune.gen]
  <2>6. queue' \in {queue, queue \o <<m>>} /\ m.t = "signal"
    BY Zenon, <2>1 DEF Post
  <2> HIDE DEF m
  <2>7. Plain(<<m>>)
    BY Zenon, <2>6, PlainMessage
  <2>8. OwnedInv'
    BY ZenonT(30), <1>0, <2>2, <2>4, <2>6, <2>7, PlaybackGoesOn
  <2> QED
    BY Zenon, <2>5, <2>8
<1>3. CASE KeyFound \/ SectionIngested
  <2>1. pipe' = pipe /\ TuneOK(tune') /\ tune'.gen = tune.gen /\ tune'.accepted = tune.accepted
        /\ (tune' = tune \/ (tune'.accepted /\ tune'.ready))
    BY ZenonT(30), <1>0, <1>3 DEF KeyFound, SectionIngested, TuneOK
  <2>2. Shapes' /\ AllowedInv' /\ KeyedInv'
    BY <1>0, <2>1, SessionUntouched
  <2> DEFINE m == [t |-> "refresh"]
  <2>3. queue' \in {queue, queue \o <<m>>} /\ m.t = "refresh"
    BY Zenon, <1>3 DEF KeyFound, SectionIngested, Post
  <2> HIDE DEF m
  <2>4. Plain(<<m>>)
    BY Zenon, <2>3, PlainMessage
  <2>5. OwnedInv'
    <3>1. PipeOK(pipe') /\ pipe'.gen >= pipe.gen /\ Plays(pipe') = Plays(pipe) /\ Target(pipe') = Target(pipe)
      BY <1>0, <2>1
    <3> QED
      BY ZenonT(30), <1>0, <2>1, <2>3, <2>4, <3>1, PlaybackGoesOn
  <2> QED
    BY Zenon, <2>2, <2>5
<1> QED
  BY Zenon, <1>1, <1>2, <1>3

-----------------------------------------------------------------------------
(* The session executor                                                    *)

\* Every state of the gate is one of these.
LEMMA Gates ==
  /\ GateOK(GateIdle) /\ GateIdle.k = "Idle" /\ GateOK(GateStopped) /\ GateStopped.k = "Stopped"
  /\ \A sig : GateOK(Starting(sig)) /\ Starting(sig).k = "Starting"
  /\ \A sig, g : GateOK(Failed(sig, g)) /\ Failed(sig, g).k = "Failed" /\ Failed(sig, g).gen = g
  /\ \A sig, g : GateOK(Started(sig, g)) /\ Started(sig, g).k = "Started" /\ Started(sig, g).gen = g
  /\ \A sig, g : /\ GateOK(WaitingFirstOutput(sig, g))
                 /\ WaitingFirstOutput(sig, g).k = "Waiting" /\ WaitingFirstOutput(sig, g).gen = g
BY Zenon DEF GateOK, GateIdle, GateStopped, Starting, Failed, Started, WaitingFirstOutput

\* What the session knows of what plays when it takes a message.
LEMMA HeadOfQueue ==
  ASSUME LiveInv, ses.pc = "idle", ses.released = "no", queue # <<>>
  PROVE  /\ Plays(pipe) => /\ gate.k \in {"Waiting", "Started", "Failed"} /\ gate.gen \in Nat
                           /\ ses.access = "allowed"
                           /\ Msg.t = "unavailable" /\ Msg.why = "nokey" =>
                                Msg.gen \in Nat /\ 0 < Msg.gen /\ Msg.gen < gate.gen
                           /\ Msg.t = "lost" => Msg.gen # ses.tuned
         /\ Msg.t = "restart" => Msg.r.gen \in Nat
<1> USE DEF LiveInv
<1>1. 1 \in 1..Len(queue)
  <2>1. PICK S : queue \in Seq(S)
    BY Zenon DEF OwnedInv, IsSeq
  <2> QED
    BY <2>1
<1>2. Messages(queue, pipe.gen, tune.gen, tune.accepted)
  BY Zenon DEF OwnedInv
<1>3. Msg.t = "restart" => Msg.r.gen \in Nat
  BY Zenon, <1>1, <1>2 DEF Messages, Restarts, Msg
<1>4. ASSUME Plays(pipe)
      PROVE  /\ gate.k \in {"Waiting", "Started", "Failed"} /\ Linked(queue, gate.gen, Target(pipe))
             /\ ses.access = "allowed"
  <2>1. Owned(queue, pipe, ses, gate)
    BY Zenon DEF OwnedInv
  <2>2. ses.access = "allowed"
    BY Zenon, <1>4 DEF AllowedInv, PlaysOnlyAllowed, Plays
  <2> QED
    BY Zenon, <1>4, <2>1, <2>2 DEF Owned
<1>5. ASSUME Plays(pipe), Msg.t = "unavailable", Msg.why = "nokey"
      PROVE  Msg.gen \in Nat /\ 0 < Msg.gen /\ Msg.gen < gate.gen
  <2>1. KeyGone(queue, 1)
    BY Zenon, <1>1, <1>5 DEF KeyGone, Msg
  <2> QED
    BY Zenon, <1>2, <1>4, <1>5, <2>1 DEF Messages, Linked, Msg
<1>6. ASSUME Plays(pipe), Msg.t = "lost"
      PROVE  Msg.gen # ses.tuned
  <2>1. Losses(queue, 1)
    BY Zenon, <1>1, <1>6 DEF Losses, Msg
  <2>2. tune.accepted /\ ses.tuned = tune.gen
    BY Zenon, <1>6 DEF KeyedInv, Shapes
  <2> QED
    BY Zenon, <1>2, <2>1, <2>2 DEF Messages, Msg
<1>7. Plays(pipe) => gate.gen \in Nat
  BY Zenon, <1>4 DEF Linked
<1> QED
  BY ZenonT(30), <1>3, <1>4, <1>5, <1>6, <1>7

\* A message is taken; what plays goes on, known to the session or to be stopped.
LEMMA MessageKeeps ==
  ASSUME LiveInv, ses.pc = "idle", ses.released = "no", queue # <<>>, queue' = Tail(queue),
         UNCHANGED <<kind, tune, pipe>>, SesOK(ses'), ses'.tuned = ses.tuned, GateOK(gate'),
         gate'.k # "Starting", ses'.pc # "start",
         gate'.k \in {"Waiting", "Started", "Failed"} => ses'.access = "allowed",
         Plays(pipe) /\ ses'.pc # "stop" => ses'.access = "allowed",
         Plays(pipe) => \/ ses'.pc = "stop"
                        \/ gate'.k = "Idle" /\ ses'.pc \in {"refresh", "decide"}
                        \/ /\ gate'.k \in {"Waiting", "Started", "Failed"}
                           /\ gate'.gen = IF Msg.t = "restart" /\ Msg.origin = gate.gen THEN Msg.r.gen ELSE gate.gen
  PROVE  LiveInv'
<1> USE DEF LiveInv
<1>1. Shapes'
  BY Zenon DEF Shapes
<1>2. AllowedInv'
  <2>1. Plays(pipe)' <=> Plays(pipe)
    BY Zenon DEF Plays, RetryIsCurrent
  <2> QED
    BY Zenon, <2>1 DEF AllowedInv, PlaysOnlyAllowed, Plays
<1>3. KeyedInv'
  <2>1. Plays(pipe)' <=> Plays(pipe)
    BY Zenon DEF Plays, RetryIsCurrent
  <2> QED
    BY Zenon, <2>1 DEF KeyedInv
<1>4. /\ IsSeq(queue) /\ Messages(queue, pipe.gen, tune.gen, tune.accepted)
      /\ Plays(pipe) => Bounded(queue, Target(pipe))
      /\ Owned(queue, pipe, ses, gate)
  BY Zenon DEF OwnedInv
<1>5. IsSeq(queue') /\ Messages(queue', pipe.gen, tune.gen, tune.accepted)
  BY ZenonT(30), <1>4, MessageTaken
<1>6. Plays(pipe) => Bounded(queue', Target(pipe))
  BY ZenonT(30), <1>4, MessageTaken
<1>7. Plays(pipe) => Linked(queue, gate.gen, Target(pipe))
  BY Zenon, <1>4 DEF Owned
<1>8. ASSUME Plays(pipe)
      PROVE  IF Msg.t = "restart" /\ Msg.origin = gate.gen THEN Linked(queue', Msg.r.gen, Target(pipe))
             ELSE Linked(queue', gate.gen, Target(pipe))
  BY ZenonT(30), <1>4, <1>7, <1>8, MessageTaken DEF Msg
<1>9. Owned(queue', pipe, ses', gate')
  BY Zenon, <1>8 DEF Owned
<1>10. OwnedInv'
  BY ZenonT(30), <1>5, <1>6, <1>9 DEF OwnedInv
<1> QED
  BY Zenon, <1>1, <1>2, <1>3, <1>10

\* The answer to the parental question is remembered unless there is none.
LEMMA Asked ==
  /\ rating = "allow" => Access = "allowed"
  /\ Access \in {"allowed", "blocked", ses.access}
BY Zenon DEF Access

\* A task's next step, with the answer it remembers.
Moved(s, y, acc, pc) ==
  y \in [pc : {pc}, tuned : {s.tuned}, known : {s.known}, access : {acc}, noAudio : {y.noAudio},
         weak : {y.weak}, released : {s.released}]

\* Such a step keeps the session's state well formed.
LEMMA SessionMoves ==
  ASSUME NEW s, SesOK(s), NEW y, NEW acc \in {"unknown", "allowed", "blocked"},
         NEW pc \in {"idle", "refresh", "eligible", "decide", "sign", "start", "stop"}, Moved(s, y, acc, pc),
         pc \in {"eligible", "decide", "sign", "start"} => s.known # None,
         pc \in {"sign", "start"} => acc = "allowed"
  PROVE  /\ SesOK(y) /\ y.pc = pc /\ y.access = acc /\ y.tuned = s.tuned /\ y.released = s.released
         /\ y.known = s.known
BY Zenon DEF SesOK, Moved

\* The messages of the playback executor and of the controller.
LEMMA ReportsKeep ==
  ASSUME LiveInv, TakeRefresh \/ TakeAvailable \/ TakeRestart \/ TakeUnavailable \/ TakeLost \/ TakeSignal
  PROVE  LiveInv'
<1> USE DEF LiveInv
<1>0. /\ ses.pc = "idle" /\ ses.released = "no" /\ queue # <<>> /\ queue' = Tail(queue)
      /\ UNCHANGED <<kind, tune, pipe>> /\ SesOK(ses) /\ GateOK(gate) /\ gate.k # "Starting"
  BY Zenon DEF TakeRefresh, TakeAvailable, TakeRestart, TakeUnavailable, TakeLost, TakeSignal, Takes, SessionOnly, Shapes
<1>1. /\ gate.k \in {"Waiting", "Started", "Failed"} => ses.access = "allowed"
      /\ ses.access \in {"unknown", "allowed", "blocked"}
  BY Zenon, <1>0 DEF AllowedInv, SesOK
<1>2. /\ Plays(pipe) => /\ gate.k \in {"Waiting", "Started", "Failed"} /\ gate.gen \in Nat
                        /\ ses.access = "allowed"
                        /\ Msg.t = "unavailable" /\ Msg.why = "nokey" =>
                             Msg.gen \in Nat /\ 0 < Msg.gen /\ Msg.gen < gate.gen
                        /\ Msg.t = "lost" => Msg.gen # ses.tuned
      /\ Msg.t = "restart" => Msg.r.gen \in Nat
  BY Zenon, <1>0, HeadOfQueue
<1>3. CASE TakeRefresh
  <2>1. Moved(ses, ses', ses.access, "refresh") /\ gate' = gate /\ Msg.t = "refresh"
    BY Zenon, <1>0, <1>3 DEF TakeRefresh, Goes, SesOK, Takes, Moved
  <2>2. SesOK(ses') /\ ses'.pc = "refresh" /\ ses'.access = ses.access /\ ses'.tuned = ses.tuned
    BY <1>0, <1>1, <2>1, SessionMoves
  <2> QED
    BY Zenon, <1>0, <1>1, <1>2, <2>1, <2>2, MessageKeeps
<1>4. CASE TakeAvailable
  <2>1. Msg.t = "available"
    BY Zenon, <1>4 DEF TakeAvailable, Takes
  <2>2. CASE gate' = gate /\ ses' = ses
    BY Zenon, <1>0, <1>1, <1>2, <2>1, <2>2, MessageKeeps
  <2>3. CASE ~(gate' = gate /\ ses' = ses)
    <3> DEFINE pc == IF Access = "blocked" THEN "stop" ELSE "idle"
    <3>1. /\ gate.k = "Waiting" /\ ses' = [ses EXCEPT !.access = Access, !.pc = pc]
          /\ gate' = IF Access = "blocked" THEN GateStopped ELSE Started(gate.sig, gate.gen)
      BY Zenon, <1>4, <2>3 DEF TakeAvailable
    <3>2. /\ pc \in {"stop", "idle"} /\ (pc = "stop" <=> Access = "blocked")
          /\ Access \in {"allowed", "blocked"}
      BY Zenon, <1>1, <3>1, Asked
    <3> HIDE DEF pc
    <3>3. Moved(ses, ses', Access, pc)
      BY ZenonT(30), <1>0, <3>1 DEF SesOK, Moved
    <3>4. SesOK(ses') /\ ses'.pc = pc /\ ses'.access = Access /\ ses'.tuned = ses.tuned
      BY <1>0, <3>2, <3>3, SessionMoves
    <3>5. GateOK(gate') /\ IF Access = "blocked" THEN gate'.k = "Stopped"
                           ELSE gate'.k = "Started" /\ gate'.gen = gate.gen
      BY <3>1, Gates
    <3> QED
      BY Zenon, <1>0, <1>1, <1>2, <2>1, <3>2, <3>4, <3>5, MessageKeeps
  <2> QED
    BY Zenon, <2>2, <2>3
<1>5. CASE TakeRestart
  <2> DEFINE a == ses.noAudio \/ (AcceptsGeneration(gate, Msg.origin) /\ Msg.videoOnly)
  <2>1. /\ Msg.t = "restart" /\ gate' = AcceptGenerationRestart(gate, Msg)
        /\ ses' = [ses EXCEPT !.noAudio = a]
    BY Zenon, <1>5 DEF TakeRestart, Takes
  <2> HIDE DEF a
  <2>2. Moved(ses, ses', ses.access, "idle")
    BY Zenon, <1>0, <2>1 DEF SesOK, Moved
  <2>3. SesOK(ses') /\ ses'.pc = "idle" /\ ses'.access = ses.access /\ ses'.tuned = ses.tuned
    BY <1>0, <1>1, <2>2, SessionMoves
  <2>4. CASE ~AcceptsGeneration(gate, Msg.origin)
    <3>1. gate' = gate
      BY Zenon, <2>1, <2>4 DEF AcceptGenerationRestart
    <3>2. gate.gen \in Nat => Msg.origin # gate.gen
      BY Zenon, <2>4, NoGeneration DEF AcceptsGeneration
    <3> QED
      BY Zenon, <1>0, <1>1, <1>2, <2>1, <2>3, <3>1, <3>2, MessageKeeps
  <2>5. CASE AcceptsGeneration(gate, Msg.origin)
    <3>1. gate.gen # None /\ gate.gen = Msg.origin
      BY Zenon, <2>5 DEF AcceptsGeneration
    <3>2. gate.k \in {"Waiting", "Started", "Failed"}
      BY Zenon, <1>0, <3>1 DEF GateOK
    <3>3. ~(Msg.r.gen < 0)
      BY <1>2, <2>1
    <3>4. PICK sig : gate' \in {Failed(sig, Msg.r.gen), WaitingFirstOutput(sig, Msg.r.gen), Started(sig, Msg.r.gen)}
      BY Zenon, <2>1, <2>5, <3>3 DEF AcceptGenerationRestart, AfterRestartResult
    <3>5. GateOK(gate') /\ gate'.k \in {"Waiting", "Started", "Failed"} /\ gate'.gen = Msg.r.gen
      BY <3>4, Gates
    <3> QED
      BY Zenon, <1>0, <1>1, <1>2, <2>1, <2>3, <3>1, <3>2, <3>5, MessageKeeps
  <2> QED
    BY Zenon, <2>4, <2>5
<1>6. CASE TakeUnavailable
  <2>1. Msg.t = "unavailable" /\ ses' = ses
    BY Zenon, <1>6 DEF TakeUnavailable, Takes
  <2>2. CASE gate' = gate
    BY Zenon, <1>0, <1>1, <1>2, <2>1, <2>2, MessageKeeps
  <2>3. CASE gate' = GateStopped /\ Msg.why = "nokey" /\ AcceptsUnavailable(gate, Msg.gen)
    <3>1. Msg.gen <= 0 \/ gate.gen = Msg.gen
      BY Zenon, <2>3 DEF AcceptsUnavailable, AcceptsGeneration
    <3>2. ~Plays(pipe)
      BY <1>2, <2>1, <2>3, <3>1
    <3>3. GateOK(gate') /\ gate'.k = "Stopped"
      BY Zenon, <2>3, Gates
    <3> QED
      BY Zenon, <1>0, <1>1, <2>1, <3>2, <3>3, MessageKeeps
  <2>4. CASE gate' = Failed(gate.sig, gate.gen) /\ gate.sig # None
    <3>1. GateOK(gate') /\ gate'.k = "Failed" /\ gate'.gen = gate.gen
      BY <2>4, Gates
    <3>2. gate.k \in {"Waiting", "Started", "Failed"}
      BY Zenon, <1>0, <2>4 DEF GateOK
    <3> QED
      BY Zenon, <1>0, <1>1, <1>2, <2>1, <3>1, <3>2, MessageKeeps
  <2> QED
    BY Zenon, <1>6, <2>2, <2>3, <2>4 DEF TakeUnavailable, FailCurrentGeneration, AcceptsGeneration
<1>7. CASE TakeLost
  <2>1. Msg.t = "lost"
    BY Zenon, <1>7 DEF TakeLost, Takes
  <2>2. CASE Msg.gen # ses.tuned
    <3>1. gate' = gate /\ ses' = ses
      BY Zenon, <1>7, <2>2 DEF TakeLost
    <3> QED
      BY Zenon, <1>0, <1>1, <1>2, <2>1, <3>1, MessageKeeps
  <2>3. CASE Msg.gen = ses.tuned
    <3>1. gate' = GateStopped /\ ses' = [ses EXCEPT !.weak = FALSE]
      BY Zenon, <1>7, <2>3 DEF TakeLost
    <3>2. Moved(ses, ses', ses.access, "idle")
      BY ZenonT(30), <1>0, <3>1 DEF SesOK, Moved
    <3>3. SesOK(ses') /\ ses'.pc = "idle" /\ ses'.access = ses.access /\ ses'.tuned = ses.tuned
      BY Zenon, <1>0, <1>1, <3>2, SessionMoves
    <3>4. GateOK(gate') /\ gate'.k = "Stopped" /\ ~Plays(pipe)
      BY Zenon, <1>2, <2>1, <2>3, <3>1, Gates
    <3> QED
      BY Zenon, <1>0, <3>3, <3>4, MessageKeeps
  <2> QED
    BY Zenon, <2>2, <2>3
<1>8. CASE TakeSignal
  <2>1. Msg.t = "signal"
    BY Zenon, <1>8 DEF TakeSignal, Takes
  <2>2. CASE gate' = gate /\ ses' = ses
    BY Zenon, <1>0, <1>1, <1>2, <2>1, <2>2, MessageKeeps
  <2>3. CASE gate' = GateStopped /\ ses' = [ses EXCEPT !.weak = TRUE, !.pc = "stop"]
    <3>1. Moved(ses, ses', ses.access, "stop")
      BY ZenonT(30), <1>0, <2>3 DEF SesOK, Moved
    <3>2. SesOK(ses') /\ ses'.pc = "stop" /\ ses'.access = ses.access /\ ses'.tuned = ses.tuned
      BY <1>0, <1>1, <3>1, SessionMoves
    <3>3. GateOK(gate') /\ gate'.k = "Stopped"
      BY Zenon, <2>3, Gates
    <3> QED
      BY Zenon, <1>0, <1>2, <3>2, <3>3, MessageKeeps
  <2>4. CASE gate' = GateIdle /\ ses' = [ses EXCEPT !.weak = FALSE, !.pc = "refresh"]
    <3>1. Moved(ses, ses', ses.access, "refresh")
      BY ZenonT(30), <1>0, <2>4 DEF SesOK, Moved
    <3>2. SesOK(ses') /\ ses'.pc = "refresh" /\ ses'.access = ses.access /\ ses'.tuned = ses.tuned
      BY <1>0, <1>1, <3>1, SessionMoves
    <3>3. GateOK(gate') /\ gate'.k = "Idle"
      BY Zenon, <2>4, Gates
    <3> QED
      BY Zenon, <1>0, <1>2, <3>2, <3>3, MessageKeeps
  <2> QED
    BY Zenon, <1>8, <2>2, <2>3, <2>4 DEF TakeSignal
<1> QED
  BY Zenon, <1>3, <1>4, <1>5, <1>6, <1>7, <1>8

\* The parental question is put again: what may not be seen is stopped.
LEMMA ParentalKeeps ==
  ASSUME LiveInv, TakeParental \/ TakeUnblock
  PROVE  LiveInv'
<1> USE DEF LiveInv
<1>0. /\ ses.pc = "idle" /\ ses.released = "no" /\ queue # <<>> /\ queue' = Tail(queue)
      /\ UNCHANGED <<kind, tune, pipe>> /\ SesOK(ses) /\ GateOK(gate) /\ gate.k # "Starting"
      /\ Msg.t \in {"parental", "unblock"}
  BY Zenon DEF TakeParental, TakeUnblock, Takes, SessionOnly, Shapes
<1>1. /\ gate.k \in {"Waiting", "Started", "Failed"} => ses.access = "allowed"
      /\ ses.access \in {"unknown", "allowed", "blocked"}
  BY Zenon, <1>0 DEF AllowedInv, SesOK
<1>2. Plays(pipe) => /\ gate.k \in {"Waiting", "Started", "Failed"} /\ gate.gen \in Nat
                     /\ ses.access = "allowed"
  BY Zenon, <1>0, HeadOfQueue
<1>3. /\ Access \in {"unknown", "allowed", "blocked"} /\ Access \in {"allowed", "blocked", ses.access}
      /\ rating = "allow" => Access = "allowed"
  BY Zenon, <1>1, Asked
<1>4. /\ GateOK(AllowRetry(gate)) /\ AllowRetry(gate).k # "Starting"
      /\ \/ AllowRetry(gate) = gate
         \/ AllowRetry(gate).k = "Idle"
  BY Zenon, <1>0, Gates DEF AllowRetry
<1>5. CASE TakeParental
  <2> DEFINE pc == CASE Access = "blocked" -> "stop"
                     [] rating = "allow" /\ ses.known # None -> "decide"
                     [] OTHER -> "idle"
  <2>1. ses' = [ses EXCEPT !.access = Access, !.pc = pc]
    BY Zenon, <1>5 DEF TakeParental
  <2>2. /\ pc \in {"stop", "decide", "idle"} /\ (Access = "blocked" <=> pc = "stop")
        /\ pc = "decide" => ses.known # None
    BY Zenon, <1>3
  <2> HIDE DEF pc
  <2>3. Moved(ses, ses', Access, pc)
    BY ZenonT(30), <1>0, <2>1 DEF SesOK, Moved
  <2>4. SesOK(ses') /\ ses'.pc = pc /\ ses'.access = Access /\ ses'.tuned = ses.tuned
    BY <1>0, <1>3, <2>2, <2>3, SessionMoves
  <2>5. /\ ses'.pc = "stop" => gate' = GateStopped
        /\ ses'.pc = "decide" => gate' = AllowRetry(gate)
        /\ ses'.pc = "idle" => gate' = gate
    BY Zenon, <1>5 DEF TakeParental
  <2>6. GateOK(gate') /\ gate'.k # "Starting"
    BY Zenon, <1>0, <1>4, <2>2, <2>4, <2>5, Gates
  <2>7. gate'.k \in {"Waiting", "Started", "Failed"} => ses'.access = "allowed"
    BY ZenonT(30), <1>1, <1>3, <1>4, <2>2, <2>4, <2>5, Gates
  <2>8. Plays(pipe) /\ ses'.pc # "stop" => ses'.access = "allowed"
    BY Zenon, <1>2, <1>3, <2>2, <2>4
  <2>9. Plays(pipe) => \/ ses'.pc = "stop"
                       \/ gate'.k = "Idle" /\ ses'.pc \in {"refresh", "decide"}
                       \/ gate'.k \in {"Waiting", "Started", "Failed"} /\ gate'.gen = gate.gen
    BY Zenon, <1>2, <1>4, <2>2, <2>4, <2>5
  <2> QED
    BY Zenon, <1>0, <2>2, <2>4, <2>6, <2>7, <2>8, <2>9, MessageKeeps
<1>6. CASE TakeUnblock
  <2>1. CASE gate' = gate /\ ses' = ses
    BY Zenon, <1>0, <1>1, <1>2, <2>1, MessageKeeps
  <2>2. CASE ~(gate' = gate /\ ses' = ses)
    <3> DEFINE pc == IF ses.known # None THEN "decide" ELSE "idle"
    <3>1. /\ ses' = [ses EXCEPT !.pc = pc]
          /\ gate' = IF ses.known # None THEN AllowRetry(gate) ELSE gate
      BY Zenon, <1>6, <2>2 DEF TakeUnblock, Goes
    <3>2. pc \in {"decide", "idle"} /\ (pc = "decide" <=> ses.known # None)
      BY Zenon
    <3> HIDE DEF pc
    <3>3. Moved(ses, ses', ses.access, pc)
      BY Zenon, <1>0, <3>1 DEF SesOK, Moved
    <3>4. SesOK(ses') /\ ses'.pc = pc /\ ses'.access = ses.access /\ ses'.tuned = ses.tuned
      BY <1>0, <1>1, <3>2, <3>3, SessionMoves
    <3>5. GateOK(gate') /\ gate'.k # "Starting" /\ (gate' = gate \/ (gate'.k = "Idle" /\ pc = "decide"))
      BY Zenon, <1>0, <1>4, <3>1, <3>2
    <3> QED
      BY Zenon, <1>0, <1>1, <1>2, <3>2, <3>4, <3>5, MessageKeeps
  <2> QED
    BY Zenon, <2>1, <2>2
<1> QED
  BY Zenon, <1>5, <1>6

\* A task goes on while the pipeline is left alone.
LEMMA TaskStepKeeps ==
  ASSUME LiveInv, UNCHANGED <<kind, queue, pipe>>, SesOK(ses'), ses'.tuned = ses.tuned, GateOK(gate'), TuneOK(tune'),
         tune'.gen = tune.gen, tune'.accepted = tune.accepted, gate'.k = "Starting" <=> ses'.pc = "start",
         gate'.k \in {"Starting", "Waiting", "Started", "Failed"} => ses'.access = "allowed",
         Plays(pipe) /\ ses'.pc # "stop" => ses'.access = "allowed",
         Plays(pipe) \/ pipe.sig # None =>
           /\ tune.accepted
           /\ kind.cas /\ ~tune'.ready => ses'.pc \in {"eligible", "stop"},
         Owned(queue, pipe, ses', gate')
  PROVE  LiveInv'
<1> USE DEF LiveInv
<1>1. Shapes'
  BY ZenonT(30) DEF Shapes
<1>2. Plays(pipe)' <=> Plays(pipe)
  BY Zenon DEF Plays, RetryIsCurrent
<1>3. AllowedInv'
  BY Zenon, <1>2 DEF AllowedInv, PlaysOnlyAllowed, Plays
<1>4. KeyedInv'
  BY Zenon, <1>2 DEF KeyedInv
<1>5. OwnedInv'
  BY ZenonT(30) DEF OwnedInv
<1> QED
  BY ZenonT(30), <1>1, <1>3, <1>4, <1>5

\* Once nothing plays, the playback asks for nothing of the session.
LEMMA StopKeeps ==
  ASSUME LiveInv, ~Plays(pipe'), pipe'.sig = None, PipeOK(pipe'), SesOK(ses'), GateOK(gate'), TuneOK(tune'),
         tune'.accepted => ses'.tuned = tune'.gen /\ pipe'.gen > 0,
         gate'.k = "Starting" <=> ses'.pc = "start",
         gate'.k \in {"Starting", "Waiting", "Started", "Failed"} => ses'.access = "allowed",
         IsSeq(queue'), Messages(queue', pipe'.gen, tune'.gen, tune'.accepted)
  PROVE  LiveInv'
<1>1. Shapes'
  BY ZenonT(30) DEF Shapes
<1>2. AllowedInv'
  BY Zenon DEF AllowedInv, PlaysOnlyAllowed, Plays
<1>3. KeyedInv'
  BY Zenon DEF KeyedInv
<1>4. OwnedInv'
  BY Zenon, PlaybackEnds
<1> QED
  BY Zenon, <1>1, <1>2, <1>3, <1>4 DEF LiveInv

\* From the refreshed tables to the start: a task stops what plays, or keeps it.
LEMMA DecisionsKeep ==
  ASSUME LiveInv, Eligible \/ Decide \/ Sign
  PROVE  LiveInv'
<1> USE DEF LiveInv
<1>0. /\ UNCHANGED <<kind, queue, tune, pipe>> /\ SesOK(ses) /\ GateOK(gate) /\ TuneOK(tune) /\ gate.k # "Starting"
      /\ ses.pc \in {"eligible", "decide", "sign"} /\ ses.known # None
      /\ ses.access \in {"unknown", "allowed", "blocked"}
  BY Zenon DEF Eligible, Decide, Sign, SessionOnly, Shapes, SesOK
<1>1. gate.k \in {"Waiting", "Started", "Failed"} => ses.access = "allowed"
  BY Zenon DEF AllowedInv
<1>2. Plays(pipe) => ses.access = "allowed"
  BY Zenon, <1>0 DEF AllowedInv, PlaysOnlyAllowed, Plays
<1>3. Plays(pipe) \/ pipe.sig # None =>
        /\ tune.accepted /\ ses.tuned = tune.gen
        /\ ses.pc # "eligible" => LivePlaybackEligible
        /\ LivePlaybackEligible /\ kind.cas => tune.ready
  BY Zenon, <1>0 DEF KeyedInv, Shapes, LivePlaybackEligible, CasLinkageReady
<1>4. Plays(pipe) /\ ses.released = "no" =>
        \/ gate.k = "Idle"
        \/ gate.k \in {"Waiting", "Started", "Failed"} /\ Linked(queue, gate.gen, Target(pipe))
  BY Zenon, <1>0 DEF OwnedInv, Owned
<1>5. CASE Eligible
  <2> DEFINE pc == IF LivePlaybackEligible THEN "decide" ELSE "stop"
  <2>1. ses' = [ses EXCEPT !.pc = pc] /\ gate' = IF LivePlaybackEligible THEN gate ELSE GateStopped
    BY Zenon, <1>5 DEF Eligible, Goes
  <2>2. pc \in {"decide", "stop"} /\ (pc = "decide" <=> LivePlaybackEligible)
    BY Zenon
  <2> HIDE DEF pc
  <2>3. Moved(ses, ses', ses.access, pc)
    BY Zenon, <1>0, <2>1 DEF SesOK, Moved
  <2>4. SesOK(ses') /\ ses'.pc = pc /\ ses'.access = ses.access /\ ses'.tuned = ses.tuned /\ ses'.released = ses.released
    BY <1>0, <2>2, <2>3, SessionMoves
  <2>5. GateOK(gate') /\ (gate' = gate \/ gate'.k = "Stopped") /\ (pc = "decide" => gate' = gate)
    BY Zenon, <1>0, <2>1, <2>2, Gates
  <2>6. Owned(queue, pipe, ses', gate')
    BY Zenon, <1>4, <2>2, <2>4, <2>5 DEF Owned
  <2> QED
    BY ZenonT(30), <1>0, <1>1, <1>2, <1>3, <2>2, <2>4, <2>5, <2>6, TaskStepKeeps
<1>6. CASE Decide
  <2>1. ses.pc = "decide"
    BY Zenon, <1>6 DEF Decide
  <2>2. CASE ~LivePlaybackEligible
    <3>1. ses' = [ses EXCEPT !.pc = "idle"] /\ gate' = gate
      BY Zenon, <1>6, <2>2 DEF Decide, Goes
    <3>2. Moved(ses, ses', ses.access, "idle")
      BY Zenon, <1>0, <3>1 DEF SesOK, Moved
    <3>3. SesOK(ses') /\ ses'.pc = "idle" /\ ses'.access = ses.access /\ ses'.tuned = ses.tuned
      BY Zenon, <1>0, <3>2, SessionMoves
    <3>4. ~Plays(pipe) /\ pipe.sig = None
      BY Zenon, <1>3, <2>1, <2>2
    <3>5. Owned(queue, pipe, ses', gate')
      BY Zenon, <3>4 DEF Owned
    <3> QED
      BY Zenon, <1>0, <1>1, <3>1, <3>3, <3>4, <3>5, TaskStepKeeps
  <2>3. CASE LivePlaybackEligible
    <3> DEFINE pc == CASE Access = "blocked" -> "stop"
                       [] Access = "unknown" -> "idle"
                       [] ses.known \in Unsupported -> "stop"
                       [] OTHER -> "sign"
    <3>1. ses' = [ses EXCEPT !.access = Access, !.pc = pc] /\ gate' = IF ses'.pc = "stop" THEN GateStopped ELSE gate
      BY Zenon, <1>6, <2>3 DEF Decide
    <3>2. /\ Access \in {"unknown", "allowed", "blocked"} /\ Access \in {"allowed", "blocked", ses.access}
      BY Zenon, <1>0, Asked
    <3>3. /\ pc \in {"stop", "idle", "sign"} /\ (Access = "blocked" => pc = "stop")
          /\ pc = "idle" => Access = "unknown"
          /\ pc = "sign" => Access = "allowed"
      BY Zenon, <3>2
    <3> HIDE DEF pc
    <3>4. Moved(ses, ses', Access, pc)
      BY ZenonT(30), <1>0, <3>1 DEF SesOK, Moved
    <3>5. SesOK(ses') /\ ses'.pc = pc /\ ses'.access = Access /\ ses'.tuned = ses.tuned /\ ses'.released = ses.released
      BY <1>0, <3>2, <3>3, <3>4, SessionMoves
    <3>6. GateOK(gate') /\ (gate'.k = "Stopped" \/ (gate' = gate /\ pc # "stop")) /\ (pc # "stop" => gate' = gate)
      BY Zenon, <1>0, <3>1, <3>5, Gates
    <3>7. Plays(pipe) => pc \in {"stop", "sign"}
      BY Zenon, <1>2, <3>2, <3>3
    <3>8. Owned(queue, pipe, ses', gate')
      BY ZenonT(30), <1>4, <3>5, <3>6, <3>7 DEF Owned
    <3>9. gate'.k \in {"Starting", "Waiting", "Started", "Failed"} => ses'.access = "allowed"
      BY Zenon, <1>0, <1>1, <3>2, <3>3, <3>5, <3>6
    <3>10. Plays(pipe) /\ ses'.pc # "stop" => ses'.access = "allowed"
      BY Zenon, <3>3, <3>5, <3>7
    <3> QED
      BY ZenonT(30), <1>0, <1>3, <2>3, <3>3, <3>5, <3>6, <3>8, <3>9, <3>10, TaskStepKeeps
  <2> QED
    BY Zenon, <2>2, <2>3
<1>7. CASE Sign
  <2> DEFINE go == ShouldAttempt(gate, PlaybackSignature)
  <2> DEFINE pc == IF go THEN "start" ELSE "idle"
  <2>1. ses' = [ses EXCEPT !.pc = pc] /\ gate' = (IF go THEN Starting(PlaybackSignature) ELSE gate) /\ ses.pc = "sign"
    BY Zenon, <1>7 DEF Sign, Goes
  <2>2. pc \in {"start", "idle"} /\ (pc = "start" <=> go)
    BY Zenon
  <2>3. ~go => gate.k \notin {"Idle", "Stopped"}
    BY Zenon DEF ShouldAttempt
  <2> HIDE DEF pc, go
  <2>4. Moved(ses, ses', ses.access, pc) /\ ses.access = "allowed"
    BY Zenon, <1>0, <2>1 DEF SesOK, Moved
  <2>5. SesOK(ses') /\ ses'.pc = pc /\ ses'.access = ses.access /\ ses'.tuned = ses.tuned /\ ses'.released = ses.released
    BY <1>0, <2>2, <2>4, SessionMoves
  <2>6. GateOK(gate') /\ (gate'.k = "Starting" <=> pc = "start") /\ (pc = "idle" => gate' = gate)
    BY Zenon, <1>0, <2>1, <2>2, Gates
  <2>7. Owned(queue, pipe, ses', gate')
    BY Zenon, <1>4, <2>2, <2>3, <2>5, <2>6 DEF Owned
  <2> QED
    BY Zenon, <1>0, <1>3, <2>1, <2>2, <2>4, <2>5, <2>6, <2>7, TaskStepKeeps
<1> QED
  BY Zenon, <1>5, <1>6, <1>7

\* The tables are looked at again.
LEMMA RefreshKeeps ==
  ASSUME LiveInv, Refresh
  PROVE  LiveInv'
<1> USE DEF LiveInv
<1>0. /\ UNCHANGED <<kind, queue>> /\ SesOK(ses) /\ GateOK(gate) /\ TuneOK(tune) /\ PipeOK(pipe)
      /\ gate.k # "Starting" /\ ses.pc = "refresh" /\ ses.access \in {"unknown", "allowed", "blocked"}
      /\ pipe.gen \in Nat /\ tune.gen \in Nat
  BY ZenonT(30) DEF Refresh, Shapes, SesOK, PipeOK, TuneOK
<1>1. gate.k \in {"Waiting", "Started", "Failed"} => ses.access = "allowed"
  BY Zenon DEF AllowedInv
<1>2. Plays(pipe) => ses.access = "allowed"
  BY Zenon, <1>0 DEF AllowedInv, PlaysOnlyAllowed, Plays
<1>3. Plays(pipe) \/ pipe.sig # None => tune.accepted /\ ses.tuned = tune.gen /\ ses.tuned # 0
  BY <1>0 DEF KeyedInv, Shapes, TuneOK
<1>4. tune.accepted => ses.tuned = tune.gen /\ pipe.gen > 0
  BY Zenon DEF Shapes
<1>5. CASE /\ ses.tuned = 0 \/ ~(tune.accepted /\ ses.tuned = tune.gen)
           /\ ses' = [ses EXCEPT !.pc = "idle", !.known = IF ses.tuned = 0 THEN @ ELSE pmt]
           /\ UNCHANGED <<gate, tune, pipe>>
  <2>1. ~Plays(pipe) /\ pipe.sig = None
    BY Zenon, <1>3, <1>5
  <2> DEFINE k == IF ses.tuned = 0 THEN ses.known ELSE pmt
  <2>2. ses' = [ses EXCEPT !.pc = "idle", !.known = k]
    BY Zenon, <1>0, <1>5 DEF SesOK
  <2> HIDE DEF k
  <2>3. /\ ses' \in [pc : {"idle"}, tuned : {ses.tuned}, known : {k}, access : {ses.access}, noAudio : {ses.noAudio},
                     weak : {ses.weak}, released : {ses.released}]
        /\ ses.tuned \in Nat /\ ses.released \in {"no", "asked", "done"}
    BY ZenonT(30), <1>0, <2>2 DEF SesOK
  <2>4. SesOK(ses') /\ ses'.pc = "idle" /\ ses'.access = ses.access /\ ses'.tuned = ses.tuned
    BY Zenon, <1>0, <2>3 DEF SesOK
  <2>5. Owned(queue, pipe, ses', gate')
    BY Zenon, <2>1 DEF Owned
  <2> QED
    BY Zenon, <1>0, <1>1, <1>5, <2>1, <2>4, <2>5, TaskStepKeeps
<1>6. CASE /\ ses' = [ses EXCEPT !.pc = "idle", !.known = None]
           /\ gate' = GateStopped
           /\ tune' = [tune EXCEPT !.linked = FALSE, !.ready = FALSE]
           /\ pipe' = Stop(pipe)
  <2>1. PipeOK(pipe') /\ ~Plays(pipe') /\ pipe'.gen = pipe.gen + 1 /\ pipe'.sig = None
    BY Zenon, <1>0, <1>6, Stopped
  <2>2. /\ ses' \in [pc : {"idle"}, tuned : {ses.tuned}, known : {None}, access : {ses.access}, noAudio : {ses.noAudio},
                     weak : {ses.weak}, released : {ses.released}]
        /\ ses.tuned \in Nat /\ ses.released \in {"no", "asked", "done"}
    BY ZenonT(30), <1>0, <1>6 DEF SesOK
  <2>3. SesOK(ses') /\ ses'.pc = "idle" /\ ses'.access = ses.access /\ ses'.tuned = ses.tuned
    BY Zenon, <1>0, <2>2 DEF SesOK
  <2>4. TuneOK(tune') /\ tune'.gen = tune.gen /\ tune'.accepted = tune.accepted
    BY ZenonT(30), <1>0, <1>6 DEF TuneOK
  <2>5. GateOK(gate') /\ gate'.k = "Stopped"
    BY Zenon, <1>6, Gates
  <2>6. IsSeq(queue) /\ Messages(queue, pipe.gen, tune.gen, tune.accepted)
    BY Zenon DEF OwnedInv
  <2>7. pipe'.gen \in Nat /\ pipe.gen <= pipe'.gen
    BY <1>0, <2>1
  <2>8. Messages(queue, pipe'.gen, tune.gen, tune.accepted)
    BY Zenon, <1>0, <2>6, <2>7, MessagesKept
  <2>9. tune'.accepted => ses'.tuned = tune'.gen /\ pipe'.gen > 0
    BY <1>0, <1>4, <2>1, <2>3, <2>4
  <2> QED
    BY Zenon, <1>0, <2>1, <2>3, <2>4, <2>5, <2>6, <2>8, <2>9, StopKeeps
<1>7. CASE /\ pmt # None
           /\ ses' = [ses EXCEPT !.pc = "eligible", !.known = pmt]
           /\ \E keep \in BOOLEAN : tune' = [tune EXCEPT !.linked = kind.cas, !.ready = @ /\ keep /\ kind.cas]
           /\ UNCHANGED <<gate, pipe>>
  <2>1. PICK ready : tune' = [tune EXCEPT !.linked = kind.cas, !.ready = ready]
    BY ZenonT(30), <1>7
  <2>2. TuneOK(tune') /\ tune'.gen = tune.gen /\ tune'.accepted = tune.accepted
    BY ZenonT(30), <1>0, <2>1 DEF TuneOK
  <2>3. /\ ses' \in [pc : {"eligible"}, tuned : {ses.tuned}, known : {pmt}, access : {ses.access},
                     noAudio : {ses.noAudio}, weak : {ses.weak}, released : {ses.released}]
        /\ ses.tuned \in Nat /\ ses.released \in {"no", "asked", "done"}
    BY ZenonT(30), <1>0, <1>7 DEF SesOK
  <2>4. SesOK(ses') /\ ses'.pc = "eligible" /\ ses'.access = ses.access /\ ses'.tuned = ses.tuned
        /\ ses'.released = ses.released
    BY Zenon, <1>0, <1>7, <2>3 DEF SesOK
  <2>5. Owned(queue, pipe, ses', gate')
    BY Zenon, <1>0, <1>7, <2>4 DEF Owned, OwnedInv
  <2> QED
    BY Zenon, <1>0, <1>1, <1>2, <1>3, <1>7, <2>2, <2>4, <2>5, TaskStepKeeps
<1> QED
  BY ZenonT(30), <1>5, <1>6, <1>7 DEF Refresh

\* The session's own stops: of the pipeline, for a new tune, and for good.
LEMMA SessionStops ==
  ASSUME LiveInv, StopPlayback \/ TakeTune \/ ReleaseSession
  PROVE  LiveInv'
<1> USE DEF LiveInv
<1>0. /\ UNCHANGED <<kind>> /\ SesOK(ses) /\ GateOK(gate) /\ TuneOK(tune) /\ PipeOK(pipe)
      /\ ses.access \in {"unknown", "allowed", "blocked"} /\ gate.k # "Starting"
      /\ pipe.gen \in Nat /\ tune.gen \in Nat
  BY ZenonT(30) DEF StopPlayback, TakeTune, Takes, ReleaseSession, Shapes, SesOK, PipeOK, TuneOK
<1>1. gate.k \in {"Waiting", "Started", "Failed"} => ses.access = "allowed"
  BY Zenon DEF AllowedInv
<1>2. tune.accepted => ses.tuned = tune.gen /\ pipe.gen > 0
  BY Zenon DEF Shapes
<1> DEFINE o == Stop(pipe)
<1>3. PipeOK(o) /\ ~Plays(o) /\ o.gen = pipe.gen + 1 /\ o.sig = None
  BY Zenon, <1>0, Stopped
<1>4. IsSeq(queue) /\ Messages(queue, pipe.gen, tune.gen, tune.accepted)
  BY Zenon DEF OwnedInv
<1>5. o.gen \in Nat /\ pipe.gen <= o.gen /\ o.gen > 0
  BY <1>0, <1>3
<1>6. CASE StopPlayback
  <2>1. pipe' = o /\ ses' = [ses EXCEPT !.pc = "idle"] /\ UNCHANGED <<gate, queue, tune>>
    BY Zenon, <1>6 DEF StopPlayback, Goes
  <2> HIDE DEF o
  <2>2. Moved(ses, ses', ses.access, "idle")
    BY Zenon, <1>0, <2>1 DEF SesOK, Moved
  <2>3. SesOK(ses') /\ ses'.pc = "idle" /\ ses'.access = ses.access /\ ses'.tuned = ses.tuned
    BY <1>0, <2>2, SessionMoves
  <2>4. Messages(queue, o.gen, tune.gen, tune.accepted)
    BY Zenon, <1>0, <1>4, <1>5, MessagesKept
  <2> QED
    BY Zenon, <1>0, <1>1, <1>2, <1>3, <1>4, <1>5, <2>1, <2>3, <2>4, StopKeeps
<1>7. CASE TakeTune
  <2>1. pipe' = o /\ gate' = GateIdle /\ queue' = Tail(queue) /\ queue # <<>> /\ ses.pc = "idle"
    BY ZenonT(30), <1>7 DEF TakeTune, Takes
  <2>2. PICK ok \in BOOLEAN :
          LET g == IF ok THEN tune.gen + 1 ELSE tune.gen
          IN /\ tune' = [gen |-> g, accepted |-> ok, linked |-> FALSE, ready |-> FALSE]
             /\ ses' = [ses EXCEPT !.pc = IF ok THEN "refresh" ELSE "idle", !.tuned = IF ok THEN g ELSE 0,
                                   !.known = None, !.access = "unknown", !.noAudio = FALSE, !.weak = FALSE]
    BY ZenonT(30), <1>7 DEF TakeTune
  <2> DEFINE g == IF ok THEN tune.gen + 1 ELSE tune.gen
  <2> DEFINE pc == IF ok THEN "refresh" ELSE "idle"
  <2> DEFINE tuned == IF ok THEN g ELSE 0
  <2>3. /\ tune' = [gen |-> g, accepted |-> ok, linked |-> FALSE, ready |-> FALSE]
        /\ ses' = [ses EXCEPT !.pc = pc, !.tuned = tuned,
                              !.known = None, !.access = "unknown", !.noAudio = FALSE, !.weak = FALSE]
    BY Zenon, <2>2
  <2>4. g \in Nat /\ (ok => g > 0 /\ g = tune.gen + 1) /\ (~ok => g = tune.gen) /\ tuned \in Nat /\ (ok => tuned = g)
        /\ pc \in {"refresh", "idle"}
    BY <1>0
  <2> HIDE DEF g, pc, tuned, o
  <2>5. TuneOK(tune') /\ tune'.gen = g /\ tune'.accepted = ok
    BY Zenon, <2>3, <2>4 DEF TuneOK
  <2>6. /\ ses' \in [pc : {pc}, tuned : {tuned}, known : {None}, access : {"unknown"}, noAudio : {FALSE}, weak : {FALSE},
                     released : {ses.released}]
        /\ ses.released \in {"no", "asked", "done"}
    BY ZenonT(30), <1>0, <2>3 DEF SesOK
  <2>7. SesOK(ses') /\ ses'.pc = pc /\ ses'.tuned = tuned
    BY Zenon, <2>4, <2>6 DEF SesOK
  <2>8. GateOK(gate') /\ gate'.k = "Idle"
    BY Zenon, <2>1, Gates
  <2>9. IsSeq(queue') /\ Messages(queue', pipe.gen, tune.gen, tune.accepted)
    BY ZenonT(30), <1>4, <2>1, MessageTaken
  <2>10. Messages(queue', o.gen, tune.gen, tune.accepted)
    BY Zenon, <1>0, <1>5, <2>9, MessagesKept
  <2>11. Messages(queue', o.gen, g, ok)
    <3>1. CASE ok
      <4>1. Messages(queue', o.gen, tune.gen + 1, ok)
        BY Zenon, <1>0, <1>5, <2>10, MessagesKept
      <4> QED
        BY ZenonT(30), <2>4, <3>1, <4>1
    <3>2. CASE ~ok
      <4>1. Messages(queue', o.gen, tune.gen, ok)
        BY Zenon, <1>0, <1>5, <2>10, <3>2, MessagesKept
      <4> QED
        BY Zenon, <2>4, <3>2, <4>1
    <3> QED
      BY Zenon, <3>1, <3>2
  <2> QED
    BY Zenon, <1>3, <1>5, <2>1, <2>4, <2>5, <2>7, <2>8, <2>9, <2>11, StopKeeps
<1>8. CASE ReleaseSession
  <2>1. /\ pipe' = [o EXCEPT !.retry = None] /\ gate' = GateStopped /\ queue' = queue /\ ses.pc = "idle"
        /\ tune' = [tune EXCEPT !.accepted = FALSE, !.linked = FALSE, !.ready = FALSE]
    BY Zenon, <1>8 DEF ReleaseSession
  <2>2. PICK released \in {"asked", "done"} : ses' = [ses EXCEPT !.released = released]
    BY Zenon, <1>8 DEF ReleaseSession
  <2> HIDE DEF o
  <2>3. /\ pipe' \in [gen : {o.gen}, run : {o.run}, sig : {None}, notified : {o.notified}, surface : {o.surface},
                      recovered : {o.recovered}, retry : {None}]
        /\ o.run \in BOOLEAN /\ o.notified \in BOOLEAN /\ o.recovered \in BOOLEAN /\ o.run = FALSE
    BY Zenon, <1>3, <2>1 DEF PipeOK, Plays
  <2>4. PipeOK(pipe') /\ ~Plays(pipe') /\ pipe'.sig = None /\ pipe'.gen = o.gen
    BY Zenon, <1>5, <2>3 DEF PipeOK, Plays, RetryIsCurrent
  <2>5. /\ ses' \in [pc : {"idle"}, tuned : {ses.tuned}, known : {ses.known}, access : {ses.access},
                     noAudio : {ses.noAudio}, weak : {ses.weak}, released : {released}]
        /\ ses.tuned \in Nat
    BY Zenon, <1>0, <2>1, <2>2 DEF SesOK
  <2>6. SesOK(ses') /\ ses'.pc = "idle"
    BY Zenon, <1>0, <2>5 DEF SesOK
  <2>7. TuneOK(tune') /\ tune'.gen = tune.gen /\ tune'.accepted = FALSE
    BY ZenonT(30), <1>0, <2>1 DEF TuneOK
  <2>8. GateOK(gate') /\ gate'.k = "Stopped"
    BY Zenon, <2>1, Gates
  <2>9. Messages(queue, o.gen, tune.gen, tune.accepted)
    BY Zenon, <1>0, <1>4, <1>5, MessagesKept
  <2>10. Messages(queue, o.gen, tune.gen, FALSE)
    BY ZenonT(30), <1>0, <1>5, <2>9, MessagesKept
  <2> QED
    BY Zenon, <1>4, <2>1, <2>4, <2>6, <2>7, <2>8, <2>10, StopKeeps
<1> QED
  BY Zenon, <1>6, <1>7, <1>8

\* A start by the session with outcome h, q being the messages before it.
FreshStart(q, h) ==
  /\ IsSeq(q) /\ Messages(q, pipe.gen, tune.gen, tune.accepted) /\ queue' \in {q, q \o StartNotice(pipe, h)}
  /\ kind' = kind /\ tune' = tune /\ tune.accepted /\ (kind.cas => tune.ready)
  /\ PipeOK(pipe') /\ ~RetryIsCurrent(pipe') /\ pipe'.gen > pipe.gen
  /\ pipe'.run => h # "dirty" /\ pipe'.gen = pipe.gen + 2
  /\ SesOK(ses') /\ ses'.pc = "idle" /\ ses'.tuned = ses.tuned /\ ses'.access = "allowed"
  /\ GateOK(gate') /\ gate'.k \in {"Waiting", "Started", "Failed"}
  /\ h # "dirty" => gate'.gen = pipe.gen + 2

\* After such a start the session knows the generation that plays.
LEMMA StartKeeps ==
  ASSUME LiveInv, NEW q, NEW h, FreshStart(q, h)
  PROVE  LiveInv'
<1> USE DEF LiveInv, FreshStart
<1>0. pipe.gen \in Nat /\ pipe'.gen \in Nat /\ tune.gen \in Nat /\ ses.tuned = tune.gen /\ pipe.gen <= pipe'.gen
  BY DEF Shapes, PipeOK, TuneOK
<1>1. Shapes'
  BY <1>0 DEF Shapes
<1>2. AllowedInv'
  BY ZenonT(30) DEF AllowedInv, PlaysOnlyAllowed
<1>3. KeyedInv'
  BY Zenon DEF KeyedInv
<1>4. Plain(StartNotice(pipe, h))
  BY ZenonT(30), NoticePlain
<1>5. Messages(q, pipe'.gen, tune.gen, tune.accepted)
  BY ZenonT(30), <1>0, MessagesKept
<1>6. /\ IsSeq(queue') /\ Messages(queue', pipe'.gen, tune.gen, tune.accepted)
      /\ \A g, t : Linked(q, g, t) => Linked(queue', g, t)
  BY ZenonT(30), <1>4, <1>5, PlainPosted
<1>7. Plays(pipe') => pipe'.run /\ Target(pipe') = pipe'.gen /\ gate'.gen = pipe'.gen
  BY ZenonT(30) DEF Plays, Target
<1>8. Linked(queue', pipe'.gen, pipe'.gen)
  <2>1. Linked(q, pipe'.gen, pipe'.gen)
    BY ZenonT(30), <1>0, MessagesKept
  <2> QED
    BY ZenonT(30), <1>6, <2>1
<1>9. Bounded(queue', pipe'.gen)
  BY ZenonT(30), <1>6 DEF Messages, Bounded
<1>10. Owned(queue', pipe', ses', gate')
  BY ZenonT(30), <1>7, <1>8 DEF Owned
<1>11. OwnedInv'
  BY ZenonT(30), <1>6, <1>7, <1>9, <1>10 DEF OwnedInv
<1> QED
  BY Zenon, <1>1, <1>2, <1>3, <1>11

\* The gate after a start that returned.
LEMMA StartCommitted ==
  ASSUME NEW s, NEW sig, NEW r, r.gen \in Nat, NEW started
  PROVE  LET g == AfterRestartResult(s, sig, r, started)
         IN GateOK(g) /\ g.k \in {"Waiting", "Started", "Failed"} /\ g.gen = r.gen
<1>1. AfterRestartResult(s, sig, r, started)
        \in {Failed(sig, r.gen), WaitingFirstOutput(sig, r.gen), Started(sig, r.gen)}
  BY DEF AfterRestartResult
<1> QED
  BY <1>1, Gates

\* A start by the session, and a change of the audio track.
LEMMA StartsKeep ==
  ASSUME LiveInv, StartPlayback \/ TakeSelectAudio
  PROVE  LiveInv'
<1> USE DEF LiveInv
<1>0. /\ UNCHANGED <<kind, tune>> /\ SesOK(ses) /\ GateOK(gate) /\ TuneOK(tune) /\ PipeOK(pipe)
      /\ pipe.gen \in Nat /\ tune.gen \in Nat
      /\ IsSeq(queue) /\ Messages(queue, pipe.gen, tune.gen, tune.accepted)
  BY Zenon DEF StartPlayback, TakeSelectAudio, Shapes, PipeOK, TuneOK, OwnedInv
<1>1. ASSUME NEW h \in Outcomes(pipe) PROVE h \in {"ok", "mute", "surface", "filter", "sync", "dirty"}
  BY Zenon DEF Outcomes
<1>2. CASE StartPlayback
  <2>1. ses.pc = "start" /\ ses' = [ses EXCEPT !.pc = "idle"] /\ ses.access = "allowed" /\ gate.k = "Starting"
    BY Zenon, <1>0, <1>2 DEF StartPlayback, Goes, SesOK, Shapes
  <2>2. Moved(ses, ses', "allowed", "idle")
    BY Zenon, <1>0, <2>1 DEF SesOK, Moved
  <2>3. SesOK(ses') /\ ses'.pc = "idle" /\ ses'.access = "allowed" /\ ses'.tuned = ses.tuned
    BY Zenon, <1>0, <2>2, SessionMoves
  <2>4. CASE ~tune.accepted \/ ses.tuned # tune.gen \/ (kind.cas /\ ~tune.ready)
    <3>1. gate' = Failed(gate.sig, None) /\ UNCHANGED <<pipe, queue>>
      BY Zenon, <1>2, <2>4 DEF StartPlayback
    <3>2. ~Plays(pipe) /\ pipe.sig = None
      BY Zenon, <2>1, <2>4 DEF KeyedInv, Shapes
    <3>3. GateOK(gate') /\ gate'.k = "Failed"
      BY <3>1, Gates
    <3>4. Owned(queue, pipe, ses', gate')
      BY Zenon, <3>2 DEF Owned
    <3> QED
      BY Zenon, <1>0, <2>3, <3>1, <3>2, <3>3, <3>4, TaskStepKeeps
  <2>5. CASE tune.accepted /\ ses.tuned = tune.gen /\ (kind.cas => tune.ready)
    <3>1. PICK h \in Outcomes(pipe) :
            LET r == StartResult(pipe, gate.sig, h)
            IN /\ pipe' = [StartPipe(pipe, gate.sig, h) EXCEPT !.recovered = FALSE]
               /\ gate' = AfterRestartResult(gate, gate.sig, r, r.pending \/ (kind.audioOnly /\ r.audio))
               /\ Post(StartNotice(pipe, h))
      BY Zenon, <1>2, <2>5 DEF StartPlayback
    <3> DEFINE r == StartResult(pipe, gate.sig, h)
    <3> DEFINE y == StartPipe(pipe, gate.sig, h)
    <3>a. h \in {"ok", "mute", "surface", "filter", "sync", "dirty"} /\ PipeOK(pipe)
      BY Zenon, <1>0, <1>1
    <3>2. /\ PipeOK(y) /\ ~RetryIsCurrent(y) /\ y.gen > pipe.gen
          /\ y.run => h \in {"ok", "mute"} /\ y.gen = pipe.gen + 2
          /\ r.gen \in Nat
          /\ h # "dirty" => r.gen = pipe.gen + 2
      <4>1. y = StartPipe(pipe, gate.sig, h) /\ r = StartResult(pipe, gate.sig, h)
        BY Zenon
      <4> HIDE DEF y, r
      <4> QED
        BY <3>a, <4>1, PipeStarted
    <3>3. pipe' = [y EXCEPT !.recovered = FALSE] /\ queue' \in {queue, queue \o StartNotice(pipe, h)}
      BY Zenon, <3>1 DEF Post
    <3>4. \E started : gate' = AfterRestartResult(gate, gate.sig, r, started)
      BY Zenon, <3>1
    <3> HIDE DEF r, y
    <3>5. /\ pipe' \in [gen : {y.gen}, run : {y.run}, sig : {y.sig}, notified : {y.notified}, surface : {y.surface},
                        recovered : {FALSE}, retry : {y.retry}]
          /\ y.gen \in Nat /\ y.run \in BOOLEAN /\ y.notified \in BOOLEAN
      BY ZenonT(30), <3>2, <3>3 DEF PipeOK
    <3>6. PipeOK(pipe')
      BY ZenonT(30), <3>2, <3>5 DEF PipeOK
    <3>7. ~RetryIsCurrent(pipe') /\ pipe'.gen = y.gen /\ pipe'.run = y.run
      BY Zenon, <3>2, <3>5 DEF RetryIsCurrent
    <3>8. GateOK(gate') /\ gate'.k \in {"Waiting", "Started", "Failed"} /\ gate'.gen = r.gen
      BY <3>2, <3>4, StartCommitted
    <3>9. /\ pipe'.gen > pipe.gen /\ (pipe'.run => h # "dirty" /\ pipe'.gen = pipe.gen + 2)
          /\ h # "dirty" => gate'.gen = pipe.gen + 2
      BY Zenon, <3>2, <3>7, <3>8
    <3>10. gate'.k \in {"Waiting", "Started", "Failed"} /\ ~RetryIsCurrent(pipe')
      BY Zenon, <3>7, <3>8
    <3>11. FreshStart(queue, h)
      BY Zenon, <1>0, <2>3, <2>5, <3>3, <3>6, <3>8, <3>9, <3>10 DEF FreshStart
    <3> QED
      BY Zenon, <3>11, StartKeeps
  <2> QED
    BY Zenon, <2>4, <2>5
<1>3. CASE TakeSelectAudio
  <2>1. /\ ses.pc = "idle" /\ ses.released = "no" /\ queue # <<>> /\ Msg.t = "audio" /\ gate.k # "Starting"
        /\ gate.k \in {"Waiting", "Started", "Failed"} => ses.access = "allowed"
    BY Zenon, <1>3 DEF TakeSelectAudio, Takes, Shapes, AllowedInv
  <2>2. Plays(pipe) => gate.k \in {"Waiting", "Started", "Failed"} /\ ses.access = "allowed"
    BY Zenon, <2>1, HeadOfQueue
  <2>3. CASE UNCHANGED <<gate, ses, pipe>> /\ queue' = Tail(queue)
    BY ZenonT(30), <1>0, <2>1, <2>2, <2>3, MessageKeeps
  <2>4. CASE ~(UNCHANGED <<gate, ses, pipe>> /\ queue' = Tail(queue))
    <3> DEFINE sig == [PlaybackSignature EXCEPT !.audio = TRUE]
    <3>1. /\ gate.k = "Started" /\ pipe.sig # None
          /\ \E h \in Outcomes(pipe) :
               LET r == StartResult(pipe, sig, h)
               IN /\ pipe' = StartPipe(pipe, sig, h)
                  /\ gate' = AfterRestartResult(gate, sig, r, r.audio)
                  /\ ses' = [ses EXCEPT !.noAudio = @ /\ ~r.audio]
                  /\ queue' = Tail(queue) \o StartNotice(pipe, h)
      BY ZenonT(30), <1>3, <2>4 DEF TakeSelectAudio
    <3> HIDE DEF sig
    <3>2. PICK h \in Outcomes(pipe) :
            LET r == StartResult(pipe, sig, h)
            IN /\ pipe' = StartPipe(pipe, sig, h)
               /\ gate' = AfterRestartResult(gate, sig, r, r.audio)
               /\ ses' = [ses EXCEPT !.noAudio = @ /\ ~r.audio]
               /\ queue' = Tail(queue) \o StartNotice(pipe, h)
      BY Zenon, <3>1
    <3> DEFINE r == StartResult(pipe, sig, h)
    <3>3. /\ PipeOK(pipe') /\ ~RetryIsCurrent(pipe') /\ pipe'.gen > pipe.gen
          /\ pipe'.run => h \in {"ok", "mute"} /\ pipe'.gen = pipe.gen + 2
          /\ r.gen \in Nat
          /\ h # "dirty" => r.gen = pipe.gen + 2
      BY <1>0, <1>1, <3>2, PipeStarted
    <3>4. /\ \E a : ses' = [ses EXCEPT !.noAudio = a]
          /\ \E started : gate' = AfterRestartResult(gate, sig, r, started)
      BY ZenonT(30), <3>2
    <3> HIDE DEF r
    <3>5. Moved(ses, ses', "allowed", "idle")
      BY ZenonT(30), <1>0, <2>1, <3>1, <3>4 DEF SesOK, Moved
    <3>6. SesOK(ses') /\ ses'.pc = "idle" /\ ses'.access = "allowed" /\ ses'.tuned = ses.tuned
      BY Zenon, <1>0, <3>5, SessionMoves
    <3>7. GateOK(gate') /\ gate'.k \in {"Waiting", "Started", "Failed"} /\ gate'.gen = r.gen
      BY <3>3, <3>4, StartCommitted
    <3>8. tune.accepted /\ (kind.cas => tune.ready)
      BY Zenon, <2>1, <3>1 DEF KeyedInv
    <3>9. IsSeq(Tail(queue)) /\ Messages(Tail(queue), pipe.gen, tune.gen, tune.accepted)
      BY ZenonT(30), <1>0, <2>1, MessageTaken
    <3>10. queue' \in {Tail(queue), Tail(queue) \o StartNotice(pipe, h)}
      BY Zenon, <3>2
    <3>11. /\ pipe'.run => h # "dirty" /\ pipe'.gen = pipe.gen + 2
           /\ h # "dirty" => gate'.gen = pipe.gen + 2
      BY Zenon, <3>3, <3>7
    <3>12. FreshStart(Tail(queue), h)
      BY ZenonT(30), <1>0, <3>3, <3>6, <3>7, <3>8, <3>9, <3>10, <3>11 DEF FreshStart
    <3> QED
      BY Zenon, <3>12, StartKeeps
  <2> QED
    BY Zenon, <2>3, <2>4
<1> QED
  BY Zenon, <1>2, <1>3

\* A new surface: what plays is stopped, a planned retry waits for the refresh.
LEMMA SurfaceKeeps ==
  ASSUME LiveInv, TakeSurface
  PROVE  LiveInv'
<1> USE DEF LiveInv
<1>0. /\ UNCHANGED <<kind, tune>> /\ SesOK(ses) /\ TuneOK(tune) /\ PipeOK(pipe) /\ ses.pc = "idle" /\ queue # <<>>
      /\ pipe.gen \in Nat /\ tune.gen \in Nat /\ ses.access \in {"unknown", "allowed", "blocked"}
      /\ tune.accepted => ses.tuned = tune.gen /\ pipe.gen > 0
      /\ IsSeq(queue) /\ Messages(queue, pipe.gen, tune.gen, tune.accepted)
      /\ Plays(pipe) => Bounded(queue, Target(pipe))
  BY Zenon DEF TakeSurface, Takes, Shapes, PipeOK, TuneOK, SesOK, OwnedInv
<1> DEFINE o == IF pipe.run THEN Stop(pipe) ELSE pipe
<1>1. /\ PipeOK(o) /\ ~o.run /\ o.gen >= pipe.gen /\ o.retry = pipe.retry /\ (o.sig # None => pipe.sig # None)
      /\ RetryIsCurrent(o) => ~pipe.run /\ RetryIsCurrent(pipe)
  <2>1. PipeOK(Stop(pipe)) /\ ~Plays(Stop(pipe)) /\ Stop(pipe).gen = pipe.gen + 1 /\ Stop(pipe).sig = None
        /\ Stop(pipe).retry = pipe.retry
    BY Zenon, <1>0, Stopped
  <2> QED
    BY <1>0, <2>1 DEF Plays
<1> DEFINE p == [o EXCEPT !.surface = Msg.on]
<1> DEFINE ms == IF Msg.on THEN <<>> ELSE <<Unavailable("other", p.gen)>>
<1>2. /\ pipe' = IF Msg.on THEN p ELSE Stop(p)
      /\ queue' = Tail(queue) \o ms
      /\ gate' = IF Msg.on THEN GateIdle ELSE GateStopped
      /\ ses' = [ses EXCEPT !.pc = IF Msg.on THEN "refresh" ELSE "idle"]
  BY Zenon DEF TakeSurface, Goes
<1>3. Plain(ms)
  <2>1. StartNotice(p, "ok") = <<>>
    BY Zenon DEF StartNotice
  <2>2. Plain(<<>>)
    BY Zenon, <2>1, NoticePlain
  <2> DEFINE m == Unavailable("other", p.gen)
  <2>3. m.t = "unavailable" /\ m.why = "other"
    BY Zenon DEF Unavailable
  <2> HIDE DEF m
  <2>4. Plain(<<m>>)
    BY Zenon, <2>3, PlainMessage
  <2> QED
    BY Zenon, <2>2, <2>4 DEF m
<1> HIDE DEF o
<1>4. /\ p \in [gen : {o.gen}, run : {o.run}, sig : {o.sig}, notified : {o.notified}, surface : {Msg.on},
                recovered : {o.recovered}, retry : {o.retry}]
      /\ o.gen \in Nat /\ o.run \in BOOLEAN /\ o.notified \in BOOLEAN /\ o.recovered \in BOOLEAN
  BY Zenon, <1>1 DEF PipeOK
<1> HIDE DEF p, ms
<1>5. PipeOK(p)
  BY Zenon, <1>1, <1>4 DEF PipeOK
<1>6. /\ ~p.run /\ p.gen = o.gen /\ p.sig = o.sig /\ p.gen \in Nat /\ pipe.gen <= p.gen
      /\ Plays(p) => Plays(pipe) /\ Target(p) = Target(pipe)
  BY ZenonT(30), <1>1, <1>4 DEF Plays, RetryIsCurrent, Target
<1>7. /\ IsSeq(queue') /\ Messages(queue', pipe.gen, tune.gen, tune.accepted)
      /\ Plays(pipe) => Bounded(queue', Target(pipe))
  <2>1. /\ IsSeq(Tail(queue)) /\ Messages(Tail(queue), pipe.gen, tune.gen, tune.accepted)
        /\ Plays(pipe) => Bounded(Tail(queue), Target(pipe))
    BY ZenonT(30), <1>0, MessageTaken
  <2> QED
    BY Zenon, <1>2, <1>3, <2>1, PlainPosted
<1>8. CASE Msg.on
  <2>1. pipe' = p /\ gate' = GateIdle /\ ses' = [ses EXCEPT !.pc = "refresh"]
    BY Zenon, <1>2, <1>8
  <2>2. Moved(ses, ses', ses.access, "refresh")
    BY Zenon, <1>0, <2>1 DEF SesOK, Moved
  <2>3. SesOK(ses') /\ ses'.pc = "refresh" /\ ses'.access = ses.access /\ ses'.tuned = ses.tuned
    BY <1>0, <2>2, SessionMoves
  <2>4. GateOK(gate') /\ gate'.k = "Idle"
    BY Zenon, <2>1, Gates
  <2>5. Shapes'
    BY <1>0, <1>5, <1>6, <2>1, <2>3, <2>4 DEF Shapes
  <2>6. AllowedInv'
    BY Zenon, <1>0, <1>6, <2>1, <2>3, <2>4 DEF AllowedInv, PlaysOnlyAllowed, Plays
  <2>7. KeyedInv'
    BY Zenon, <1>0, <1>1, <1>6, <2>1 DEF KeyedInv
  <2>8. Messages(queue', pipe'.gen, tune.gen, tune.accepted)
    BY ZenonT(30), <1>0, <1>6, <1>7, <2>1, MessagesKept
  <2>9. Owned(queue', pipe', ses', gate')
    BY Zenon, <2>3, <2>4 DEF Owned
  <2>10. OwnedInv'
    BY Zenon, <1>0, <1>6, <1>7, <2>1, <2>8, <2>9 DEF OwnedInv
  <2> QED
    BY Zenon, <2>5, <2>6, <2>7, <2>10
<1>9. CASE ~Msg.on
  <2>1. pipe' = Stop(p) /\ gate' = GateStopped /\ ses' = [ses EXCEPT !.pc = "idle"]
    BY Zenon, <1>2, <1>9
  <2>2. Moved(ses, ses', ses.access, "idle")
    BY Zenon, <1>0, <2>1 DEF SesOK, Moved
  <2>3. SesOK(ses') /\ ses'.pc = "idle" /\ ses'.access = ses.access /\ ses'.tuned = ses.tuned
    BY <1>0, <2>2, SessionMoves
  <2>4. GateOK(gate') /\ gate'.k = "Stopped"
    BY Zenon, <2>1, Gates
  <2>5. PipeOK(pipe') /\ ~Plays(pipe') /\ pipe'.gen = p.gen + 1 /\ pipe'.sig = None
    BY Zenon, <1>5, <2>1, Stopped
  <2>6. pipe'.gen \in Nat /\ pipe.gen <= pipe'.gen /\ pipe'.gen > 0
    <3>1. pipe.gen \in Nat /\ p.gen \in Nat /\ pipe.gen <= p.gen
      BY Zenon, <1>0, <1>6
    <3> QED
      BY <2>5, <3>1
  <2>7. Messages(queue', pipe'.gen, tune.gen, tune.accepted)
    BY ZenonT(30), <1>0, <1>7, <2>6, MessagesKept
  <2> QED
    BY Zenon, <1>0, <1>7, <2>3, <2>4, <2>5, <2>6, <2>7, StopKeeps
<1> QED
  BY Zenon, <1>8, <1>9

\* What the framework, the viewer and the settings ask for.
LEMMA RequestsKeep ==
  ASSUME LiveInv, AskRelease \/ Request \/ RatingChanges
  PROVE  LiveInv'
<1> USE DEF LiveInv
<1>0. /\ UNCHANGED <<kind, gate, tune, pipe>> /\ PipeOK(pipe) /\ TuneOK(tune) /\ SesOK(ses) /\ pipe.gen \in Nat
  BY Zenon DEF AskRelease, Request, RatingChanges, Shapes, PipeOK
<1>1. /\ PipeOK(pipe') /\ pipe'.gen >= pipe.gen /\ (Plays(pipe') <=> Plays(pipe)) /\ Target(pipe') = Target(pipe)
      /\ pipe'.sig = pipe.sig /\ TuneOK(tune') /\ tune'.gen = tune.gen /\ tune'.accepted = tune.accepted
      /\ tune' = tune
  BY <1>0
<1>2. CASE Request \/ RatingChanges
  <2>1. ses' = ses
    BY Zenon, <1>2 DEF Request, RatingChanges
  <2>2. Shapes' /\ AllowedInv' /\ KeyedInv'
    BY Zenon, <1>0, <1>1, <2>1, SessionUntouched
  <2>3. CASE queue' = queue
    <3>1. Plain(StartNotice(pipe, "ok"))
      BY Zenon, NoticePlain
    <3>2. OwnedInv'
      BY Zenon, <1>0, <1>1, <2>1, <2>3, <3>1, PlaybackGoesOn
    <3> QED
      BY Zenon, <2>2, <3>2
  <2>4. ASSUME NEW m, m.t \in {"tune", "audio", "unblock", "surface", "parental"}, queue' = queue \o <<m>>
        PROVE  LiveInv'
    <3>1. Plain(<<m>>)
      BY Zenon, <2>4, PlainMessage
    <3>2. OwnedInv'
      BY ZenonT(30), <1>0, <1>1, <2>1, <2>4, <3>1, PlaybackGoesOn
    <3> QED
      BY Zenon, <2>2, <3>2
  <2>5. CASE RatingChanges
    <3> DEFINE m == [t |-> "parental"]
    <3>1. (queue' = queue \/ queue' = queue \o <<m>>) /\ m.t = "parental"
      BY Zenon, <2>5 DEF RatingChanges, Post
    <3> HIDE DEF m
    <3> QED
      BY <2>3, <2>4, <3>1
  <2>6. CASE Request
    <3>1. PICK m \in {[t |-> "tune"], [t |-> "audio"], [t |-> "unblock"],
                      [t |-> "surface", on |-> TRUE], [t |-> "surface", on |-> FALSE]} : queue' = Append(queue, m)
      BY ZenonT(30), <2>6 DEF Request
    <3>2. m.t \in {"tune", "audio", "unblock", "surface"}
      OBVIOUS
    <3>3. PICK S : queue \in Seq(S)
      BY ZenonT(30) DEF OwnedInv, IsSeq
    <3>4. queue \in Seq(S \cup {m})
      BY <3>3
    <3>5. Append(queue, m) = queue \o <<m>>
      BY <3>4
    <3> QED
      BY <2>4, <3>1, <3>2, <3>5
  <2> QED
    BY Zenon, <1>2, <2>5, <2>6
<1>3. CASE AskRelease
  <2>1. ses' = [ses EXCEPT !.released = "asked"] /\ queue' = <<>>
    BY Zenon, <1>3 DEF AskRelease
  <2>2. /\ ses' \in [pc : {ses.pc}, tuned : {ses.tuned}, known : {ses.known}, access : {ses.access},
                     noAudio : {ses.noAudio}, weak : {ses.weak}, released : {"asked"}]
    BY Zenon, <1>0, <2>1 DEF SesOK
  <2>3. /\ SesOK(ses') /\ ses'.pc = ses.pc /\ ses'.access = ses.access /\ ses'.tuned = ses.tuned
        /\ ses'.released = "asked"
    BY Zenon, <1>0, <2>2 DEF SesOK
  <2>4. Shapes'
    BY ZenonT(30), <1>0, <1>1, <2>3 DEF Shapes
  <2>5. AllowedInv'
    BY Zenon, <1>0, <1>1, <2>3 DEF AllowedInv, PlaysOnlyAllowed, Plays
  <2>6. KeyedInv'
    BY Zenon, <1>0, <1>1, <2>3 DEF KeyedInv
  <2>7. IsSeq(queue') /\ \A i : ~Restarts(queue', i) /\ ~KeyGone(queue', i) /\ ~Losses(queue', i)
    <3>1. StartNotice(pipe, "ok") = <<>>
      BY Zenon DEF StartNotice
    <3>2. Plain(<<>>)
      BY Zenon, <3>1, NoticePlain
    <3> QED
      BY Zenon, <2>1, <3>2 DEF Plain
  <2>8. Messages(queue', pipe.gen, tune.gen, tune.accepted) /\ Bounded(queue', Target(pipe))
    BY ZenonT(30), <2>7 DEF Messages, Bounded
  <2>9. Owned(queue', pipe', ses', gate')
    BY Zenon, <2>3 DEF Owned
  <2>10. OwnedInv'
    BY Zenon, <1>0, <1>1, <2>7, <2>8, <2>9 DEF OwnedInv
  <2> QED
    BY Zenon, <2>4, <2>5, <2>6, <2>10
<1> QED
  BY Zenon, <1>2, <1>3

-----------------------------------------------------------------------------
(* A live session                                                          *)

\* A session begins with nothing played and the first tune asked for.
LEMMA LiveBegins == LiveInit => LiveInv
<1> SUFFICES ASSUME LiveInit PROVE LiveInv
  BY Zenon
<1>1. Shapes
  BY ZenonT(30) DEF LiveInit, Shapes, PipeOK, SesOK, GateOK, TuneOK, GateIdle
<1>2. ~Plays(pipe) /\ pipe.sig = None /\ gate.k = "Idle"
  BY ZenonT(30) DEF LiveInit, Plays, RetryIsCurrent, GateIdle
<1>3. AllowedInv /\ KeyedInv
  BY Zenon, <1>2 DEF AllowedInv, PlaysOnlyAllowed, Plays, KeyedInv
<1>4. OwnedInv
  <2> DEFINE m == [t |-> "tune"]
  <2>1. queue = <<m>> /\ m.t = "tune"
    BY ZenonT(30) DEF LiveInit
  <2> HIDE DEF m
  <2>2. Plain(<<m>>)
    BY Zenon, <2>1, PlainMessage
  <2>3. IsSeq(queue) /\ Messages(queue, pipe.gen, tune.gen, tune.accepted)
    BY ZenonT(30), <2>1, <2>2 DEF Plain, Messages
  <2> QED
    BY Zenon, <1>2, <2>3 DEF OwnedInv, Owned
<1> QED
  BY Zenon, <1>1, <1>3, <1>4 DEF LiveInv

\* Every step of a session keeps the invariant.
LEMMA LiveStep == LiveInv /\ [LiveNext]_liveVars => LiveInv'
<1> SUFFICES ASSUME LiveInv, [LiveNext]_liveVars PROVE LiveInv'
  BY Zenon
<1>1. CASE UNCHANGED liveVars
  <2>1. UNCHANGED <<kind, gate, ses, queue, tune, pipe>>
    BY Zenon, <1>1 DEF liveVars
  <2> QED
    BY ZenonT(30), <2>1 DEF LiveInv, Shapes, AllowedInv, PlaysOnlyAllowed, RetryIsCurrent, KeyedInv, OwnedInv
<1>2. CASE LiveNext
  BY Zenon, <1>2, PlaybackKeeps, RestartsKeep, ControllerKeeps, ReportsKeep, ParentalKeeps, DecisionsKeep, RefreshKeeps,
     SessionStops, StartsKeep, SurfaceKeeps, RequestsKeep DEF LiveNext
<1> QED
  BY Zenon, <1>1, <1>2

\* The invariant of a live session.
LEMMA LiveInvariant == LiveSpec => []LiveInv
BY LiveBegins, LiveStep, PTL DEF LiveSpec

\* Content plays, or waits for a retry, only while the session's last answer to
\* the parental question allows it (contentAccessDecision, stopPlayback).
THEOREM Plays_Only_Allowed == LiveSpec => []PlaysOnlyAllowed
<1>1. LiveInv => PlaysOnlyAllowed
  BY Zenon DEF LiveInv, AllowedInv
<1> QED
  BY <1>1, LiveInvariant, PTL

\* A service that needs a key is played only with it and on an accepted tune.
THEOREM Plays_Only_Keyed == LiveSpec => []PlaysOnlyKeyed
<1>1. LiveInv => PlaysOnlyKeyed
  BY Zenon DEF LiveInv, KeyedInv, PlaysOnlyKeyed, Plays
<1> QED
  BY <1>1, LiveInvariant, PTL

\* No playback runs that the session neither knows nor will hear of.
THEOREM Playback_Owned == LiveSpec => []PlaybackOwned
<1>1. LiveInv => PlaybackOwned
  <2> SUFFICES ASSUME LiveInv, pipe.run, ses.pc = "idle", ses.released = "no"
               PROVE  gate.gen = pipe.gen
                      \/ \E i \in DOMAIN queue : queue[i].t = "restart" /\ queue[i].r.gen = pipe.gen
    BY Zenon DEF PlaybackOwned
  <2>1. Plays(pipe) /\ Target(pipe) = pipe.gen
    BY Zenon DEF Plays, Target
  <2>2. IsSeq(queue) /\ Linked(queue, gate.gen, pipe.gen)
    BY Zenon, <2>1 DEF LiveInv, OwnedInv, Owned
  <2>3. DOMAIN queue = 1..Len(queue)
    BY <2>2 DEF IsSeq
  <2>4. gate.gen = pipe.gen \/ \E i : Restarts(queue, i) /\ queue[i].r.gen = pipe.gen
    BY Zenon, <2>2 DEF Linked
  <2> QED
    BY Zenon, <2>3, <2>4 DEF Restarts
<1> QED
  BY <1>1, LiveInvariant, PTL

=============================================================================
