------------------------- MODULE FilterGraphProofs -------------------------
(***************************************************************************)
(* The safety invariants of the filter graph of a demux (FilterGraph), for *)
(* every set of filters and every bound on generations.                    *)
(***************************************************************************)
EXTENDS FilterGraph, TLAPS, WellFoundedInduction

\* A set of naturals has a least element.
LEMMA LeastIsIn ==
    ASSUME NEW S \in SUBSET Nat, S # {}
    PROVE  (CHOOSE x \in S : \A y \in S : x <= y) \in S
<1> DEFINE R == OpToRel(<, Nat)
<1>1. IsWellFoundedOn(R, Nat) BY ZenonT(30), NatLessThanWellFounded
<1>2. \A m, n \in Nat : <<m, n>> \in R <=> m < n BY DEF OpToRel
<1> HIDE DEF R
<1>3. PICK x \in S : \A y \in S : <<y, x>> \notin R BY ZenonT(30), <1>1, WFMin
<1>4. \A y \in S : ~(y < x) BY ZenonT(30), <1>2, <1>3
<1>5. \A y \in S : x <= y BY <1>4
<1> QED BY ZenonT(30), <1>3, <1>5
---------------------------------------------------------------------------
(* The source graph.                                                       *)

Relations == {DemuxInput} \cup [filter : Filters, gen : Nat]

Marks == [stream : Nat, gen : Nat, source : Relations]

Runtimes ==
    [state : Live \cup {"Absent", "Failed"}, gen : Nat, pid : Pids \cup {NoPid},
     source : Relations, gate : {"Open", "Closed"}, fmq : SUBSET Marks,
     held : Seq(Marks), partial : SUBSET [filter : Filters \cup {NoFilter}, gen : Nat]]

\* What a runtime r holds, when st is the generation of the stream.
Mark(r, st) == [stream |-> st, gen |-> r.gen, source |-> r.source]

Cause(r, st) == IF r.source = DemuxInput THEN [filter |-> NoFilter, gen |-> st] ELSE r.source

Current(r, st) ==
    r.state \in Live =>
        /\ r.fmq \subseteq {Mark(r, st)}
        /\ \A i \in DOMAIN r.held : r.held[i] = Mark(r, st)
        /\ r.partial \subseteq {Cause(r, st)}

Acyclic(F) ==
    \A S \in SUBSET Present(F) : S # {} => \E f \in S : F[f].source.filter \notin S

\* The working sinks.
Fed(F) == {g \in Filters : F[g].state \in Live /\ F[g].source # DemuxInput}

\* A working sink has a source of the right kind.
Sourced(F) ==
    \A g \in Fed(F) : /\ F[F[g].source.filter].state # "Absent"
                      /\ Kind[F[g].source.filter] = "Raw"
                      /\ PidAgrees(F[g].pid, F[F[g].source.filter].pid)

\* And names its generation, unless the source is x.
Tracked(F, x) ==
    \A g \in Fed(F) : F[g].source.filter # x =>
        F[g].source = SourceOf(F, F[g].source.filter)

GraphSound(F, st) ==
    /\ F \in [Filters -> Runtimes]
    /\ Acyclic(F)
    /\ Sourced(F)
    /\ \A f \in Filters : Current(F[f], st)

GraphInv ==
    /\ stream \in Nat
    /\ GraphSound(filter, stream)
    /\ Tracked(filter, NoFilter)

\* The relation r of a sink in G is the one it had in F, or none.
Follows(F, G) ==
    \A g \in Filters :
        /\ G[g].gen = F[g].gen /\ G[g].pid = F[g].pid
        /\ G[g].state = "Absent" <=> F[g].state = "Absent"
        /\ G[g].state \in Live => F[g].state \in Live
        /\ G[g].source.filter = F[g].source.filter \/ G[g].source = DemuxInput

-----------------------------------------------------------------------------
\* A relation names the input of the demux, or a filter.
LEMMA RelationKinds ==
    ASSUME NEW s \in Relations
    PROVE  /\ s = DemuxInput <=> s.filter = NoFilter
           /\ s # DemuxInput => s.filter \in Filters
           /\ DemuxInput.filter = NoFilter /\ NoFilter \notin Filters
BY GraphAssumption DEF Relations, DemuxInput, NoFilter

\* Filters that keep their relation or lose it stay without a cycle.
LEMMA FollowsSound ==
    ASSUME NEW F, NEW G, NEW st, GraphSound(F, st), G \in [Filters -> Runtimes],
           Follows(F, G), \A f \in Filters : Current(G[f], st)
    PROVE  GraphSound(G, st) /\ Fed(G) \subseteq Fed(F)
           /\ \A g \in Fed(G) : G[g].source.filter = F[g].source.filter
<1>1. F \in [Filters -> Runtimes] /\ Acyclic(F) /\ Sourced(F) BY DEF GraphSound
<1>2. \A g \in Filters : F[g].source \in Relations /\ G[g].source \in Relations
  BY <1>1 DEF Runtimes
<1>3. Present(G) = Present(F) BY DEF Follows, Present
<1>4. Acyclic(G)
  <2> SUFFICES ASSUME NEW S \in SUBSET Present(G), S # {}
               PROVE  \E f \in S : G[f].source.filter \notin S
    BY DEF Acyclic
  <2>1. PICK f \in S : F[f].source.filter \notin S BY <1>1, <1>3 DEF Acyclic
  <2>2. f \in Filters /\ S \subseteq Filters BY DEF Present
  <2>3. G[f].source.filter = F[f].source.filter \/ G[f].source.filter = NoFilter
    BY <1>2, <2>2, RelationKinds DEF Follows
  <2> QED BY <2>1, <2>2, <2>3, GraphAssumption DEF NoFilter
<1>5. Fed(G) \subseteq Fed(F) /\ \A g \in Fed(G) : G[g].source.filter = F[g].source.filter
  <2> SUFFICES ASSUME NEW g \in Fed(G) PROVE g \in Fed(F) /\ G[g].source.filter = F[g].source.filter
    OBVIOUS
  <2>1. g \in Filters /\ G[g].state \in Live /\ G[g].source # DemuxInput BY DEF Fed
  <2>2. F[g].state \in Live BY <2>1 DEF Follows
  <2>3. G[g].source.filter = F[g].source.filter BY <2>1 DEF Follows
  <2>4. F[g].source # DemuxInput BY <1>2, <2>1, <2>3, RelationKinds
  <2> QED BY <2>1, <2>2, <2>3, <2>4 DEF Fed
<1>6. Sourced(G)
  <2> SUFFICES ASSUME NEW g \in Fed(G)
               PROVE  /\ G[G[g].source.filter].state # "Absent"
                      /\ Kind[G[g].source.filter] = "Raw"
                      /\ PidAgrees(G[g].pid, G[G[g].source.filter].pid)
    BY DEF Sourced
  <2>1. PICK s : s = F[g].source.filter OBVIOUS
  <2>2. F[s].state # "Absent" /\ Kind[s] = "Raw" /\ PidAgrees(F[g].pid, F[s].pid)
    BY <1>1, <1>5, <2>1 DEF Sourced
  <2>3. g \in Filters /\ s \in Filters BY <1>2, <1>5, <2>1, RelationKinds DEF Fed
  <2>4. G[g].pid = F[g].pid /\ G[s].pid = F[s].pid /\ G[s].state # "Absent"
    BY <2>2, <2>3 DEF Follows
  <2> QED BY <1>5, <2>1, <2>2, <2>4
<1> QED BY <1>4, <1>5, <1>6 DEF GraphSound

-----------------------------------------------------------------------------
(* One runtime. *)

\* A runtime that is emptied holds nothing, and stands where it stood.
LEMMA EmptiedRuntime ==
    ASSUME NEW r \in Runtimes, NEW st
    PROVE  /\ Emptied(r) \in Runtimes /\ Current(Emptied(r), st)
           /\ Emptied(r).state = r.state /\ Emptied(r).gen = r.gen /\ Emptied(r).pid = r.pid
           /\ Emptied(r).source = r.source /\ Emptied(r).gate = r.gate
           /\ Emptied(r).fmq = {} /\ Emptied(r).held = <<>> /\ Emptied(r).partial = {}
<1>1. <<>> \in Seq(Marks) /\ DOMAIN <<>> = {} OBVIOUS
<1> QED BY ZenonT(30), <1>1 DEF Emptied, Runtimes, Current

\* A runtime with a new source holds nothing from the old one.
LEMMA ReboundRuntime ==
    ASSUME NEW r \in Runtimes, NEW s \in Relations, NEW st
    PROVE  /\ Rebound(r, s) \in Runtimes /\ Current(Rebound(r, s), st)
           /\ Rebound(r, s).state = r.state /\ Rebound(r, s).gen = r.gen
           /\ Rebound(r, s).pid = r.pid /\ Rebound(r, s).source = s
<1>1. PICK q \in Runtimes : q = Emptied(r) BY EmptiedRuntime
<1>2. /\ q.state = r.state /\ q.gen = r.gen /\ q.pid = r.pid
      /\ q.fmq = {} /\ q.held = <<>> /\ q.partial = {}
  BY <1>1, EmptiedRuntime
<1>3. PICK p : p = [q EXCEPT !.source = s] BY ZenonT(30)
<1>4. /\ p \in Runtimes /\ p.state = r.state /\ p.gen = r.gen /\ p.pid = r.pid /\ p.source = s
      /\ p.fmq = {} /\ p.held = <<>> /\ p.partial = {}
  BY ZenonT(30), <1>2, <1>3 DEF Runtimes
<1>5. DOMAIN <<>> = {} OBVIOUS
<1>6. Current(p, st) BY <1>4, <1>5 DEF Current
<1> QED BY <1>1, <1>3, <1>4, <1>6 DEF Rebound

\* A runtime that fails keeps its place in the graph and works no more.
LEMMA FailedRuntime ==
    ASSUME NEW r \in Runtimes, NEW st
    PROVE  /\ Fail(r) \in Runtimes /\ Current(Fail(r), st) /\ Fail(r).state = "Failed"
           /\ Fail(r).gen = r.gen /\ Fail(r).pid = r.pid /\ Fail(r).source = r.source
<1>1. <<>> \in Seq(Marks) OBVIOUS
<1> QED BY ZenonT(30), <1>1 DEF Fail, Runtimes, Current, Live

\* A runtime that drops half units.
LEMMA DroppedRuntime ==
    ASSUME NEW r \in Runtimes, NEW st, Current(r, st), NEW x \in SUBSET r.partial,
           NEW q, q = [r EXCEPT !.partial = x]
    PROVE  /\ q \in Runtimes /\ Current(q, st) /\ q.state = r.state /\ q.gen = r.gen
           /\ q.pid = r.pid /\ q.source = r.source /\ q.gate = r.gate
<1>1. /\ q \in Runtimes /\ q.state = r.state /\ q.gen = r.gen /\ q.pid = r.pid
      /\ q.source = r.source /\ q.gate = r.gate /\ q.fmq = r.fmq /\ q.held = r.held /\ q.partial = x
  BY DEF Runtimes
<1>2. Mark(q, st) = Mark(r, st) /\ Cause(q, st) = Cause(r, st) BY <1>1 DEF Mark, Cause
<1>3. Current(q, st) BY <1>1, <1>2 DEF Current
<1> QED BY <1>1, <1>3

\* Runtimes that keep their relation and generation are tracked as before.
LEMMA FollowsTracked ==
    ASSUME NEW F, NEW G, NEW x, Tracked(F, x), Follows(F, G), Fed(G) \subseteq Fed(F),
           F \in [Filters -> Runtimes],
           \A g \in Fed(G) : G[g].source = F[g].source
                                \/ G[g].source = SourceOf(F, G[g].source.filter)
    PROVE  Tracked(G, x)
<1> SUFFICES ASSUME NEW g \in Fed(G), G[g].source.filter # x
             PROVE  G[g].source = SourceOf(G, G[g].source.filter)
  BY DEF Tracked
<1>1. G[g].source = SourceOf(F, G[g].source.filter) BY DEF Tracked
<1>2. F[g].source \in Relations /\ g \in Filters /\ F[g].source # DemuxInput BY DEF Fed, Runtimes
<1>3. F[g].source.filter \in Filters BY <1>2, RelationKinds
<1>4. G[g].source.filter = F[g].source.filter
  BY <1>2 DEF Follows, Fed
<1>5. G[G[g].source.filter].gen = F[G[g].source.filter].gen BY <1>3, <1>4 DEF Follows
<1> QED BY <1>1, <1>5 DEF SourceOf

\* Dropping half units leaves the graph alone.
LEMMA ResetOriginSound ==
    ASSUME NEW F, NEW st, GraphSound(F, st), NEW f, NEW gen, NEW x, Tracked(F, x),
           NEW G, G = ResetOrigin(F, f, gen)
    PROVE  /\ GraphSound(G, st) /\ Tracked(G, x)
           /\ \A g \in Filters : /\ G[g].state = F[g].state /\ G[g].gen = F[g].gen
                                 /\ G[g].pid = F[g].pid /\ G[g].source = F[g].source
                                 /\ G[g].gate = F[g].gate
<1>1. PICK o : o = [filter |-> f, gen |-> gen] BY ZenonT(30)
<1>2. G = [g \in Filters |-> [F[g] EXCEPT !.partial = F[g].partial \ {o}]]
  BY <1>1 DEF ResetOrigin
<1>3. ASSUME NEW g \in Filters
      PROVE  /\ G[g] \in Runtimes /\ Current(G[g], st) /\ G[g].state = F[g].state
             /\ G[g].gen = F[g].gen /\ G[g].pid = F[g].pid /\ G[g].source = F[g].source
             /\ G[g].gate = F[g].gate
  <2>1. F[g] \in Runtimes /\ Current(F[g], st) BY DEF GraphSound
  <2>2. G[g] = [F[g] EXCEPT !.partial = F[g].partial \ {o}] BY <1>2
  <2>3. F[g].partial \ {o} \in SUBSET F[g].partial OBVIOUS
  <2> QED BY <2>1, <2>2, <2>3, DroppedRuntime
<1>4. G \in [Filters -> Runtimes] /\ Follows(F, G) BY <1>2, <1>3 DEF Follows
<1>5. GraphSound(G, st) /\ Fed(G) \subseteq Fed(F) BY <1>3, <1>4, FollowsSound
<1>6. F \in [Filters -> Runtimes] BY DEF GraphSound
<1>7. \A g \in Fed(G) : G[g].source = F[g].source BY <1>3 DEF Fed
<1>8. Tracked(G, x) BY <1>4, <1>5, <1>6, <1>7, FollowsTracked
<1> QED BY <1>3, <1>5, <1>8

\* quarantine_filter_runtime leaves every working sink of what it isolates
\* at the generation of its source; only the sinks of x may lag, and not
\* when x is the filter that fails.
LEMMA QuarantineFilterSound ==
    ASSUME NEW F, NEW st, GraphSound(F, st), NEW f \in Filters, F[f].state # "Absent", NEW bad,
           NEW x, Tracked(F, x), NEW y, y = x \/ (y = NoFilter /\ x = f),
           NEW G, G = QuarantineFilter(F, f, bad)
    PROVE  GraphSound(G, st) /\ Tracked(G, y) /\ Follows(F, G)
<1>1. PICK cut : cut = Isolated(F, f, bad) OBVIOUS
<1>2. PICK below : below = {g \in Present(F) : F[g].source.filter \in cut} BY ZenonT(30)
<1>3. f \in cut /\ cut \subseteq Present(F) BY <1>1 DEF Isolated, Present
<1>4. F \in [Filters -> Runtimes] /\ \A g \in Filters : Current(F[g], st) BY DEF GraphSound
<1>5. ASSUME NEW g \in Filters, g \in cut
      PROVE  /\ G[g] \in Runtimes /\ Current(G[g], st) /\ G[g].state = "Failed"
             /\ G[g].gen = F[g].gen /\ G[g].pid = F[g].pid /\ G[g].source = F[g].source
  <2>1. PICK q : q = IF g \in below
                     THEN [F[g] EXCEPT !.partial = F[g].partial \ {SourceOf(F, F[g].source.filter)}]
                     ELSE F[g]
    BY ZenonT(30)
  <2>2. G[g] = Fail(q) BY <1>1, <1>2, <1>5, <2>1 DEF QuarantineFilter
  <2>3. PICK X : X = F[g].partial \ {SourceOf(F, F[g].source.filter)} BY ZenonT(30)
  <2>4. X \in SUBSET F[g].partial BY <2>3
  <2>5. q \in Runtimes /\ q.gen = F[g].gen /\ q.pid = F[g].pid /\ q.source = F[g].source
    <3>1. CASE g \in below
      <4>1. q = [F[g] EXCEPT !.partial = X] BY <2>1, <2>3, <3>1
      <4> QED BY <1>4, <2>4, <4>1, DroppedRuntime
    <3> QED BY <1>4, <2>1, <3>1
  <2> QED BY <2>2, <2>5, FailedRuntime
<1>6. ASSUME NEW g \in Filters, g \notin cut, g \in below
      PROVE  /\ G[g] \in Runtimes /\ Current(G[g], st) /\ G[g].state = F[g].state
             /\ G[g].gen = F[g].gen /\ G[g].pid = F[g].pid
             /\ G[g].source = SourceOf(F, F[g].source.filter)
  <2>1. PICK s : s = F[g].source.filter OBVIOUS
  <2>2. s \in Filters BY <1>2, <1>3, <1>6, <2>1 DEF Present
  <2>3. SourceOf(F, s) \in Relations BY <1>4, <2>2 DEF SourceOf, Relations, Runtimes
  <2>4. G[g] = Rebound(F[g], SourceOf(F, s)) BY <1>1, <1>2, <1>6, <2>1 DEF QuarantineFilter
  <2> QED BY <1>4, <2>1, <2>3, <2>4, ReboundRuntime
<1>7. ASSUME NEW g \in Filters, g \notin cut, g \notin below PROVE G[g] = F[g]
  BY <1>1, <1>2, <1>7 DEF QuarantineFilter
<1>8. \A g \in Filters : G[g] \in Runtimes /\ Current(G[g], st) BY <1>4, <1>5, <1>6, <1>7
<1>9. G \in [Filters -> Runtimes] BY <1>8 DEF QuarantineFilter
<1>10. Follows(F, G)
  <2> SUFFICES ASSUME NEW g \in Filters
               PROVE  /\ G[g].gen = F[g].gen /\ G[g].pid = F[g].pid
                      /\ G[g].state = "Absent" <=> F[g].state = "Absent"
                      /\ G[g].state \in Live => F[g].state \in Live
                      /\ G[g].source.filter = F[g].source.filter \/ G[g].source = DemuxInput
    BY DEF Follows
  <2>1. CASE g \in cut BY <1>3, <1>5, <2>1 DEF Present, Live
  <2>2. CASE g \notin cut /\ g \in below
    <3>1. PICK s : s = F[g].source.filter OBVIOUS
    <3>2. /\ G[g].state = F[g].state /\ G[g].gen = F[g].gen /\ G[g].pid = F[g].pid
          /\ G[g].source = SourceOf(F, s)
      BY <1>6, <2>2, <3>1
    <3>3. SourceOf(F, s).filter = s BY DEF SourceOf
    <3> QED BY <3>1, <3>2, <3>3
  <2>3. CASE g \notin cut /\ g \notin below BY <1>7, <2>3
  <2> QED BY <2>1, <2>2, <2>3
<1>11. /\ GraphSound(G, st) /\ Fed(G) \subseteq Fed(F)
       /\ \A g \in Fed(G) : G[g].source.filter = F[g].source.filter
  BY <1>8, <1>9, <1>10, FollowsSound
<1>12. ASSUME NEW g \in Fed(G), G[g].source.filter # y
       PROVE  G[g].source = SourceOf(G, G[g].source.filter)
  <2>1. g \in Filters /\ g \notin cut /\ g \in Fed(F) BY <1>5, <1>11 DEF Fed, Live
  <2>2. PICK s : s = F[g].source.filter OBVIOUS
  <2>3. G[g].source.filter = s /\ s # y BY <1>11, <1>12, <2>2
  <2>4. s \in Filters
    <3>1. F[g].source \in Relations /\ F[g].source # DemuxInput BY <1>4, <2>1 DEF Runtimes, Fed
    <3> QED BY <2>2, <3>1, RelationKinds
  <2>5. SourceOf(G, s) = SourceOf(F, s) BY <1>10, <2>4 DEF Follows, SourceOf
  <2>6. CASE g \in below BY <1>6, <2>1, <2>2, <2>3, <2>5, <2>6
  <2>7. CASE g \notin below
    <3>1. g \in Present(F) BY <2>1 DEF Present, Fed, Live
    <3>2. s \notin cut BY <1>2, <2>2, <2>7, <3>1
    <3>3. s # f BY <1>3, <3>2
    <3>4. s # x
      <4>1. CASE y = x BY <2>3, <4>1
      <4>2. CASE x = f BY <3>3, <4>2
      <4> QED BY <4>1, <4>2
    <3>5. F[g].source = SourceOf(F, s) BY <2>1, <2>2, <3>4 DEF Tracked
    <3> QED BY <1>7, <2>1, <2>3, <2>5, <2>7, <3>5
  <2> QED BY <2>6, <2>7
<1>13. Tracked(G, y) BY <1>12 DEF Tracked
<1> QED BY <1>10, <1>11, <1>13

\* quarantine: nothing works any more.
LEMMA QuarantineAllSound ==
    ASSUME NEW F, NEW st, F \in [Filters -> Runtimes], Acyclic(F), Sourced(F),
           NEW G, G = QuarantineAll(F)
    PROVE  GraphSound(G, st) /\ Tracked(G, NoFilter)
<1>1. ASSUME NEW g \in Filters
      PROVE  /\ G[g] \in Runtimes /\ G[g].state \notin Live /\ G[g].source = F[g].source
             /\ G[g].state = "Absent" <=> F[g].state = "Absent"
  <2>1. CASE g \in Present(F)
    <3>1. G[g] = Fail(F[g]) BY <2>1 DEF QuarantineAll
    <3> QED BY <2>1, <3>1, FailedRuntime DEF Present, Live
  <2>2. CASE g \notin Present(F) BY <2>2 DEF QuarantineAll, Present, Live
  <2> QED BY <2>1, <2>2
<1>2. G \in [Filters -> Runtimes] BY <1>1 DEF QuarantineAll
<1>3. Present(G) = Present(F) BY <1>1 DEF Present
<1>4. Acyclic(G)
  <2> SUFFICES ASSUME NEW S \in SUBSET Present(G), S # {}
               PROVE  \E f \in S : G[f].source.filter \notin S
    BY DEF Acyclic
  <2>1. PICK f \in S : F[f].source.filter \notin S BY <1>3 DEF Acyclic
  <2> QED BY <1>1, <2>1 DEF Present
<1>5. Fed(G) = {} BY <1>1 DEF Fed
<1>6. \A g \in Filters : Current(G[g], st) BY <1>1 DEF Current
<1> QED BY <1>2, <1>4, <1>5, <1>6 DEF GraphSound, Sourced, Tracked

\* Every working sink is tracked: so is every one but those of x.
LEMMA TrackedAll ==
    ASSUME NEW F, F \in [Filters -> Runtimes], Tracked(F, NoFilter), NEW x
    PROVE  Tracked(F, x)
<1>1. \A g \in Fed(F) : F[g].source \in Relations /\ F[g].source # DemuxInput BY DEF Fed, Runtimes
<1>2. \A g \in Fed(F) : F[g].source.filter # NoFilter BY <1>1, RelationKinds
<1> QED BY <1>2 DEF Tracked

\* refresh_ and disconnect_source_filter_downstreams: the sinks of f follow it, all
\* of them when none refuses.
LEMMA ReboundSinksSound ==
    ASSUME NEW F, NEW st, GraphSound(F, st), NEW f \in Filters, F[f].state # "Absent", NEW bad,
           Tracked(F, f), NEW source, source = SourceOf(F, f) \/ source = DemuxInput,
           NEW G, G = ReboundSinks(F, f, source, bad)
    PROVE  /\ GraphSound(G, st) /\ Follows(F, G) /\ Tracked(G, f)
           /\ Refusers(F, f, bad) = {} =>
                /\ Tracked(G, NoFilter)
                /\ source = DemuxInput => \A g \in Fed(G) : G[g].source.filter # f
<1>1. PICK stop : stop = Refusers(F, f, bad) OBVIOUS
<1>2. PICK done : done = {g \in Sinks(F, f) : \A h \in stop : g < h} BY ZenonT(30)
<1>3. PICK H : H = [g \in Filters |-> IF g \in done THEN Rebound(F[g], source) ELSE F[g]] BY ZenonT(30)
<1>a. PICK first : first = CHOOSE g \in stop : \A h \in stop : g <= h OBVIOUS
<1>4. G = IF stop = {} THEN H ELSE QuarantineFilter(H, first, bad)
  BY <1>1, <1>2, <1>3, <1>a DEF ReboundSinks
<1>5. F \in [Filters -> Runtimes] /\ \A g \in Filters : Current(F[g], st) BY DEF GraphSound
<1>6. source \in Relations /\ (source = DemuxInput \/ source.filter = f)
  BY <1>5 DEF SourceOf, Relations, Runtimes
<1>7. done \subseteq Filters /\ \A g \in done : F[g].source.filter = f
  BY <1>2 DEF Sinks, Present
<1>8. ASSUME NEW g \in Filters, g \in done
      PROVE  /\ H[g] \in Runtimes /\ Current(H[g], st) /\ H[g].state = F[g].state
             /\ H[g].gen = F[g].gen /\ H[g].pid = F[g].pid /\ H[g].source = source
  <2>1. H[g] = Rebound(F[g], source) BY <1>3, <1>8
  <2> QED BY <1>5, <1>6, <2>1, ReboundRuntime
<1>9. \A g \in Filters : g \notin done => H[g] = F[g] BY <1>3
<1>10. H \in [Filters -> Runtimes] /\ \A g \in Filters : Current(H[g], st)
  BY <1>3, <1>5, <1>8, <1>9
<1>11. Follows(F, H)
  <2> SUFFICES ASSUME NEW g \in Filters
               PROVE  /\ H[g].gen = F[g].gen /\ H[g].pid = F[g].pid
                      /\ H[g].state = F[g].state
                      /\ H[g].source.filter = F[g].source.filter \/ H[g].source = DemuxInput
    BY DEF Follows
  <2>1. CASE g \in done BY <1>6, <1>7, <1>8, <2>1
  <2>2. CASE g \notin done BY <1>9, <2>2
  <2> QED BY <2>1, <2>2
<1>12. /\ GraphSound(H, st) /\ Fed(H) \subseteq Fed(F)
       /\ \A g \in Fed(H) : H[g].source.filter = F[g].source.filter
  BY <1>10, <1>11, FollowsSound
<1>13. \A g \in Fed(H) : H[g].source = F[g].source \/ H[g].source = SourceOf(F, H[g].source.filter)
  <2> SUFFICES ASSUME NEW g \in Fed(H), g \in done PROVE H[g].source = SourceOf(F, H[g].source.filter)
    BY <1>9 DEF Fed
  <2>1. g \in Filters /\ H[g].source # DemuxInput BY DEF Fed
  <2>2. H[g].source = SourceOf(F, f) BY <1>8, <2>1
  <2>3. SourceOf(F, f).filter = f BY DEF SourceOf
  <2> QED BY <2>2, <2>3
<1>14. Tracked(H, f) BY <1>5, <1>11, <1>12, <1>13, FollowsTracked
<1>15. CASE stop = {}
  <2>1. G = H /\ done = Sinks(F, f) BY <1>2, <1>4, <1>15
  <2>2. ASSUME NEW g \in Fed(H), g \notin done PROVE H[g].source.filter # f
    <3>1. g \in Present(F) /\ g \in Filters BY <1>12 DEF Fed, Present, Live
    <3> QED BY <1>9, <2>1, <2>2, <3>1 DEF Sinks
  <2>3. ASSUME NEW g \in Fed(H), g \in done
        PROVE  source # DemuxInput /\ H[g].source = SourceOf(H, H[g].source.filter)
    <3>1. g \in Filters /\ H[g].source # DemuxInput BY DEF Fed
    <3>2. H[g].source = source /\ source = SourceOf(F, f) /\ source # DemuxInput
      BY <1>8, <2>3, <3>1
    <3>3. SourceOf(F, f).filter = f /\ SourceOf(H, f) = SourceOf(F, f) BY <1>11 DEF SourceOf, Follows
    <3> QED BY <3>2, <3>3
  <2>4. Tracked(H, NoFilter)
    <3> SUFFICES ASSUME NEW g \in Fed(H) PROVE H[g].source = SourceOf(H, H[g].source.filter)
      BY DEF Tracked
    <3> QED BY <1>14, <2>2, <2>3 DEF Tracked
  <2>5. source = DemuxInput => \A g \in Fed(H) : H[g].source.filter # f BY <2>2, <2>3
  <2> QED BY <1>11, <1>12, <1>14, <2>1, <2>4, <2>5
<1>16. CASE stop # {}
  <2>1. PICK m : m = first OBVIOUS
  <2>2. stop \subseteq Filters /\ stop \in SUBSET Nat
    BY ZenonT(30), <1>1, GraphAssumption DEF Refusers, Sinks, Present
  <2>3. m \in stop BY <1>a, <1>16, <2>1, <2>2, LeastIsIn
  <2>4. m \in Filters /\ F[m].state # "Absent" BY <1>1, <2>3 DEF Refusers, Sinks, Present
  <2>5. H[m].state # "Absent" BY <1>11, <2>4 DEF Follows
  <2>6. G = QuarantineFilter(H, m, bad) BY <1>4, <1>16, <2>1
  <2>7. GraphSound(G, st) /\ Tracked(G, f) /\ Follows(H, G)
    BY <1>12, <1>14, <2>4, <2>5, <2>6, QuarantineFilterSound
  <2>8. Follows(F, G)
    <3> SUFFICES ASSUME NEW g \in Filters
                 PROVE  /\ G[g].gen = F[g].gen /\ G[g].pid = F[g].pid
                        /\ G[g].state = "Absent" <=> F[g].state = "Absent"
                        /\ G[g].state \in Live => F[g].state \in Live
                        /\ G[g].source.filter = F[g].source.filter \/ G[g].source = DemuxInput
      BY DEF Follows
    <3>1. G[g].source \in Relations /\ H[g].source \in Relations
      BY <1>10, <2>7 DEF GraphSound, Runtimes
    <3>2. G[g].source.filter = F[g].source.filter \/ G[g].source = DemuxInput
      BY <1>11, <2>7, <3>1, RelationKinds DEF Follows
    <3> QED BY <1>11, <2>7, <3>2 DEF Follows
  <2> QED BY <1>1, <1>16, <2>7, <2>8
<1> QED BY <1>15, <1>16

\* A filter that is renewed: its own sinks lag behind, nothing else.
LEMMA RenewedSound ==
    ASSUME NEW F, NEW st, GraphSound(F, st), Tracked(F, NoFilter), NEW f \in Filters,
           F[f].state \in Live, NEW r \in Runtimes, r.state \in Live, r.source = F[f].source,
           Current(r, st),
           f \in Fed(F) => PidAgrees(r.pid, F[F[f].source.filter].pid),
           \A g \in Fed(F) : F[g].source.filter = f => PidAgrees(F[g].pid, r.pid),
           NEW G, G = [F EXCEPT ![f] = r]
    PROVE  GraphSound(G, st) /\ Tracked(G, f)
<1>1. F \in [Filters -> Runtimes] /\ Acyclic(F) /\ Sourced(F) /\ \A g \in Filters : Current(F[g], st)
  BY DEF GraphSound
<1>2. /\ G \in [Filters -> Runtimes] /\ G[f] = r /\ \A g \in Filters \ {f} : G[g] = F[g]
      /\ \A g \in Filters : G[g].source = F[g].source
  BY <1>1
<1>3. Present(G) = Present(F) /\ Fed(G) = Fed(F) BY <1>2 DEF Present, Fed, Live
<1>4. Acyclic(G)
  <2> SUFFICES ASSUME NEW S \in SUBSET Present(G), S # {}
               PROVE  \E g \in S : G[g].source.filter \notin S
    BY ZenonT(30) DEF Acyclic
  <2>1. PICK g \in S : F[g].source.filter \notin S BY <1>1, <1>3 DEF Acyclic
  <2> QED BY <1>2, <2>1 DEF Present
<1>5. f \in Fed(F) => F[f].source.filter # f
  <2>1. {f} \in SUBSET Present(F) BY DEF Present, Live
  <2> QED BY ZenonT(30), <1>1, <2>1 DEF Acyclic
<1>6. \A g \in Fed(F) : g \in Filters /\ F[g].source.filter \in Filters
  <2>1. \A g \in Fed(F) : g \in Filters /\ F[g].source \in Relations /\ F[g].source # DemuxInput
    BY <1>1 DEF Fed, Runtimes
  <2> QED BY <2>1, RelationKinds
<1>7. Sourced(G)
  <2> SUFFICES ASSUME NEW g \in Fed(G)
               PROVE  /\ G[G[g].source.filter].state # "Absent"
                      /\ Kind[G[g].source.filter] = "Raw"
                      /\ PidAgrees(G[g].pid, G[G[g].source.filter].pid)
    BY DEF Sourced
  <2>1. PICK s \in Filters : s = F[g].source.filter BY <1>3, <1>6
  <2>2. G[g].source.filter = s /\ g \in Filters /\ g \in Fed(F) BY <1>2, <1>3, <1>6, <2>1
  <2>3. F[s].state # "Absent" /\ Kind[s] = "Raw" /\ PidAgrees(F[g].pid, F[s].pid)
    BY <1>1, <2>1, <2>2 DEF Sourced
  <2>4. CASE g = f
    <3>1. s # f /\ G[s] = F[s] /\ G[g] = r BY <1>2, <1>5, <2>1, <2>2, <2>4
    <3> QED BY <2>1, <2>2, <2>3, <2>4, <3>1
  <2>5. CASE g # f /\ s = f
    <3>1. G[g] = F[g] /\ G[s] = r BY <1>2, <2>2, <2>5
    <3>2. PidAgrees(F[g].pid, r.pid) BY <2>1, <2>2, <2>5
    <3> QED BY <2>2, <2>3, <3>1, <3>2 DEF Live
  <2>6. CASE g # f /\ s # f BY <1>2, <2>2, <2>3, <2>6
  <2> QED BY ZenonT(30), <2>4, <2>5, <2>6
<1>8. Tracked(G, f)
  <2> SUFFICES ASSUME NEW g \in Fed(G), G[g].source.filter # f
               PROVE  G[g].source = SourceOf(G, G[g].source.filter)
    BY ZenonT(30) DEF Tracked
  <2>1. PICK s \in Filters : s = F[g].source.filter BY <1>3, <1>6
  <2>2. G[g].source.filter = s /\ g \in Fed(F) /\ s # f /\ G[g].source = F[g].source
    BY <1>2, <1>3, <1>6, <2>1
  <2>3. Tracked(F, f) BY <1>1, TrackedAll
  <2>4. F[g].source = SourceOf(F, s) BY <2>1, <2>2, <2>3 DEF Tracked
  <2>5. SourceOf(G, s) = SourceOf(F, s) BY <1>2, <2>2 DEF SourceOf
  <2> QED BY <2>2, <2>4, <2>5
<1>9. \A g \in Filters : Current(G[g], st) BY <1>1, <1>2
<1> QED BY <1>2, <1>4, <1>7, <1>8, <1>9 DEF GraphSound

\* One filter changes what it holds, not where it stands in the graph.
LEMMA QuietFilter ==
    ASSUME NEW F, NEW st, GraphSound(F, st), Tracked(F, NoFilter), NEW f \in Filters,
           NEW r \in Runtimes, Current(r, st), r.gen = F[f].gen, r.pid = F[f].pid,
           r.source = F[f].source, r.state = "Absent" <=> F[f].state = "Absent",
           r.state \in Live => F[f].state \in Live,
           NEW G, G = [F EXCEPT ![f] = r]
    PROVE  GraphSound(G, st) /\ Tracked(G, NoFilter) /\ Follows(F, G)
<1>1. F \in [Filters -> Runtimes] /\ \A g \in Filters : Current(F[g], st) BY DEF GraphSound
<1>2. G \in [Filters -> Runtimes] /\ G[f] = r /\ \A g \in Filters \ {f} : G[g] = F[g] BY <1>1
<1>3. Follows(F, G) BY <1>2 DEF Follows
<1>4. \A g \in Filters : Current(G[g], st) /\ G[g].source = F[g].source BY <1>1, <1>2
<1>5. GraphSound(G, st) /\ Fed(G) \subseteq Fed(F) BY ZenonT(30), <1>2, <1>3, <1>4, FollowsSound
<1>6. \A g \in Fed(G) : G[g].source = F[g].source BY <1>4 DEF Fed
<1>7. Tracked(G, NoFilter) BY ZenonT(30), <1>1, <1>3, <1>5, <1>6, FollowsTracked
<1> QED BY <1>3, <1>5, <1>7

\* A filter that configure touches.
LEMMA ConfiguredRuntime ==
    ASSUME NEW r \in Runtimes, NEW p \in Pids, NEW st,
           NEW q, q = Reconfigured(r, p)
    PROVE  /\ q \in Runtimes /\ Current(q, st) /\ q.state = "Configured" /\ q.pid = p
           /\ q.gen = r.gen + 1 /\ q.source = r.source /\ q.gate = r.gate
<1>1. PICK e \in Runtimes : e = Emptied(r) BY EmptiedRuntime
<1>2. /\ e.gen = r.gen /\ e.source = r.source /\ e.gate = r.gate
      /\ e.fmq = {} /\ e.held = <<>> /\ e.partial = {}
  BY <1>1, EmptiedRuntime
<1>3. PICK n \in Nat : n = r.gen + 1 BY DEF Runtimes
<1>4. q = [e EXCEPT !.state = "Configured", !.pid = p, !.gen = n] BY <1>1, <1>3 DEF Reconfigured
<1>5. /\ q \in Runtimes /\ q.state = "Configured" /\ q.pid = p /\ q.gen = n
      /\ q.source = r.source /\ q.gate = r.gate /\ q.fmq = {} /\ q.held = <<>> /\ q.partial = {}
  BY ZenonT(30), <1>2, <1>4 DEF Runtimes, Live
<1>6. DOMAIN <<>> = {} OBVIOUS
<1>7. Current(q, st) BY <1>5, <1>6 DEF Current
<1> QED BY <1>2, <1>3, <1>5, <1>7

\* A reconfiguration: the filter is renewed, then its sinks follow, or it fails.
LEMMA ConfigureStep ==
    ASSUME GraphInv, NEW f \in Filters, NEW p \in Pids, NEW bad, ConfigureFilter(f, p, bad)
    PROVE  GraphInv'
<1>1. PICK F, st : F = filter /\ st = stream OBVIOUS
<1>2. /\ st \in Nat /\ GraphSound(F, st) /\ Tracked(F, NoFilter) /\ F \in [Filters -> Runtimes]
      /\ \A g \in Filters : Current(F[g], st)
  BY <1>1 DEF GraphInv, GraphSound
<1>3. PICK K : K = FullyConfigured(F, f, p, bad) OBVIOUS
<1>4. PICK L : L = IF ConfigureFails(F, f, bad) THEN QuarantineFilter(K, f, bad) ELSE K OBVIOUS
<1>5. filter' = L /\ stream' = st /\ ConfigureAdmitted(F, f, p)
  BY <1>1, <1>3, <1>4 DEF ConfigureFilter
<1>6. F[f].state \in Live BY <1>5 DEF ConfigureAdmitted, Live
<1>7. F[f].state # "Absent" BY <1>6 DEF Live
<1>8. SUFFICES GraphSound(L, st) /\ Tracked(L, NoFilter) BY <1>2, <1>5 DEF GraphInv
<1>9. Tracked(F, f) BY <1>2, TrackedAll
<1>10. CASE Refuses(F, f, bad)
  <2>1. K = QuarantineFilter(F, f, bad) /\ L = QuarantineFilter(K, f, bad)
    BY <1>3, <1>4, <1>10 DEF FullyConfigured, ConfigureFails
  <2>2. GraphSound(K, st) /\ Tracked(K, NoFilter) /\ Follows(F, K)
    BY <1>2, <1>7, <1>9, <2>1, QuarantineFilterSound
  <2>3. K[f].state # "Absent" BY <1>7, <2>2 DEF Follows
  <2> QED BY <2>1, <2>2, <2>3, QuarantineFilterSound
<1>11. CASE ~Refuses(F, f, bad)
  <2>1. PICK q : q = Reconfigured(F[f], p) OBVIOUS
  <2>2. PICK G : G = [F EXCEPT ![f] = q] BY ZenonT(30)
  <2>3. PICK gen : gen = F[f].gen OBVIOUS
  <2>4. PICK H : H = ResetOrigin(G, f, gen) OBVIOUS
  <2>5. PICK next : next = [filter |-> f, gen |-> gen + 1] BY ZenonT(30)
  <2>6. K = ReboundSinks(H, f, next, bad)
    BY <1>3, <1>11, <2>1, <2>2, <2>3, <2>4, <2>5 DEF FullyConfigured
  <2>7. /\ q \in Runtimes /\ Current(q, st) /\ q.state = "Configured" /\ q.pid = p
        /\ q.gen = gen + 1 /\ q.source = F[f].source /\ q.gate = F[f].gate
    BY <1>2, <2>1, <2>3, ConfiguredRuntime
  <2>8. f \in Fed(F) => PidAgrees(q.pid, F[F[f].source.filter].pid)
    BY <1>5, <2>7 DEF ConfigureAdmitted, Fed, PidAgrees
  <2>9. \A g \in Fed(F) : F[g].source.filter = f => PidAgrees(F[g].pid, q.pid)
    BY <1>5, <2>7 DEF ConfigureAdmitted, Fed, Sinks, Present, Live
  <2>10. q.state \in Live BY <2>7 DEF Live
  <2>11. GraphSound(G, st) /\ Tracked(G, f)
    BY ZenonT(30), <1>2, <1>6, <2>2, <2>7, <2>8, <2>9, <2>10, RenewedSound
  <2>12. /\ GraphSound(H, st) /\ Tracked(H, f)
         /\ \A g \in Filters : /\ H[g].state = G[g].state /\ H[g].gen = G[g].gen
                               /\ H[g].pid = G[g].pid /\ H[g].source = G[g].source
                               /\ H[g].gate = G[g].gate
    BY <2>4, <2>11, ResetOriginSound
  <2>13. G[f] = q /\ \A g \in Filters \ {f} : G[g] = F[g] BY <1>2, <2>2
  <2>14. H[f].state # "Absent" /\ next = SourceOf(H, f)
    BY ZenonT(30), <2>5, <2>7, <2>12, <2>13 DEF SourceOf
  <2>15. /\ GraphSound(K, st) /\ Follows(H, K) /\ Tracked(K, f)
         /\ Refusers(H, f, bad) = {} => Tracked(K, NoFilter)
    BY ZenonT(30), <2>6, <2>12, <2>14, ReboundSinksSound
  <2>16. CASE ConfigureFails(F, f, bad)
    <3>1. L = QuarantineFilter(K, f, bad) /\ K[f].state # "Absent"
      BY <1>4, <2>14, <2>15, <2>16 DEF Follows
    <3> QED BY <2>15, <3>1, QuarantineFilterSound
  <2>17. CASE ~ConfigureFails(F, f, bad)
    <3>1. L = K /\ Refusers(F, f, bad) = {} BY <1>4, <2>17 DEF ConfigureFails
    <3>2. \A g \in Filters : /\ H[g].gate = F[g].gate /\ H[g].source = F[g].source
                             /\ H[g].state # "Absent" => F[g].state # "Absent"
      BY <1>7, <2>7, <2>12, <2>13
    <3>3. Refusers(H, f, bad) = {}
      BY <3>1, <3>2 DEF Refusers, Sinks, Present, Refuses, CanDrain
    <3> QED BY <2>15, <3>1, <3>3
  <2> QED BY <2>16, <2>17
<1> QED BY <1>10, <1>11

\* A flush: the filter is emptied, renewed when it has sinks, and its sinks follow.
LEMMA FlushStep ==
    ASSUME GraphInv, NEW f \in Filters, NEW bad, FlushFilter(f, bad)
    PROVE  GraphInv'
<1>1. PICK F, st : F = filter /\ st = stream OBVIOUS
<1>2. /\ st \in Nat /\ GraphSound(F, st) /\ Tracked(F, NoFilter) /\ F \in [Filters -> Runtimes]
      /\ \A g \in Filters : Current(F[g], st)
  BY <1>1 DEF GraphInv, GraphSound
<1>3. PICK E : E = [F EXCEPT ![f] = Emptied(F[f])] BY ZenonT(30)
<1>4. PICK N : N = Renewed(E, f) OBVIOUS
<1>5. PICK G : G = ReboundSinks(N, f, SourceOf(N, f), bad) OBVIOUS
<1>6. PICK P : P = [F EXCEPT ![f].partial = {}] BY ZenonT(30)
<1>7. PICK L : L = filter' OBVIOUS
<1>8. /\ FlushAccepted(F, f) /\ stream' = st
      /\ \/ L = QuarantineFilter(F, f, bad)
         \/ L = QuarantineFilter(P, f, bad)
         \/ L = E
         \/ Refusers(N, f, bad) # {} /\ L = QuarantineFilter(G, f, bad)
         \/ Refusers(N, f, bad) = {} /\ L = G
  BY ZenonT(30), <1>1, <1>3, <1>4, <1>5, <1>6, <1>7 DEF FlushFilter
<1>9. F[f].state \in Live /\ F[f].state # "Absent" BY <1>8 DEF FlushAccepted, Live
<1>10. SUFFICES GraphSound(L, st) /\ Tracked(L, NoFilter) BY <1>2, <1>7, <1>8 DEF GraphInv
<1>11. CASE L = QuarantineFilter(F, f, bad) BY <1>2, <1>9, <1>11, QuarantineFilterSound
<1>12. CASE L = QuarantineFilter(P, f, bad)
  <2>1. PICK r : r = [F[f] EXCEPT !.partial = {}] BY ZenonT(30)
  <2>2. P = [F EXCEPT ![f] = r] BY <1>6, <2>1
  <2>3. {} \in SUBSET F[f].partial OBVIOUS
  <2>4. /\ r \in Runtimes /\ Current(r, st) /\ r.state = F[f].state /\ r.gen = F[f].gen
        /\ r.pid = F[f].pid /\ r.source = F[f].source
    BY <1>2, <2>1, <2>3, DroppedRuntime
  <2>5. GraphSound(P, st) /\ Tracked(P, NoFilter) /\ Follows(F, P)
    BY ZenonT(30), <1>2, <2>2, <2>4, QuietFilter
  <2>6. P[f].state # "Absent" BY <1>9, <2>5 DEF Follows
  <2> QED BY <1>12, <2>5, <2>6, QuarantineFilterSound
<1>13. GraphSound(E, st) /\ Tracked(E, NoFilter) /\ Follows(F, E) /\ E[f].state = F[f].state
  <2>1. PICK r : r = Emptied(F[f]) OBVIOUS
  <2>2. /\ r \in Runtimes /\ Current(r, st) /\ r.state = F[f].state /\ r.gen = F[f].gen
        /\ r.pid = F[f].pid /\ r.source = F[f].source
    BY <1>2, <2>1, EmptiedRuntime
  <2>3. E = [F EXCEPT ![f] = r] /\ E[f] = r BY <1>2, <1>3, <2>1
  <2> QED BY ZenonT(30), <1>2, <2>2, <2>3, QuietFilter
<1>14. GraphSound(N, st) /\ Tracked(N, f) /\ N[f].state = F[f].state
  <2>1. PICK H : H = ResetOrigin(E, f, E[f].gen) OBVIOUS
  <2>2. /\ GraphSound(H, st) /\ Tracked(H, NoFilter)
        /\ H[f].state = E[f].state
    BY <1>13, <2>1, ResetOriginSound
  <2>3. H \in [Filters -> Runtimes] /\ Sourced(H) /\ Current(H[f], st) BY <2>2 DEF GraphSound
  <2>4. H[f] \in Runtimes /\ H[f].gen + 1 \in Nat BY <2>3 DEF Runtimes
  <2>5. PICK r : r = [H[f] EXCEPT !.gen = H[f].gen + 1] BY ZenonT(30)
  <2>6. N = [H EXCEPT ![f] = r] BY <1>4, <2>1, <2>3, <2>5 DEF Renewed
  <2>7. /\ r \in Runtimes /\ r.state = H[f].state /\ r.pid = H[f].pid /\ r.source = H[f].source
        /\ r.fmq = H[f].fmq /\ r.held = H[f].held /\ r.partial = H[f].partial
    BY <2>4, <2>5 DEF Runtimes
  <2>8. H[f].fmq = {} /\ H[f].held = <<>> /\ H[f].partial = {}
    <3>1. E[f] = Emptied(F[f]) BY <1>2, <1>3
    <3>2. E[f] \in Runtimes /\ E[f].fmq = {} /\ E[f].held = <<>> /\ E[f].partial = {}
      BY <1>2, <3>1, EmptiedRuntime
    <3>3. PICK o : o = [filter |-> f, gen |-> E[f].gen] BY ZenonT(30)
    <3>4. H[f] = [E[f] EXCEPT !.partial = E[f].partial \ {o}] BY <2>1, <3>3 DEF ResetOrigin
    <3> QED BY <3>2, <3>4 DEF Runtimes
  <2>9. DOMAIN <<>> = {} OBVIOUS
  <2>10. Current(r, st) BY <2>7, <2>8, <2>9 DEF Current
  <2>11. f \in Fed(H) => PidAgrees(r.pid, H[H[f].source.filter].pid) BY <2>3, <2>7 DEF Sourced
  <2>12. \A g \in Fed(H) : H[g].source.filter = f => PidAgrees(H[g].pid, r.pid)
    BY <2>3, <2>7 DEF Sourced
  <2>13. H[f].state \in Live /\ r.state \in Live BY <1>9, <1>13, <2>2, <2>7
  <2>14. GraphSound(N, st) /\ Tracked(N, f)
    BY ZenonT(30), <2>2, <2>6, <2>7, <2>10, <2>11, <2>12, <2>13, RenewedSound
  <2>15. N[f] = r BY <2>3, <2>6
  <2> QED BY <1>13, <2>2, <2>7, <2>14, <2>15
<1>15. /\ GraphSound(G, st) /\ Follows(N, G) /\ Tracked(G, f)
       /\ Refusers(N, f, bad) = {} => Tracked(G, NoFilter)
  BY ZenonT(30), <1>5, <1>9, <1>14, ReboundSinksSound
<1>16. CASE Refusers(N, f, bad) # {} /\ L = QuarantineFilter(G, f, bad)
  <2>1. G[f].state # "Absent" BY <1>9, <1>14, <1>15 DEF Follows
  <2> QED BY <1>15, <1>16, <2>1, QuarantineFilterSound
<1> QED BY <1>8, <1>11, <1>12, <1>13, <1>15, <1>16
=============================================================================
