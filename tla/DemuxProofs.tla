---------------------------- MODULE DemuxProofs ----------------------------
(***************************************************************************)
(* The safety theorems of the filter graph of a demux (FilterGraph), from  *)
(* the lemmas of FilterGraphProofs, and of recording (RecordRoute).        *)
(***************************************************************************)
EXTENDS FilterGraphProofs, RecordRoute

\* A source that is not downstream of the sink closes no cycle.
LEMMA NoNewCycle ==
    ASSUME NEW F, F \in [Filters -> Runtimes], Acyclic(F), NEW sink \in Filters,
           NEW source \in Filters, ~WouldCycle(F, sink, source), F[sink].state # "Absent",
           F[source].state # "Absent",
           NEW G, \A g \in Filters : G[g].state = F[g].state,
           \A g \in Filters \ {sink} : G[g].source = F[g].source, G[sink].source.filter = source
    PROVE  Acyclic(G)
<1> SUFFICES ASSUME NEW S \in SUBSET Present(G), S # {}, \A g \in S : G[g].source.filter \in S
             PROVE  FALSE
  BY DEF Acyclic
<1>1. S \subseteq Present(F) /\ S \subseteq Filters BY DEF Present
<1>2. sink \in S /\ source \in S
  <2>1. PICK g \in S : F[g].source.filter \notin S BY <1>1 DEF Acyclic
  <2>2. g = sink BY <1>1, <2>1
  <2> QED BY <2>2
<1> DEFINE fed == {g \in Present(F) : F[g].source # DemuxInput}
           Closed(T) == source \in T /\ \A g \in T \cap fed : F[g].source.filter \in T
<1>3. PICK T : T = {g \in Filters : \A U \in SUBSET Filters : Closed(U) => g \in U} BY ZenonT(30)
<1>4. sink \notin T BY <1>3 DEF WouldCycle, Upstream
<1>5. source \in T BY <1>3
<1>6. \A g \in Filters : F[g].source \in Relations BY DEF Runtimes
<1>7. \A g \in T \cap fed : F[g].source.filter \in T
  <2> SUFFICES ASSUME NEW g \in T \cap fed PROVE F[g].source.filter \in T OBVIOUS
  <2>1. g \in Filters /\ F[g].source # DemuxInput BY DEF Present
  <2>2. F[g].source.filter \in Filters BY <1>6, <2>1, RelationKinds
  <2>3. \A U \in SUBSET Filters : Closed(U) => F[g].source.filter \in U BY <1>3
  <2> QED BY <1>3, <2>2, <2>3
<1> HIDE DEF Closed
<1>8. \A g \in S \cap T : F[g].source.filter \in S \cap T
  <2> SUFFICES ASSUME NEW g \in S \cap T PROVE F[g].source.filter \in S \cap T OBVIOUS
  <2>1. g \in Filters /\ g # sink BY <1>1, <1>4
  <2>2. F[g].source.filter \in S BY <2>1
  <2>3. F[g].source # DemuxInput BY <1>1, <1>6, <2>1, <2>2, RelationKinds
  <2>4. g \in fed BY <1>1, <2>3
  <2> QED BY <1>7, <2>2, <2>4
<1>9. S \cap T \in SUBSET Present(F) /\ S \cap T # {} BY <1>1, <1>2, <1>5
<1> QED BY ZenonT(30), <1>8, <1>9 DEF Acyclic

\* The two changes of a relation.
LEMMA SourceStep ==
    ASSUME GraphInv, NEW sink \in Filters, NEW s \in Relations, NEW bad, SinkAdmitted(filter, sink),
           s # DemuxInput => /\ s = SourceOf(filter, s.filter)
                             /\ SourceAdmitted(filter, sink, s.filter),
           filter' = SourceChanged(filter, sink, s, bad), UNCHANGED stream
    PROVE  GraphInv'
<1>1. PICK F, st : F = filter /\ st = stream OBVIOUS
<1>2. /\ st \in Nat /\ GraphSound(F, st) /\ Tracked(F, NoFilter) /\ F \in [Filters -> Runtimes]
      /\ Acyclic(F) /\ Sourced(F) /\ \A g \in Filters : Current(F[g], st)
  BY <1>1 DEF GraphInv, GraphSound
<1>3. F[sink].state \in Live /\ F[sink].state # "Absent" BY <1>1 DEF SinkAdmitted, Live
<1>4. PICK G : G = filter' OBVIOUS
<1>5. SUFFICES GraphSound(G, st) /\ Tracked(G, NoFilter) BY <1>1, <1>2, <1>4 DEF GraphInv
<1>6. CASE ~CanDrain(F[sink]) \/ sink \in bad
  <2>1. PICK K : K = QuarantineFilter(F, sink, bad) OBVIOUS
  <2>2. G = QuarantineFilter(K, sink, bad) BY ZenonT(30), <1>1, <1>4, <1>6, <2>1 DEF SourceChanged
  <2>3. GraphSound(K, st) /\ Tracked(K, NoFilter) /\ Follows(F, K)
    BY ZenonT(30), <1>2, <1>3, <2>1, QuarantineFilterSound
  <2>4. K[sink].state # "Absent" BY ZenonT(30), <1>3, <2>3 DEF Follows
  <2> QED BY ZenonT(30), <2>2, <2>3, <2>4, QuarantineFilterSound
<1>7. CASE ~(~CanDrain(F[sink]) \/ sink \in bad)
  <2>1. PICK r : r = Rebound(F[sink], s) OBVIOUS
  <2>2. G = [F EXCEPT ![sink] = r] BY <1>1, <1>4, <1>7, <2>1 DEF SourceChanged
  <2>3. /\ r \in Runtimes /\ Current(r, st) /\ r.state = F[sink].state
        /\ r.gen = F[sink].gen /\ r.pid = F[sink].pid /\ r.source = s
    BY ZenonT(30), <1>2, <2>1, ReboundRuntime
  <2>4. /\ G \in [Filters -> Runtimes] /\ G[sink] = r /\ \A g \in Filters \ {sink} : G[g] = F[g]
        /\ \A g \in Filters : /\ Current(G[g], st) /\ G[g].state = F[g].state
                              /\ G[g].gen = F[g].gen /\ G[g].pid = F[g].pid
    BY ZenonT(30), <1>2, <2>2, <2>3
  <2>5. CASE s = DemuxInput
    <3>1. Follows(F, G) BY ZenonT(30), <2>3, <2>4, <2>5 DEF Follows
    <3>2. GraphSound(G, st) /\ Fed(G) \subseteq Fed(F) BY ZenonT(30), <1>2, <2>4, <3>1, FollowsSound
    <3>3. \A g \in Fed(G) : G[g].source = F[g].source BY ZenonT(30), <2>3, <2>4, <2>5 DEF Fed
    <3> QED BY ZenonT(30), <1>2, <3>1, <3>2, <3>3, FollowsTracked
  <2>6. CASE s # DemuxInput
    <3>1. PICK o : o = s.filter OBVIOUS
    <3>2. o \in Filters /\ s = SourceOf(F, o) /\ SourceAdmitted(F, sink, o)
      BY <1>1, <2>6, <3>1, RelationKinds
    <3>3. /\ o # sink /\ ~WouldCycle(F, sink, o) /\ F[o].state # "Absent" /\ Kind[o] = "Raw"
          /\ PidAgrees(F[sink].pid, F[o].pid)
      BY ZenonT(30), <3>2 DEF SourceAdmitted, Live
    <3>4. \A g \in Filters \ {sink} : G[g].source = F[g].source BY <2>4
    <3>5. G[sink].source.filter = o BY ZenonT(30), <2>3, <2>4, <3>1
    <3>6. Acyclic(G) BY ZenonT(30), <1>2, <1>3, <2>4, <3>2, <3>3, <3>4, <3>5, NoNewCycle
    <3>7. ASSUME NEW g \in Fed(G)
          PROVE  /\ G[G[g].source.filter].state # "Absent" /\ Kind[G[g].source.filter] = "Raw"
                 /\ PidAgrees(G[g].pid, G[G[g].source.filter].pid)
                 /\ G[g].source = SourceOf(G, G[g].source.filter)
      <4>1. CASE g = sink
        <5>1. SourceOf(G, o) = SourceOf(F, o) BY ZenonT(30), <2>4, <3>2 DEF SourceOf
        <5> QED BY ZenonT(30), <2>3, <2>4, <3>2, <3>3, <3>5, <4>1, <5>1
      <4>2. CASE g # sink
        <5>1. g \in Fed(F) /\ g \in Filters /\ G[g] = F[g] BY ZenonT(30), <2>4, <4>2 DEF Fed
        <5>2. F[g].source \in Relations /\ F[g].source # DemuxInput BY ZenonT(30), <1>2, <5>1 DEF Fed, Runtimes
        <5>3. PICK t \in Filters : t = F[g].source.filter BY ZenonT(30), <5>2, RelationKinds
        <5>4. t # NoFilter BY GraphAssumption DEF NoFilter
        <5>5. /\ F[t].state # "Absent" /\ Kind[t] = "Raw" /\ PidAgrees(F[g].pid, F[t].pid)
              /\ F[g].source = SourceOf(F, t)
          BY ZenonT(30), <1>2, <5>1, <5>3, <5>4 DEF Sourced, Tracked
        <5>6. SourceOf(G, t) = SourceOf(F, t) BY ZenonT(30), <2>4 DEF SourceOf
        <5> QED BY ZenonT(30), <2>4, <5>1, <5>3, <5>5, <5>6
      <4> QED BY ZenonT(30), <4>1, <4>2
    <3>8. Sourced(G) /\ Tracked(G, NoFilter) BY ZenonT(30), <3>7 DEF Sourced, Tracked
    <3> QED BY ZenonT(30), <2>4, <3>6, <3>8 DEF GraphSound
  <2> QED BY <2>5, <2>6
<1> QED BY <1>6, <1>7

\* setDataSource with a filter.
LEMMA SetDataSourceStep ==
    ASSUME GraphInv, NEW sink \in Filters, NEW source \in Filters, NEW bad,
           SetDataSource(sink, source, bad)
    PROVE  GraphInv'
<1>1. filter \in [Filters -> Runtimes] BY DEF GraphInv, GraphSound
<1>2. PICK s : s = SourceOf(filter, source) OBVIOUS
<1>3. s \in Relations /\ s.filter = source BY ZenonT(30), <1>1, <1>2 DEF SourceOf, Relations, Runtimes
<1>4. /\ SinkAdmitted(filter, sink) /\ SourceAdmitted(filter, sink, source)
      /\ filter' = SourceChanged(filter, sink, s, bad) /\ UNCHANGED stream
  BY <1>2 DEF SetDataSource
<1> QED BY <1>2, <1>3, <1>4, SourceStep

\* setDataSource(null).
LEMMA DisconnectStep ==
    ASSUME GraphInv, NEW sink \in Filters, NEW bad, DisconnectDataSource(sink, bad)
    PROVE  GraphInv'
<1>1. DemuxInput \in Relations BY DEF Relations
<1> QED BY <1>1, SourceStep DEF DisconnectDataSource

\* A close: no sink names the filter when it goes, or everything fails.
LEMMA RemoveStep ==
    ASSUME GraphInv, NEW f \in Filters, NEW bad, RemoveFilter(f, bad)
    PROVE  GraphInv'
<1>1. PICK F, st : F = filter /\ st = stream OBVIOUS
<1>2. /\ st \in Nat /\ GraphSound(F, st) /\ Tracked(F, NoFilter) /\ F \in [Filters -> Runtimes]
  BY <1>1 DEF GraphInv, GraphSound
<1>3. PICK G : G = ReboundSinks(F, f, DemuxInput, bad) OBVIOUS
<1>4. PICK H : H = ResetOrigin(G, f, F[f].gen) OBVIOUS
<1>5. PICK L : L = filter' OBVIOUS
<1>6. /\ F[f].state # "Absent" /\ stream' = st
      /\ \/ Refusers(F, f, bad) = {} /\ L = [H EXCEPT ![f] = Absent]
         \/ L = QuarantineAll(G)
  BY ZenonT(30), <1>1, <1>3, <1>4, <1>5 DEF RemoveFilter
<1>7. SUFFICES GraphSound(L, st) /\ Tracked(L, NoFilter) BY <1>2, <1>5, <1>6 DEF GraphInv
<1>8. Tracked(F, f) BY <1>2, TrackedAll
<1>9. /\ GraphSound(G, st)
      /\ Refusers(F, f, bad) = {} => /\ Tracked(G, NoFilter)
                                     /\ \A g \in Fed(G) : G[g].source.filter # f
  <2>1. PICK s : s = DemuxInput OBVIOUS
  <2>2. G = ReboundSinks(F, f, s, bad) BY <1>3, <2>1
  <2>a. F[f].state # "Absent" /\ GraphSound(F, st) /\ (s = SourceOf(F, f) \/ s = DemuxInput)
    BY <1>2, <1>6, <2>1
  <2>3. /\ GraphSound(G, st) /\ Follows(F, G) /\ Tracked(G, f)
        /\ Refusers(F, f, bad) = {} =>
             /\ Tracked(G, NoFilter)
             /\ s = DemuxInput => \A g \in Fed(G) : G[g].source.filter # f
    BY ZenonT(30), <1>8, <2>a, <2>2, ReboundSinksSound
  <2> QED BY <2>1, <2>3
<1>10. CASE L = QuarantineAll(G)
  <2>1. G \in [Filters -> Runtimes] /\ Acyclic(G) /\ Sourced(G) BY <1>9 DEF GraphSound
  <2> QED BY <1>10, <2>1, QuarantineAllSound
<1>11. CASE Refusers(F, f, bad) = {} /\ L = [H EXCEPT ![f] = Absent]
  <2>1. Tracked(G, NoFilter) BY <1>9, <1>11
  <2>2. /\ GraphSound(H, st) /\ Tracked(H, NoFilter)
        /\ \A g \in Filters : H[g].state = G[g].state /\ H[g].source = G[g].source
    BY <1>4, <1>9, <2>1, ResetOriginSound
  <2>3. Fed(H) = Fed(G) BY <2>2 DEF Fed
  <2>4. \A g \in Fed(H) : H[g].source.filter # f BY ZenonT(30), <1>9, <1>11, <2>2, <2>3 DEF Fed
  <2>5. /\ H \in [Filters -> Runtimes] /\ Acyclic(H) /\ Sourced(H)
        /\ \A g \in Filters : Current(H[g], st)
    BY ZenonT(30), <2>2 DEF GraphSound
  <2>6. Absent \in Runtimes /\ Current(Absent, st) /\ Absent.state = "Absent" /\ "Absent" \notin Live
    <3>1. <<>> \in Seq(Marks) OBVIOUS
    <3> QED BY ZenonT(30), <3>1 DEF Absent, Runtimes, Relations, Current, Live
  <2>7. L \in [Filters -> Runtimes] /\ L[f] = Absent /\ \A g \in Filters \ {f} : L[g] = H[g]
    BY <1>11, <2>5, <2>6
  <2>8. Fed(L) \subseteq Fed(H) /\ f \notin Fed(L) /\ \A g \in Fed(L) : L[g] = H[g]
    BY ZenonT(30), <2>6, <2>7 DEF Fed
  <2>9. \A g \in Fed(L) : g \in Filters /\ L[g].source.filter \in Filters \ {f}
    <3>1. \A g \in Fed(L) : g \in Filters /\ L[g].source \in Relations /\ L[g].source # DemuxInput
      BY ZenonT(30), <2>7 DEF Fed, Runtimes
    <3> QED BY ZenonT(30), <2>4, <2>8, <3>1, RelationKinds
  <2>10. Sourced(L) BY ZenonT(30), <2>5, <2>7, <2>8, <2>9 DEF Sourced
  <2>11. Tracked(L, NoFilter)
    <3> SUFFICES ASSUME NEW g \in Fed(L), L[g].source.filter # NoFilter
                 PROVE  L[g].source = SourceOf(L, L[g].source.filter)
      BY DEF Tracked
    <3>1. PICK t \in Filters \ {f} : t = L[g].source.filter BY <2>9
    <3>2. g \in Fed(H) /\ L[g] = H[g] BY <2>8
    <3>3. H[g].source = SourceOf(H, t) BY <2>2, <3>1, <3>2 DEF Tracked
    <3>4. SourceOf(L, t) = SourceOf(H, t) BY <2>7 DEF SourceOf
    <3> QED BY <3>1, <3>2, <3>3, <3>4
  <2>12. Acyclic(L)
    <3> SUFFICES ASSUME NEW S \in SUBSET Present(L), S # {}
                 PROVE  \E g \in S : L[g].source.filter \notin S
      BY DEF Acyclic
    <3>1. S \in SUBSET Present(H) /\ S \subseteq Filters \ {f} BY <2>6, <2>7 DEF Present
    <3>2. PICK g \in S : H[g].source.filter \notin S BY <2>5, <3>1 DEF Acyclic
    <3> QED BY <2>7, <3>1, <3>2
  <2>13. \A g \in Filters : Current(L[g], st) BY <2>5, <2>6, <2>7
  <2> QED BY <2>7, <2>10, <2>11, <2>12, <2>13 DEF GraphSound
<1> QED BY <1>6, <1>10, <1>11

\* A filter that opens is nobody's source yet.
LEMMA RegisterFilterStep ==
    ASSUME GraphInv, NEW f \in Filters, RegisterFilter(f)
    PROVE  GraphInv'
<1>1. PICK F, st : F = filter /\ st = stream OBVIOUS
<1>2. /\ st \in Nat /\ GraphSound(F, st) /\ Tracked(F, NoFilter) /\ F \in [Filters -> Runtimes]
      /\ Acyclic(F) /\ Sourced(F) /\ \A g \in Filters : Current(F[g], st)
  BY <1>1 DEF GraphInv, GraphSound
<1>3. PICK r : r = [Absent EXCEPT !.state = "Open", !.gate = "Open", !.gen = st] OBVIOUS
<1>4. PICK L : L = [F EXCEPT ![f] = r] BY ZenonT(30)
<1>5. filter' = L /\ stream' = st /\ F[f].state = "Absent" BY <1>1, <1>3, <1>4 DEF RegisterFilter
<1>6. SUFFICES GraphSound(L, st) /\ Tracked(L, NoFilter) BY <1>2, <1>5 DEF GraphInv
<1>7. /\ r \in Runtimes /\ Current(r, st) /\ r.source = DemuxInput /\ r.state = "Open"
  <2>1. <<>> \in Seq(Marks) /\ DOMAIN <<>> = {} OBVIOUS
  <2> QED BY ZenonT(30), <1>2, <1>3, <2>1 DEF Absent, Runtimes, Relations, Current, Live
<1>8. L \in [Filters -> Runtimes] /\ L[f] = r /\ \A g \in Filters \ {f} : L[g] = F[g]
  BY <1>2, <1>4, <1>7
<1>9. Fed(L) = Fed(F) /\ \A g \in Fed(L) : g # f /\ L[g] = F[g]
  BY ZenonT(30), <1>5, <1>7, <1>8 DEF Fed, Live
<1>10. \A g \in Fed(F) : g \in Filters /\ F[g].source.filter \in Filters \ {f}
  <2>1. \A g \in Fed(F) : g \in Filters /\ F[g].source \in Relations /\ F[g].source # DemuxInput
    BY <1>2 DEF Fed, Runtimes
  <2>2. \A g \in Fed(F) : F[g].source.filter # f BY ZenonT(30), <1>2, <1>5 DEF Sourced
  <2> QED BY <2>1, <2>2, RelationKinds
<1>11. Sourced(L) BY ZenonT(30), <1>2, <1>8, <1>9, <1>10 DEF Sourced
<1>12. Tracked(L, NoFilter) BY <1>2, <1>8, <1>9, <1>10 DEF Tracked, SourceOf
<1>13. Acyclic(L)
  <2> SUFFICES ASSUME NEW S \in SUBSET Present(L), S # {}
               PROVE  \E g \in S : L[g].source.filter \notin S
    BY DEF Acyclic
  <2>0. S \subseteq Filters BY DEF Present
  <2>1. CASE f \in S
    <3>1. L[f].source.filter = NoFilter BY <1>7, <1>8 DEF DemuxInput
    <3>2. NoFilter \notin S BY <2>0, GraphAssumption DEF NoFilter
    <3> QED BY <2>1, <3>1, <3>2
  <2>2. CASE f \notin S
    <3>1. S \in SUBSET Present(F) BY <1>8, <2>0, <2>2 DEF Present
    <3>2. PICK g \in S : F[g].source.filter \notin S BY <1>2, <3>1 DEF Acyclic
    <3> QED BY <1>8, <2>0, <2>2, <3>2
  <2> QED BY <2>1, <2>2
<1>14. \A g \in Filters : Current(L[g], st) BY <1>2, <1>7, <1>8
<1> QED BY <1>8, <1>11, <1>12, <1>13, <1>14 DEF GraphSound

\* start, stop and the delivery of held events.
LEMMA LocalStep ==
    ASSUME GraphInv, NEW f \in Filters, StartFilter(f) \/ StopFilter(f) \/ TakeHeld(f)
    PROVE  GraphInv'
<1>1. PICK F, st : F = filter /\ st = stream OBVIOUS
<1>2. /\ st \in Nat /\ GraphSound(F, st) /\ Tracked(F, NoFilter) /\ F \in [Filters -> Runtimes]
      /\ F[f] \in Runtimes /\ Current(F[f], st)
  BY <1>1 DEF GraphInv, GraphSound
<1>3. PICK q : q = F[f] OBVIOUS
<1>4. PICK r : /\ filter' = [F EXCEPT ![f] = r] /\ stream' = st
               /\ \/ q.state \in Live /\ r = [q EXCEPT !.state = "Started"]
                  \/ q.state \in Live /\ r = [q EXCEPT !.state = "Stopped"]
                  \/ r = [q EXCEPT !.held = <<>>]
  <2>1. CASE StartFilter(f) BY ZenonT(30), <1>1, <1>2, <1>3, <2>1 DEF StartFilter, Live
  <2>2. CASE StopFilter(f) BY ZenonT(30), <1>1, <1>2, <1>3, <2>2 DEF StopFilter, Live
  <2>3. CASE TakeHeld(f) BY ZenonT(30), <1>1, <1>2, <1>3, <2>3 DEF TakeHeld
  <2> QED BY <2>1, <2>2, <2>3
<1>5. <<>> \in Seq(Marks) /\ DOMAIN <<>> = {} OBVIOUS
<1>6. /\ r \in Runtimes /\ r.gen = q.gen /\ r.pid = q.pid /\ r.source = q.source
      /\ r.fmq = q.fmq /\ r.partial = q.partial /\ (r.held = q.held \/ r.held = <<>>)
      /\ (r.state = "Absent" <=> q.state = "Absent") /\ (r.state \in Live => q.state \in Live)
  BY ZenonT(30), <1>2, <1>3, <1>4, <1>5 DEF Runtimes, Live
<1>7. Current(r, st)
  <2>1. Mark(r, st) = Mark(q, st) /\ Cause(r, st) = Cause(q, st) BY ZenonT(30), <1>6 DEF Mark, Cause
  <2> QED BY ZenonT(30), <1>2, <1>3, <1>5, <1>6, <2>1 DEF Current
<1>8. PICK L : L = [F EXCEPT ![f] = r] BY ZenonT(30)
<1>9. GraphSound(L, st) /\ Tracked(L, NoFilter) BY ZenonT(30), <1>2, <1>3, <1>6, <1>7, <1>8, QuietFilter
<1> QED BY <1>2, <1>4, <1>8, <1>9 DEF GraphInv

\* A stream boundary empties every filter, or fails it.
LEMMA BoundaryStep ==
    ASSUME GraphInv, NEW bad, StreamBoundary(bad)
    PROVE  GraphInv'
<1>1. PICK F, st : F = filter /\ st = stream OBVIOUS
<1>2. /\ st \in Nat /\ GraphSound(F, st) /\ Tracked(F, NoFilter) /\ F \in [Filters -> Runtimes]
      /\ Acyclic(F) /\ Sourced(F)
  BY <1>1 DEF GraphInv, GraphSound
<1>3. PICK G : G = [f \in Filters |-> IF \E b \in bad : b <= f
                      THEN [Emptied(F[f]) EXCEPT !.fmq = F[f].fmq] ELSE Emptied(F[f])]
  BY ZenonT(30)
<1>4. PICK L, su : L = filter' /\ su = stream' OBVIOUS
<1>5. /\ su = st + 1
      /\ \/ bad = {} /\ L = G
         \/ L = QuarantineAll(G)
  BY <1>1, <1>3, <1>4 DEF StreamBoundary
<1>6. su \in Nat BY <1>2, <1>5
<1>7. SUFFICES GraphSound(L, su) /\ Tracked(L, NoFilter) BY <1>4, <1>6 DEF GraphInv
<1>8. ASSUME NEW g \in Filters
      PROVE  /\ G[g] \in Runtimes /\ G[g].state = F[g].state /\ G[g].gen = F[g].gen
             /\ G[g].pid = F[g].pid /\ G[g].source = F[g].source
             /\ bad = {} => Current(G[g], su)
  <2>1. PICK e \in Runtimes : e = Emptied(F[g]) BY ZenonT(30), <1>2, EmptiedRuntime
  <2>2. /\ e.state = F[g].state /\ e.gen = F[g].gen /\ e.pid = F[g].pid /\ e.source = F[g].source
        /\ Current(e, su)
    BY ZenonT(30), <1>2, <2>1, EmptiedRuntime
  <2>3. PICK m : m = F[g].fmq OBVIOUS
  <2>4. m \in SUBSET Marks BY <1>2, <2>3 DEF Runtimes
  <2>5. G[g] = e \/ (bad # {} /\ G[g] = [e EXCEPT !.fmq = m]) BY <1>3, <2>1, <2>3
  <2>6. CASE G[g] = e BY ZenonT(30), <2>2, <2>6
  <2>7. CASE bad # {} /\ G[g] = [e EXCEPT !.fmq = m] BY <2>2, <2>4, <2>7 DEF Runtimes
  <2> QED BY <2>5, <2>6, <2>7
<1>9. G \in [Filters -> Runtimes] BY <1>3, <1>8
<1>10. Present(G) = Present(F) /\ Fed(G) = Fed(F) BY ZenonT(30), <1>8 DEF Present, Fed
<1>11. Acyclic(G)
  <2> SUFFICES ASSUME NEW S \in SUBSET Present(G), S # {}
               PROVE  \E g \in S : G[g].source.filter \notin S
    BY DEF Acyclic
  <2>1. PICK g \in S : F[g].source.filter \notin S BY <1>2, <1>10 DEF Acyclic
  <2> QED BY <1>8, <2>1 DEF Present
<1>12. \A g \in Fed(G) : g \in Filters /\ F[g].source.filter \in Filters
  <2>1. \A g \in Fed(F) : g \in Filters /\ F[g].source \in Relations /\ F[g].source # DemuxInput
    BY <1>2 DEF Fed, Runtimes
  <2> QED BY <1>10, <2>1, RelationKinds
<1>13. Sourced(G) BY ZenonT(30), <1>2, <1>8, <1>10, <1>12 DEF Sourced
<1>14. CASE L = QuarantineAll(G) BY <1>9, <1>11, <1>13, <1>14, QuarantineAllSound
<1>15. CASE bad = {} /\ L = G
  <2>1. Tracked(G, NoFilter) BY <1>2, <1>8, <1>10, <1>12 DEF Tracked, SourceOf
  <2> QED BY ZenonT(30), <1>8, <1>9, <1>11, <1>13, <1>15, <2>1 DEF GraphSound
<1> QED BY <1>5, <1>14, <1>15

\* What one packet makes of a started filter.
LEMMA DeliveredRuntime ==
    ASSUME GraphInv, NEW f \in Filters, filter[f].state \in Live, NEW unit, NEW gap, NEW over,
           NEW broken, NEW hold, NEW d, d = Delivered(filter, f, unit, gap, over, broken, hold)
    PROVE  /\ d \in Runtimes /\ Current(d, stream) /\ d.gen = filter[f].gen
           /\ d.pid = filter[f].pid /\ d.source = filter[f].source
           /\ d.state = filter[f].state \/ d.state = "Failed"
<1>1. PICK q : q = filter[f] OBVIOUS
<1>2. PICK st : st = stream OBVIOUS
<1>3. q \in Runtimes /\ Current(q, st) /\ st \in Nat BY <1>1, <1>2 DEF GraphInv, GraphSound
<1>4. PICK m : m = Mark(q, st) OBVIOUS
<1>5. PICK o : o = Cause(q, st) OBVIOUS
<1>6. Stamp(filter, f) = m /\ Origin(filter, f) = o
  BY ZenonT(30), <1>1, <1>2, <1>4, <1>5 DEF Stamp, Origin, Mark, Cause
<1>7. m \in Marks /\ o \in [filter : Filters \cup {NoFilter}, gen : Nat]
  BY ZenonT(30), <1>3, <1>4, <1>5 DEF Mark, Cause, Marks, Runtimes, Relations
<1>8. q.fmq \subseteq {m} /\ q.partial \subseteq {o} /\ \A i \in DOMAIN q.held : q.held[i] = m
  BY ZenonT(30), <1>1, <1>3, <1>4, <1>5 DEF Current
<1> DEFINE a == Assembled(filter, f, unit, gap)
<1>9. PICK x : x = a.partial OBVIOUS
<1>10. x \subseteq {o}
  <2>1. \/ x = (IF gap THEN q.partial \ {o} ELSE q.partial) \cup {o}
        \/ x = (IF gap THEN q.partial \ {o} ELSE q.partial) \ {o}
    BY ZenonT(30), <1>1, <1>6, <1>9 DEF Assembled
  <2> QED BY <1>8, <2>1
<1>11. PICK r : r = IF Kind[f] = "Raw" THEN q ELSE [q EXCEPT !.partial = x] BY ZenonT(30)
<1>12. /\ r \in Runtimes /\ r.state = q.state /\ r.gen = q.gen /\ r.pid = q.pid
       /\ r.source = q.source /\ r.fmq = q.fmq /\ r.held = q.held /\ r.partial \subseteq {o}
  <2>1. x \in SUBSET [filter : Filters \cup {NoFilter}, gen : Nat] BY <1>7, <1>10
  <2>2. CASE Kind[f] = "Raw" BY <1>3, <1>8, <1>11, <2>2
  <2>3. CASE Kind[f] # "Raw" BY <1>3, <1>10, <1>11, <2>1, <2>3 DEF Runtimes
  <2> QED BY ZenonT(30), <2>2, <2>3
<1>13. PICK y : y = r.fmq \cup {m} BY ZenonT(30)
<1>14. PICK e : e = [r EXCEPT !.fmq = y] BY ZenonT(30)
<1>15. /\ e \in Runtimes /\ e.state = q.state /\ e.gen = q.gen /\ e.pid = q.pid
       /\ e.source = q.source /\ e.fmq \subseteq {m} /\ e.held = q.held /\ e.partial \subseteq {o}
  <2>1. y \subseteq {m} /\ y \in SUBSET Marks BY ZenonT(30), <1>7, <1>8, <1>12, <1>13
  <2> QED BY <1>12, <1>14, <2>1 DEF Runtimes
<1>16. PICK w : w = EventHeld(e, m, f \in hold) OBVIOUS
<1>17. d \in {r, e, w, [r EXCEPT !.state = "Failed"]}
  <2> DEFINE outcome == QueueOutcome(f, over, broken)
  <2> HIDE DEF a
  <2>1. d = CASE Kind[f] # "Raw" /\ ~a.complete -> r
              [] outcome = "overflow" -> r
              [] outcome = "failed" -> [r EXCEPT !.state = "Failed"]
              [] Kind[f] = "Raw" -> e
              [] OTHER -> w
    BY <1>1, <1>6, <1>9, <1>11, <1>13, <1>14, <1>16 DEF Delivered, a
  <2> HIDE DEF outcome
  <2> QED BY <2>1
<1>18. /\ w \in Runtimes /\ (w.state = q.state \/ w.state = "Failed") /\ w.gen = q.gen /\ w.pid = q.pid
       /\ w.source = q.source
       /\ w.state # "Failed" => /\ w.fmq \subseteq {m} /\ w.partial \subseteq {o}
                                /\ \A i \in DOMAIN w.held : w.held[i] = m
  <2>1. CASE w = Fail(e) BY ZenonT(30), <1>15, <2>1, FailedRuntime
  <2>2. CASE w = [e EXCEPT !.held = <<>>]
    <3>1. <<>> \in Seq(Marks) /\ DOMAIN <<>> = {} OBVIOUS
    <3> QED BY ZenonT(30), <1>15, <2>2, <3>1 DEF Runtimes
  <2>3. CASE w = [e EXCEPT !.held = Append(e.held, m)]
    <3>1. PICK h : h = Append(e.held, m) BY ZenonT(30)
    <3>2. e.held \in Seq(Marks) BY ZenonT(30), <1>15 DEF Runtimes
    <3>3. h \in Seq(Marks) BY <1>7, <3>1, <3>2
    <3>4. \A i \in DOMAIN h : h[i] = m \/ (i \in DOMAIN e.held /\ h[i] = e.held[i])
      BY <1>7, <3>1, <3>2
    <3>5. \A i \in DOMAIN h : h[i] = m BY ZenonT(30), <1>8, <1>15, <3>4
    <3>6. w = [e EXCEPT !.held = h] BY <2>3, <3>1
    <3>7. /\ w \in Runtimes /\ w.state = e.state /\ w.gen = e.gen /\ w.pid = e.pid
          /\ w.source = e.source /\ w.fmq = e.fmq /\ w.partial = e.partial /\ w.held = h
      BY <1>15, <3>3, <3>6 DEF Runtimes
    <3> QED BY ZenonT(30), <1>15, <3>5, <3>7
  <2> QED BY <1>16, <2>1, <2>2, <2>3 DEF EventHeld
<1>19. PICK z : z = [r EXCEPT !.state = "Failed"] BY ZenonT(30)
<1>20. /\ z \in Runtimes /\ z.state = "Failed" /\ z.gen = q.gen /\ z.pid = q.pid /\ z.source = q.source
  BY <1>12, <1>19 DEF Runtimes
<1>21. /\ d \in Runtimes /\ (d.state = q.state \/ d.state = "Failed") /\ d.gen = q.gen
       /\ d.pid = q.pid /\ d.source = q.source
       /\ d.state # "Failed" => /\ d.fmq \subseteq {m} /\ d.partial \subseteq {o}
                                /\ \A i \in DOMAIN d.held : d.held[i] = m
  <2>1. CASE d = r BY ZenonT(30), <1>8, <1>12, <2>1
  <2>2. CASE d = e BY <1>8, <1>15, <2>2
  <2>3. CASE d = w BY ZenonT(30), <1>18, <2>3
  <2>4. CASE d = z BY ZenonT(30), <1>20, <2>4
  <2> QED BY <1>17, <1>19, <2>1, <2>2, <2>3, <2>4
<1>22. Mark(d, st) = m /\ Cause(d, st) = o BY ZenonT(30), <1>4, <1>5, <1>21 DEF Mark, Cause
<1>23. Current(d, st) BY ZenonT(30), <1>21, <1>22 DEF Current, Live
<1> QED BY ZenonT(30), <1>1, <1>2, <1>21, <1>23

\* A packet changes what the filters it reaches hold, and may fail them.
LEMMA PushStep ==
    ASSUME GraphInv, NEW p, NEW broken, Push(p, broken)
    PROVE  GraphInv'
<1>1. PICK F, st : F = filter /\ st = stream OBVIOUS
<1>2. /\ st \in Nat /\ GraphSound(F, st) /\ Tracked(F, NoFilter) /\ F \in [Filters -> Runtimes]
      /\ \A g \in Filters : Current(F[g], st)
  BY <1>1 DEF GraphInv, GraphSound
<1>3. PICK R : R = Reached(F, p, broken) OBVIOUS
<1>4. PICK unit, gap, over, hold :
        filter' = [f \in Filters |-> IF f \in R THEN Delivered(F, f, unit, gap, over, broken, hold)
                                     ELSE F[f]]
  BY <1>1, <1>3 DEF Push
<1>5. PICK G : G = filter' OBVIOUS
<1>6. \A f \in R : F[f].state \in Live BY <1>3 DEF Reached, Accepts, Live
<1>7. ASSUME NEW g \in Filters
      PROVE  /\ G[g] \in Runtimes /\ Current(G[g], st) /\ G[g].gen = F[g].gen
             /\ G[g].pid = F[g].pid /\ G[g].source = F[g].source
             /\ G[g].state = F[g].state \/ (G[g].state = "Failed" /\ F[g].state \in Live)
  <2>1. CASE g \in R
    <3>1. G[g] = Delivered(filter, g, unit, gap, over, broken, hold) BY <1>1, <1>4, <1>5, <2>1
    <3>2. filter[g].state \in Live BY <1>1, <1>6, <2>1
    <3>3. PICK d : d = G[g] OBVIOUS
    <3>4. /\ d \in Runtimes /\ Current(d, stream) /\ d.gen = filter[g].gen
          /\ d.pid = filter[g].pid /\ d.source = filter[g].source
          /\ d.state = filter[g].state \/ d.state = "Failed"
      BY <3>1, <3>2, <3>3, DeliveredRuntime
    <3> QED BY <1>1, <3>2, <3>3, <3>4
  <2>2. CASE g \notin R BY <1>2, <1>4, <1>5, <2>2
  <2> QED BY ZenonT(30), <2>1, <2>2
<1>8. G \in [Filters -> Runtimes] BY ZenonT(30), <1>4, <1>5, <1>7
<1>9. Follows(F, G) BY ZenonT(30), <1>7 DEF Follows, Live
<1>10. GraphSound(G, st) /\ Fed(G) \subseteq Fed(F) BY ZenonT(30), <1>2, <1>7, <1>8, <1>9, FollowsSound
<1>11. \A g \in Fed(G) : G[g].source = F[g].source BY <1>7 DEF Fed
<1>12. Tracked(G, NoFilter) BY <1>2, <1>9, <1>10, <1>11, FollowsTracked
<1>13. stream' = st BY <1>1 DEF Push
<1> QED BY <1>2, <1>5, <1>10, <1>12, <1>13 DEF GraphInv

\* The demux without filters.
LEMMA GraphInitial == ASSUME Init PROVE GraphInv
<1>1. Absent \in Runtimes /\ Current(Absent, 1) /\ Absent.state = "Absent" /\ "Absent" \notin Live
  <2>1. <<>> \in Seq(Marks) OBVIOUS
  <2> QED BY ZenonT(30), <2>1 DEF Absent, Runtimes, Relations, Current, Live
<1>2. PICK F : F = filter OBVIOUS
<1>3. F \in [Filters -> Runtimes] /\ \A f \in Filters : F[f] = Absent BY <1>1, <1>2 DEF Init
<1>4. Present(F) = {} /\ Fed(F) = {} BY <1>1, <1>3 DEF Present, Fed
<1>5. Acyclic(F) /\ Sourced(F) /\ Tracked(F, NoFilter) BY <1>4 DEF Acyclic, Sourced, Tracked
<1>6. stream = 1 BY DEF Init
<1> QED BY <1>1, <1>2, <1>3, <1>5, <1>6 DEF GraphInv, GraphSound

\* Every step keeps the graph.
LEMMA GraphNext == ASSUME GraphInv, [Next]_vars PROVE GraphInv'
<1>1. CASE UNCHANGED vars BY <1>1 DEF vars, GraphInv
<1>2. ASSUME NEW f \in Filters,
             RegisterFilter(f) \/ StartFilter(f) \/ StopFilter(f) \/ TakeHeld(f)
      PROVE  GraphInv'
  BY <1>2, RegisterFilterStep, LocalStep
<1>3. ASSUME NEW f \in Filters, NEW bad \in FaultSets, RemoveFilter(f, bad) PROVE GraphInv'
  BY <1>3, RemoveStep
<1>4. ASSUME NEW f \in Filters, NEW bad \in FaultSets, FlushFilter(f, bad) PROVE GraphInv'
  BY <1>4, FlushStep
<1>5. ASSUME NEW f \in Filters, NEW bad \in FaultSets, NEW p \in Pids, ConfigureFilter(f, p, bad)
      PROVE  GraphInv'
  BY <1>5, ConfigureStep
<1>6. ASSUME NEW f \in Filters, NEW bad \in FaultSets, NEW s \in Filters, SetDataSource(f, s, bad)
      PROVE  GraphInv'
  BY <1>6, SetDataSourceStep
<1>7. ASSUME NEW f \in Filters, NEW bad \in FaultSets, DisconnectDataSource(f, bad) PROVE GraphInv'
  BY <1>7, DisconnectStep
<1>8. ASSUME NEW bad \in FaultSets, StreamBoundary(bad) PROVE GraphInv'
  BY <1>8, BoundaryStep
<1>9. ASSUME NEW p \in Pids, NEW broken \in FaultSets, Push(p, broken) PROVE GraphInv'
  BY <1>9, PushStep
<1> QED BY ZenonT(30), <1>1, <1>2, <1>3, <1>4, <1>5, <1>6, <1>7, <1>8, <1>9
        DEF Next, SetFrontendSource, TuneStart

\* The inductive invariant of the filter graph.
LEMMA GraphInvHolds == Spec => []GraphInv
<1>1. Init => GraphInv BY GraphInitial
<1>2. GraphInv /\ [Next]_vars => GraphInv' BY GraphNext
<1> QED BY <1>1, <1>2, PTL DEF Spec

\* No filter is its own source through any chain of relations, and every working
\* sink names an existing raw source at its present generation, on a PID that agrees
\* (demux.rs, source_boundary.rs, configure_txn.rs).
THEOREM Graph_Sound == Spec => []SourceGraphSound
<1>1. GraphInv => SourceGraphSound
  <2> SUFFICES ASSUME GraphInv PROVE SourceGraphSound OBVIOUS
  <2>1. Acyclic(filter) /\ Sourced(filter) /\ Tracked(filter, NoFilter)
        /\ filter \in [Filters -> Runtimes]
    BY DEF GraphInv, GraphSound
  <2>3. \A f \in Fed(filter) : filter[f].source.filter # NoFilter
    <3>1. \A f \in Fed(filter) : filter[f].source \in Relations /\ filter[f].source # DemuxInput
      BY <2>1 DEF Fed, Runtimes
    <3> QED BY <3>1, RelationKinds
  <2> QED BY ZenonT(30), <2>1, <2>3 DEF SourceGraphSound, Acyclic, Sourced, Tracked, Fed
<1> QED BY <1>1, GraphInvHolds, PTL

\* What a working filter holds was produced under its present configuration, source
\* and stream (demux.rs, queue_runtime.rs).
THEOREM Data_NeverStale == Spec => []NoStaleData
<1>1. GraphInv => NoStaleData
  BY ZenonT(30) DEF GraphInv, GraphSound, NoStaleData, Current, Mark, Cause, Stamp, Origin
<1> QED BY <1>1, GraphInvHolds, PTL
---------------------------------------------------------------------------
(* Recording.                                                              *)

RecFilterStates ==
    [state : FilterLive \cup {"Absent", "Failed", "Closed"},
     offset : Nat, pending : Seq(Nat), queued : Nat]
RecDvrStates ==
    [state : DvrLive \cup {"Absent", "Failed"}, attached : SUBSET RecFilters, fill : Nat]

\* What a filter in state r with n packets taken has counted: also before it
\* is opened, so that it starts from nothing.
Counts(r, n) ==
    r.state # "Closed" =>
        /\ r.offset = n
        /\ \A i \in DOMAIN r.pending : r.pending[i] < r.offset

OneDvrEach ==
    \A f \in RecFilters : \A d, e \in RecDvrs :
        f \in rd[d].attached /\ f \in rd[e].attached => d = e

RecInv ==
    /\ rf \in [RecFilters -> RecFilterStates]
    /\ rd \in [RecDvrs -> RecDvrStates]
    /\ put \in [RecFilters -> Nat]
    /\ \A f \in RecFilters : Counts(rf[f], put[f])
    /\ OneDvrEach

\* The invariant gives the property.
LEMMA RecInvOffset == RecInv => OffsetExact
BY ZenonT(30) DEF RecInv, OffsetExact, Counts, OneDvrEach

\* A filter that changes alone.
LEMMA RecFilterStep ==
    ASSUME RecInv, NEW f \in RecFilters, NEW r \in RecFilterStates, NEW n \in Nat,
           rf' = [rf EXCEPT ![f] = r], put' = [put EXCEPT ![f] = n], rd' = rd,
           Counts(r, n)
    PROVE  RecInv'
BY ZenonT(30) DEF RecInv, OneDvrEach, Counts

\* A DVR that changes alone: it loses filters, or gains one no other has.
LEMMA RecDvrStep ==
    ASSUME RecInv, NEW d \in RecDvrs, NEW r \in RecDvrStates,
           rd' = [rd EXCEPT ![d] = r], UNCHANGED <<rf, put>>,
           \A f \in r.attached \ rd[d].attached : \A e \in RecDvrs \ {d} : f \notin rd[e].attached
    PROVE  RecInv'
<1>1. OneDvrEach' BY ZenonT(30) DEF RecInv, OneDvrEach, RecDvrStates
<1> QED BY ZenonT(30), <1>1 DEF RecInv, Counts

\* A filter state, field by field.
LEMMA RecFilterRecord ==
    ASSUME NEW s \in FilterLive \cup {"Absent", "Failed", "Closed"}, NEW o \in Nat,
           NEW p \in Seq(Nat), NEW q \in Nat, NEW n \in Nat, NEW r,
           r = [state |-> s, offset |-> o, pending |-> p, queued |-> q],
           s # "Closed" => o = n /\ \A i \in DOMAIN p : p[i] < o
    PROVE  r \in RecFilterStates /\ Counts(r, n)
BY ZenonT(30) DEF RecFilterStates, Counts

\* Committing one packet keeps the count, indexed or not, quarantined or not.
LEMMA CommittedCounts ==
    ASSUME NEW r \in RecFilterStates, NEW n \in Nat, NEW b \in BOOLEAN, r.state = "Started", Counts(r, n)
    PROVE  Committed(r, b) \in RecFilterStates /\ Counts(Committed(r, b), n + 1)
<1>0. PICK p \in Seq(Nat), q \in Nat :
         r = [state |-> "Started", offset |-> n, pending |-> p, queued |-> q]
  BY DEF RecFilterStates, Counts
<1>1. \A i \in DOMAIN p : p[i] < n BY <1>0 DEF Counts
<1>2. /\ n + 1 \in Nat /\ q + 1 \in Nat /\ <<>> \in Seq(Nat) /\ DOMAIN <<>> = {}
      /\ Append(p, n) \in Seq(Nat) OBVIOUS
<1>3. CASE ~b
  <2>1. Committed(r, b) = [state |-> "Started", offset |-> n + 1, pending |-> p, queued |-> q + 1]
    BY ZenonT(30), <1>0, <1>3 DEF Committed
  <2>2. \A i \in DOMAIN p : p[i] < n + 1 BY <1>1
  <2> QED BY ZenonT(30), <1>2, <2>1, <2>2, RecFilterRecord DEF FilterLive
<1>4. CASE b /\ Len(r.pending) = IndexCapacity
  <2>1. Committed(r, b) = [state |-> "Failed", offset |-> n + 1, pending |-> <<>>, queued |-> q]
    BY ZenonT(30), <1>0, <1>4 DEF Committed, Quarantined
  <2> QED BY ZenonT(30), <1>2, <2>1, RecFilterRecord
<1>5. CASE b /\ Len(r.pending) # IndexCapacity
  <2>1. Committed(r, b) = [state |-> "Started", offset |-> n + 1, pending |-> Append(p, n),
                           queued |-> q + 1]
    BY ZenonT(30), <1>0, <1>5 DEF Committed
  <2>2. \A i \in DOMAIN Append(p, n) : Append(p, n)[i] < n + 1 BY <1>1
  <2> QED BY ZenonT(30), <1>2, <2>1, <2>2, RecFilterRecord DEF FilterLive
<1> QED BY <1>3, <1>4, <1>5

\* The same for an event that completes a batch.
LEMMA BatchedCounts ==
    ASSUME NEW f \in RecFilters, NEW r \in RecFilterStates, NEW n \in Nat, Counts(r, n)
    PROVE  Batched(f, r) \in RecFilterStates /\ Counts(Batched(f, r), n)
<1>0. PICK s \in FilterLive \cup {"Absent", "Failed", "Closed"}, o \in Nat, p \in Seq(Nat), q \in Nat :
         r = [state |-> s, offset |-> o, pending |-> p, queued |-> q]
  BY ZenonT(30) DEF RecFilterStates
<1>1. CASE Batched(f, r) = r BY <1>1
<1>2. CASE Batched(f, r) # r
  <2>1. Batched(f, r) = [state |-> s, offset |-> o, pending |-> <<>>, queued |-> 0]
    BY ZenonT(30), <1>0, <1>2 DEF Batched
  <2>2. s # "Closed" => o = n BY ZenonT(30), <1>0 DEF Counts
  <2>3. <<>> \in Seq(Nat) /\ DOMAIN <<>> = {} OBVIOUS
  <2> QED BY ZenonT(30), <2>1, <2>2, <2>3, RecFilterRecord
<1> QED BY <1>1, <1>2

\* A packet moves the offset of exactly the filters whose DVR took it, and
\* leaves the relation as it is.
LEMMA RecordPacketStep ==
    ASSUME RecInv, NEW hit, NEW broken, NEW indexed, RecordPacket(hit, broken, indexed),
           hit \subseteq RecFilters
    PROVE  RecInv'
<1> DEFINE open == {f \in hit : rf[f].state = "Started"}
           done == {f \in open : \E d \in Targets(f) : Written(d, broken)}
<1>1. /\ rd' = [d \in RecDvrs |-> IF d \in Takers(open) THEN DvrAfterPacket(d, broken) ELSE rd[d]]
      /\ rf' = [f \in RecFilters |->
                  Batched(f, IF f \in done THEN Committed(rf[f], f \in indexed) ELSE rf[f])]
      /\ put' = [f \in RecFilters |-> IF f \in done THEN put[f] + 1 ELSE put[f]]
  BY ZenonT(30) DEF RecordPacket
<1>2. \A f \in done : rf[f].state = "Started" OBVIOUS
<1> HIDE DEF done, open
<1>3. ASSUME NEW f \in RecFilters
      PROVE  rf'[f] \in RecFilterStates /\ put'[f] \in Nat /\ Counts(rf'[f], put'[f])
  <2> DEFINE b == f \in indexed
  <2>1. rf[f] \in RecFilterStates /\ put[f] \in Nat /\ Counts(rf[f], put[f]) BY DEF RecInv
  <2>2. b \in BOOLEAN OBVIOUS
  <2> HIDE DEF b
  <2>3. CASE f \in done
    <3>1. PICK c : c = Committed(rf[f], b) OBVIOUS
    <3>2. c \in RecFilterStates /\ Counts(c, put[f] + 1)
      BY ZenonT(30), <1>2, <2>1, <2>2, <2>3, <3>1, CommittedCounts
    <3>3. rf'[f] = Batched(f, c) /\ put'[f] = put[f] + 1 BY ZenonT(30), <1>1, <2>3, <3>1 DEF b
    <3> QED BY <2>1, <3>2, <3>3, BatchedCounts
  <2>4. CASE f \notin done
    <3>1. rf'[f] = Batched(f, rf[f]) /\ put'[f] = put[f] BY ZenonT(30), <1>1, <2>4
    <3> QED BY ZenonT(30), <2>1, <3>1, BatchedCounts
  <2> QED BY <2>3, <2>4
<1>4. ASSUME NEW d \in RecDvrs
      PROVE  rd'[d] \in RecDvrStates /\ rd'[d].attached = rd[d].attached
  <2>1. rd[d] \in RecDvrStates BY DEF RecInv
  <2>2. rd'[d] = DvrAfterPacket(d, broken) \/ rd'[d] = rd[d] BY ZenonT(30), <1>1
  <2> QED BY <2>1, <2>2 DEF DvrAfterPacket, RecDvrStates, DvrLive
<1>5. OneDvrEach' BY ZenonT(30), <1>4 DEF RecInv, OneDvrEach
<1>6. /\ rf' \in [RecFilters -> RecFilterStates] /\ put' \in [RecFilters -> Nat]
      /\ rd' \in [RecDvrs -> RecDvrStates]
  <2>1. /\ DOMAIN rf' = RecFilters /\ rf' = [f \in RecFilters |-> rf'[f]]
        /\ put' = [f \in RecFilters |-> put'[f]] /\ rd' = [d \in RecDvrs |-> rd'[d]]
    BY ZenonT(30), <1>1
  <2> QED BY <1>3, <1>4, <2>1
<1> QED BY <1>3, <1>5, <1>6 DEF RecInv

\* Every step of recording keeps the counts.
LEMMA RecStep == RecInv /\ [RecNext]_recVars => RecInv'
<1> SUFFICES ASSUME RecInv, [RecNext]_recVars PROVE RecInv' OBVIOUS
<1>1. ASSUME NEW f \in RecFilters,
             \/ OpenRecordFilter(f) \/ StartRecordFilter(f) \/ StopRecordFilter(f)
             \/ RecordBoundary(f)
      PROVE  RecInv'
  <2>1. rf[f] \in RecFilterStates /\ Counts(rf[f], put[f]) /\ put[f] \in Nat BY DEF RecInv
  <2>2. PICK r : /\ rf' = [rf EXCEPT ![f] = r]
                 /\ \/ \E s \in {"Started", "Stopped"} : r = [rf[f] EXCEPT !.state = s]
                    \/ r = [rf[f] EXCEPT !.pending = <<>>, !.queued = 0]
    BY ZenonT(30), <1>1 DEF OpenRecordFilter, StartRecordFilter, StopRecordFilter, RecordBoundary
  <2>3. rf[f].state # "Closed"
    BY <1>1 DEF OpenRecordFilter, StartRecordFilter, StopRecordFilter, RecordBoundary, FilterLive
  <2>4. rd' = rd /\ put' = put
    BY <1>1 DEF OpenRecordFilter, StartRecordFilter, StopRecordFilter, RecordBoundary
  <2>5. put' = [put EXCEPT ![f] = put[f]] BY <2>4 DEF RecInv
  <2>6. r \in RecFilterStates /\ Counts(r, put[f])
    <3>1. CASE \E s \in {"Started", "Stopped"} : r = [rf[f] EXCEPT !.state = s]
      BY <2>1, <2>3, <3>1 DEF RecFilterStates, Counts, FilterLive
    <3>2. CASE r = [rf[f] EXCEPT !.pending = <<>>, !.queued = 0]
      <4>1. PICK x \in FilterLive \cup {"Absent", "Failed", "Closed"}, o \in Nat :
               r = [state |-> x, offset |-> o, pending |-> <<>>, queued |-> 0] /\ o = put[f]
        BY ZenonT(30), <2>1, <2>3, <3>2 DEF RecFilterStates, Counts
      <4>2. <<>> \in Seq(Nat) /\ DOMAIN <<>> = {} OBVIOUS
      <4> QED BY ZenonT(30), <2>1, <4>1, <4>2, RecFilterRecord
    <3> QED BY <2>2, <3>1, <3>2
  <2> QED BY ZenonT(30), <2>1, <2>2, <2>4, <2>5, <2>6, RecFilterStep
<1>2. ASSUME NEW f \in RecFilters, CloseRecordFilter(f) PROVE RecInv'
  <2> DEFINE r == [NoFilterYet EXCEPT !.state = "Closed"]
  <2>1. r \in RecFilterStates /\ Counts(r, 0)
    <3>1. r = [state |-> "Closed", offset |-> 0, pending |-> <<>>, queued |-> 0] BY DEF NoFilterYet
    <3>2. <<>> \in Seq(Nat) /\ 0 \in Nat /\ DOMAIN <<>> = {} OBVIOUS
    <3> HIDE DEF r
    <3> QED BY ZenonT(30), <3>1, <3>2, RecFilterRecord
  <2>2. rf' = [rf EXCEPT ![f] = r] /\ put' = [put EXCEPT ![f] = 0] /\ rd' = rd
    BY <1>2 DEF CloseRecordFilter
  <2> HIDE DEF r
  <2> QED BY ZenonT(30), <2>1, <2>2, RecFilterStep
<1>3. ASSUME NEW d \in RecDvrs,
             \/ OpenRecordDvr(d) \/ StartRecordDvr(d) \/ StopRecordDvr(d)
             \/ CloseRecordDvr(d) \/ EmptyDvrQueue(d)
      PROVE  RecInv'
  <2>1. rd[d] \in RecDvrStates BY DEF RecInv
  <2>2. PICK r : /\ rd' = [rd EXCEPT ![d] = r]
                 /\ \/ r = NoDvrYet \/ r = [NoDvrYet EXCEPT !.state = "Stopped"]
                    \/ r = [rd[d] EXCEPT !.state = "Started"]
                    \/ r = [rd[d] EXCEPT !.state = "Stopped"]
                    \/ r = [rd[d] EXCEPT !.fill = 0]
    BY <1>3 DEF OpenRecordDvr, StartRecordDvr, StopRecordDvr, CloseRecordDvr, EmptyDvrQueue
  <2>3. UNCHANGED <<rf, put>>
    BY <1>3 DEF OpenRecordDvr, StartRecordDvr, StopRecordDvr, CloseRecordDvr, EmptyDvrQueue
  <2>4. r \in RecDvrStates /\ r.attached \subseteq rd[d].attached
    BY <2>1, <2>2 DEF RecDvrStates, NoDvrYet, DvrLive
  <2> QED BY ZenonT(30), <2>2, <2>3, <2>4, RecDvrStep
<1>4. ASSUME NEW d \in RecDvrs, NEW f \in RecFilters, AttachFilter(d, f) \/ DetachFilter(d, f)
      PROVE  RecInv'
  <2>1. rd[d] \in RecDvrStates BY DEF RecInv
  <2>2. PICK A : /\ rd' = [rd EXCEPT ![d] = [rd[d] EXCEPT !.attached = A]]
                 /\ A \subseteq RecFilters
                 /\ \A g \in A \ rd[d].attached : \A e \in RecDvrs \ {d} : g \notin rd[e].attached
    BY <1>4, <2>1 DEF AttachFilter, DetachFilter, Related, RelationAdmitted, RecDvrStates
  <2>3. UNCHANGED <<rf, put>> BY ZenonT(30), <1>4 DEF AttachFilter, DetachFilter
  <2>4. PICK r : r = [rd[d] EXCEPT !.attached = A] BY ZenonT(30)
  <2>5. r \in RecDvrStates /\ r.attached = A BY <2>1, <2>2, <2>4 DEF RecDvrStates
  <2> QED BY ZenonT(30), <2>2, <2>3, <2>4, <2>5, RecDvrStep
<1>5. CASE UNCHANGED recVars BY ZenonT(30), <1>5 DEF recVars, RecInv, OneDvrEach, Counts
<1> QED BY ZenonT(30), <1>1, <1>2, <1>3, <1>4, <1>5, RecordPacketStep DEF RecNext

\* The offset a RECORD filter stamps on its index events is the number of
\* packets its one DVR took for it, for any number of filters, DVRs and
\* packets and any interleaving of attach, detach, flush, reconfiguration,
\* failure and close (record_output_byte_offset).
THEOREM Offsets_Exact == RecSpec => []OffsetExact
<1>1. RecInit => RecInv
  BY DEF RecInit, RecInv, OneDvrEach, Counts, NoFilterYet, NoDvrYet, RecFilterStates, RecDvrStates
<1> QED BY <1>1, RecStep, RecInvOffset, PTL DEF RecSpec
============================================================================
