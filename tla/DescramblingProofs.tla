-------------------------- MODULE DescramblingProofs --------------------------
(***************************************************************************)
(* The key table of Descrambling counts the sessions that hold each token, *)
(* for any number of descramblers, demuxes, filters, PIDs and tokens.      *)
(*                                                                         *)
(* KeyReferencesExact is what makes every release succeed, and a release   *)
(* that succeeds is what keeps the count exact and no debt behind: the two *)
(* are proved together, with the types.  From them follow the soundness of *)
(* the sessions' cached slots and that a packet has one deciding session.  *)
(***************************************************************************)
EXTENDS Descrambling, FiniteSetTheorems, TLAPS

Entries == [slot : Nat, refs : Nat]

\* The state the key table depends on, typed.
KeyTypes ==
    /\ token \in [Descramblers -> Tokens \cup {None}]
    /\ slot \in [Descramblers -> Nat]
    /\ debt \in [Descramblers -> SUBSET Tokens]
    /\ table \in [Tokens -> Entries]
    /\ nextSlot \in Nat \ {0}

KeyInv == KeyTypes /\ KeyReferencesExact /\ \A d \in Descramblers : debt[d] = {}

-----------------------------------------------------------------------------

\* The holders of a token are finitely many.
LEMMA HoldersFinite ==
  ASSUME NEW t
  PROVE  IsFiniteSet(Holders(t)) /\ Cardinality(Holders(t)) \in Nat
BY FiniteAssumption, FS_Subset, FS_CardinalityType DEF Holders

\* With nothing owed, a session holds its key and nothing else.
LEMMA HeldIsToken ==
  ASSUME KeyInv, NEW d \in Descramblers, NEW t \in Tokens
  PROVE  t \in Held(d) <=> token[d] = t
BY NoneAssumption DEF KeyInv, KeyTypes, Held

\* A token somebody holds is counted and can be released.
LEMMA HeldIsReleasable ==
  ASSUME KeyInv, NEW d \in Descramblers, token[d] # None
  PROVE  /\ token[d] \in Tokens
         /\ d \in Holders(token[d])
         /\ Releasable(table, token[d])
<1>1. token[d] \in Tokens BY DEF KeyInv, KeyTypes
<1>2. d \in Holders(token[d]) BY <1>1, HeldIsToken DEF Holders
<1>3. Cardinality(Holders(token[d])) # 0 BY <1>2, HoldersFinite, FS_EmptySet
<1> QED BY <1>1, <1>2, <1>3 DEF KeyInv, KeyReferencesExact, Releasable

\* What a step that only changes the key of d makes of the holders.
LEMMA HoldersAfterToken ==
  ASSUME KeyInv, NEW d \in Descramblers, NEW new \in Tokens \cup {None},
         token' = [token EXCEPT ![d] = new], debt' = debt,
         NEW t \in Tokens
  PROVE  Holders(t)' = IF t = new THEN Holders(t) \cup {d} ELSE Holders(t) \ {d}
<1>1. \A e \in Descramblers : t \in Held(e)' <=> token'[e] = t
  BY NoneAssumption DEF KeyInv, KeyTypes, Held
<1>2. \A e \in Descramblers : token'[e] = IF e = d THEN new ELSE token[e]
  BY DEF KeyInv, KeyTypes
<1>3. \A e \in Descramblers : t \in Held(e) <=> token[e] = t BY HeldIsToken
<1> QED BY <1>1, <1>2, <1>3 DEF Holders

\* The counts after the key of d changed.
LEMMA CountAfterToken ==
  ASSUME KeyInv, NEW d \in Descramblers, NEW new \in Tokens \cup {None},
         token' = [token EXCEPT ![d] = new], debt' = debt, token[d] # new,
         NEW t \in Tokens
  PROVE  Cardinality(Holders(t)') =
            IF t = new THEN table[t].refs + 1
            ELSE IF t = token[d] THEN table[t].refs - 1
            ELSE table[t].refs
<1>1. Cardinality(Holders(t)) = table[t].refs BY DEF KeyInv, KeyReferencesExact
<1>2. d \in Holders(t) <=> token[d] = t BY HeldIsToken DEF Holders
<1>3. Cardinality(Holders(t) \cup {d}) =
        IF d \in Holders(t) THEN Cardinality(Holders(t)) ELSE Cardinality(Holders(t)) + 1
  BY ZenonT(60), HoldersFinite, FS_AddElement
<1>4. Cardinality(Holders(t) \ {d}) =
        IF d \in Holders(t) THEN Cardinality(Holders(t)) - 1 ELSE Cardinality(Holders(t))
  BY ZenonT(60), HoldersFinite, FS_RemoveElement
<1>5. Holders(t)' = IF t = new THEN Holders(t) \cup {d} ELSE Holders(t) \ {d}
  BY ZenonT(60), HoldersAfterToken
<1>6. CASE t = new BY <1>1, <1>2, <1>3, <1>5, <1>6
<1>7. CASE t # new BY <1>1, <1>2, <1>4, <1>5, <1>7
<1> QED BY <1>6, <1>7

\* Nothing changes when neither keys nor debts nor the table do.
LEMMA KeysUnchanged ==
  ASSUME KeyInv, UNCHANGED keys
  PROVE  KeyInv'
BY DEF KeyInv, KeyTypes, KeyReferencesExact, Holders, Held, keys

-----------------------------------------------------------------------------
(* Operations on the table. *)

\* Publishing gives the token a slot and changes no count.
LEMMA PublishFacts ==
  ASSUME KeyInv, NEW t \in Tokens
  PROVE  /\ Publish(table, t) \in [Tokens -> Entries]
         /\ Publish(table, t)[t].slot # 0
         /\ \A u \in Tokens : Publish(table, t)[u].refs = table[u].refs
         /\ \A u \in Tokens \ {t} : Publish(table, t)[u] = table[u]
<1>1. table \in [Tokens -> Entries] /\ nextSlot \in Nat \ {0} BY DEF KeyInv, KeyTypes
<1>2. table[t].slot = 0 <=> table[t].refs = 0 BY DEF KeyInv, KeyReferencesExact
<1> DEFINE e == [slot |-> nextSlot, refs |-> 0]
<1>3. e \in Entries /\ e.slot # 0 /\ e.refs = 0 BY <1>1 DEF Entries
<1>4. Publish(table, t) = IF table[t].slot # 0 THEN table ELSE [table EXCEPT ![t] = e]
  BY DEF Publish
<1> HIDE DEF e
<1> QED BY <1>1, <1>2, <1>3, <1>4

\* Clearing a key releases exactly the reference it was.
LEMMA ClearKeyPreserves ==
  ASSUME KeyInv, NEW d \in Descramblers, ClearKey(d)
  PROVE  KeyInv' /\ session' = session
<1> DEFINE old == token[d]
<1>1. old \in Tokens /\ Releasable(table, old) BY HeldIsReleasable DEF ClearKey
<1>2. /\ token' = [token EXCEPT ![d] = None] /\ slot' = [slot EXCEPT ![d] = 0]
      /\ debt' = debt /\ session' = session /\ nextSlot' = nextSlot
      /\ table' = [table EXCEPT ![old] = Released(table[old], 1)]
  BY <1>1 DEF ClearKey, Release
<1>3. table \in [Tokens -> Entries] BY DEF KeyInv, KeyTypes
<1>4. table[old] \in Entries /\ table[old].refs # 0 /\ table[old].slot # 0
  BY SMTT(40), <1>1, <1>3 DEF Releasable
<1>5. /\ Released(table[old], 1) \in Entries
      /\ Released(table[old], 1).refs = table[old].refs - 1
      /\ Released(table[old], 1).slot = 0 <=> Released(table[old], 1).refs = 0
  BY <1>4 DEF Released, Absent, Entries
<1>6. KeyTypes' BY ZenonT(60), <1>2, <1>3, <1>5 DEF KeyInv, KeyTypes
<1>7. ASSUME NEW t \in Tokens
      PROVE  /\ table'[t].refs = Cardinality(Holders(t)')
             /\ table'[t].slot = 0 <=> table'[t].refs = 0
  <2>1. Cardinality(Holders(t)') = IF t = old THEN table[t].refs - 1 ELSE table[t].refs
    <3>1. None \in Tokens \cup {None} /\ token[d] # None /\ t # None
      BY <1>1, NoneAssumption
    <3> QED BY ZenonT(60), <1>2, <3>1, CountAfterToken
  <2>2. table[t].slot = 0 <=> table[t].refs = 0 BY DEF KeyInv, KeyReferencesExact
  <2> HIDE DEF old
  <2>3. table'[t] = IF t = old THEN Released(table[old], 1) ELSE table[t]
    BY <1>1, <1>2, <1>3
  <2> QED BY <1>5, <2>1, <2>2, <2>3
<1>8. KeyReferencesExact' BY <1>7 DEF KeyReferencesExact
<1> QED BY <1>2, <1>6, <1>8 DEF KeyInv

\* Replacing a key moves one reference from the old token to the new one.
LEMMA ReplaceKeyPreserves ==
  ASSUME KeyInv, NEW d \in Descramblers, NEW t \in Tokens, token[d] # t,
         ReplaceKey(d, t), nextSlot' \in Nat \ {0}
  PROVE  KeyInv' /\ session' = session
<1> DEFINE old == token[d]
           pub == Publish(table, t)
           entry == [slot |-> pub[t].slot, refs |-> pub[t].refs + 1]
           acquired == [pub EXCEPT ![t] = entry]
<1>p. /\ pub \in [Tokens -> Entries] /\ pub[t].slot # 0
      /\ \A u \in Tokens : pub[u].refs = table[u].refs
      /\ \A u \in Tokens \ {t} : pub[u] = table[u]
  BY PublishFacts
<1>a. acquired = Acquire(Publish(table, t), t) BY DEF Acquire
<1>e. entry \in Entries /\ entry.slot # 0 /\ entry.refs = table[t].refs + 1
  BY SMTT(40), <1>p DEF Entries
<1>b. /\ acquired \in [Tokens -> Entries] /\ acquired[t] = entry
      /\ \A u \in Tokens \ {t} : acquired[u] = table[u]
  BY <1>p, <1>e
<1>c. \A u \in Tokens : table[u] \in Entries /\ (table[u].slot = 0 <=> table[u].refs = 0)
  BY DEF KeyInv, KeyTypes, KeyReferencesExact
<1>o. old # None => /\ old \in Tokens /\ old # t
                    /\ table[old].refs # 0 /\ table[old].slot # 0
  BY SMTT(40), HeldIsReleasable DEF Releasable
<1>f. ~ (old # None /\ ~ Releasable(acquired, old))
  BY <1>b, <1>o DEF Releasable
<1> HIDE DEF entry, acquired, pub
<1>1. /\ token' = [token EXCEPT ![d] = t] /\ slot' = [slot EXCEPT ![d] = acquired[t].slot]
      /\ debt' = debt /\ session' = session
      /\ table' = IF old = None THEN acquired ELSE Release(acquired, old)
  BY SMTT(40), <1>a, <1>f DEF ReplaceKey
<1>2. old # None => /\ Released(table[old], 1) \in Entries
                    /\ Released(table[old], 1).refs = table[old].refs - 1
                    /\ (Released(table[old], 1).slot = 0 <=> Released(table[old], 1).refs = 0)
  <2>1. old # None => table[old] \in Entries BY <1>o, <1>c
  <2> QED BY <2>1, <1>o DEF Released, Absent, Entries
<1>3. old # None => Release(acquired, old) = [acquired EXCEPT ![old] = Released(table[old], 1)]
  BY ZenonT(60), <1>b, <1>o DEF Release
<1> HIDE DEF old
<1>4. ASSUME NEW u \in Tokens
      PROVE  table'[u] = IF u = t THEN entry
                         ELSE IF u = old THEN Released(table[old], 1)
                         ELSE table[u]
  BY SMTT(40), <1>1, <1>3, <1>b, <1>o, NoneAssumption
<1>5. table' \in [Tokens -> Entries] BY <1>1, <1>2, <1>3, <1>b, <1>o
<1>6. KeyTypes'
  <2>1. acquired[t].slot \in Nat BY <1>b, <1>e DEF Entries
  <2> QED BY <1>1, <1>5, <2>1 DEF KeyInv, KeyTypes
<1>7. ASSUME NEW u \in Tokens
      PROVE  /\ table'[u].refs = Cardinality(Holders(u)')
             /\ table'[u].slot = 0 <=> table'[u].refs = 0
  <2>1. Cardinality(Holders(u)') =
           IF u = t THEN table[u].refs + 1
           ELSE IF u = old THEN table[u].refs - 1 ELSE table[u].refs
    BY ZenonT(60), <1>1, CountAfterToken DEF old
  <2>2. CASE u = t
    <3>1. table[t].refs \in Nat BY <1>c DEF Entries
    <3> QED BY <2>1, <2>2, <3>1, <1>4, <1>e
  <2>3. CASE u # t /\ u = old BY SMTT(40), <2>1, <2>3, <1>2, <1>4, NoneAssumption
  <2>4. CASE u # t /\ u # old BY SMTT(40), <2>1, <2>4, <1>4, <1>c
  <2> QED BY <2>2, <2>3, <2>4
<1>8. KeyReferencesExact' BY <1>7 DEF KeyReferencesExact
<1> QED BY <1>1, <1>6, <1>8 DEF KeyInv

\* Publishing a resolution that no session takes leaves no trace.
LEMMA DiscardUndoesPublish ==
  ASSUME KeyInv, NEW t \in Tokens
  PROVE  DiscardIfUnreferenced(Publish(table, t), t) = table
<1>1. table \in [Tokens -> Entries] /\ nextSlot \in Nat \ {0} BY DEF KeyInv, KeyTypes
<1>2. table[t].slot = 0 <=> table[t].refs = 0 BY DEF KeyInv, KeyReferencesExact
<1>3. CASE table[t].slot # 0
  BY <1>1, <1>2, <1>3 DEF Publish, DiscardIfUnreferenced
<1>4. CASE table[t].slot = 0
  <2>1. table[t] = Absent BY <1>1, <1>2, <1>4 DEF Absent, Entries
  <2> DEFINE pub == Publish(table, t)
  <2>2. pub = [table EXCEPT ![t] = [slot |-> nextSlot, refs |-> 0]] BY <1>4 DEF Publish
  <2>3. pub[t].refs = 0 BY <1>1, <2>2
  <2>4. DiscardIfUnreferenced(pub, t) = [pub EXCEPT ![t] = Absent]
    BY <2>3 DEF DiscardIfUnreferenced
  <2>5. [pub EXCEPT ![t] = Absent] = table BY ZenonT(60), <1>1, <2>1, <2>2
  <2> QED BY <2>4, <2>5
<1> QED BY <1>3, <1>4

\* The commit of setKeyToken, whatever it finds.
LEMMA CommitKeyPreserves ==
  ASSUME KeyInv, NEW d \in Descramblers, NEW t \in Tokens, CommitKey(d, t)
  PROVE  KeyInv' /\ session' = session
<1>n. nextSlot' \in Nat \ {0}
  BY DEF CommitKey, KeyInv, KeyTypes, keys
<1>1. CASE ~ (object[d] = "Active" /\ BoundLive(d))
  BY <1>1, KeysUnchanged DEF CommitKey
<1>2. CASE object[d] = "Active" /\ BoundLive(d)
  <2>1. CASE session[d].state # "Open"
    <3>1. table' = table /\ session' = session /\ UNCHANGED <<token, slot, debt>>
      BY <1>2, <2>1, DiscardUndoesPublish DEF CommitKey
    <3> QED BY SMTT(40), <1>n, <3>1 DEF KeyInv, KeyTypes, KeyReferencesExact, Holders, Held
  <2>2. CASE session[d].state = "Open" /\ token[d] = t
    <3>1. table[t].slot # 0 BY SMTT(40), <2>2, NoneAssumption, HeldIsReleasable DEF Releasable
    <3>2. table' = table /\ session' = session /\ UNCHANGED <<token, slot, debt>>
      BY SMTT(40), <1>2, <2>2, <3>1 DEF CommitKey, Publish
    <3> QED BY <1>n, <3>2 DEF KeyInv, KeyTypes, KeyReferencesExact, Holders, Held
  <2>3. CASE session[d].state = "Open" /\ token[d] # t
    <3>1. ReplaceKey(d, t) BY <1>2, <2>3 DEF CommitKey
    <3> QED BY SMTT(40), <1>n, <2>3, <3>1, ReplaceKeyPreserves
  <2> QED BY <2>1, <2>2, <2>3
<1> QED BY <1>1, <1>2

\* The cleanup of any set of sessions releases what they hold, all of it.
LEMMA CleanupPreserves ==
  ASSUME KeyInv, NEW D \in SUBSET Descramblers, Cleanup(D)
  PROVE  KeyInv' /\ Clean(D) = D
<1>1. ASSUME NEW t \in Tokens
      PROVE  /\ GivenBack(D, t) \in Nat
             /\ GivenBack(D, t) <= table[t].refs
             /\ Cardinality(Holders(t) \ D) = table[t].refs - GivenBack(D, t)
  <2>1. table[t].refs = Cardinality(Holders(t)) BY DEF KeyInv, KeyReferencesExact
  <2>2. D \cap Holders(t) = Holders(t) \cap D OBVIOUS
  <2>3. /\ Cardinality(Holders(t) \cap D) \in Nat
        /\ Cardinality(Holders(t) \cap D) <= Cardinality(Holders(t))
    BY SMTT(40), HoldersFinite, FS_Subset, FS_CardinalityType
  <2>4. Cardinality(Holders(t) \ D) = Cardinality(Holders(t)) - Cardinality(Holders(t) \cap D)
    BY ZenonT(60), HoldersFinite, FS_Difference
  <2> QED BY SMTT(40), <2>1, <2>2, <2>3, <2>4 DEF GivenBack
<1>2. \A d \in Descramblers : Held(d) \subseteq Tokens
  BY DEF KeyInv, KeyTypes, Held
<1>3. \A d \in Descramblers : Unpaid(D, d) = {}
  <2>1. \A t \in Tokens : ~ (GivenBack(D, t) > table[t].refs)
    <3> TAKE t \in Tokens
    <3> DEFINE k == GivenBack(D, t)
    <3>1. table[t].refs \in Nat BY DEF KeyInv, KeyTypes, Entries
    <3>2. k \in Nat /\ k <= table[t].refs BY ZenonT(60), <1>1
    <3> HIDE DEF k
    <3>3. ~ (k > table[t].refs) BY <3>1, <3>2
    <3> QED BY <3>3 DEF k
  <2> QED BY <1>2, <2>1 DEF Unpaid
<1>4. /\ token' = [d \in Descramblers |-> IF d \in D THEN None ELSE token[d]]
      /\ slot' = [d \in Descramblers |-> IF d \in D THEN 0 ELSE slot[d]]
      /\ debt' = [d \in Descramblers |-> IF d \in D THEN {} ELSE debt[d]]
      /\ nextSlot' = nextSlot
  BY ZenonT(60), <1>3 DEF Cleanup
<1>5. ASSUME NEW t \in Tokens PROVE Holders(t)' = Holders(t) \ D
  <2>1. \A e \in Descramblers : t \in Held(e)' <=> token'[e] = t
    BY <1>4, NoneAssumption DEF KeyInv, KeyTypes, Held
  <2>2. \A e \in Descramblers : t \in Held(e) <=> token[e] = t BY HeldIsToken
  <2>3. \A e \in Descramblers : token'[e] = IF e \in D THEN None ELSE token[e] BY SMTT(40), <1>4
  <2> QED BY SMTT(40), <2>1, <2>2, <2>3, NoneAssumption DEF Holders
<1>6. ASSUME NEW t \in Tokens
      PROVE  /\ table'[t] \in Entries
             /\ table'[t].refs = table[t].refs - GivenBack(D, t)
             /\ table'[t].slot = 0 <=> table'[t].refs = 0
  <2> DEFINE k == GivenBack(D, t)
  <2>1. table[t] \in Entries /\ table[t].refs \in Nat /\ (table[t].slot = 0 <=> table[t].refs = 0)
    BY SMTT(40) DEF KeyInv, KeyTypes, KeyReferencesExact, Entries
  <2>2. table'[t] = IF k \in 1 .. table[t].refs THEN Released(table[t], k) ELSE table[t]
    BY ZenonT(60) DEF Cleanup
  <2>3. k \in Nat /\ k <= table[t].refs BY ZenonT(60), <1>1
  <2> HIDE DEF k
  <2>4. CASE k = 0 BY SMTT(40), <2>1, <2>2, <2>4 DEF k
  <2>5. CASE k # 0
    <3>1. k \in 1 .. table[t].refs BY <2>1, <2>3, <2>5
    <3>2. table'[t] = Released(table[t], k) BY SMTT(40), <2>2, <3>1
    <3>3. /\ Released(table[t], k) \in Entries
          /\ Released(table[t], k).refs = table[t].refs - k
          /\ Released(table[t], k).slot = 0 <=> Released(table[t], k).refs = 0
      BY SMTT(40), <2>1, <2>3, <2>5 DEF Released, Absent, Entries
    <3> QED BY <3>2, <3>3 DEF k
  <2> QED BY <2>4, <2>5
<1>7. KeyTypes'
  <2>1. table' \in [Tokens -> Entries]
    <3>1. table' = [t \in Tokens |-> table'[t]] BY ZenonT(60) DEF Cleanup
    <3> QED BY SMTT(40), <1>6, <3>1
  <2> QED BY SMTT(40), <1>4, <2>1 DEF KeyInv, KeyTypes
<1>8. KeyReferencesExact' BY SMTT(40), <1>1, <1>5, <1>6 DEF KeyReferencesExact
<1>9. \A d \in Descramblers : debt'[d] = {} BY <1>4 DEF KeyInv
<1>10. Clean(D) = D BY <1>3 DEF Clean
<1> QED BY SMTT(40), <1>7, <1>8, <1>9, <1>10 DEF KeyInv

-----------------------------------------------------------------------------
(* Sessions, demuxes and filters, typed. *)

DemuxTypes ==
    [state : {"Absent", "Open", "Quarantined"}, generation : Nat]

FilterTypes ==
    [state : {"Unopened", "Open", "Configured", "Ended"},
     owner : Demuxes \cup {None}, generation : Nat, pid : Pids \cup {None}]

SessionTypes ==
    /\ demux \in [Demuxes -> DemuxTypes]
    /\ filter \in [Filters -> FilterTypes]
    /\ object \in [Descramblers -> {"Unopened", "Active", "Closing", "Gone"}]
    /\ session \in [Descramblers -> Sessions]
    /\ \A d \in Descramblers : session[d].state \in {"Open", "Closed"}
    /\ pending \subseteq Descramblers \X Tokens
    /\ live \subseteq Tokens

IInv == SessionTypes /\ KeyInv

\* A step of a demux or of a filter alone.
LEMMA DemuxSteps ==
  ASSUME IInv, NEW x \in Demuxes,
         RegisterDemux(x) \/ StreamBoundary(x) \/ QuarantineDemux(x)
  PROVE  IInv'
<1>1. \E v \in DemuxTypes : demux' = [demux EXCEPT ![x] = v]
  <2>1. CASE RegisterDemux(x)
    <3>1. [state |-> "Open", generation |-> 1] \in DemuxTypes BY DEF DemuxTypes
    <3> QED BY ZenonT(60), <2>1, <3>1 DEF RegisterDemux
  <2>2. CASE StreamBoundary(x)
    <3> DEFINE v == [demux[x] EXCEPT !.generation = demux[x].generation + 1]
    <3>1. demux[x] \in DemuxTypes BY DEF IInv, SessionTypes
    <3>2. v \in DemuxTypes BY <3>1 DEF DemuxTypes
    <3>3. demux' = [demux EXCEPT ![x] = v] BY <2>2 DEF StreamBoundary
    <3> QED BY ZenonT(60), <3>2, <3>3
  <2>3. CASE QuarantineDemux(x)
    <3> DEFINE v == [demux[x] EXCEPT !.state = "Quarantined"]
    <3>1. demux[x] \in DemuxTypes BY DEF IInv, SessionTypes
    <3>2. v \in DemuxTypes BY <3>1 DEF DemuxTypes
    <3>3. demux' = [demux EXCEPT ![x] = v] BY <2>3 DEF QuarantineDemux
    <3> QED BY ZenonT(60), <3>2, <3>3
  <2> QED BY SMTT(40), <2>1, <2>2, <2>3
<1>2. UNCHANGED <<object, session, keys, pending, live>>
  BY DEF RegisterDemux, StreamBoundary, QuarantineDemux
<1>3. filter' \in [Filters -> FilterTypes]
  <2>1. filter \in [Filters -> FilterTypes] BY DEF IInv, SessionTypes
  <2>2. CASE RegisterDemux(x) \/ StreamBoundary(x)
    BY <2>1, <2>2 DEF RegisterDemux, StreamBoundary
  <2>3. CASE QuarantineDemux(x)
    <3>1. \A f \in Filters : [filter[f] EXCEPT !.state = "Ended"] \in FilterTypes
      BY <2>1 DEF FilterTypes
    <3> QED BY <2>1, <2>3, <3>1 DEF QuarantineDemux
  <2> QED BY <2>2, <2>3
<1>4. KeyInv' BY <1>2, KeysUnchanged DEF IInv
<1>5. SessionTypes' BY SMTT(40), <1>1, <1>2, <1>3 DEF IInv, SessionTypes
<1> QED BY <1>4, <1>5 DEF IInv

\* Opening and closing filters.
LEMMA FilterSteps ==
  ASSUME IInv, NEW f \in Filters,
         \/ \E x \in Demuxes : OpenFilter(f, x)
         \/ \E p \in Pids : ConfigureFilter(f, p)
         \/ CloseFilter(f)
  PROVE  IInv'
<1>0. filter[f] \in FilterTypes BY DEF IInv, SessionTypes
<1>1. \E v \in FilterTypes : filter' = [filter EXCEPT ![f] = v]
  <2>1. ASSUME NEW x \in Demuxes, OpenFilter(f, x)
        PROVE  \E v \in FilterTypes : filter' = [filter EXCEPT ![f] = v]
    <3> DEFINE v == [state |-> "Open", owner |-> x,
                     generation |-> demux[x].generation, pid |-> None]
    <3>1. demux[x].generation \in Nat BY SMTT(40) DEF IInv, SessionTypes, DemuxTypes
    <3>2. v \in FilterTypes BY SMTT(40), <3>1 DEF FilterTypes
    <3>3. filter' = [filter EXCEPT ![f] = v] BY <2>1 DEF OpenFilter
    <3> QED BY ZenonT(60), <3>2, <3>3
  <2>2. ASSUME NEW p \in Pids, ConfigureFilter(f, p)
        PROVE  \E v \in FilterTypes : filter' = [filter EXCEPT ![f] = v]
    <3> DEFINE v == [state |-> "Configured", owner |-> filter[f].owner,
                     generation |-> filter[f].generation + 1, pid |-> p]
    <3>1. v \in FilterTypes BY <1>0 DEF FilterTypes
    <3>2. filter' = [filter EXCEPT ![f] = v] BY <2>2 DEF ConfigureFilter
    <3> QED BY ZenonT(60), <3>1, <3>2
  <2>3. CASE CloseFilter(f)
    <3> DEFINE v == [filter[f] EXCEPT !.state = "Ended"]
    <3>1. v \in FilterTypes BY <1>0 DEF FilterTypes
    <3>2. filter' = [filter EXCEPT ![f] = v] BY <2>3 DEF CloseFilter
    <3> QED BY ZenonT(60), <3>1, <3>2
  <2> QED BY SMTT(40), <2>1, <2>2, <2>3
<1>2. UNCHANGED <<demux, object, session, keys, pending, live>>
  BY DEF OpenFilter, ConfigureFilter, CloseFilter
<1>3. KeyInv' BY <1>2, KeysUnchanged DEF IInv
<1>4. SessionTypes' BY <1>1, <1>2 DEF IInv, SessionTypes
<1> QED BY SMTT(40), <1>3, <1>4 DEF IInv

\* A step that rewrites one session and leaves its state and its key alone.
LEMMA SessionStep ==
  ASSUME IInv, NEW d \in Descramblers, NEW s \in Sessions,
         s.state = session[d].state,
         session' = [session EXCEPT ![d] = s],
         UNCHANGED <<demux, filter, object, keys, pending, live>>
  PROVE  IInv'
<1>1. KeyInv' BY KeysUnchanged DEF IInv
<1>2. SessionTypes' BY DEF IInv, SessionTypes
<1> QED BY <1>1, <1>2 DEF IInv

\* setDemuxSource keeps the invariant.
LEMMA SetDemuxSourcePreserves ==
  ASSUME IInv, NEW d \in Descramblers, NEW x \in Demuxes, SetDemuxSource(d, x)
  PROVE  IInv'
<1>1. session[d] \in Sessions /\ demux[x].generation \in Nat
  BY DEF IInv, SessionTypes, DemuxTypes
<1> DEFINE bound == [session[d] EXCEPT !.source = "Bound", !.demux = x,
                                       !.generation = demux[x].generation]
           consumed == [session[d] EXCEPT !.source = "Consumed"]
<1>2. /\ bound \in Sessions /\ bound.state = session[d].state
      /\ consumed \in Sessions /\ consumed.state = session[d].state
  BY ZenonT(60), <1>1 DEF Sessions
<1>3. session' = [session EXCEPT ![d] = IF demux[x].state = "Open" THEN bound ELSE consumed]
  BY DEF SetDemuxSource
<1> HIDE DEF bound, consumed
<1>4. UNCHANGED <<demux, filter, object, keys, pending, live>> BY DEF SetDemuxSource
<1> QED BY ZenonT(60), <1>2, <1>3, <1>4, SessionStep

Claims == [pid : Pids, filter : Filters \cup {None}, generation : Nat]

\* Adding or removing a claim.
LEMMA ClaimStep ==
  ASSUME IInv, NEW d \in Descramblers, NEW c \in Claims,
         AddPid(d, c) \/ RemovePid(d, c)
  PROVE  IInv'
<1>1. session[d] \in Sessions /\ session[d].claims \subseteq Claims
  BY DEF IInv, SessionTypes, Sessions, Claims
<1>2. ASSUME NEW cs \in SUBSET Claims, session' = [session EXCEPT ![d].claims = cs]
      PROVE  IInv'
  <2> DEFINE s == [session[d] EXCEPT !.claims = cs]
  <2>1. s \in Sessions /\ s.state = session[d].state BY <1>1 DEF Sessions, Claims
  <2>2. session' = [session EXCEPT ![d] = s] BY <1>2
  <2> HIDE DEF s
  <2>3. UNCHANGED <<demux, filter, object, keys, pending, live>> BY DEF AddPid, RemovePid
  <2> QED BY ZenonT(60), <2>1, <2>2, <2>3, SessionStep
<1>3. Claiming(session[d].claims, c) \in SUBSET Claims BY <1>1 DEF Claiming
<1>4. session[d].claims \ {c} \in SUBSET Claims BY <1>1
<1>5. CASE AddPid(d, c) BY ZenonT(60), <1>2, <1>3, <1>5 DEF AddPid
<1>6. CASE RemovePid(d, c) BY ZenonT(60), <1>2, <1>4, <1>6 DEF RemovePid
<1> QED BY <1>5, <1>6

\* addPid and removePid.
LEMMA PidSteps ==
  ASSUME IInv, NEW d \in Descramblers, NEW p \in Pids,
         \/ AddDemuxInput(d, p) \/ RemoveDemuxInput(d, p)
         \/ \E f \in Filters : AddSourceFilter(d, p, f) \/ RemoveSourceFilter(d, p, f)
  PROVE  IInv'
<1>1. DemuxInput(p) \in Claims BY DEF DemuxInput, Claims
<1>2. \A f \in Filters : SourceFilter(p, f) \in Claims
  BY DEF SourceFilter, Claims, IInv, SessionTypes, FilterTypes
<1>3. CASE AddDemuxInput(d, p) \/ RemoveDemuxInput(d, p)
  BY SMTT(40), <1>1, <1>3, ClaimStep DEF AddDemuxInput, RemoveDemuxInput
<1>4. CASE \E f \in Filters : AddSourceFilter(d, p, f) \/ RemoveSourceFilter(d, p, f)
  BY <1>2, <1>4, ClaimStep DEF AddSourceFilter, RemoveSourceFilter
<1> QED BY <1>3, <1>4

\* What the object layer and the CAS do to no key.
LEMMA OuterSteps ==
  ASSUME IInv, \/ \E d \in Descramblers : OpenDescrambler(d) \/ BeginClose(d)
               \/ \E d \in Descramblers, t \in Tokens : ResolveToken(d, t)
               \/ \E t \in Tokens : RevokeToken(t)
  PROVE  IInv'
<1>1. UNCHANGED <<demux, filter, session, keys>>
  BY DEF OpenDescrambler, BeginClose, ResolveToken, RevokeToken
<1>2. KeyInv' BY SMTT(40), <1>1, KeysUnchanged DEF IInv
<1>3. object' \in [Descramblers -> {"Unopened", "Active", "Closing", "Gone"}]
  BY SMTT(40) DEF IInv, SessionTypes, OpenDescrambler, BeginClose, ResolveToken, RevokeToken
<1>4. pending' \subseteq Descramblers \X Tokens
  BY DEF IInv, SessionTypes, OpenDescrambler, BeginClose, ResolveToken, RevokeToken
<1>5. live' \subseteq Tokens
  BY DEF IInv, SessionTypes, OpenDescrambler, BeginClose, ResolveToken, RevokeToken
<1>6. SessionTypes' BY <1>1, <1>3, <1>4, <1>5 DEF IInv, SessionTypes
<1> QED BY SMTT(40), <1>2, <1>6 DEF IInv

\* The steps of setKeyToken.
LEMMA KeySteps ==
  ASSUME IInv, NEW d \in Descramblers,
         ClearKey(d) \/ \E t \in Tokens : CommitKey(d, t)
  PROVE  IInv'
<1>1. KeyInv' /\ session' = session
  BY ClearKeyPreserves, CommitKeyPreserves DEF IInv
<1>2. /\ UNCHANGED <<demux, filter, object, live>>
      /\ pending' \subseteq pending
  BY ZenonT(60) DEF ClearKey, CommitKey
<1>3. SessionTypes' BY <1>1, <1>2 DEF IInv, SessionTypes
<1> QED BY <1>1, <1>3 DEF IInv

\* The sessions a cleanup leaves behind.
LEMMA SessionsAfterCleanup ==
  ASSUME IInv, NEW D \in SUBSET Descramblers, Cleanup(D)
  PROVE  /\ session' \in [Descramblers -> Sessions]
         /\ \A d \in Descramblers : session'[d].state \in {"Open", "Closed"}
<1>1. Clean(D) = D BY SMTT(40), CleanupPreserves DEF IInv
<1>2. session' = [d \in Descramblers |->
                    IF d \in D
                    THEN [session[d] EXCEPT !.state = "Closed", !.demux = None,
                                            !.generation = 0, !.claims = {}]
                    ELSE session[d]]
  BY ZenonT(60), <1>1 DEF Cleanup
<1>3. ASSUME NEW d \in Descramblers
      PROVE  session'[d] \in Sessions /\ session'[d].state \in {"Open", "Closed"}
  <2>1. session[d] \in Sessions /\ session[d].state \in {"Open", "Closed"}
    BY DEF IInv, SessionTypes
  <2> DEFINE s == [session[d] EXCEPT !.state = "Closed", !.demux = None,
                                     !.generation = 0, !.claims = {}]
  <2>2. s \in Sessions /\ s.state = "Closed" BY ZenonT(60), <2>1 DEF Sessions
  <2>3. session'[d] = IF d \in D THEN s ELSE session[d] BY ZenonT(60), <1>2
  <2> HIDE DEF s
  <2> QED BY <2>1, <2>2, <2>3
<1> QED BY ZenonT(60), <1>2, <1>3

\* The cleanup of a descrambler and of a demux.
LEMMA CleanupSteps ==
  ASSUME IInv, \/ \E d \in Descramblers : UnregisterDescrambler(d)
               \/ \E x \in Demuxes : UnregisterDemux(x)
  PROVE  IInv'
<1>1. ASSUME NEW d \in Descramblers, UnregisterDescrambler(d) PROVE IInv'
  <2>1. {d} \in SUBSET Descramblers /\ Cleanup({d}) BY <1>1 DEF UnregisterDescrambler
  <2>2. KeyInv' BY <2>1, CleanupPreserves DEF IInv
  <2>3. /\ session' \in [Descramblers -> Sessions]
        /\ \A e \in Descramblers : session'[e].state \in {"Open", "Closed"}
    BY <2>1, SessionsAfterCleanup
  <2>4. /\ object' \in [Descramblers -> {"Unopened", "Active", "Closing", "Gone"}]
        /\ UNCHANGED <<demux, filter, pending, live>>
    BY <1>1 DEF UnregisterDescrambler, IInv, SessionTypes
  <2>5. SessionTypes' BY <2>3, <2>4 DEF IInv, SessionTypes
  <2> QED BY <2>2, <2>5 DEF IInv
<1>2. ASSUME NEW x \in Demuxes, UnregisterDemux(x) PROVE IInv'
  <2>1. BoundTo(x) \in SUBSET Descramblers /\ Cleanup(BoundTo(x))
    BY <1>2 DEF UnregisterDemux, BoundTo
  <2>2. KeyInv' BY <2>1, CleanupPreserves DEF IInv
  <2>3. /\ session' \in [Descramblers -> Sessions]
        /\ \A e \in Descramblers : session'[e].state \in {"Open", "Closed"}
    BY <2>1, SessionsAfterCleanup
  <2>4. [state |-> "Absent", generation |-> 0] \in DemuxTypes BY SMTT(40) DEF DemuxTypes
  <2>5. /\ demux' \in [Demuxes -> DemuxTypes]
        /\ UNCHANGED <<filter, object, pending, live>>
    BY SMTT(40), <1>2, <2>4 DEF UnregisterDemux, IInv, SessionTypes
  <2>6. SessionTypes' BY SMTT(40), <2>3, <2>5 DEF IInv, SessionTypes
  <2> QED BY SMTT(40), <2>2, <2>6 DEF IInv
<1> QED BY <1>1, <1>2

-----------------------------------------------------------------------------

\* The invariant holds initially.
LEMMA InitEstablishes == Init => IInv
<1> SUFFICES ASSUME Init PROVE IInv OBVIOUS
<1>1. NewSession \in Sessions /\ NewSession.state = "Open" BY DEF NewSession, Sessions
<1>2. Absent \in Entries /\ Absent.slot = 0 /\ Absent.refs = 0 BY DEF Absent, Entries
<1>3. [state |-> "Absent", generation |-> 0] \in DemuxTypes BY DEF DemuxTypes
<1>4. [state |-> "Unopened", owner |-> None, generation |-> 0, pid |-> None] \in FilterTypes
  BY SMTT(40) DEF FilterTypes
<1>5. SessionTypes BY SMTT(40), <1>1, <1>3, <1>4 DEF Init, SessionTypes
<1>6. KeyTypes BY SMTT(40), <1>2 DEF Init, KeyTypes
<1>7. \A t \in Tokens : Holders(t) = {} BY SMTT(40), NoneAssumption DEF Init, Holders, Held
<1>8. KeyReferencesExact
  BY ZenonT(60), <1>2, <1>7, FS_EmptySet DEF Init, KeyReferencesExact
<1> QED BY <1>5, <1>6, <1>8 DEF Init, IInv, KeyInv

\* Every step keeps the invariant.
LEMMA NextPreserves == IInv /\ [Next]_vars => IInv'
<1> SUFFICES ASSUME IInv, [Next]_vars PROVE IInv' OBVIOUS
<1>1. CASE UNCHANGED vars
  <2>1. KeyInv' BY <1>1, KeysUnchanged DEF IInv, vars
  <2> QED BY <1>1, <2>1 DEF IInv, SessionTypes, vars
<1>2. ASSUME NEW x \in Demuxes,
             RegisterDemux(x) \/ StreamBoundary(x) \/ QuarantineDemux(x)
      PROVE  IInv'
  BY <1>2, DemuxSteps
<1>3. ASSUME NEW f \in Filters,
             \/ \E x \in Demuxes : OpenFilter(f, x)
             \/ \E p \in Pids : ConfigureFilter(f, p)
             \/ CloseFilter(f)
      PROVE  IInv'
  BY <1>3, FilterSteps
<1>4. ASSUME NEW d \in Descramblers, NEW x \in Demuxes, SetDemuxSource(d, x)
      PROVE  IInv'
  BY <1>4, SetDemuxSourcePreserves
<1>5. ASSUME NEW d \in Descramblers, NEW p \in Pids,
             \/ AddDemuxInput(d, p) \/ RemoveDemuxInput(d, p)
             \/ \E f \in Filters : AddSourceFilter(d, p, f) \/ RemoveSourceFilter(d, p, f)
      PROVE  IInv'
  BY <1>5, PidSteps
<1>6. ASSUME \/ \E d \in Descramblers : OpenDescrambler(d) \/ BeginClose(d)
             \/ \E d \in Descramblers, t \in Tokens : ResolveToken(d, t)
             \/ \E t \in Tokens : RevokeToken(t)
      PROVE  IInv'
  BY <1>6, OuterSteps
<1>7. ASSUME NEW d \in Descramblers, ClearKey(d) \/ \E t \in Tokens : CommitKey(d, t)
      PROVE  IInv'
  BY SMTT(40), <1>7, KeySteps
<1>8. ASSUME \/ \E d \in Descramblers : UnregisterDescrambler(d)
             \/ \E x \in Demuxes : UnregisterDemux(x)
      PROVE  IInv'
  BY <1>8, CleanupSteps
<1> QED BY SMTT(40), <1>1, <1>2, <1>3, <1>4, <1>5, <1>6, <1>7, <1>8 DEF Next

\* Every state of the descrambler runtime is well typed.
THEOREM TypeCorrect == Spec => []TypeOK
<1>1. IInv => TypeOK
  BY DEF IInv, SessionTypes, KeyInv, KeyTypes, TypeOK, DemuxTypes, FilterTypes, Entries
<1> QED BY <1>1, InitEstablishes, NextPreserves, PTL DEF Spec

\* The key table counts exactly the sessions holding each token, through any
\* interleaving of setKeyToken's two halves with replacements, clears,
\* closes and demux losses (descrambler_key_table.rs, descrambler_session.rs).
THEOREM ReferencesAreExact == Spec => []KeyReferencesExact
<1>1. IInv => KeyReferencesExact BY SMTT(40) DEF IInv, KeyInv
<1> QED BY <1>1, InitEstablishes, NextPreserves, PTL DEF Spec

\* No key release fails, so no session is ever quarantined or left with a
\* cleanup pending by these operations.
THEOREM ReleasesNeverFail == Spec => []NoReleaseOwed
<1>1. IInv => NoReleaseOwed BY DEF IInv, SessionTypes, KeyInv, NoReleaseOwed
<1> QED BY <1>1, InitEstablishes, NextPreserves, PTL DEF Spec
-----------------------------------------------------------------------------
(* Slots, bindings and claims. *)

\* What a session caches of the table, and why no two tokens share a slot:
\* slot ids are given out in order.
SlotInv ==
    /\ \A d \in Descramblers : token[d] # None => slot[d] = table[token[d]].slot
    /\ \A t \in Tokens : table[t].slot < nextSlot
    /\ \A t, u \in Tokens : table[t].slot = table[u].slot /\ table[t].slot # 0 => t = u

\* A session has claims only while it has a binding, a binding only once
\* setDemuxSource has succeeded, and neither when it is closed.
BindingInv ==
    \A d \in Descramblers :
        /\ session[d].source # "Bound" => session[d].demux = None
        /\ session[d].demux = None => session[d].claims = {}
        /\ session[d].state = "Closed" => session[d].demux = None
        /\ object[d] = "Gone" => token[d] = None /\ session[d].state = "Closed"

SoundInv == IInv /\ SlotInv /\ BindingInv /\ PidClaimExclusive

HeldCounted ==
    \A d \in Descramblers : token[d] # None =>
        token[d] \in Tokens /\ table[token[d]].slot # 0 /\ table[token[d]].refs # 0

\* A token somebody holds has a slot.
LEMMA HeldHasSlot == KeyInv => HeldCounted
BY HeldIsReleasable DEF HeldCounted, Releasable

-----------------------------------------------------------------------------
(* Slots. *)

\* A step that gives out no slot: entries stay as they are or go.
LEMMA SlotsKept ==
  ASSUME KeyInv, KeyInv', SlotInv,
         \A t \in Tokens : table'[t].slot \in {0, table[t].slot},
         nextSlot' \in {nextSlot, nextSlot + 1},
         \A e \in Descramblers : \/ token'[e] = None
                                 \/ token'[e] = token[e] /\ slot'[e] = slot[e]
  PROVE  SlotInv'
<1>1. HeldCounted /\ HeldCounted' BY HeldHasSlot, PTL
<1>2. /\ \A t \in Tokens : table[t].slot \in Nat /\ table'[t].slot \in Nat
      /\ nextSlot \in Nat \ {0}
  BY DEF KeyInv, KeyTypes, Entries
<1>3. \A t \in Tokens : table'[t].slot < nextSlot' BY <1>2 DEF SlotInv
<1>4. \A t, u \in Tokens : table'[t].slot = table'[u].slot /\ table'[t].slot # 0 => t = u
  BY DEF SlotInv
<1>5. \A e \in Descramblers : token'[e] # None => slot'[e] = table'[token'[e]].slot
  BY <1>1 DEF SlotInv, HeldCounted
<1> QED BY <1>3, <1>4, <1>5 DEF SlotInv

\* setKeyToken gives the next slot id to a token that had none.
LEMMA ReplaceKeySlots ==
  ASSUME KeyInv, KeyInv', SlotInv, NEW d \in Descramblers, NEW t \in Tokens,
         token[d] # t, ReplaceKey(d, t),
         nextSlot' = IF table[t].slot = 0 THEN nextSlot + 1 ELSE nextSlot
  PROVE  SlotInv'
<1> DEFINE new == IF table[t].slot = 0 THEN nextSlot ELSE table[t].slot
<1>1. HeldCounted /\ HeldCounted' BY HeldHasSlot, PTL
<1>2. /\ \A u \in Tokens : table[u].slot \in Nat /\ table'[u].slot \in Nat
      /\ nextSlot \in Nat \ {0}
      /\ table \in [Tokens -> Entries] /\ slot \in [Descramblers -> Nat]
      /\ token \in [Descramblers -> Tokens \cup {None}]
  BY DEF KeyInv, KeyTypes, Entries
<1> DEFINE acq == Acquire(Publish(table, t), t)
<1>3. /\ acq \in [Tokens -> Entries] /\ acq[t].slot = new
      /\ \A u \in Tokens \ {t} : acq[u] = table[u]
  <2>1. Publish(table, t) \in [Tokens -> Entries] /\ Publish(table, t)[t].slot = new
        /\ \A u \in Tokens \ {t} : Publish(table, t)[u] = table[u]
    BY <1>2, PublishFacts DEF Publish
  <2> DEFINE p == Publish(table, t)
             e == [slot |-> p[t].slot, refs |-> p[t].refs + 1]
  <2>2. e \in Entries /\ e.slot = new BY <2>1 DEF Entries
  <2>3. acq = [p EXCEPT ![t] = e] BY DEF Acquire
  <2> HIDE DEF e, p, new, acq
  <2>4. p \in [Tokens -> Entries] /\ \A u \in Tokens \ {t} : p[u] = table[u] BY <2>1 DEF p
  <2> QED BY <2>2, <2>3, <2>4
<1> HIDE DEF acq
<1>4. /\ token' = [token EXCEPT ![d] = t] /\ slot' = [slot EXCEPT ![d] = acq[t].slot]
      /\ table' = acq \/ table' = Release(acq, token[d])
  BY DEF ReplaceKey, acq
<1>5. table'[t].slot = new /\ \A u \in Tokens \ {t} : table'[u].slot \in {0, table[u].slot}
  <2>1. CASE table' = acq BY <1>3, <2>1
  <2>2. CASE table' = Release(acq, token[d]) /\ token[d] # None
    <3>1. token[d] \in Tokens \ {t} BY <2>2, <1>2
    <3>2. Release(acq, token[d]) = [acq EXCEPT ![token[d]] = Released(acq[token[d]], 1)]
      BY DEF Release
    <3>3. Released(acq[token[d]], 1).slot \in {0, acq[token[d]].slot}
      BY DEF Released, Absent
    <3> QED BY <1>3, <2>2, <3>1, <3>2, <3>3
  <2>3. CASE token[d] = None
    BY <2>3, <2>1 DEF ReplaceKey, acq
  <2> QED BY <1>4, <2>1, <2>2, <2>3
<1>6. new \in Nat /\ new # 0 /\ new < nextSlot' /\ (table[t].slot # 0 => new = table[t].slot)
      /\ \A u \in Tokens \ {t} : table[u].slot # new
  BY <1>2 DEF SlotInv
<1>7. nextSlot' \in Nat /\ nextSlot <= nextSlot' BY <1>2
<1> HIDE DEF new
<1>8. \A u \in Tokens : table'[u].slot < nextSlot'
  <2>1. \A u \in Tokens : table[u].slot < nextSlot BY DEF SlotInv
  <2> QED BY <1>2, <1>5, <1>6, <1>7, <2>1
<1>9. \A u, v \in Tokens : table'[u].slot = table'[v].slot /\ table'[u].slot # 0 => u = v
  <2>1. \A u, v \in Tokens : table[u].slot = table[v].slot /\ table[u].slot # 0 => u = v
    BY DEF SlotInv
  <2> QED BY <1>5, <1>6, <2>1
<1>10. ASSUME NEW e \in Descramblers, token'[e] # None
       PROVE  slot'[e] = table'[token'[e]].slot
  <2>1. CASE e = d BY <1>2, <1>3, <1>4, <1>5, <2>1
  <2>2. CASE e # d
    <3>1. token'[e] = token[e] /\ slot'[e] = slot[e] BY <1>2, <1>4, <2>2
    <3>2. token[e] \in Tokens /\ table'[token[e]].slot # 0 /\ table[token[e]].slot # 0
      BY <1>1, <1>10, <3>1 DEF HeldCounted
    <3>3. slot[e] = table[token[e]].slot BY <1>10, <3>1 DEF SlotInv
    <3> QED BY ZenonT(30), <1>5, <1>6, <3>1, <3>2, <3>3
  <2> QED BY <2>1, <2>2
<1> QED BY <1>8, <1>9, <1>10 DEF SlotInv

\* A committed key takes a new slot or one its token already has.
LEMMA CommitKeySlots ==
  ASSUME KeyInv, SlotInv, NEW d \in Descramblers, NEW t \in Tokens, CommitKey(d, t)
  PROVE  SlotInv'
<1>1. KeyInv' BY CommitKeyPreserves
<1>2. CASE ~ (object[d] = "Active" /\ BoundLive(d))
  BY <1>2 DEF CommitKey, SlotInv, keys
<1>3. CASE object[d] = "Active" /\ BoundLive(d)
  <2>1. nextSlot' = IF table[t].slot = 0 THEN nextSlot + 1 ELSE nextSlot BY <1>3 DEF CommitKey
  <2>2. CASE session[d].state # "Open"
    <3>1. table' = table /\ UNCHANGED <<token, slot>>
      BY <1>3, <2>2, DiscardUndoesPublish DEF CommitKey
    <3> QED BY <1>1, <2>1, <3>1, SlotsKept
  <2>3. CASE session[d].state = "Open" /\ token[d] = t
    <3>1. table[t].slot # 0 BY <2>3, NoneAssumption, HeldHasSlot DEF HeldCounted
    <3>2. table' = table /\ UNCHANGED <<token, slot>>
      BY <1>3, <2>3, <3>1 DEF CommitKey, Publish
    <3> QED BY <1>1, <2>1, <3>2, SlotsKept
  <2>4. CASE session[d].state = "Open" /\ token[d] # t
    <3>1. ReplaceKey(d, t) BY <1>3, <2>4 DEF CommitKey
    <3> QED BY <1>1, <2>1, <2>4, <3>1, ReplaceKeySlots
  <2> QED BY <2>2, <2>3, <2>4
<1> QED BY <1>2, <1>3

\* Clearing a key gives up a reference, never a slot of another token.
LEMMA ClearKeySlots ==
  ASSUME KeyInv, SlotInv, NEW d \in Descramblers, ClearKey(d)
  PROVE  SlotInv'
<1>1. KeyInv' BY ClearKeyPreserves
<1>2. token[d] \in Tokens BY HeldIsReleasable DEF ClearKey
<1>3. /\ token' = [token EXCEPT ![d] = None] /\ slot' = [slot EXCEPT ![d] = 0]
      /\ table' \in {table, [table EXCEPT ![token[d]] = Released(table[token[d]], 1)]}
      /\ nextSlot' = nextSlot
  BY DEF ClearKey, Release
<1>4. Released(table[token[d]], 1).slot \in {0, table[token[d]].slot} BY DEF Released, Absent
<1>5. \A t \in Tokens : table'[t].slot \in {0, table[t].slot}
  BY <1>2, <1>3, <1>4 DEF KeyInv, KeyTypes
<1>6. \A e \in Descramblers : \/ token'[e] = None
                              \/ token'[e] = token[e] /\ slot'[e] = slot[e]
  BY <1>3 DEF KeyInv, KeyTypes
<1> QED BY <1>1, <1>3, <1>5, <1>6, SlotsKept

\* What the cleanup of D does to the sessions, now that every release succeeds.
LEMMA CleanupEffect ==
  ASSUME IInv, NEW D \in SUBSET Descramblers, Cleanup(D)
  PROVE  /\ \A e \in D : /\ token'[e] = None
                         /\ session'[e].state = "Closed" /\ session'[e].demux = None
                         /\ session'[e].claims = {}
         /\ \A e \in Descramblers \ D :
               token'[e] = token[e] /\ slot'[e] = slot[e] /\ session'[e] = session[e]
         /\ \A t \in Tokens : table'[t].slot \in {0, table[t].slot}
         /\ nextSlot' = nextSlot
<1>1. Clean(D) = D BY CleanupPreserves DEF IInv
<1>2. \A e \in D : Unpaid(D, e) = {} BY <1>1 DEF Clean
<1>3. /\ token' = [d \in Descramblers |->
                    IF d \in D /\ token[d] \notin Unpaid(D, d) THEN None ELSE token[d]]
      /\ slot' = [d \in Descramblers |->
                    IF d \in D /\ token[d] \notin Unpaid(D, d) THEN 0 ELSE slot[d]]
      /\ session' = [d \in Descramblers |->
                    IF d \in D
                    THEN [session[d] EXCEPT !.state = "Closed", !.demux = None,
                                            !.generation = 0, !.claims = {}]
                    ELSE session[d]]
      /\ nextSlot' = nextSlot
  BY ZenonT(60), <1>1 DEF Cleanup
<1>4. \A t \in Tokens : table'[t].slot \in {0, table[t].slot}
  <2>1. \A t \in Tokens : table'[t] \in {table[t], Released(table[t], GivenBack(D, t))}
    BY ZenonT(30) DEF Cleanup
  <2>2. \A t \in Tokens : Released(table[t], GivenBack(D, t)).slot \in {0, table[t].slot}
    BY DEF Released, Absent
  <2> QED BY <2>1, <2>2
<1>5. ASSUME NEW e \in D
      PROVE  session'[e].state = "Closed" /\ session'[e].demux = None /\ session'[e].claims = {}
  <2>1. session[e] \in Sessions BY DEF IInv, SessionTypes
  <2> QED BY ZenonT(30), <1>3, <2>1 DEF Sessions
<1>6. \A e \in D : token'[e] = None BY ZenonT(30), <1>2, <1>3
<1>7. \A e \in Descramblers \ D :
        token'[e] = token[e] /\ slot'[e] = slot[e] /\ session'[e] = session[e]
  BY ZenonT(30), <1>3
<1> QED BY ZenonT(30), <1>3, <1>4, <1>5, <1>6, <1>7

-----------------------------------------------------------------------------
(* Bindings and claims. *)

\* A step that rewrites one session.
LEMMA BindingStep ==
  ASSUME BindingInv, PidClaimExclusive, session \in [Descramblers -> Sessions],
         NEW d \in Descramblers, NEW s,
         session' = [session EXCEPT ![d] = s],
         UNCHANGED <<object, token>>,
         object[d] # "Gone",
         s.source # "Bound" => s.demux = None,
         s.demux = None => s.claims = {},
         s.state = "Closed" => s.demux = None,
         \A e \in Descramblers \ {d} : \A c \in s.claims, b \in session[e].claims :
            session[e].demux = s.demux /\ session[e].generation = s.generation => c.pid # b.pid
  PROVE  BindingInv' /\ PidClaimExclusive'
<1>1. \A e \in Descramblers : session'[e] = IF e = d THEN s ELSE session[e] OBVIOUS
<1>2. BindingInv' BY <1>1 DEF BindingInv
<1>3. PidClaimExclusive' BY <1>1 DEF PidClaimExclusive, HoldsBinding, BindingInv
<1> QED BY <1>2, <1>3

\* A step that changes no session.
LEMMA BindingKept ==
  ASSUME BindingInv, PidClaimExclusive, session' = session,
         \A d \in Descramblers : object'[d] = "Gone" => object[d] = "Gone",
         \A d \in Descramblers : object[d] = "Gone" => token'[d] = token[d]
  PROVE  BindingInv' /\ PidClaimExclusive'
BY DEF BindingInv, PidClaimExclusive, HoldsBinding

\* setDemuxSource binds only what is neither bound nor closed.
LEMMA SetDemuxSourceBinding ==
  ASSUME SoundInv, NEW d \in Descramblers, NEW x \in Demuxes, SetDemuxSource(d, x)
  PROVE  BindingInv' /\ PidClaimExclusive'
<1>1. /\ session \in [Descramblers -> Sessions] /\ session[d] \in Sessions
      /\ BindingInv /\ PidClaimExclusive
  BY DEF SoundInv, IInv, SessionTypes
<1>2. PICK s : /\ session' = [session EXCEPT ![d] = s]
               /\ s.claims = session[d].claims /\ s.state = session[d].state
               /\ (s.source = "Bound" /\ s.demux = x) \/ s.demux = session[d].demux
  <2> DEFINE bound == [session[d] EXCEPT !.source = "Bound", !.demux = x,
                                         !.generation = demux[x].generation]
             consumed == [session[d] EXCEPT !.source = "Consumed"]
  <2>1. /\ bound.claims = session[d].claims /\ bound.state = session[d].state
        /\ bound.source = "Bound" /\ bound.demux = x
        /\ consumed.claims = session[d].claims /\ consumed.state = session[d].state
        /\ consumed.demux = session[d].demux
    BY <1>1 DEF Sessions
  <2>2. session' = [session EXCEPT ![d] = IF demux[x].state = "Open" THEN bound ELSE consumed]
    BY DEF SetDemuxSource
  <2> HIDE DEF bound, consumed
  <2> QED BY ZenonT(30), <2>1, <2>2
<1>3. /\ UNCHANGED <<object, token>> /\ object[d] # "Gone" /\ session[d].state # "Closed"
      /\ session[d].source = "NeverCalled"
  BY DEF SetDemuxSource, keys
<1>4. session[d].demux = None /\ session[d].claims = {} BY <1>1, <1>3 DEF BindingInv
<1>5. /\ s.source # "Bound" => s.demux = None
      /\ s.claims = {} /\ s.state # "Closed"
  BY <1>2, <1>3, <1>4
<1> QED BY ZenonT(30), <1>1, <1>2, <1>3, <1>5, BindingStep

\* A claim is made only by a bound session, of a free PID.
LEMMA ClaimBinding ==
  ASSUME SoundInv, NEW d \in Descramblers, NEW c, AddPid(d, c) \/ RemovePid(d, c)
  PROVE  BindingInv' /\ PidClaimExclusive'
<1>1. /\ session \in [Descramblers -> Sessions] /\ session[d] \in Sessions
      /\ BindingInv /\ PidClaimExclusive
  BY DEF SoundInv, IInv, SessionTypes
<1>2. /\ UNCHANGED <<object, token>> /\ object[d] # "Gone" /\ session[d].demux # None
      /\ session[d].state = "Open"
  BY DEF AddPid, RemovePid, MayUse, BoundLive, keys
<1>3. \A e \in Descramblers \ {d} : \A b \in session[e].claims :
         session[e].demux = session[d].demux /\ session[e].generation = session[d].generation
         => HoldsBinding(e, session[d].demux, session[d].generation)
  BY <1>1, <1>2 DEF HoldsBinding, BindingInv
<1>4. PICK cs : /\ session' = [session EXCEPT ![d].claims = cs]
                /\ \A e \in Descramblers \ {d} : \A a \in cs, b \in session[e].claims :
                      HoldsBinding(e, session[d].demux, session[d].generation) => a.pid # b.pid
  <2>1. \A e \in Descramblers \ {d} : \A a \in session[d].claims, b \in session[e].claims :
           HoldsBinding(e, session[d].demux, session[d].generation) => a.pid # b.pid
    BY <1>1, <1>2 DEF PidClaimExclusive
  <2>2. CASE AddPid(d, c)
    <3>1. \A a \in Claiming(session[d].claims, c) : a \in session[d].claims \/ a = c
      BY DEF Claiming
    <3>2. \A e \in Descramblers \ {d} : \A b \in session[e].claims :
             HoldsBinding(e, session[d].demux, session[d].generation) => c.pid # b.pid
      BY <2>2 DEF AddPid, ClaimedByOther
    <3>3. session' = [session EXCEPT ![d].claims = Claiming(session[d].claims, c)]
      BY <2>2 DEF AddPid
    <3> DEFINE cs == Claiming(session[d].claims, c)
    <3> HIDE DEF cs
    <3>4. \A a \in cs : a \in session[d].claims \/ a = c BY <3>1 DEF cs
    <3>5. session' = [session EXCEPT ![d].claims = cs] BY <3>3 DEF cs
    <3>6. \A e \in Descramblers \ {d} : \A a \in cs, b \in session[e].claims :
             HoldsBinding(e, session[d].demux, session[d].generation) => a.pid # b.pid
      BY <2>1, <3>2, <3>4
    <3> QED BY ZenonT(30), <3>5, <3>6
  <2>3. CASE RemovePid(d, c)
    <3>1. session' = [session EXCEPT ![d].claims = session[d].claims \ {c}]
      BY <2>3 DEF RemovePid
    <3> DEFINE cs == session[d].claims \ {c}
    <3>2. \A a \in cs : a \in session[d].claims OBVIOUS
    <3> HIDE DEF cs
    <3>3. session' = [session EXCEPT ![d].claims = cs] BY <3>1 DEF cs
    <3> QED BY ZenonT(30), <2>1, <3>2, <3>3
  <2> QED BY <2>2, <2>3
<1>5. PICK s : /\ session' = [session EXCEPT ![d] = s]
               /\ s.claims = cs /\ s.state = "Open" /\ s.source = session[d].source
               /\ s.demux = session[d].demux /\ s.generation = session[d].generation
  <2> DEFINE s == [session[d] EXCEPT !.claims = cs]
  <2>1. /\ s.claims = cs /\ s.state = "Open" /\ s.source = session[d].source
        /\ s.demux = session[d].demux /\ s.generation = session[d].generation
    BY <1>1, <1>2 DEF Sessions
  <2>2. session' = [session EXCEPT ![d] = s] BY <1>4
  <2> HIDE DEF s
  <2> QED BY ZenonT(30), <2>1, <2>2
<1>6. s.source # "Bound" => s.demux = None BY <1>1, <1>5 DEF BindingInv
<1>7. \A e \in Descramblers \ {d} : \A a \in s.claims, b \in session[e].claims :
         session[e].demux = s.demux /\ session[e].generation = s.generation => a.pid # b.pid
  BY <1>3, <1>4, <1>5
<1>8. s.demux # None /\ s.state # "Closed" BY <1>2, <1>5
<1> QED BY ZenonT(30), <1>1, <1>2, <1>5, <1>6, <1>7, <1>8, BindingStep
-----------------------------------------------------------------------------

\* The invariant holds initially.
LEMMA SoundInit == Init => SoundInv
<1> SUFFICES ASSUME Init PROVE SoundInv OBVIOUS
<1>1. IInv BY InitEstablishes
<1>2. SlotInv BY DEF Init, SlotInv, Absent
<1>3. BindingInv /\ PidClaimExclusive
  BY DEF Init, BindingInv, PidClaimExclusive, NewSession
<1> QED BY <1>1, <1>2, <1>3 DEF SoundInv

\* The cleanup of D, whose objects go with it or stay.
LEMMA CleanupSound ==
  ASSUME SoundInv, IInv', NEW D \in SUBSET Descramblers, Cleanup(D),
         \A e \in Descramblers \ D : object'[e] = object[e]
  PROVE  SlotInv' /\ BindingInv' /\ PidClaimExclusive'
<1>1. IInv /\ KeyInv /\ SlotInv /\ BindingInv /\ PidClaimExclusive BY DEF SoundInv, IInv
<1>2. /\ \A e \in D : /\ token'[e] = None
                      /\ session'[e].state = "Closed" /\ session'[e].demux = None
                      /\ session'[e].claims = {}
      /\ \A e \in Descramblers \ D :
            token'[e] = token[e] /\ slot'[e] = slot[e] /\ session'[e] = session[e]
      /\ \A t \in Tokens : table'[t].slot \in {0, table[t].slot}
      /\ nextSlot' = nextSlot
  BY <1>1, CleanupEffect
<1>3. KeyInv' BY DEF IInv
<1>4. SlotInv' BY <1>1, <1>2, <1>3, SlotsKept
<1>5. BindingInv' BY <1>1, <1>2 DEF BindingInv
<1>6. PidClaimExclusive' BY <1>1, <1>2 DEF PidClaimExclusive, HoldsBinding
<1> QED BY <1>4, <1>5, <1>6

\* Every step keeps the invariant.
LEMMA SoundNext == SoundInv /\ [Next]_vars => SoundInv'
<1> SUFFICES ASSUME SoundInv, [Next]_vars PROVE SoundInv' OBVIOUS
<1>0. IInv' BY NextPreserves DEF SoundInv
<1>i. IInv /\ KeyInv /\ SlotInv /\ BindingInv /\ PidClaimExclusive BY DEF SoundInv, IInv
<1> SUFFICES SlotInv' /\ BindingInv' /\ PidClaimExclusive' BY <1>0 DEF SoundInv
<1>1. ASSUME UNCHANGED keys PROVE SlotInv' BY <1>1, <1>i DEF SlotInv, keys
<1>2. CASE \/ UNCHANGED vars
           \/ \E x \in Demuxes : \/ RegisterDemux(x) \/ StreamBoundary(x) \/ QuarantineDemux(x)
                               \/ \E f \in Filters : OpenFilter(f, x)
           \/ \E f \in Filters : CloseFilter(f) \/ \E p \in Pids : ConfigureFilter(f, p)
           \/ \E d \in Descramblers, t \in Tokens : ResolveToken(d, t)
           \/ \E t \in Tokens : RevokeToken(t)
  <2>1. UNCHANGED <<object, session, keys>>
    BY <1>2 DEF vars, RegisterDemux, StreamBoundary, QuarantineDemux, OpenFilter, CloseFilter,
                ConfigureFilter, ResolveToken, RevokeToken
  <2> QED BY <1>1, <1>i, <2>1, BindingKept DEF keys
<1>3. CASE \E d \in Descramblers : OpenDescrambler(d) \/ BeginClose(d)
  <2>1. UNCHANGED <<session, keys>> BY <1>3 DEF OpenDescrambler, BeginClose
  <2>2. \A d \in Descramblers : object'[d] = "Gone" => object[d] = "Gone"
    BY <1>3, <1>i DEF OpenDescrambler, BeginClose, IInv, SessionTypes
  <2> QED BY <1>1, <1>i, <2>1, <2>2, BindingKept DEF keys
<1>4. ASSUME NEW d \in Descramblers, NEW x \in Demuxes, SetDemuxSource(d, x)
      PROVE  SlotInv' /\ BindingInv' /\ PidClaimExclusive'
  BY ZenonT(30), <1>1, <1>4, SetDemuxSourceBinding DEF SetDemuxSource
<1>5. ASSUME NEW d \in Descramblers, NEW c, AddPid(d, c) \/ RemovePid(d, c)
      PROVE  SlotInv' /\ BindingInv' /\ PidClaimExclusive'
  BY <1>1, <1>5, ClaimBinding DEF AddPid, RemovePid
<1>6. ASSUME NEW d \in Descramblers, NEW p \in Pids,
             \/ AddDemuxInput(d, p) \/ RemoveDemuxInput(d, p)
             \/ \E f \in Filters : AddSourceFilter(d, p, f) \/ RemoveSourceFilter(d, p, f)
      PROVE  SlotInv' /\ BindingInv' /\ PidClaimExclusive'
  BY <1>5, <1>6 DEF AddDemuxInput, RemoveDemuxInput, AddSourceFilter, RemoveSourceFilter
<1>7. ASSUME NEW d \in Descramblers, ClearKey(d) \/ \E t \in Tokens : CommitKey(d, t)
      PROVE  SlotInv' /\ BindingInv' /\ PidClaimExclusive'
  <2>1. SlotInv' BY <1>7, <1>i, ClearKeySlots, CommitKeySlots
  <2>2. session' = session BY <1>7, <1>i, ClearKeyPreserves, CommitKeyPreserves
  <2>3. object' = object BY ZenonT(30), <1>7 DEF ClearKey, CommitKey
  <2>4. \A e \in Descramblers : object[e] = "Gone" => token'[e] = token[e]
    <3>1. CASE ClearKey(d) BY <1>i, <3>1 DEF ClearKey, KeyInv, KeyTypes
    <3>2. ASSUME NEW t \in Tokens, CommitKey(d, t)
          PROVE  \A e \in Descramblers : object[e] = "Gone" => token'[e] = token[e]
      BY <1>i, <3>2 DEF CommitKey, ReplaceKey, KeyInv, KeyTypes, keys
    <3> QED BY <1>7, <3>1, <3>2
  <2> QED BY <1>i, <2>1, <2>2, <2>3, <2>4, BindingKept
<1>8. ASSUME NEW d \in Descramblers, UnregisterDescrambler(d)
      PROVE  SlotInv' /\ BindingInv' /\ PidClaimExclusive'
  <2>1. {d} \in SUBSET Descramblers /\ Cleanup({d}) BY <1>8 DEF UnregisterDescrambler
  <2>2. \A e \in Descramblers \ {d} : object'[e] = object[e]
    BY <1>8, <1>i DEF UnregisterDescrambler, IInv, SessionTypes
  <2> QED BY <1>0, <2>1, <2>2, CleanupSound
<1>9. ASSUME NEW x \in Demuxes, UnregisterDemux(x)
      PROVE  SlotInv' /\ BindingInv' /\ PidClaimExclusive'
  <2>1. BoundTo(x) \in SUBSET Descramblers /\ Cleanup(BoundTo(x)) /\ object' = object
    BY <1>9 DEF UnregisterDemux, BoundTo
  <2> QED BY <1>0, <2>1, CleanupSound
<1> QED BY ZenonT(30), <1>2, <1>3, <1>4, <1>6, <1>7, <1>8, <1>9 DEF Next

\* The slot a session caches is the table's slot for its token and for no
\* other, and a descrambler that is gone holds nothing.
THEOREM SessionsSound == Spec => []SessionStateSound
<1>1. SoundInv => SessionStateSound
  <2> SUFFICES ASSUME SoundInv PROVE HeldSlotResolves /\ GoneHoldsNothing
    BY DEF SessionStateSound
  <2>1. HeldSlotResolves
    BY HeldHasSlot DEF SoundInv, IInv, SlotInv, HeldCounted, HeldSlotResolves
  <2>2. GoneHoldsNothing
    BY DEF SoundInv, IInv, KeyInv, BindingInv, Held, GoneHoldsNothing
  <2> QED BY <2>1, <2>2
<1> QED BY <1>1, SoundInit, SoundNext, PTL DEF Spec

\* A packet is decided by one session of its demux's current generation, with
\* a key the table counts; the claims that decide it exclude each other.
THEOREM PacketsHaveOneSession == Spec => []OneSessionPerPacket
<1>1. SoundInv => OneSessionPerPacket
  <2> SUFFICES ASSUME SoundInv PROVE OneDecider BY DEF SoundInv, OneSessionPerPacket
  <2>1. ASSUME NEW x \in Demuxes, NEW pk \in Packets,
               Flow(x, pk) \in {"Descrambled", "Drop"}
        PROVE  \E d \in Descramblers :
                  Targets(x, pk.pid) = {d} /\ table[token[d]].refs > 0
    <3>1. PICK d \in Targets(x, pk.pid) : Keyed(d) BY <2>1 DEF Flow
    <3>2. d \in Descramblers BY DEF Targets
    <3>3. \A e \in Targets(x, pk.pid) : e = d
      <4>1. \A e \in Targets(x, pk.pid) :
              /\ e \in Descramblers /\ HoldsBinding(e, x, demux[x].generation)
              /\ \E c \in session[e].claims : c.pid = pk.pid
        BY DEF Targets, HoldsBinding
      <4>2. x # None BY NoneAssumption
      <4> QED BY <4>1, <4>2 DEF SoundInv, PidClaimExclusive, HoldsBinding
    <3>4. table[token[d]].refs > 0
      <4>1. token[d] # None /\ token[d] \in Tokens
        BY <3>1, NoneAssumption DEF Keyed, SoundInv, IInv, SessionTypes
      <4>2. table[token[d]].refs # 0 BY <3>2, <4>1, HeldHasSlot DEF SoundInv, IInv, HeldCounted
      <4>3. table[token[d]].refs \in Nat BY <4>1 DEF SoundInv, IInv, KeyInv, KeyTypes, Entries
      <4> QED BY <4>2, <4>3
    <3> QED BY <3>1, <3>2, <3>3, <3>4
  <2> QED BY <2>1 DEF OneDecider
<1> QED BY <1>1, SoundInit, SoundNext, PTL DEF Spec
=============================================================================
