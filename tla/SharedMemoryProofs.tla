-------------------------- MODULE SharedMemoryProofs -------------------------
(***************************************************************************)
(* Memory that processes share.  The key slot (KeySlot), which the CAS     *)
(* process writes and the Tuner HAL reads without a lock, is an atomic     *)
(* register for any number of words, keys, readers, attempts and any (odd) *)
(* maximal sequence number.  The media memory of a demux (SharedAv), which *)
(* the HAL lends to its client, is budgeted exactly and stays allocated    *)
(* while the client has it, for every set of filters and every limit.      *)
(***************************************************************************)
EXTENDS KeySlot, SharedAv, TLAPS, FiniteSetTheorems, WellFoundedInduction

---------------------------------------------------------------------------
(* Minima and sums over finite sets.                                       *)

\* The least element of a set of naturals is one of its elements.
LEMMA MinIsIn == ASSUME NEW S \in SUBSET Nat, S # {} PROVE Min(S) \in S
<1> DEFINE R == OpToRel(<, Nat)
<1>1. IsWellFoundedOn(R, Nat) BY ZenonT(30), NatLessThanWellFounded
<1>2. \A m, n \in Nat : <<m, n>> \in R <=> m < n BY Zenon DEF OpToRel
<1> HIDE DEF R
<1>3. PICK x \in S : \A y \in S : <<y, x>> \notin R BY ZenonT(30), <1>1, WFMin
<1>4. \A y \in S : ~(y < x) BY ZenonT(30), <1>2, <1>3
<1>5. \A y \in S : x <= y BY <1>4
<1> QED BY ZenonT(30), <1>3, <1>5 DEF Min

\* Induction over the naturals, for a set.
LEMMA NatSetInduction ==
    ASSUME NEW T \in SUBSET Nat, 0 \in T, \A n \in T : n + 1 \in T
    PROVE  T = Nat
<1> SUFFICES ASSUME T # Nat PROVE FALSE BY Zenon
<1> DEFINE R == OpToRel(<, Nat)
           bad == Nat \ T
<1>1. bad # {} /\ bad \subseteq Nat BY ZenonT(30)
<1>2. IsWellFoundedOn(R, Nat) BY ZenonT(30), NatLessThanWellFounded
<1> HIDE DEF R, bad
<1>3. PICK n \in bad : \A m \in bad : <<m, n>> \notin R BY ZenonT(30), <1>1, <1>2, WFMin
<1>4. n \in Nat /\ n # 0 /\ n - 1 \in Nat /\ n \notin T BY <1>3 DEF bad
<1>5. <<n - 1, n>> \in R BY <1>4 DEF R, OpToRel
<1>6. n - 1 \in T BY Zenon, <1>3, <1>4, <1>5 DEF bad
<1>7. (n - 1) + 1 = n BY <1>4
<1> QED BY Zenon, <1>4, <1>6, <1>7

\* Induction over the subsets of a finite set, for a set of them.
LEMMA SubsetInduction ==
    ASSUME NEW D, IsFiniteSet(D), NEW T \in SUBSET (SUBSET D), {} \in T,
           \A s \in SUBSET D : s # {} /\ (\A x \in s : s \ {x} \in T) => s \in T
    PROVE  T = SUBSET D
<1> SUFFICES ASSUME T # SUBSET D PROVE FALSE BY Zenon
<1> DEFINE R == StrictSubsetOrdering(D)
           bad == (SUBSET D) \ T
<1>1. bad # {} BY Zenon
<1>2. \A s \in SUBSET D : IsFiniteSet(s) BY Zenon, FS_Subset
<1>3. bad \subseteq FiniteSubsetsOf(D) BY Zenon, <1>2 DEF FiniteSubsetsOf
<1>4. IsWellFoundedOn(R, FiniteSubsetsOf(D)) BY Zenon, FS_StrictSubsetOrderingWellFounded
<1> HIDE DEF R, bad
<1>5. PICK s \in bad : \A u \in bad : <<u, s>> \notin R BY <1>1, <1>3, <1>4, WFMin
<1>6. s \in SUBSET D /\ s \notin T BY Zenon, <1>5 DEF bad
<1>7. \A x \in s : <<s \ {x}, s>> \in R BY <1>6 DEF R, StrictSubsetOrdering
<1>8. \A x \in s : s \ {x} \in T BY ZenonT(30), <1>5, <1>6, <1>7 DEF bad
<1> QED BY ZenonT(30), <1>6, <1>8

Pick(s) == CHOOSE x \in s : TRUE

\* g gives the sum of h over every set of dom.
IsSum(h, g, dom) ==
    g = [s \in dom |-> IF s = {} THEN 0
                       ELSE h[CHOOSE x \in s : TRUE] + g[s \ {CHOOSE x \in s : TRUE}]]

Sums(D, h) == CHOOSE g : IsSum(h, g, SUBSET D)

\* The sum of the community module, as a value of Sums.
LEMMA SumIsSums == ASSUME NEW D, NEW h PROVE SumFunctionOnSet(h, D) = Sums(D, h)[D]
BY Zenon DEF SumFunctionOnSet, FoldFunctionOnSet, MapThenFoldSet, Sums, IsSum

\* The recursive function Sums exists, and obeys its equation.
LEMMA SumsExist ==
    ASSUME NEW D, IsFiniteSet(D), NEW h \in [D -> Nat]
    PROVE  \E g : IsSum(h, g, SUBSET D) /\ g \in [SUBSET D -> Nat]
<1> DEFINE Upto(n) == {s \in SUBSET D : Cardinality(s) <= n}
           T == {n \in Nat : \E g : IsSum(h, g, Upto(n)) /\ g \in [Upto(n) -> Nat]}
<1>f. \A s \in SUBSET D : IsFiniteSet(s) /\ Cardinality(s) \in Nat /\ Cardinality(s) <= Cardinality(D)
  BY Zenon, FS_Subset, FS_CardinalityType
<1>c. \A s \in SUBSET D : s # {} => Pick(s) \in s BY Zenon DEF Pick
<1>r. \A s \in SUBSET D : s # {} =>
          s \ {Pick(s)} \in SUBSET D /\ Cardinality(s \ {Pick(s)}) = Cardinality(s) - 1
  BY Zenon, <1>f, <1>c, FS_RemoveElement
<1>0. 0 \in T
  <2> DEFINE g == [s \in Upto(0) |-> 0]
  <2>1. Upto(0) = {{}} BY <1>f, FS_EmptySet
  <2>2. IsSum(h, g, Upto(0)) BY Zenon, <2>1 DEF IsSum
  <2>3. g \in [Upto(0) -> Nat] BY Zenon
  <2> HIDE DEF g, Upto
  <2> QED BY Zenon, <2>2, <2>3
<1>1. ASSUME NEW n \in T PROVE n + 1 \in T
  <2>0. n \in Nat BY Zenon
  <2>1. PICK g : IsSum(h, g, Upto(n)) /\ g \in [Upto(n) -> Nat] BY Zenon
  <2> DEFINE k == [s \in Upto(n + 1) |-> IF s = {} THEN 0 ELSE h[Pick(s)] + g[s \ {Pick(s)}]]
  <2>2. \A s \in Upto(n + 1) : s # {} =>
          /\ s \ {Pick(s)} \in Upto(n) /\ s \ {Pick(s)} \in Upto(n + 1) /\ h[Pick(s)] \in Nat
    BY <1>f, <1>c, <1>r, <2>0
  <2>3. \A s \in Upto(n) : s \in Upto(n + 1) /\ k[s] = g[s]
    <3>1. \A s \in Upto(n) : s \in Upto(n + 1) BY <1>f, <2>0
    <3>2. \A s \in Upto(n) : g[s] = IF s = {} THEN 0 ELSE h[Pick(s)] + g[s \ {Pick(s)}]
      BY ZenonT(30), <2>1 DEF IsSum, Pick
    <3> HIDE DEF Upto
    <3> QED BY Zenon, <3>1, <3>2
  <2>4. k \in [Upto(n + 1) -> Nat]
    <3> HIDE DEF Upto
    <3> QED BY <2>1, <2>2
  <2>5. k = [s \in Upto(n + 1) |-> IF s = {} THEN 0 ELSE h[Pick(s)] + k[s \ {Pick(s)}]]
    <3>1. \A s \in Upto(n + 1) : s # {} => k[s \ {Pick(s)}] = g[s \ {Pick(s)}] BY ZenonT(30), <2>2, <2>3
    <3> HIDE DEF Upto
    <3> QED BY ZenonT(30), <3>1
  <2>6. IsSum(h, k, Upto(n + 1)) BY ZenonT(30), <2>5 DEF IsSum, Pick
  <2> HIDE DEF k, Upto
  <2> QED BY <2>0, <2>4, <2>6
<1>2. T = Nat
  <2> HIDE DEF T
  <2>1. T \subseteq Nat BY Zenon DEF T
  <2> QED BY Zenon, <1>0, <1>1, <2>1, NatSetInduction
<1>3. Cardinality(D) \in T BY ZenonT(30), <1>2, FS_CardinalityType
<1>4. Upto(Cardinality(D)) = SUBSET D BY Zenon, <1>f
<1> QED BY Zenon, <1>3, <1>4

\* g is the sum of h over the subsets of D: nothing over the empty set, and
\* over another one element more than over the rest.
SumOf(D, h, g) ==
    /\ g \in [SUBSET D -> Nat]
    /\ g[{}] = 0
    /\ \A s \in SUBSET D : s # {} => Pick(s) \in s /\ g[s] = h[Pick(s)] + g[s \ {Pick(s)}]

\* What the sums of h over the subsets of D are.
LEMMA SumsDefined ==
    ASSUME NEW D, IsFiniteSet(D), NEW h \in [D -> Nat]
    PROVE  SumOf(D, h, Sums(D, h))
<1>1. IsSum(h, Sums(D, h), SUBSET D) BY ZenonT(30), SumsExist DEF Sums
<1> DEFINE g == Sums(D, h)
<1>2. \A s \in SUBSET D : s # {} => Pick(s) \in s BY Zenon DEF Pick
<1>3. /\ DOMAIN g = SUBSET D
      /\ \A s \in SUBSET D : g[s] = IF s = {} THEN 0 ELSE h[Pick(s)] + g[s \ {Pick(s)}]
  BY Zenon, <1>1 DEF IsSum, Pick
<1> HIDE DEF g
<1> DEFINE T == {s \in SUBSET D : g[s] \in Nat}
<1>4. {} \in SUBSET D /\ g[{}] = 0 BY Zenon, <1>3
<1>5. ASSUME NEW s \in SUBSET D, s # {}, \A x \in s : s \ {x} \in T PROVE s \in T
  <2>1. Pick(s) \in s /\ Pick(s) \in D BY Zenon, <1>2, <1>5
  <2>2. g[s] = h[Pick(s)] + g[s \ {Pick(s)}] BY Zenon, <1>3, <1>5
  <2>3. g[s \ {Pick(s)}] \in Nat BY Zenon, <1>5, <2>1
  <2>4. h[Pick(s)] \in Nat BY Zenon, <2>1
  <2>5. g[s] \in Nat BY <2>2, <2>3, <2>4
  <2> QED BY Zenon, <2>5
<1>6. T = SUBSET D
  <2> HIDE DEF T
  <2>1. T \in SUBSET (SUBSET D) /\ {} \in T BY <1>4 DEF T
  <2> QED BY ZenonT(30), <1>5, <2>1, SubsetInduction
<1>7. g \in [SUBSET D -> Nat]
  <2>1. g = [s \in SUBSET D |-> g[s]] BY Zenon, <1>1 DEF g, IsSum
  <2>2. \A s \in SUBSET D : g[s] \in Nat BY Zenon, <1>6
  <2> HIDE DEF T
  <2> QED BY ZenonT(30), <2>1, <2>2
<1> QED BY Zenon, <1>2, <1>3, <1>4, <1>7 DEF g, SumOf

\* Where the summands grow, the sum does.
LEMMA SumMonotone ==
    ASSUME NEW D, IsFiniteSet(D), NEW h \in [D -> Nat], NEW k \in [D -> Nat],
           \A x \in D : h[x] <= k[x]
    PROVE  SumFunctionOnSet(h, D) <= SumFunctionOnSet(k, D)
<1> DEFINE H == Sums(D, h)
           K == Sums(D, k)
           T == {s \in SUBSET D : H[s] <= K[s]}
<1>1. SumOf(D, h, H)
  BY Zenon, SumsDefined
<1>2. SumOf(D, k, K)
  BY Zenon, SumsDefined
<1> HIDE DEF H, K
<1>3. {} \in T BY <1>1, <1>2 DEF SumOf
<1>4. ASSUME NEW s \in SUBSET D, s # {}, \A x \in s : s \ {x} \in T PROVE s \in T
  <2> DEFINE x == Pick(s)
             r == s \ {x}
  <2>1. x \in s /\ H[s] = h[x] + H[r] /\ K[s] = k[x] + K[r] BY Zenon, <1>1, <1>2, <1>4 DEF SumOf
  <2>2. H[r] <= K[r] /\ r \in SUBSET D BY Zenon, <1>4, <2>1
  <2>3. /\ h[x] \in Nat /\ k[x] \in Nat /\ H[r] \in Nat /\ K[r] \in Nat /\ h[x] <= k[x]
    BY Zenon, <1>1, <1>2, <2>1, <2>2 DEF SumOf
  <2>4. H[s] <= K[s] BY <2>1, <2>2, <2>3
  <2> QED BY Zenon, <2>4
<1>5. T = SUBSET D
  <2> HIDE DEF T
  <2>1. T \in SUBSET (SUBSET D) BY Zenon DEF T
  <2> QED BY ZenonT(30), <1>3, <1>4, <2>1, SubsetInduction
<1>6. H[D] <= K[D] BY Zenon, <1>5
<1> QED BY Zenon, <1>6, SumIsSums DEF H, K

\* A change of one summand changes the sum by as much.
LEMMA SumExcept ==
    ASSUME NEW D, IsFiniteSet(D), NEW h \in [D -> Nat], NEW k \in [D -> Nat], NEW y \in D,
           \A x \in D \ {y} : k[x] = h[x]
    PROVE  SumFunctionOnSet(k, D) = SumFunctionOnSet(h, D) - h[y] + k[y]
<1>0. PICK v \in Nat : k[y] = v BY Zenon
<1> DEFINE H == Sums(D, h)
           K == Sums(D, k)
           T == {s \in SUBSET D : K[s] = IF y \in s THEN H[s] - h[y] + v ELSE H[s]}
<1>1. SumOf(D, h, H)
  BY Zenon, SumsDefined
<1>2. SumOf(D, k, K) BY Zenon, <1>0, SumsDefined
<1> HIDE DEF H, K
<1>3. {} \in T BY Zenon, <1>1, <1>2 DEF SumOf
<1>4. ASSUME NEW s \in SUBSET D, s # {}, \A x \in s : s \ {x} \in T PROVE s \in T
  <2> DEFINE x == Pick(s)
             r == s \ {x}
  <2>1. x \in s /\ H[s] = h[x] + H[r] /\ K[s] = k[x] + K[r] BY ZenonT(30), <1>1, <1>2, <1>4 DEF SumOf
  <2>2. /\ K[r] = IF y \in r THEN H[r] - h[y] + v ELSE H[r]
        /\ r \in SUBSET D
    BY Zenon, <1>4, <2>1
  <2>3. h[x] \in Nat /\ k[x] \in Nat /\ H[r] \in Nat /\ h[y] \in Nat BY Zenon, <1>0, <1>1, <2>1, <2>2 DEF SumOf
  <2>4. (y \in r <=> y \in s /\ y # x) BY Zenon
  <2> HIDE DEF x, r
  <2>5. K[s] = IF y \in s THEN H[s] - h[y] + v ELSE H[s] BY <1>0, <2>1, <2>2, <2>3, <2>4
  <2> QED BY Zenon, <2>5
<1>5. T = SUBSET D
  <2> HIDE DEF T
  <2>1. T \in SUBSET (SUBSET D) BY Zenon DEF T
  <2> QED BY ZenonT(30), <1>3, <1>4, <2>1, SubsetInduction
<1>6. K[D] = H[D] - h[y] + v BY Zenon, <1>5
<1> QED BY Zenon, <1>0, <1>6, SumIsSums DEF H, K

\* A sum of naturals is one, and no summand exceeds it.
LEMMA SumBounds ==
    ASSUME NEW D, IsFiniteSet(D), NEW h \in [D -> Nat]
    PROVE  SumFunctionOnSet(h, D) \in Nat /\ \A y \in D : h[y] <= SumFunctionOnSet(h, D)
<1>1. \A k \in [D -> Nat] : SumFunctionOnSet(k, D) \in Nat
  <2> SUFFICES ASSUME NEW k \in [D -> Nat] PROVE SumFunctionOnSet(k, D) \in Nat BY Zenon
  <2>1. Sums(D, k) \in [SUBSET D -> Nat] BY ZenonT(30), SumsDefined DEF SumOf
  <2> QED BY Zenon, <2>1, SumIsSums
<1>2. ASSUME NEW y \in D PROVE h[y] <= SumFunctionOnSet(h, D)
  <2>0. PICK z \in Nat : z = 0 BY Zenon
  <2>1. PICK k \in [D -> Nat] : k[y] = z /\ \A x \in D \ {y} : k[x] = h[x]
    <3>1. [h EXCEPT ![y] = z] \in [D -> Nat] BY Zenon
    <3> QED BY ZenonT(30), <3>1
  <2>2. SumFunctionOnSet(k, D) \in Nat BY Zenon, <1>1, <2>1
  <2>3. SumFunctionOnSet(k, D) = SumFunctionOnSet(h, D) - h[y] + k[y] BY <2>1, SumExcept
  <2>4. h[y] \in Nat /\ SumFunctionOnSet(h, D) \in Nat BY Zenon, <1>1
  <2> QED BY <2>0, <2>1, <2>2, <2>3, <2>4
<1> QED BY Zenon, <1>1, <1>2

---------------------------------------------------------------------------
(* The media memory.                                                       *)

\* A sum of zeros.
LEMMA SumZero ==
    ASSUME NEW D, IsFiniteSet(D), NEW h \in [D -> Nat], \A x \in D : h[x] = 0
    PROVE  SumFunctionOnSet(h, D) = 0
<1> DEFINE H == Sums(D, h)
           T == {s \in SUBSET D : H[s] = 0}
<1>1. SumOf(D, h, H) BY Zenon, SumsDefined
<1> HIDE DEF H
<1>2. {} \in T BY Zenon, <1>1 DEF SumOf
<1>3. ASSUME NEW s \in SUBSET D, s # {}, \A x \in s : s \ {x} \in T PROVE s \in T
  <2>1. Pick(s) \in s /\ H[s] = h[Pick(s)] + H[s \ {Pick(s)}] BY Zenon, <1>1, <1>3 DEF SumOf
  <2>2. H[s \ {Pick(s)}] = 0 /\ h[Pick(s)] = 0 BY Zenon, <1>3, <2>1
  <2>3. H[s] = 0 BY <2>1, <2>2
  <2> QED BY Zenon, <2>3
<1>4. T = SUBSET D
  <2> HIDE DEF T
  <2>1. T \in SUBSET (SUBSET D) BY Zenon DEF T
  <2> QED BY ZenonT(30), <1>2, <1>3, <2>1, SubsetInduction
<1> QED BY Zenon, <1>4, SumIsSums DEF H

-----------------------------------------------------------------------------
Backings ==
    [phase : {"Absent", "Started", "Failed", "Retained", "Released", "Dropped"},
     gate : {"Open", "Closed"}, handle : {"NotExported", "ExportedActive", "ClientReleased"},
     exported : BOOLEAN, slot : [Slots -> [id : 0..MaxId, len : Nat]],
     local : [Ids -> Nat], lease : SUBSET Ids, pending : Seq(Ids)]

\* A backing b whose client uses the data ids k, when n ids are issued.
BackingSound(b, k, n) ==
    /\ k \subseteq LiveIds(b)
    /\ \A i \in DOMAIN b.pending : b.pending[i] \notin k
    /\ LiveIds(b) \subseteq 1..n
    /\ \A s \in Slots : b.slot[s].id = 0 => b.slot[s].len = 0
    /\ SharedIds(b) \cap LocalIds(b) = {}
    /\ LiveBytes(b) <= PerFilterBytes
    /\ b.phase = "Absent" => b = Fresh /\ k = {}

TotalBytes == SumFunction([f \in AvFilters |-> LiveBytes(av[f])])

AvInv ==
    /\ av \in [AvFilters -> Backings]
    /\ known \in [AvFilters -> SUBSET Ids]
    /\ issued \in 0..MaxId
    /\ used \in Nat /\ used = TotalBytes
    /\ corrupt = FALSE
    /\ \A f \in AvFilters : BackingSound(av[f], known[f], issued)
    /\ \A f, g \in AvFilters : f # g => LiveIds(av[f]) \cap LiveIds(av[g]) = {}

\* Slots and data ids are finite sets.
LEMMA AvSetsFinite == IsFiniteSet(Slots) /\ IsFiniteSet(Ids)
BY AvAssumption, FS_Interval DEF Slots, Ids

\* The bytes of a backing, as two sums.
LEMMA LiveBytesSums ==
    ASSUME NEW b \in Backings
    PROVE  /\ [s \in Slots |-> b.slot[s].len] \in [Slots -> Nat] /\ b.local \in [Ids -> Nat]
           /\ LiveBytes(b) = SumFunctionOnSet([s \in Slots |-> b.slot[s].len], Slots)
                                + SumFunctionOnSet(b.local, Ids)
           /\ SumFunctionOnSet([s \in Slots |-> b.slot[s].len], Slots) \in Nat
           /\ SumFunctionOnSet(b.local, Ids) \in Nat
           /\ LiveBytes(b) \in Nat
<1>1. [s \in Slots |-> b.slot[s].len] \in [Slots -> Nat] /\ b.local \in [Ids -> Nat]
  BY Zenon DEF Backings
<1>2. LiveBytes(b) = SumFunctionOnSet([s \in Slots |-> b.slot[s].len], Slots)
                        + SumFunctionOnSet(b.local, Ids)
  BY Zenon, <1>1 DEF LiveBytes, SumFunction
<1>3. /\ SumFunctionOnSet([s \in Slots |-> b.slot[s].len], Slots) \in Nat
      /\ SumFunctionOnSet(b.local, Ids) \in Nat
  BY Zenon, <1>1, AvSetsFinite, SumBounds
<1> QED BY <1>1, <1>2, <1>3

\* A backing that holds less holds fewer bytes.
LEMMA LiveBytesMonotone ==
    ASSUME NEW b \in Backings, NEW c \in Backings,
           \A s \in Slots : c.slot[s].len <= b.slot[s].len,
           \A i \in Ids : c.local[i] <= b.local[i]
    PROVE  LiveBytes(c) <= LiveBytes(b)
<1>1. PICK h, k : h = [s \in Slots |-> b.slot[s].len] /\ k = [s \in Slots |-> c.slot[s].len]
  BY ZenonT(30)
<1>2. /\ h \in [Slots -> Nat] /\ k \in [Slots -> Nat] /\ \A s \in Slots : k[s] <= h[s]
      /\ b.local \in [Ids -> Nat] /\ c.local \in [Ids -> Nat]
  BY ZenonT(30), <1>1, LiveBytesSums
<1>3. SumFunctionOnSet(k, Slots) <= SumFunctionOnSet(h, Slots) BY Zenon, <1>2, AvSetsFinite, SumMonotone
<1>4. SumFunctionOnSet(c.local, Ids) <= SumFunctionOnSet(b.local, Ids)
  BY Zenon, <1>2, AvSetsFinite, SumMonotone
<1>5. /\ LiveBytes(b) = SumFunctionOnSet(h, Slots) + SumFunctionOnSet(b.local, Ids)
      /\ LiveBytes(c) = SumFunctionOnSet(k, Slots) + SumFunctionOnSet(c.local, Ids)
      /\ SumFunctionOnSet(h, Slots) \in Nat /\ SumFunctionOnSet(b.local, Ids) \in Nat
      /\ SumFunctionOnSet(k, Slots) \in Nat /\ SumFunctionOnSet(c.local, Ids) \in Nat
  BY ZenonT(30), <1>1, LiveBytesSums
<1> QED BY <1>3, <1>4, <1>5

\* A backing without an allocation holds no bytes.
LEMMA EmptyBacking ==
    ASSUME NEW b \in Backings, \A s \in Slots : b.slot[s].len = 0, \A i \in Ids : b.local[i] = 0
    PROVE  LiveBytes(b) = 0
<1>1. PICK h : h = [s \in Slots |-> b.slot[s].len] BY ZenonT(30)
<1>2. h \in [Slots -> Nat] /\ b.local \in [Ids -> Nat] /\ \A s \in Slots : h[s] = 0
  BY Zenon, <1>1, LiveBytesSums
<1>3. SumFunctionOnSet(h, Slots) = 0 /\ SumFunctionOnSet(b.local, Ids) = 0
  BY Zenon, <1>2, AvSetsFinite, SumZero
<1> QED BY <1>1, <1>3, LiveBytesSums

\* One filter changes: the budget follows the bytes of its backing.
LEMMA AvStep ==
    ASSUME AvInv, NEW f \in AvFilters, NEW b \in Backings, NEW k \in SUBSET Ids,
           av' = [av EXCEPT ![f] = b], known' = [known EXCEPT ![f] = k],
           issued' \in issued..MaxId, corrupt' = FALSE,
           BackingSound(b, k, issued'),
           LiveIds(b) \subseteq LiveIds(av[f]) \cup (issued + 1)..issued',
           used' = used - LiveBytes(av[f]) + LiveBytes(b)
    PROVE  AvInv'
<1>0. issued \in Nat /\ issued' \in Nat /\ issued <= issued' /\ issued' <= MaxId /\ used \in Nat
  BY AvAssumption DEF AvInv
<1>1. /\ av' \in [AvFilters -> Backings] /\ known' \in [AvFilters -> SUBSET Ids]
      /\ av'[f] = b /\ known'[f] = k
      /\ \A g \in AvFilters \ {f} : av'[g] = av[g] /\ known'[g] = known[g]
  BY Zenon DEF AvInv
<1>2. \A g \in AvFilters : BackingSound(av'[g], known'[g], issued')
  <2> SUFFICES ASSUME NEW g \in AvFilters \ {f} PROVE BackingSound(av[g], known[g], issued')
    BY Zenon, <1>1
  <2>1. BackingSound(av[g], known[g], issued) BY Zenon DEF AvInv
  <2>2. 1..issued \subseteq 1..issued' BY <1>0
  <2> QED BY Zenon, <2>1, <2>2 DEF BackingSound
<1>3. \A g, h \in AvFilters : g # h => LiveIds(av'[g]) \cap LiveIds(av'[h]) = {}
  <2>1. \A g \in AvFilters : LiveIds(av[g]) \subseteq 1..issued BY Zenon DEF AvInv, BackingSound
  <2>2. (1..issued) \cap ((issued + 1)..issued') = {} BY <1>0
  <2>3. \A g, h \in AvFilters : g # h => LiveIds(av[g]) \cap LiveIds(av[h]) = {} BY Zenon DEF AvInv
  <2>4. \A g \in AvFilters \ {f} : LiveIds(b) \cap LiveIds(av[g]) = {} BY Zenon, <2>1, <2>2, <2>3
  <2> QED BY Zenon, <1>1, <2>3, <2>4
<1>4. used' \in Nat /\ used' = TotalBytes'
  <2> PICK h, l : h = [g \in AvFilters |-> LiveBytes(av[g])]
                  /\ l = [g \in AvFilters |-> LiveBytes(av'[g])] BY ZenonT(30)
  <2>1. \A g \in AvFilters : av[g] \in Backings /\ av'[g] \in Backings BY Zenon, <1>1 DEF AvInv
  <2>2. h \in [AvFilters -> Nat] /\ l \in [AvFilters -> Nat] BY ZenonT(30), <2>1, LiveBytesSums
  <2>3. \A g \in AvFilters \ {f} : l[g] = h[g] BY Zenon, <1>1
  <2>4. SumFunctionOnSet(l, AvFilters) = SumFunctionOnSet(h, AvFilters) - h[f] + l[f]
    BY <2>2, <2>3, AvAssumption, SumExcept
  <2>5. TotalBytes = SumFunctionOnSet(h, AvFilters) BY Zenon DEF TotalBytes, SumFunction
  <2>6. TotalBytes' = SumFunctionOnSet(l, AvFilters) BY Zenon DEF TotalBytes, SumFunction
  <2>7. h[f] = LiveBytes(av[f]) /\ l[f] = LiveBytes(b) BY Zenon, <1>1
  <2>8. SumFunctionOnSet(l, AvFilters) \in Nat BY Zenon, <2>2, AvAssumption, SumBounds
  <2>9. used = TotalBytes BY Zenon DEF AvInv
  <2> QED BY Zenon, <2>4, <2>5, <2>6, <2>7, <2>8, <2>9
<1> QED BY <1>0, <1>1, <1>2, <1>3, <1>4 DEF AvInv

\* The same, when the backing keeps its allocations.
LEMMA AvQuietStep ==
    ASSUME AvInv, NEW f \in AvFilters, NEW b \in Backings, NEW k \in SUBSET Ids,
           av' = [av EXCEPT ![f] = b], known' = [known EXCEPT ![f] = k],
           UNCHANGED <<used, corrupt, issued>>,
           b.slot = av[f].slot, b.local = av[f].local,
           k \subseteq LiveIds(b), \A i \in DOMAIN b.pending : b.pending[i] \notin k,
           b.phase # "Absent"
    PROVE  AvInv'
<1>1. LiveIds(b) = LiveIds(av[f]) /\ LiveBytes(b) = LiveBytes(av[f])
      /\ SharedIds(b) = SharedIds(av[f]) /\ LocalIds(b) = LocalIds(av[f])
  BY Zenon DEF LiveIds, LiveBytes, SharedIds, LocalIds
<1>2. BackingSound(b, k, issued') BY <1>1 DEF AvInv, BackingSound
<1>3. LiveBytes(b) \in Nat BY ZenonT(30), LiveBytesSums
<1>4. used \in Nat /\ issued' \in issued..MaxId /\ corrupt' = FALSE BY AvAssumption DEF AvInv
<1>5. used' = used - LiveBytes(av[f]) + LiveBytes(b) BY <1>1, <1>3, <1>4
<1> QED BY ZenonT(30), <1>1, <1>2, <1>4, <1>5, AvStep

-----------------------------------------------------------------------------
\* A fresh backing is empty.
LEMMA FreshBacking ==
    /\ Fresh \in Backings /\ LiveIds(Fresh) = {} /\ LiveBytes(Fresh) = 0
    /\ SharedIds(Fresh) = {} /\ LocalIds(Fresh) = {}
<1>1. Fresh \in Backings
  <2>1. <<>> \in Seq(Ids) /\ 0 \in 0..MaxId BY AvAssumption
  <2>2. [s \in Slots |-> FreeSlot] \in [Slots -> [id : 0..MaxId, len : Nat]] BY Zenon, <2>1 DEF FreeSlot
  <2> QED BY Zenon, <2>1, <2>2 DEF Fresh, Backings
<1>2. \A s \in Slots : Fresh.slot[s].id = 0 /\ Fresh.slot[s].len = 0 BY Zenon DEF Fresh, FreeSlot
<1>3. \A i \in Ids : Fresh.local[i] = 0 BY Zenon DEF Fresh
<1>4. LiveBytes(Fresh) = 0 BY Zenon, <1>1, <1>2, <1>3, EmptyBacking
<1>5. SharedIds(Fresh) = {} BY Zenon, <1>2 DEF SharedIds
<1>6. LocalIds(Fresh) = {} BY Zenon, <1>3 DEF LocalIds
<1> QED BY Zenon, <1>1, <1>4, <1>5, <1>6 DEF LiveIds

\* A removed backing, with nothing in it.
LEMMA EmptiedPhase ==
    ASSUME NEW p \in {"Started", "Released", "Dropped"}, NEW n, NEW b,
           b = [Fresh EXCEPT !.phase = p] \/ b = [Fresh EXCEPT !.phase = p, !.gate = "Open"]
    PROVE  b \in Backings /\ BackingSound(b, {}, n) /\ LiveIds(b) = {} /\ LiveBytes(b) = 0
<1>1. b \in Backings BY ZenonT(30), FreshBacking DEF Backings
<1>2. b.slot = Fresh.slot /\ b.local = Fresh.local /\ b.phase = p BY ZenonT(30) DEF Fresh
<1>3. /\ LiveIds(b) = LiveIds(Fresh) /\ LiveBytes(b) = LiveBytes(Fresh)
      /\ SharedIds(b) = SharedIds(Fresh) /\ LocalIds(b) = LocalIds(Fresh)
  BY <1>2 DEF LiveIds, LiveBytes, SharedIds, LocalIds
<1>4. \A s \in Slots : b.slot[s].len = 0 BY <1>2 DEF Fresh, FreeSlot
<1> QED BY <1>1, <1>2, <1>3, <1>4, FreshBacking, AvAssumption DEF BackingSound

\* Where nothing is allocated, no byte is.
LEMMA NoIdsNoBytes ==
    ASSUME NEW b \in Backings, NEW k, NEW n, BackingSound(b, k, n), LiveIds(b) = {}
    PROVE  LiveBytes(b) = 0
<1>1. \A s \in Slots : b.slot[s].id = 0 BY ZenonT(30) DEF LiveIds, SharedIds
<1>2. \A i \in Ids : b.local[i] = 0 BY Zenon DEF LiveIds, LocalIds
<1> QED BY Zenon, <1>1, <1>2, EmptyBacking DEF BackingSound

\* What freeing data ids leaves.
LEMMA FreedBacking ==
    ASSUME NEW b \in Backings, NEW ids
    PROVE  /\ Freed(b, ids) \in Backings
           /\ Freed(b, ids).phase = b.phase /\ Freed(b, ids).pending = b.pending
           /\ Freed(b, ids).gate = b.gate /\ Freed(b, ids).handle = b.handle
           /\ SharedIds(Freed(b, ids)) = SharedIds(b) \ ids
           /\ LocalIds(Freed(b, ids)) = LocalIds(b) \ ids
           /\ LiveIds(Freed(b, ids)) = LiveIds(b) \ ids
           /\ LiveBytes(Freed(b, ids)) <= LiveBytes(b)
           /\ \A s \in Slots : \/ Freed(b, ids).slot[s] = b.slot[s]
                               \/ Freed(b, ids).slot[s] = FreeSlot
<1> DEFINE c == Freed(b, ids)
<1>0. PICK S, L : /\ S = [s \in Slots |-> IF b.slot[s].id \in ids THEN FreeSlot ELSE b.slot[s]]
                  /\ L = [i \in Ids |-> IF i \in ids THEN 0 ELSE b.local[i]]
  BY ZenonT(30)
<1>1. c = [b EXCEPT !.slot = S, !.local = L, !.lease = b.lease \ ids] BY Zenon, <1>0 DEF Freed
<1>2. S \in [Slots -> [id : 0..MaxId, len : Nat]] /\ L \in [Ids -> Nat]
  BY <1>0, AvAssumption DEF Backings, FreeSlot
<1>3. c \in Backings BY ZenonT(30), <1>1, <1>2 DEF Backings
<1>4. /\ c.slot = S /\ c.local = L /\ c.phase = b.phase /\ c.pending = b.pending
      /\ c.gate = b.gate /\ c.handle = b.handle
  BY Zenon, <1>1 DEF Backings
<1> HIDE DEF c
<1>5. SharedIds(c) = SharedIds(b) \ ids
  <2>1. \A s \in Slots : c.slot[s].id = IF b.slot[s].id \in ids THEN 0 ELSE b.slot[s].id
    BY <1>0, <1>4 DEF FreeSlot
  <2> QED BY Zenon, <2>1 DEF SharedIds
<1>6. LocalIds(c) = LocalIds(b) \ ids BY Zenon, <1>0, <1>4 DEF LocalIds
<1>7. LiveIds(c) = LiveIds(b) \ ids BY Zenon, <1>5, <1>6 DEF LiveIds
<1>8. \A s \in Slots : c.slot[s].len <= b.slot[s].len
  <2>1. \A s \in Slots : b.slot[s].len \in Nat BY Zenon DEF Backings
  <2>2. \A s \in Slots : c.slot[s].len \in {0, b.slot[s].len} BY <1>0, <1>4 DEF FreeSlot
  <2> QED BY <2>1, <2>2
<1>9. \A i \in Ids : c.local[i] <= b.local[i] BY <1>0, <1>4 DEF Backings
<1>10. LiveBytes(c) <= LiveBytes(b) BY Zenon, <1>3, <1>8, <1>9, LiveBytesMonotone
<1>11. \A s \in Slots : c.slot[s] = b.slot[s] \/ c.slot[s] = FreeSlot BY <1>0, <1>4
<1> QED BY Zenon, <1>3, <1>4, <1>5, <1>6, <1>7, <1>10, <1>11 DEF c

\* The same, of the backing c that is left.
FreedFrom(b, ids, c) ==
    /\ c \in Backings /\ c.phase = b.phase /\ c.pending = b.pending
    /\ SharedIds(c) = SharedIds(b) \ ids /\ LocalIds(c) = LocalIds(b) \ ids
    /\ LiveIds(c) = LiveIds(b) \ ids /\ LiveBytes(c) <= LiveBytes(b)
    /\ \A s \in Slots : c.slot[s] = b.slot[s] \/ c.slot[s] = FreeSlot

\* Freeing data ids takes exactly them out of a backing.
LEMMA FreedFromBacking ==
    ASSUME NEW b \in Backings, NEW ids
    PROVE  FreedFrom(b, ids, Freed(b, ids))
BY FreedBacking DEF FreedFrom


\* Freeing gives exactly the freed bytes back to the budget.
LEMMA FreedBudget ==
    ASSUME AvInv, NEW f \in AvFilters, NEW c \in Backings,
           LiveBytes(c) <= LiveBytes(av[f]), ReleaseBudget(LiveBytes(av[f]) - LiveBytes(c))
    PROVE  used' = used - LiveBytes(av[f]) + LiveBytes(c) /\ corrupt' = FALSE
<1> PICK h : h = [g \in AvFilters |-> LiveBytes(av[g])] BY ZenonT(30)
<1>1. \A g \in AvFilters : av[g] \in Backings BY Zenon DEF AvInv
<1>2. h \in [AvFilters -> Nat] BY ZenonT(30), <1>1, LiveBytesSums
<1>3. h[f] <= SumFunctionOnSet(h, AvFilters) BY Zenon, <1>2, AvAssumption, SumBounds
<1>4. used = SumFunctionOnSet(h, AvFilters) BY Zenon DEF AvInv, TotalBytes, SumFunction
<1>5. h[f] = LiveBytes(av[f]) BY Zenon
<1>6. LiveBytes(c) \in Nat /\ LiveBytes(av[f]) \in Nat /\ used \in Nat /\ corrupt = FALSE
  BY ZenonT(30), <1>1, LiveBytesSums DEF AvInv
<1>7. LiveBytes(av[f]) - LiveBytes(c) <= used BY <1>3, <1>4, <1>5, <1>6
<1> PICK x \in Int : x = LiveBytes(av[f]) - LiveBytes(c) BY <1>6
<1>8. ReleaseBudget(x) /\ ~(x > used) /\ x <= used BY <1>6, <1>7
<1>9. used' = used - x BY Zenon, <1>8 DEF ReleaseBudget
<1>10. corrupt' = FALSE BY ZenonT(30), <1>6, <1>8 DEF ReleaseBudget
<1> QED BY <1>6, <1>9, <1>10

-----------------------------------------------------------------------------
\* A new payload: one allocation more, of its bytes, under the new data id.
LEMMA SharedPlaced ==
    ASSUME NEW b \in Backings, NEW n \in Nat, NEW id \in Ids, id \notin LiveIds(b),
           SharedSlotCandidate(b, n) # {},
           \A s \in Slots : b.slot[s].id = 0 => b.slot[s].len = 0, n # 0
    PROVE  LET c == InSharedSlot(b, n, id)
           IN  /\ c \in Backings /\ c.phase = b.phase /\ c.pending = b.pending
               /\ SharedIds(c) = SharedIds(b) \cup {id} /\ LocalIds(c) = LocalIds(b)
               /\ LiveBytes(c) = LiveBytes(b) + n
               /\ \A s \in Slots : c.slot[s].id = 0 => c.slot[s].len = 0
<1> DEFINE c == InSharedSlot(b, n, id)
<1>1. PICK m : m = Min(SharedSlotCandidate(b, n)) BY Zenon
<1>2. m \in Slots /\ b.slot[m] = FreeSlot
  <2>1. SharedSlotCandidate(b, n) \in SUBSET Nat BY AvAssumption DEF SharedSlotCandidate, Slots
  <2>2. m \in SharedSlotCandidate(b, n) BY Zenon, <1>1, <2>1, MinIsIn
  <2> QED BY Zenon, <2>2 DEF SharedSlotCandidate
<1>3. c = [b EXCEPT !.slot = [b.slot EXCEPT ![m] = [id |-> id, len |-> n]]]
  BY Zenon, <1>1, <1>2 DEF InSharedSlot, Backings
<1>4. id \in 0..MaxId /\ id # 0 BY AvAssumption DEF Ids
<1>5. PICK S : S = [b.slot EXCEPT ![m] = [id |-> id, len |-> n]] BY ZenonT(30)
<1>6. /\ S \in [Slots -> [id : 0..MaxId, len : Nat]]
      /\ S[m].id = id /\ S[m].len = n /\ \A s \in Slots \ {m} : S[s] = b.slot[s]
  BY Zenon, <1>2, <1>4, <1>5 DEF Backings
<1>7. /\ c \in Backings /\ c.phase = b.phase /\ c.pending = b.pending
      /\ c.slot = S /\ c.local = b.local
  BY ZenonT(30), <1>3, <1>5, <1>6 DEF Backings
<1> HIDE DEF c
<1>8. SharedIds(c) = SharedIds(b) \cup {id}
  <2>1. b.slot[m].id = 0 BY <1>2 DEF FreeSlot
  <2> QED BY <1>2, <1>4, <1>6, <1>7, <2>1 DEF SharedIds
<1>9. LocalIds(c) = LocalIds(b) BY Zenon, <1>7 DEF LocalIds
<1>10. LiveBytes(c) = LiveBytes(b) + n
  <2> PICK h, k : h = [s \in Slots |-> b.slot[s].len] /\ k = [s \in Slots |-> c.slot[s].len] BY ZenonT(30)
  <2>1. /\ h \in [Slots -> Nat] /\ LiveBytes(b) = SumFunctionOnSet(h, Slots) + SumFunctionOnSet(b.local, Ids)
        /\ SumFunctionOnSet(h, Slots) \in Nat /\ SumFunctionOnSet(b.local, Ids) \in Nat
    BY ZenonT(30), LiveBytesSums
  <2>2. k \in [Slots -> Nat] /\ LiveBytes(c) = SumFunctionOnSet(k, Slots) + SumFunctionOnSet(b.local, Ids)
    BY ZenonT(30), <1>7, LiveBytesSums
  <2>3. k[m] = n /\ h[m] = 0 /\ \A s \in Slots \ {m} : k[s] = h[s]
    BY <1>2, <1>6, <1>7 DEF FreeSlot
  <2>4. SumFunctionOnSet(k, Slots) = SumFunctionOnSet(h, Slots) - h[m] + k[m]
    BY <1>2, <2>1, <2>2, <2>3, AvSetsFinite, SumExcept
  <2> QED BY <2>1, <2>2, <2>3, <2>4
<1>11. \A s \in Slots : c.slot[s].id = 0 => c.slot[s].len = 0 BY Zenon, <1>4, <1>6, <1>7
<1> QED BY Zenon, <1>7, <1>8, <1>9, <1>10, <1>11 DEF c

\* The same in a buffer of its own.
LEMMA LocalPlaced ==
    ASSUME NEW b \in Backings, NEW n \in Nat, NEW id \in Ids, id \notin LiveIds(b), n # 0
    PROVE  LET c == InEventLocal(b, n, id)
           IN  /\ c \in Backings /\ c.phase = b.phase /\ c.pending = b.pending
               /\ SharedIds(c) = SharedIds(b) /\ LocalIds(c) = LocalIds(b) \cup {id}
               /\ LiveBytes(c) = LiveBytes(b) + n
               /\ c.slot = b.slot
<1> DEFINE c == InEventLocal(b, n, id)
<1>1. PICK L : L = [b.local EXCEPT ![id] = n] BY ZenonT(30)
<1>e. PICK E : E = b.lease \cup {id} BY ZenonT(30)
<1>2. c = [b EXCEPT !.local = L, !.lease = E] BY Zenon, <1>e, <1>1 DEF InEventLocal
<1>3. L \in [Ids -> Nat] /\ L[id] = n /\ \A i \in Ids \ {id} : L[i] = b.local[i]
  BY Zenon, <1>1 DEF Backings
<1>4. /\ c \in Backings /\ c.phase = b.phase /\ c.pending = b.pending
      /\ c.slot = b.slot /\ c.local = L
  <2>1. E \in SUBSET Ids BY Zenon, <1>e DEF Backings
  <2> HIDE DEF c
  <2> QED BY ZenonT(30), <1>2, <1>3, <2>1 DEF Backings
<1> HIDE DEF c
<1>5. SharedIds(c) = SharedIds(b) BY Zenon, <1>4 DEF SharedIds
<1>6. LocalIds(c) = LocalIds(b) \cup {id} BY Zenon, <1>3, <1>4 DEF LocalIds
<1>7. LiveBytes(c) = LiveBytes(b) + n
  <2> PICK h : h = [s \in Slots |-> b.slot[s].len] BY ZenonT(30)
  <2>1. /\ b.local \in [Ids -> Nat] /\ LiveBytes(b) = SumFunctionOnSet(h, Slots) + SumFunctionOnSet(b.local, Ids)
        /\ SumFunctionOnSet(h, Slots) \in Nat /\ SumFunctionOnSet(b.local, Ids) \in Nat
    BY Zenon, LiveBytesSums
  <2>2. LiveBytes(c) = SumFunctionOnSet(h, Slots) + SumFunctionOnSet(L, Ids) BY Zenon, <1>4, LiveBytesSums
  <2>3. b.local[id] = 0 BY Zenon DEF LiveIds, LocalIds
  <2>4. SumFunctionOnSet(L, Ids) = SumFunctionOnSet(b.local, Ids) - b.local[id] + L[id]
    BY <1>3, <2>1, AvSetsFinite, SumExcept
  <2> QED BY <1>3, <2>1, <2>2, <2>3, <2>4
<1> QED BY Zenon, <1>4, <1>5, <1>6, <1>7 DEF c

\* allocate_payload_bytes: the claim, the allocation and the event.
LEMMA AllocateStep ==
    ASSUME AvInv, NEW f \in AvFilters, NEW n, NEW fault, AllocatePayload(f, n, fault)
    PROVE  AvInv'
<1> DEFINE b == av[f]
           id == issued + 1
           shared == SharedSlotCandidate(b, n) # {}
           placed == IF shared THEN InSharedSlot(b, n, id) ELSE InEventLocal(b, n, id)
<1>1. /\ b \in Backings /\ known[f] \in SUBSET Ids /\ BackingSound(b, known[f], issued)
      /\ issued \in 0..MaxId /\ corrupt = FALSE /\ used \in Nat
      /\ known = [known EXCEPT ![f] = known[f]]
  BY Zenon DEF AvInv
<1>2. /\ b.phase = "Started" /\ issued < MaxId /\ UNCHANGED <<corrupt, known>>
      /\ WithinLimits(b, n) \/ shared
  BY Zenon DEF AllocatePayload
<1>3. WithinLimits(b, n) BY Zenon, <1>2 DEF SharedSlotCandidate
<1>4. n \in Nat /\ n # 0 /\ LiveBytes(b) + n <= PerFilterBytes
  BY <1>3, AvAssumption DEF WithinLimits
<1>5. id \in Ids /\ id \in issued..MaxId /\ id \in Nat BY <1>1, <1>2, AvAssumption DEF Ids
<1>6. id \notin LiveIds(b) /\ id \notin known[f]
  BY <1>1, <1>5 DEF BackingSound
<1>7. CASE av' = [av EXCEPT ![f] = Enqueued(placed, id)] /\ used' = used + n /\ issued' = id
  <2>1. PICK c : c = placed BY Zenon
  <2>2. /\ c \in Backings /\ c.phase = b.phase /\ c.pending = b.pending
        /\ \/ SharedIds(c) = SharedIds(b) \cup {id} /\ LocalIds(c) = LocalIds(b)
           \/ SharedIds(c) = SharedIds(b) /\ LocalIds(c) = LocalIds(b) \cup {id}
        /\ LiveBytes(c) = LiveBytes(b) + n
        /\ \A s \in Slots : c.slot[s].id = 0 => c.slot[s].len = 0
    <3>1. CASE shared
      BY <1>1, <1>4, <1>5, <1>6, <2>1, <3>1, SharedPlaced DEF BackingSound
    <3>2. CASE ~shared
      BY <1>1, <1>4, <1>5, <1>6, <2>1, <3>2, LocalPlaced DEF BackingSound
    <3> QED BY Zenon, <3>1, <3>2
  <2>3. LiveIds(c) = LiveIds(b) \cup {id} BY Zenon, <2>2 DEF LiveIds
  <2>4. SharedIds(c) \cap LocalIds(c) = {} BY Zenon, <1>1, <1>6, <2>2 DEF BackingSound, LiveIds
  <2>5. PICK e : e = Enqueued(c, id) BY Zenon
  <2>6. /\ e \in Backings /\ e.slot = c.slot /\ e.local = c.local /\ e.phase # "Absent"
        /\ e.pending = <<>> \/ e.pending = Append(b.pending, id)
    <3>1. c.pending \in Seq(Ids) /\ <<>> \in Seq(Ids) /\ Append(c.pending, id) \in Seq(Ids)
      BY <1>5, <2>2 DEF Backings
    <3>2. CASE e = [c EXCEPT !.phase = "Failed", !.gate = "Closed", !.pending = <<>>]
      BY ZenonT(30), <2>2, <3>1, <3>2 DEF Backings
    <3>3. CASE e = [c EXCEPT !.pending = Append(c.pending, id)]
      BY ZenonT(30), <1>2, <2>2, <3>1, <3>3 DEF Backings
    <3> QED BY Zenon, <2>5, <3>2, <3>3 DEF Enqueued
  <2>7. /\ LiveIds(e) = LiveIds(c) /\ LiveBytes(e) = LiveBytes(c)
        /\ SharedIds(e) = SharedIds(c) /\ LocalIds(e) = LocalIds(c)
    BY Zenon, <2>6 DEF LiveIds, LiveBytes, SharedIds, LocalIds
  <2>8. \A i \in DOMAIN e.pending : e.pending[i] \notin known[f]
    <3>1. b.pending \in Seq(Ids) /\ \A i \in DOMAIN b.pending : b.pending[i] \notin known[f]
      BY Zenon, <1>1 DEF Backings, BackingSound
    <3>2. CASE e.pending = <<>>
      <4>1. DOMAIN <<>> = {} OBVIOUS
      <4> QED BY Zenon, <3>2, <4>1
    <3>3. CASE e.pending = Append(b.pending, id)
      <4>1. PICK p \in Seq(Ids) : p = b.pending BY Zenon, <3>1
      <4> HIDE DEF id
      <4>2. \A i \in DOMAIN Append(p, id) : Append(p, id)[i] = id \/ (i \in DOMAIN p /\ Append(p, id)[i] = p[i])
        BY <1>5
      <4> QED BY Zenon, <1>6, <3>1, <3>3, <4>1, <4>2
    <3> QED BY Zenon, <2>6, <3>2, <3>3
  <2>9. BackingSound(e, known[f], issued')
    <3>1. LiveIds(e) \subseteq 1..issued'
      BY <1>1, <1>5, <1>7, <2>3, <2>7 DEF BackingSound
    <3>2. LiveBytes(e) <= PerFilterBytes BY Zenon, <1>4, <2>2, <2>7
    <3>3. known[f] \subseteq LiveIds(e) BY Zenon, <1>1, <2>3, <2>7 DEF BackingSound
    <3> QED BY Zenon, <2>2, <2>4, <2>6, <2>7, <2>8, <3>1, <3>2, <3>3 DEF BackingSound
  <2>10. LiveIds(e) \subseteq LiveIds(b) \cup (issued + 1)..issued'
    BY <1>5, <1>7, <2>3, <2>7
  <2>11. used' = used - LiveBytes(b) + LiveBytes(e)
    <3>1. LiveBytes(b) \in Nat BY ZenonT(30), <1>1, LiveBytesSums
    <3> QED BY <1>1, <1>4, <1>7, <2>2, <2>7, <3>1
  <2>12. av' = [av EXCEPT ![f] = e] BY Zenon, <1>7, <2>1, <2>5
  <2>13. /\ known' = [known EXCEPT ![f] = known[f]] /\ corrupt' = FALSE
         /\ issued' \in issued..MaxId
    BY Zenon, <1>1, <1>2, <1>5, <1>7
  <2> QED BY ZenonT(30), <1>1, <2>6, <2>9, <2>10, <2>11, <2>12, <2>13, AvStep
<1>8. CASE av' = [av EXCEPT ![f].phase = "Failed"] /\ UNCHANGED <<used, issued>>
  <2>1. PICK c : c = [b EXCEPT !.phase = "Failed"] BY ZenonT(30)
  <2>2. /\ c \in Backings /\ c.slot = b.slot /\ c.local = b.local /\ c.pending = b.pending
        /\ c.phase = "Failed"
    BY ZenonT(30), <1>1, <2>1 DEF Backings
  <2>3. known[f] \subseteq LiveIds(c) /\ \A i \in DOMAIN c.pending : c.pending[i] \notin known[f]
    BY <1>1, <2>2 DEF BackingSound, LiveIds, SharedIds, LocalIds
  <2>4. /\ av' = [av EXCEPT ![f] = c] /\ known' = [known EXCEPT ![f] = known[f]]
        /\ UNCHANGED <<used, corrupt, issued>>
    BY Zenon, <1>1, <1>2, <1>8, <2>1
  <2> QED BY ZenonT(30), <1>1, <2>2, <2>3, <2>4, AvQuietStep
<1> QED BY Zenon, <1>7, <1>8 DEF AllocatePayload

\* Delivery of the events that wait: the client learns of live allocations.
LEMMA DeliverStep ==
    ASSUME AvInv, NEW f \in AvFilters, DeliverPending(f)
    PROVE  AvInv'
<1>1. av[f] \in Backings /\ known[f] \in SUBSET Ids /\ BackingSound(av[f], known[f], issued)
  BY Zenon DEF AvInv
<1>2. PICK c, k : /\ c = [av[f] EXCEPT !.pending = <<>>]
                  /\ k = known[f] \cup (Range(av[f].pending) \cap LiveIds(av[f]))
  BY ZenonT(30)
<1>3. /\ av' = [av EXCEPT ![f] = c] /\ known' = [known EXCEPT ![f] = k]
      /\ UNCHANGED <<used, corrupt, issued>> /\ av[f].phase = "Started"
  BY Zenon, <1>2 DEF DeliverPending
<1>4. <<>> \in Seq(Ids) /\ DOMAIN <<>> = {} OBVIOUS
<1>5. /\ c \in Backings /\ c.slot = av[f].slot /\ c.local = av[f].local /\ c.pending = <<>>
      /\ c.phase = "Started"
  BY ZenonT(30), <1>1, <1>2, <1>3, <1>4 DEF Backings
<1>6. LiveIds(c) = LiveIds(av[f]) BY Zenon, <1>5 DEF LiveIds, SharedIds, LocalIds
<1>7. k \subseteq LiveIds(c) /\ k \in SUBSET Ids
  <2>1. LiveIds(av[f]) \subseteq Ids
    BY <1>1, AvAssumption DEF AvInv, BackingSound, Ids
  <2> QED BY Zenon, <1>1, <1>2, <1>6, <2>1 DEF BackingSound
<1> QED BY ZenonT(30), <1>3, <1>4, <1>5, <1>7, AvQuietStep

\* A filter gets an empty backing.
LEMMA RegisterStep ==
    ASSUME AvInv, NEW f \in AvFilters, RegisterAv(f)
    PROVE  AvInv'
<1>1. /\ av[f] = Fresh /\ known[f] = {} /\ known' = [known EXCEPT ![f] = {}]
      /\ UNCHANGED <<used, corrupt, issued>> /\ corrupt = FALSE /\ used \in Nat /\ issued \in 0..MaxId
  <2>1. BackingSound(av[f], known[f], issued) BY Zenon DEF AvInv
  <2> QED BY <2>1 DEF AvInv, RegisterAv, BackingSound
<1>2. PICK c : c = [Fresh EXCEPT !.phase = "Started", !.gate = "Open"] BY Zenon
<1>3. av' = [av EXCEPT ![f] = c] BY Zenon, <1>2 DEF RegisterAv
<1>4. /\ c \in Backings /\ BackingSound(c, {}, issued') /\ LiveIds(c) = {} /\ LiveBytes(c) = 0
  BY Zenon, <1>2, EmptiedPhase
<1>5. used' = used - LiveBytes(av[f]) + LiveBytes(c) BY <1>1, <1>4, FreshBacking
<1>6. issued' \in issued..MaxId /\ {} \in SUBSET Ids /\ corrupt' = FALSE BY <1>1, AvAssumption
<1> QED BY ZenonT(30), <1>1, <1>3, <1>4, <1>5, <1>6, AvStep

\* Handing out the shared handle moves no allocation.
LEMMA ExportStep ==
    ASSUME AvInv, NEW f \in AvFilters, ExportHandle(f)
    PROVE  AvInv'
<1>1. av[f] \in Backings /\ known[f] \in SUBSET Ids /\ BackingSound(av[f], known[f], issued)
      /\ known = [known EXCEPT ![f] = known[f]]
  BY Zenon DEF AvInv
<1>2. PICK c : c = [av[f] EXCEPT !.handle = "ExportedActive", !.exported = TRUE] BY Zenon
<1>3. /\ av' = [av EXCEPT ![f] = c] /\ known' = [known EXCEPT ![f] = known[f]]
      /\ UNCHANGED <<used, corrupt, issued>> /\ av[f].phase = "Started"
  BY ZenonT(30), <1>1, <1>2 DEF ExportHandle
<1>4. /\ c \in Backings /\ c.slot = av[f].slot /\ c.local = av[f].local
      /\ c.pending = av[f].pending /\ c.phase = "Started"
  BY ZenonT(30), <1>1, <1>2, <1>3 DEF Backings
<1>5. known[f] \subseteq LiveIds(c) /\ \A i \in DOMAIN c.pending : c.pending[i] \notin known[f]
  BY <1>1, <1>4 DEF BackingSound, LiveIds, SharedIds, LocalIds
<1> QED BY ZenonT(30), <1>1, <1>3, <1>4, <1>5, AvQuietStep

\* Freeing data ids of one filter that the client no longer uses.
LEMMA FreeStep ==
    ASSUME AvInv, NEW f \in AvFilters, NEW ids, NEW c \in Backings, NEW k \in SUBSET known[f],
           av' = [av EXCEPT ![f] = c], known' = [known EXCEPT ![f] = k], UNCHANGED issued,
           ReleaseBudget(BytesOf(av[f], ids)),
           c.slot = Freed(av[f], ids).slot, c.local = Freed(av[f], ids).local,
           k \cap ids = {}, \A i \in DOMAIN c.pending : c.pending[i] \notin k,
           c.phase # "Absent"
    PROVE  AvInv'
<1>1. /\ av[f] \in Backings /\ known[f] \in SUBSET Ids /\ BackingSound(av[f], known[f], issued)
      /\ issued \in 0..MaxId
  BY Zenon DEF AvInv
<1>2. PICK d : d = Freed(av[f], ids) BY Zenon
<1>3. /\ d \in Backings /\ SharedIds(d) = SharedIds(av[f]) \ ids /\ LocalIds(d) = LocalIds(av[f]) \ ids
      /\ LiveIds(d) = LiveIds(av[f]) \ ids /\ LiveBytes(d) <= LiveBytes(av[f])
      /\ \A s \in Slots : d.slot[s] = av[f].slot[s] \/ d.slot[s] = FreeSlot
  BY <1>1, <1>2, FreedBacking
<1>4. /\ LiveIds(c) = LiveIds(d) /\ LiveBytes(c) = LiveBytes(d)
      /\ SharedIds(c) = SharedIds(d) /\ LocalIds(c) = LocalIds(d) /\ c.slot = d.slot
  BY Zenon, <1>2 DEF LiveIds, LiveBytes, SharedIds, LocalIds
<1>5. LiveBytes(c) \in Nat /\ LiveBytes(av[f]) \in Nat BY ZenonT(30), <1>1, LiveBytesSums
<1>6. BackingSound(c, k, issued')
  <2>1. \A s \in Slots : c.slot[s].id = 0 => c.slot[s].len = 0
    BY <1>1, <1>3, <1>4 DEF BackingSound, FreeSlot
  <2>2. LiveBytes(c) <= PerFilterBytes BY <1>1, <1>3, <1>4, <1>5, AvAssumption DEF BackingSound
  <2> QED BY Zenon, <1>1, <1>3, <1>4, <2>1, <2>2 DEF BackingSound
<1>7. ReleaseBudget(LiveBytes(av[f]) - LiveBytes(c)) BY Zenon, <1>2, <1>4 DEF BytesOf
<1>8. used' = used - LiveBytes(av[f]) + LiveBytes(c) /\ corrupt' = FALSE
  BY ZenonT(30), <1>3, <1>4, <1>7, FreedBudget
<1>9. issued' \in issued..MaxId /\ k \in SUBSET Ids BY <1>1, AvAssumption
<1> QED BY ZenonT(30), <1>3, <1>4, <1>6, <1>8, <1>9, AvStep

\* The events that are discarded were never delivered.
LEMMA DiscardStep ==
    ASSUME AvInv, NEW f \in AvFilters, DiscardPending(f)
    PROVE  AvInv'
<1>1. /\ av[f] \in Backings /\ known[f] \in SUBSET Ids /\ BackingSound(av[f], known[f], issued)
      /\ known = [known EXCEPT ![f] = known[f]]
  BY Zenon DEF AvInv
<1> DEFINE b == av[f]
           gone == {i \in DOMAIN b.pending : b.pending[i] \notin LiveIds(b)}
           ids == {b.pending[i] : i \in {j \in DOMAIN b.pending : \A l \in gone : j < l}}
           c == [Freed(b, ids) EXCEPT !.pending = <<>>]
<1>2. PICK I : I = ids BY ZenonT(30)
<1>3. known[f] \cap I = {} BY <1>1, <1>2 DEF BackingSound
<1>4. PICK e : e = IF gone = {} THEN c ELSE [c EXCEPT !.phase = "Failed", !.gate = "Closed"]
  BY ZenonT(30)
<1>5. /\ b.phase = "Started" /\ ReleaseBudget(BytesOf(b, I)) /\ UNCHANGED issued
      /\ av' = [av EXCEPT ![f] = e] /\ known' = [known EXCEPT ![f] = known[f]]
  BY Zenon, <1>1, <1>2, <1>4 DEF DiscardPending
<1>6. PICK d : d = Freed(b, I) BY Zenon
<1>7. d \in Backings /\ d.phase = "Started" BY Zenon, <1>1, <1>5, <1>6, FreedBacking
<1>8. \/ e = [d EXCEPT !.pending = <<>>]
      \/ e = [d EXCEPT !.pending = <<>>, !.phase = "Failed", !.gate = "Closed"]
  BY ZenonT(30), <1>2, <1>4, <1>6, <1>7 DEF Backings
<1>9. <<>> \in Seq(Ids) /\ DOMAIN <<>> = {} OBVIOUS
<1>10. /\ e \in Backings /\ e.slot = d.slot /\ e.local = d.local /\ e.pending = <<>>
       /\ e.phase # "Absent"
  BY ZenonT(30), <1>7, <1>8, <1>9 DEF Backings
<1> HIDE DEF b, gone, ids, c
<1> QED BY ZenonT(30), <1>1, <1>3, <1>5, <1>6, <1>9, <1>10, FreeStep DEF b

\* The bytes a release gives back to the budget.
ReleaseCharged(f, id, outcome) ==
    IF outcome = "SlotReleased" THEN ReleaseBudget(BytesOf(av[f], {id}))
    ELSE UNCHANGED <<used, corrupt>>

\* c is what a step leaves of the backing of f, k the data ids still known.
Leaves(f, c, k) ==
    /\ c \in Backings /\ c.phase = av[f].phase /\ c.pending = av[f].pending
    /\ k \in SUBSET known[f] /\ k \subseteq LiveIds(c) /\ BackingSound(c, k, issued)
    /\ LiveIds(c) \subseteq LiveIds(av[f])
    /\ used' = used - LiveBytes(av[f]) + LiveBytes(c) /\ corrupt' = FALSE

\* What a release leaves of a backing, before a backing without a client is
\* given up.
LEMMA ReleaseLeaves ==
    ASSUME AvInv, NEW f \in AvFilters, NEW d \in Descriptors, NEW id \in Int,
           NEW outcome, outcome = Classify(av[f], d, id), outcome \notin {"Refused", "Accepted"},
           NEW c, c = Applied(av[f], d, id, outcome),
           NEW k, k = IF outcome = "SlotReleased" THEN known[f] \ {id} ELSE known[f],
           ReleaseCharged(f, id, outcome), HasBacking(av[f])
    PROVE  Leaves(f, c, k)
<1>1. /\ av[f] \in Backings /\ known[f] \in SUBSET Ids /\ BackingSound(av[f], known[f], issued)
      /\ issued \in 0..MaxId /\ used \in Nat /\ corrupt = FALSE
  BY Zenon DEF AvInv
<1>2. CASE outcome = "SlotReleased"
  <2>1. c = Freed(av[f], {id}) /\ ReleaseBudget(BytesOf(av[f], {id})) /\ k = known[f] \ {id}
    BY Zenon, <1>2 DEF Applied, ReleaseCharged
  <2>2. /\ c \in Backings /\ c.phase = av[f].phase /\ c.pending = av[f].pending
        /\ SharedIds(c) = SharedIds(av[f]) \ {id} /\ LocalIds(c) = LocalIds(av[f]) \ {id}
        /\ LiveIds(c) = LiveIds(av[f]) \ {id} /\ LiveBytes(c) <= LiveBytes(av[f])
        /\ \A s \in Slots : c.slot[s] = av[f].slot[s] \/ c.slot[s] = FreeSlot
    <3> PICK b \in Backings : b = av[f] BY ZenonT(30), <1>1
    <3> PICK ids : ids = {id} BY ZenonT(30)
    <3>1. FreedFrom(b, ids, Freed(b, ids)) BY ZenonT(30), FreedFromBacking
    <3> QED BY ZenonT(30), <2>1, <3>1 DEF FreedFrom
  <2>3. LiveBytes(c) \in Nat /\ LiveBytes(av[f]) \in Nat BY ZenonT(30), <1>1, <2>2, LiveBytesSums
  <2>4. ReleaseBudget(LiveBytes(av[f]) - LiveBytes(c)) BY ZenonT(30), <2>1 DEF BytesOf
  <2>5. used' = used - LiveBytes(av[f]) + LiveBytes(c) /\ corrupt' = FALSE
    BY ZenonT(30), <2>2, <2>4, FreedBudget
  <2>a. LiveBytes(av[f]) <= PerFilterBytes /\ LiveBytes(c) <= LiveBytes(av[f])
    BY ZenonT(30), <1>1, <2>2 DEF BackingSound
  <2>b. PICK S, T : S = av[f].slot /\ T = c.slot BY ZenonT(30)
  <2>c. /\ \A s \in Slots : S[s].id = 0 => S[s].len = 0
        /\ \A s \in Slots : T[s] = S[s] \/ T[s] = FreeSlot
    BY ZenonT(30), <1>1, <2>2, <2>b DEF BackingSound
  <2>d. \A s \in Slots : T[s].id = 0 => T[s].len = 0 BY <2>c DEF FreeSlot
  <2>6. \A s \in Slots : c.slot[s].id = 0 => c.slot[s].len = 0 BY ZenonT(30), <2>b, <2>d
  <2>7. LiveBytes(c) <= PerFilterBytes BY <2>3, <2>a, AvAssumption
  <2>8. BackingSound(c, k, issued) BY ZenonT(30), <1>1, <2>1, <2>2, <2>6, <2>7 DEF BackingSound, HasBacking
  <2> QED BY ZenonT(30), <2>1, <2>2, <2>5, <2>8 DEF BackingSound, Leaves
<1>3. CASE outcome # "SlotReleased"
  <2>1. /\ c = [av[f] EXCEPT !.handle = "ClientReleased"]
           \/ c = [av[f] EXCEPT !.lease = @ \ {d.id}] \/ c = av[f]
        /\ UNCHANGED <<used, corrupt>> /\ k = known[f]
    BY Zenon, <1>3 DEF Applied, ReleaseCharged
  <2>2. /\ c \in Backings /\ c.phase = av[f].phase /\ c.pending = av[f].pending
        /\ c.slot = av[f].slot /\ c.local = av[f].local
    <3> PICK b \in Backings : b = av[f] BY ZenonT(30), <1>1
    <3> PICK L : L = b.lease \ {d.id} BY ZenonT(30)
    <3>1. L \subseteq Ids BY Zenon DEF Backings
    <3>2. CASE c = [b EXCEPT !.handle = "ClientReleased"] BY ZenonT(30), <3>2 DEF Backings
    <3>3. CASE c = [b EXCEPT !.lease = L] BY ZenonT(30), <3>1, <3>3 DEF Backings
    <3> QED BY Zenon, <2>1, <3>2, <3>3
  <2>3. /\ LiveIds(c) = LiveIds(av[f]) /\ LiveBytes(c) = LiveBytes(av[f])
        /\ SharedIds(c) = SharedIds(av[f]) /\ LocalIds(c) = LocalIds(av[f])
    BY <2>2 DEF LiveIds, LiveBytes, SharedIds, LocalIds
  <2>4. BackingSound(c, k, issued) BY Zenon, <1>1, <2>1, <2>2, <2>3 DEF BackingSound, HasBacking
  <2>5. LiveBytes(c) \in Nat BY ZenonT(30), <2>2, LiveBytesSums
  <2>6. used' = used - LiveBytes(av[f]) + LiveBytes(c) BY <1>1, <2>1, <2>3, <2>5
  <2>7. corrupt' = FALSE BY Zenon, <1>1, <2>1
  <2> QED BY Zenon, <2>1, <2>2, <2>3, <2>4, <2>6, <2>7 DEF BackingSound, Leaves
<1> QED BY Zenon, <1>2, <1>3

\* A release of the client, which may end a retained backing.
LEMMA ReleaseStep ==
    ASSUME AvInv, NEW f \in AvFilters, NEW d \in Descriptors, NEW id \in Int,
           ReleaseAvHandle(f, d, id)
    PROVE  AvInv'
<1>1. PICK outcome : outcome = Classify(av[f], d, id) BY Zenon
<1>2. PICK c : c = Applied(av[f], d, id, outcome) BY Zenon
<1>3. PICK k : k = IF outcome = "SlotReleased" THEN known[f] \ {id} ELSE known[f] BY ZenonT(30)
<1>4. PICK e : e = IF av[f].phase = "Retained" /\ ReleaseIsComplete(c)
                   THEN [Fresh EXCEPT !.phase = "Released"] ELSE c
  BY ZenonT(30)
<1>5. /\ HasBacking(av[f]) /\ outcome \notin {"Refused", "Accepted"}
      /\ av' = [av EXCEPT ![f] = e] /\ known' = [known EXCEPT ![f] = k] /\ UNCHANGED issued
      /\ IF outcome = "SlotReleased" THEN ReleaseBudget(BytesOf(av[f], {id}))
           ELSE UNCHANGED <<used, corrupt>>
  BY Zenon, <1>1, <1>2, <1>3, <1>4 DEF ReleaseAvHandle, AvInv
<1>a. ReleaseCharged(f, id, outcome) BY Zenon, <1>5 DEF ReleaseCharged
<1>b. Leaves(f, c, k) BY Zenon, <1>1, <1>2, <1>3, <1>5, <1>a, ReleaseLeaves
<1>6. /\ c \in Backings /\ c.phase = av[f].phase /\ c.pending = av[f].pending
      /\ k \in SUBSET known[f] /\ k \subseteq LiveIds(c) /\ BackingSound(c, k, issued)
      /\ LiveIds(c) \subseteq LiveIds(av[f])
      /\ used' = used - LiveBytes(av[f]) + LiveBytes(c) /\ corrupt' = FALSE
  BY Zenon, <1>b DEF Leaves
<1>7. k \in SUBSET Ids /\ issued' \in issued..MaxId /\ issued' = issued
  BY <1>5, <1>6, AvAssumption DEF AvInv
<1>8. CASE e = c BY ZenonT(30), <1>5, <1>6, <1>7, <1>8, AvStep
<1>9. CASE e # c
  <2>1. e = [Fresh EXCEPT !.phase = "Released"] /\ LiveIds(c) = {}
    BY Zenon, <1>4, <1>9 DEF ReleaseIsComplete
  <2>2. k = {} BY Zenon, <1>6, <2>1
  <2>3. LiveBytes(c) = 0 BY Zenon, <1>6, <2>1, NoIdsNoBytes
  <2>4. e \in Backings /\ BackingSound(e, {}, issued') /\ LiveIds(e) = {} /\ LiveBytes(e) = 0
    BY Zenon, <2>1, EmptiedPhase
  <2>5. used' = used - LiveBytes(av[f]) + LiveBytes(e) BY Zenon, <1>6, <2>3, <2>4
  <2> QED BY ZenonT(30), <1>5, <1>6, <1>7, <2>2, <2>4, <2>5, AvStep
<1> QED BY Zenon, <1>8, <1>9

\* A close keeps a backing the client still uses.
LEMMA CloseAvStep ==
    ASSUME AvInv, NEW f \in AvFilters, CloseAv(f)
    PROVE  AvInv'
<1>1. /\ av[f] \in Backings /\ known[f] \in SUBSET Ids /\ BackingSound(av[f], known[f], issued)
      /\ known = [known EXCEPT ![f] = known[f]] /\ issued \in 0..MaxId /\ used \in Nat
      /\ corrupt = FALSE
  BY Zenon DEF AvInv
<1>2. PICK e : e = IF ReleaseIsComplete(av[f]) THEN [Fresh EXCEPT !.phase = "Released"]
                   ELSE [av[f] EXCEPT !.phase = "Retained", !.gate = "Closed", !.pending = <<>>]
  BY ZenonT(30)
<1>3. /\ av' = [av EXCEPT ![f] = e] /\ known' = [known EXCEPT ![f] = known[f]]
      /\ UNCHANGED <<used, corrupt, issued>>
  BY Zenon, <1>1, <1>2 DEF CloseAv
<1>4. CASE ReleaseIsComplete(av[f])
  <2>1. e = [Fresh EXCEPT !.phase = "Released"] /\ LiveIds(av[f]) = {}
    BY Zenon, <1>2, <1>4 DEF ReleaseIsComplete
  <2>2. known[f] = {} /\ LiveBytes(av[f]) = 0 BY Zenon, <1>1, <2>1, NoIdsNoBytes DEF BackingSound
  <2>3. e \in Backings /\ BackingSound(e, {}, issued') /\ LiveIds(e) = {} /\ LiveBytes(e) = 0
    BY Zenon, <2>1, EmptiedPhase
  <2>4. used' = used - LiveBytes(av[f]) + LiveBytes(e) BY <1>1, <1>3, <2>2, <2>3
  <2>5. issued' \in issued..MaxId /\ corrupt' = FALSE BY <1>1, <1>3, AvAssumption
  <2> QED BY ZenonT(30), <1>1, <1>3, <2>2, <2>3, <2>4, <2>5, AvStep
<1>5. CASE ~ReleaseIsComplete(av[f])
  <2>1. <<>> \in Seq(Ids) /\ DOMAIN <<>> = {} OBVIOUS
  <2>2. e = [av[f] EXCEPT !.phase = "Retained", !.gate = "Closed", !.pending = <<>>]
    BY Zenon, <1>2, <1>5
  <2>3. /\ e \in Backings /\ e.slot = av[f].slot /\ e.local = av[f].local
        /\ e.pending = <<>> /\ e.phase = "Retained"
    BY ZenonT(30), <1>1, <2>1, <2>2 DEF Backings
  <2>4. known[f] \subseteq LiveIds(e)
    BY <1>1, <2>3 DEF BackingSound, LiveIds, SharedIds, LocalIds
  <2> QED BY ZenonT(30), <1>1, <1>3, <2>1, <2>3, <2>4, AvQuietStep
<1> QED BY Zenon, <1>4, <1>5

\* The last reference goes: every byte returns to the budget.
LEMMA DropAvStep ==
    ASSUME AvInv, NEW f \in AvFilters, DropAv(f)
    PROVE  AvInv'
<1>1. av[f] \in Backings /\ issued \in 0..MaxId BY Zenon DEF AvInv
<1>2. PICK e : e = [Fresh EXCEPT !.phase = "Dropped"] BY ZenonT(30)
<1>3. /\ av' = [av EXCEPT ![f] = e] /\ known' = [known EXCEPT ![f] = {}] /\ UNCHANGED issued
      /\ ReleaseBudget(LiveBytes(av[f]))
  BY Zenon, <1>2 DEF DropAv
<1>4. e \in Backings /\ BackingSound(e, {}, issued') /\ LiveIds(e) = {} /\ LiveBytes(e) = 0
  BY Zenon, <1>2, EmptiedPhase
<1>5. LiveBytes(av[f]) \in Nat BY ZenonT(30), <1>1, LiveBytesSums
<1>6. LiveBytes(av[f]) - LiveBytes(e) = LiveBytes(av[f]) /\ LiveBytes(e) <= LiveBytes(av[f])
  BY <1>4, <1>5
<1>7. used' = used - LiveBytes(av[f]) + LiveBytes(e) /\ corrupt' = FALSE
  BY ZenonT(30), <1>3, <1>4, <1>6, FreedBudget
<1>8. issued' \in issued..MaxId /\ {} \in SUBSET Ids BY <1>1, <1>3, AvAssumption
<1> QED BY ZenonT(30), <1>3, <1>4, <1>7, <1>8, AvStep

\* No backing, no bytes.
LEMMA AvInitial == ASSUME AvInit PROVE AvInv
<1>1. \A f \in AvFilters : av[f] = Fresh /\ known[f] = {} BY Zenon DEF AvInit
<1>2. issued = 0 /\ used = 0 /\ corrupt = FALSE /\ 0 \in 0..MaxId BY AvAssumption DEF AvInit
<1>3. /\ av \in [AvFilters -> Backings] /\ known \in [AvFilters -> SUBSET Ids]
  BY Zenon, FreshBacking DEF AvInit
<1>4. BackingSound(Fresh, {}, issued)
  <2>1. \A s \in Slots : Fresh.slot[s].len = 0 BY Zenon DEF Fresh, FreeSlot
  <2>2. DOMAIN Fresh.pending = {} BY DEF Fresh
  <2> QED BY <2>1, <2>2, FreshBacking, AvAssumption DEF BackingSound
<1>5. TotalBytes = 0
  <2> PICK h : h = [f \in AvFilters |-> LiveBytes(av[f])] BY ZenonT(30)
  <2>1. h \in [AvFilters -> Nat] /\ \A f \in AvFilters : h[f] = 0 BY <1>1, FreshBacking
  <2>2. SumFunctionOnSet(h, AvFilters) = 0 BY Zenon, <2>1, AvAssumption, SumZero
  <2> QED BY Zenon, <2>2 DEF TotalBytes, SumFunction
<1>6. \A f, g \in AvFilters : f # g => LiveIds(av[f]) \cap LiveIds(av[g]) = {}
  BY Zenon, <1>1, FreshBacking
<1> QED BY Zenon, <1>1, <1>2, <1>3, <1>4, <1>5, <1>6 DEF AvInv

\* Every step keeps the media memory.
LEMMA AvNextStep == ASSUME AvInv, [AvNext]_avVars PROVE AvInv'
<1>1. CASE UNCHANGED avVars BY Zenon, <1>1 DEF AvInv, avVars, TotalBytes
<1>2. ASSUME NEW f \in AvFilters, RegisterAv(f) PROVE AvInv' BY Zenon, <1>2, RegisterStep
<1>3. ASSUME NEW f \in AvFilters, ExportHandle(f) PROVE AvInv' BY Zenon, <1>3, ExportStep
<1>4. ASSUME NEW f \in AvFilters, NEW n \in Lengths, NEW fault \in {"none", "unmap"},
             AllocatePayload(f, n, fault)
      PROVE  AvInv'
  BY Zenon, <1>4, AllocateStep
<1>5. ASSUME NEW f \in AvFilters, DeliverPending(f) PROVE AvInv' BY Zenon, <1>5, DeliverStep
<1>6. ASSUME NEW f \in AvFilters, DiscardPending(f) PROVE AvInv' BY Zenon, <1>6, DiscardStep
<1>7. ASSUME NEW f \in AvFilters, NEW d \in Descriptors, NEW id \in {-1, 0} \cup Ids,
             ReleaseAvHandle(f, d, id)
      PROVE  AvInv'
  <2>1. id \in Int BY AvAssumption DEF Ids
  <2> QED BY Zenon, <1>7, <2>1, ReleaseStep
<1>8. ASSUME NEW f \in AvFilters, CloseAv(f) PROVE AvInv' BY Zenon, <1>8, CloseAvStep
<1>9. ASSUME NEW f \in AvFilters, DropAv(f) PROVE AvInv' BY Zenon, <1>9, DropAvStep
<1> QED BY Zenon, <1>1, <1>2, <1>3, <1>4, <1>5, <1>6, <1>7, <1>8, <1>9 DEF AvNext

\* The inductive invariant of the media memory.
LEMMA AvInvHolds == AvSpec => []AvInv
<1>1. AvInit => AvInv BY Zenon, AvInitial
<1>2. AvInv /\ [AvNext]_avVars => AvInv' BY Zenon, AvNextStep
<1> QED BY <1>1, <1>2, PTL DEF AvSpec

\* The budget is the sum of the bytes of all allocations that exist, and no data id
\* names two of them (AvRuntimeBudget, AvDataIdAllocator).
THEOREM Budget_Exact == AvSpec => []BudgetExact
<1>1. AvInv => BudgetExact BY Zenon DEF AvInv, BudgetExact, BackingSound, TotalBytes
<1> QED BY <1>1, AvInvHolds, PTL

\* What the client received and did not release stays allocated
\* (flush_slots_keep_exported_handle, transact_unregister_filter_runtime).
THEOREM Delivered_StaysMapped == AvSpec => []DeliveredStaysMapped
<1>1. AvInv => DeliveredStaysMapped BY Zenon DEF AvInv, DeliveredStaysMapped, BackingSound
<1> QED BY <1>1, AvInvHolds, PTL

---------------------------------------------------------------------------
(* The key slot.                                                           *)

Storing == writer.pc \in {"valid", "words"}

(* The owner's half of the sequence lock: the sequence is even exactly     *)
(* outside a store, the words written so far are those of the key being    *)
(* stored, and a key is being stored only in a live slot.                  *)
OwnerInv ==
  /\ Storing => Odd(sequence)
  /\ ~ Storing => ~ Odd(sequence) \/ sequence = MaxSequence
  /\ ~ Storing /\ valid = 1 => words \in Keys
  /\ writer.pc = "words" =>
       /\ valid = IF writer.key = NoKey THEN 0 ELSE 1
       /\ \A w \in Words : w < writer.i =>
            words[w] = IF writer.key = NoKey THEN 0 ELSE writer.key[w]
  /\ writer.pc /= "idle" /\ writer.key /= NoKey => live = {"live"}

(* The reader's half: what it has read is what the slot holds as long as   *)
(* the sequence it loaded, an even one, has not moved.                     *)
ReaderInv(r) ==
  reader[r].pc \in {"valid", "words"} =>
    /\ ~ Odd(reader[r].before)
    /\ reader[r].before <= sequence
    /\ sequence = reader[r].before /\ reader[r].pc = "words" =>
         /\ reader[r].ready = valid
         /\ \A w \in Words : w < reader[r].i => reader[r].got[w] = words[w]

Inv == TypeOK /\ OwnerInv /\ \A r \in Readers : ReaderInv(r)

USE KeysAssumption, WordAssumption, SequenceAssumption, AttemptsAssumption

-----------------------------------------------------------------------------
LEMMA Init_Inv == Init => Inv
  BY DEF Init, Inv, TypeOK, OwnerInv, ReaderInv, Idle, NoWords, Words, Storing, Odd,
         WriterType, ReaderType

LEMMA Parity ==
  /\ \A n \in Nat : ~ Odd(n) => Odd(n + 1)
  /\ \A n \in Nat : Odd(n) => ~ Odd(n + 1)
  /\ Odd(MaxSequence)
  BY DEF Odd

LEMMA KeyWords == \A k \in Keys : k \in [Words -> Nat]
  BY Zenon

(* What a reader may rely on across a step of the owner. *)
Effect == /\ reader' = reader
          /\ sequence <= sequence'
          /\ sequence' = sequence /\ ~ Odd(sequence) => valid' = valid /\ words' = words

(* A step of the owner keeps its own half. *)
LEMMA Owner_OwnerInv ==
  ASSUME TypeOK, OwnerInv, Owner
  PROVE  TypeOK' /\ OwnerInv' /\ Effect
  <1> USE DEF Storing, CanStore
  <1>1. ASSUME NEW k \in Keys, Update(k) PROVE TypeOK' /\ OwnerInv' /\ Effect
    <2>1. writer' \in WriterType BY <1>1 DEF Update, TypeOK, WriterType
    <2>2. TypeOK' BY Zenon, <1>1, <2>1 DEF Update, TypeOK
    <2>3. OwnerInv' BY Zenon, <1>1, <2>1 DEF Update, Updatable, OwnerInv, TypeOK, WriterType
    <2>4. Effect BY <1>1 DEF Update, Effect, OwnerInv, TypeOK
    <2> QED BY Zenon, <2>2, <2>3, <2>4
  <1>2. CASE Withdraw
    <2>1. writer' \in WriterType BY <1>2 DEF Withdraw, TypeOK, WriterType
    <2>2. TypeOK' BY Zenon, <1>2, <2>1 DEF Withdraw, TypeOK
    <2>3. OwnerInv' BY Zenon, <1>2, <2>1 DEF Withdraw, OwnerInv, TypeOK, WriterType
    <2>4. Effect BY <1>2 DEF Withdraw, Effect, OwnerInv, TypeOK
    <2> QED BY Zenon, <2>2, <2>3, <2>4
  <1>3. CASE Close
    <2>1. writer' \in WriterType BY <1>3 DEF Close, TypeOK, WriterType
    <2>2. TypeOK' BY Zenon, <1>3, <2>1 DEF Close, TypeOK
    <2>3. OwnerInv' BY Zenon, <1>3, <2>1 DEF Close, OwnerInv, TypeOK, WriterType
    <2>4. Effect BY <1>3 DEF Close, Effect, OwnerInv, TypeOK
    <2> QED BY Zenon, <2>2, <2>3, <2>4
  <1>4. CASE BeginStore
    <2>1. writer' \in WriterType BY <1>4 DEF BeginStore, TypeOK, WriterType
    <2>2. TypeOK' BY <1>4, <2>1 DEF BeginStore, TypeOK
    <2>3. OwnerInv' BY <1>4, <2>1, Parity DEF BeginStore, OwnerInv, TypeOK, WriterType
    <2>4. Effect BY <1>4 DEF BeginStore, Effect, OwnerInv, TypeOK
    <2> QED BY Zenon, <2>2, <2>3, <2>4
  <1>5. CASE StoreValid
    <2>1. writer' \in WriterType BY <1>5 DEF StoreValid, TypeOK, WriterType
    <2>2. TypeOK' BY Zenon, <1>5, <2>1 DEF StoreValid, TypeOK
    <2>3. OwnerInv' BY <1>5, <2>1 DEF StoreValid, OwnerInv, TypeOK, WriterType, Words
    <2>4. Effect BY <1>5 DEF StoreValid, Effect, OwnerInv, TypeOK
    <2> QED BY Zenon, <2>2, <2>3, <2>4
  <1>6. CASE StoreWord
    <2> DEFINE word == IF writer.key = NoKey THEN 0 ELSE writer.key[writer.i]
    <2>0. writer.i \in Words BY <1>6 DEF StoreWord, TypeOK, WriterType, Words
    <2>a. word \in Nat
      <3>1. CASE writer.key = NoKey BY Zenon, <3>1
      <3>2. CASE writer.key \in Keys BY Zenon, <3>2, <2>0, KeyWords
      <3> QED BY Zenon, <3>1, <3>2 DEF TypeOK, WriterType
    <2>b. /\ words' = [words EXCEPT ![writer.i] = word]
          /\ word = IF writer.key = NoKey THEN 0 ELSE writer.key[writer.i]
      BY Zenon, <1>6 DEF StoreWord
    <2> HIDE DEF word
    <2>1. writer' \in WriterType BY <1>6 DEF StoreWord, TypeOK, WriterType
    <2>2. TypeOK' BY ZenonT(60), <1>6, <2>1, <2>a, <2>b DEF StoreWord, TypeOK
    <2>5. ASSUME NEW w \in Words, w < writer'.i
          PROVE  words'[w] = IF writer.key = NoKey THEN 0 ELSE writer.key[w]
      <3>1. CASE w = writer.i BY Zenon, <3>1, <2>b, <2>0 DEF TypeOK
      <3>2. CASE w < writer.i BY <1>6, <3>2, <2>b, <2>0 DEF StoreWord, OwnerInv, TypeOK
      <3>3. w = writer.i \/ w < writer.i
        BY <1>6, <2>0, <2>5 DEF StoreWord, Words
      <3> QED BY Zenon, <3>1, <3>2, <3>3
    <2>3. OwnerInv' BY Zenon, <1>6, <2>5 DEF StoreWord, OwnerInv
    <2>4. Effect BY <1>6 DEF StoreWord, Effect, OwnerInv, TypeOK
    <2> QED BY Zenon, <2>2, <2>3, <2>4
  <1>7. CASE EndStore
    <2>1. writer' \in WriterType BY <1>7 DEF EndStore, Idle, TypeOK, WriterType
    <2>a. sequence' \in 0 .. MaxSequence BY <1>7 DEF EndStore, TypeOK
    <2>b. live' \in {{}, {"live"}} BY Zenon, <1>7 DEF EndStore, TypeOK
    <2>2. TypeOK' BY Zenon, <1>7, <2>1, <2>a, <2>b DEF EndStore, TypeOK
    <2>c. sequence' = MaxSequence \/ ~ Odd(sequence')
      BY <1>7, Parity DEF EndStore, OwnerInv, TypeOK
    <2>d. valid = 1 => words \in Keys
      <3> SUFFICES ASSUME valid = 1 PROVE words \in Keys
        BY Zenon
      <3>1. writer.key \in Keys BY <1>7 DEF EndStore, OwnerInv, TypeOK, WriterType
      <3>2. \A w \in Words : words[w] = writer.key[w]
        BY <1>7, <3>1 DEF EndStore, OwnerInv, TypeOK, WriterType, Words
      <3>3. words = writer.key BY <3>1, <3>2, KeyWords DEF TypeOK
      <3> QED BY Zenon, <3>1, <3>3
    <2>3. OwnerInv' BY Zenon, <1>7, <2>c, <2>d DEF EndStore, Idle, OwnerInv
    <2>4. Effect BY <1>7 DEF EndStore, Idle, Effect, OwnerInv, TypeOK
    <2> QED BY Zenon, <2>2, <2>3, <2>4
  <1> QED BY Zenon, <1>1, <1>2, <1>3, <1>4, <1>5, <1>6, <1>7 DEF Owner

(* What a reader has read stays right, or the sequence it loaded is gone. *)
LEMMA Owner_ReaderInv ==
  ASSUME TypeOK, OwnerInv, TypeOK', Effect, NEW r \in Readers, ReaderInv(r)
  PROVE  ReaderInv(r)'
  <1>1. reader[r].before \in Nat /\ sequence \in Nat /\ sequence' \in Nat
    BY DEF TypeOK, ReaderType
  <1> QED BY <1>1 DEF ReaderInv, Effect

(* A step of one reference: it leaves the slot alone, so only its own half  *)
(* of the sequence lock is at stake.                                        *)
LEMMA Reader_Moves ==
  ASSUME Inv, NEW r \in Readers, NEW new \in ReaderType, UNCHANGED slotVars,
         reader' = [reader EXCEPT ![r] = new],
         new.pc \in {"valid", "words"} =>
           /\ ~ Odd(new.before)
           /\ new.before <= sequence
           /\ sequence = new.before /\ new.pc = "words" =>
                /\ new.ready = valid
                /\ \A w \in Words : w < new.i => new.got[w] = words[w]
  PROVE  Inv'
  <1>1. TypeOK' BY Zenon DEF Inv, TypeOK, slotVars
  <1>2. OwnerInv' BY Zenon DEF Inv, OwnerInv, Storing, slotVars
  <1>3. ASSUME NEW q \in Readers PROVE ReaderInv(q)'
    <2>1. CASE q = r BY Zenon, <2>1 DEF Inv, TypeOK, ReaderInv, slotVars
    <2>2. CASE q /= r BY Zenon, <2>2 DEF Inv, TypeOK, ReaderInv, slotVars
    <2> QED BY Zenon, <2>1, <2>2
  <1> QED BY Zenon, <1>1, <1>2, <1>3 DEF Inv

(* What is read in full under an even, unmoved sequence is what the slot   *)
(* holds.                                                                  *)
LEMMA Read_Current ==
  ASSUME Inv, NEW r \in Readers, reader[r].pc = "words", reader[r].i > WordCount,
         sequence = reader[r].before
  PROVE  (IF reader[r].ready = 1 THEN reader[r].got ELSE NoKey) = Current
         /\ Current \in Keys \cup {NoKey}
  <1>1. ~ Odd(sequence) /\ ~ Storing BY Zenon DEF Inv, OwnerInv, ReaderInv
  <1>2. reader[r].ready = valid /\ \A w \in Words : reader[r].got[w] = words[w]
    BY SMTT(40) DEF Inv, ReaderInv, TypeOK, ReaderType, Words
  <1>3. reader[r].got = words BY <1>2 DEF Inv, TypeOK, ReaderType
  <1>4. Current = IF valid = 1 THEN words ELSE NoKey BY Zenon, <1>1 DEF Current, Storing
  <1> QED BY Zenon, <1>1, <1>2, <1>3, <1>4 DEF Inv, OwnerInv

LEMMA Retry_Inv ==
  ASSUME Inv, NEW r \in Readers, Retry(r), UNCHANGED slotVars
  PROVE  Inv' /\ reader'[r].out = reader[r].out
  <1>0. reader[r] \in ReaderType BY Zenon DEF Inv, TypeOK
  <1>1. CASE AttemptsLeft(r)
    <2> DEFINE new == [reader[r] EXCEPT !.pc = "sequence", !.attempt = reader[r].attempt + 1]
    <2>0. reader[r].attempt + 1 \in 1 .. Attempts BY <1>0, <1>1 DEF AttemptsLeft, ReaderType
    <2>a. reader' = [reader EXCEPT ![r] = new] BY Zenon, <1>1, <2>0 DEF Retry
    <2>1. /\ new \in ReaderType /\ new.pc = "sequence" /\ new.out = reader[r].out
          /\ reader' = [reader EXCEPT ![r] = new]
      BY ZenonT(60), <1>0, <2>0, <2>a DEF ReaderType
    <2> HIDE DEF new
    <2>2. Inv' BY ZenonT(60), <2>1, Reader_Moves
    <2> QED BY Zenon, <2>1, <2>2 DEF Inv, TypeOK
  <1>2. CASE ~ AttemptsLeft(r)
    <2> DEFINE new == [reader[r] EXCEPT !.pc = "recheck"]
    <2>1. /\ new \in ReaderType /\ new.pc = "recheck" /\ new.out = reader[r].out
          /\ reader' = [reader EXCEPT ![r] = new]
      BY Zenon, <1>0, <1>2 DEF Retry, ReaderType
    <2> HIDE DEF new
    <2>2. Inv' BY ZenonT(60), <2>1, Reader_Moves
    <2> QED BY Zenon, <2>1, <2>2 DEF Inv, TypeOK
  <1> QED BY Zenon, <1>1, <1>2 DEF Retry

(* A step of a reference keeps the invariant, leaves the slot alone, and   *)
(* what it answers is what the slot holds, nothing, or what it was.        *)
LEMMA Reference_Inv ==
  ASSUME Inv, NEW r \in Readers, Reference(r)
  PROVE  /\ Inv' /\ UNCHANGED slotVars
         /\ reader'[r].out \in {Current, NoKey, reader[r].out}
         /\ \A q \in Readers : q /= r => reader'[q] = reader[q]
  <1> DEFINE Goal == /\ Inv' /\ UNCHANGED slotVars
                     /\ reader'[r].out \in {Current, NoKey, reader[r].out}
                     /\ \A q \in Readers : q /= r => reader'[q] = reader[q]
  <1>0. reader[r] \in ReaderType /\ reader \in [Readers -> ReaderType] BY Zenon DEF Inv, TypeOK
  <1>m. ASSUME NEW new \in ReaderType, UNCHANGED slotVars,
               reader' = [reader EXCEPT ![r] = new], Inv',
               new.out \in {Current, NoKey, reader[r].out}
        PROVE  Goal
    BY Zenon, <1>m, <1>0
  <1>1. CASE Bind(r)
    <2> DEFINE new == [reader[r] EXCEPT !.pc = "check", !.out = NoKey]
    <2>1. /\ new \in ReaderType /\ new.pc \notin {"valid", "words"}
          /\ new.out \in {NoKey, reader[r].out}
          /\ reader' = [reader EXCEPT ![r] = new] /\ UNCHANGED slotVars
      BY ZenonT(60), <1>1, <1>0 DEF Bind, ReaderType
    <2> HIDE DEF new
    <2>2. Inv' BY ZenonT(60), <2>1, Reader_Moves
    <2> QED BY Zenon, <2>1, <2>2, <1>m
  <1>2. CASE Begin(r)
    <2> DEFINE new == [reader[r] EXCEPT !.pc = "check", !.out = NoKey]
    <2>1. /\ new \in ReaderType /\ new.pc \notin {"valid", "words"}
          /\ new.out \in {NoKey, reader[r].out}
          /\ reader' = [reader EXCEPT ![r] = new] /\ UNCHANGED slotVars
      BY ZenonT(60), <1>2, <1>0 DEF Begin, ReaderType
    <2> HIDE DEF new
    <2>2. Inv' BY ZenonT(60), <2>1, Reader_Moves
    <2> QED BY Zenon, <2>1, <2>2, <1>m
  <1>3. CASE Release(r)
    <2> DEFINE new == [reader[r] EXCEPT !.pc = "unbound", !.bound = {}, !.out = NoKey]
    <2>1. /\ new \in ReaderType /\ new.pc \notin {"valid", "words"}
          /\ new.out \in {NoKey, reader[r].out}
          /\ reader' = [reader EXCEPT ![r] = new] /\ UNCHANGED slotVars
      BY ZenonT(60), <1>3, <1>0 DEF Release, ReaderType
    <2> HIDE DEF new
    <2>2. Inv' BY ZenonT(60), <2>1, Reader_Moves
    <2> QED BY Zenon, <2>1, <2>2, <1>m
  <1>4. CASE CheckOwner(r)
    <2>1. CASE reader' = [reader EXCEPT ![r] = [@ EXCEPT !.pc = "sequence", !.attempt = 1]]
      <3> DEFINE new == [reader[r] EXCEPT !.pc = "sequence", !.attempt = 1]
      <3>0. 1 \in 1 .. Attempts OBVIOUS
      <3>1. /\ new \in ReaderType /\ new.pc \notin {"valid", "words"}
            /\ new.out \in {NoKey, reader[r].out}
        BY ZenonT(60), <1>0, <3>0 DEF ReaderType
      <3>2. reader' = [reader EXCEPT ![r] = new] /\ UNCHANGED slotVars
        BY Zenon, <1>4, <2>1 DEF CheckOwner, ReaderType
      <3> HIDE DEF new
      <3>3. Inv' BY ZenonT(60), <3>1, <3>2, Reader_Moves
      <3> QED BY Zenon, <3>1, <3>2, <3>3, <1>m
    <2>2. CASE reader' = [reader EXCEPT ![r] = [@ EXCEPT !.pc = Settled(r, NoKey)]]
      <3> DEFINE new == [reader[r] EXCEPT !.pc = Settled(r, NoKey)]
      <3>1. /\ new \in ReaderType /\ new.pc \notin {"valid", "words"}
            /\ new.out \in {NoKey, reader[r].out}
        BY SMTT(40), <1>4, <2>2, <1>0 DEF CheckOwner, Settled, ReaderType
      <3>2. reader' = [reader EXCEPT ![r] = new] /\ UNCHANGED slotVars
        BY Zenon, <1>4, <2>2 DEF CheckOwner, Settled, ReaderType
      <3> HIDE DEF new
      <3>3. Inv' BY ZenonT(60), <3>1, <3>2, Reader_Moves
      <3> QED BY Zenon, <3>1, <3>2, <3>3, <1>m
    <2> QED BY Zenon, <1>4, <2>1, <2>2 DEF CheckOwner
  <1>5. CASE LoadSequence(r)
    <2>1. CASE sequence = MaxSequence
      <3> DEFINE new == [reader[r] EXCEPT !.pc = "recheck"]
      <3>1. /\ new \in ReaderType /\ new.pc \notin {"valid", "words"}
            /\ new.out \in {NoKey, reader[r].out}
        BY ZenonT(60), <1>5, <2>1, Parity, <1>0 DEF LoadSequence, ReaderType
      <3>2. reader' = [reader EXCEPT ![r] = new] /\ UNCHANGED slotVars
        BY Zenon, <1>5, <2>1, Parity DEF LoadSequence, ReaderType
      <3> HIDE DEF new
      <3>3. Inv' BY ZenonT(60), <3>1, <3>2, Reader_Moves
      <3> QED BY Zenon, <3>1, <3>2, <3>3, <1>m
    <2>2. CASE Retry(r)
      <3>1. UNCHANGED slotVars BY Zenon, <1>5 DEF LoadSequence
      <3>2. Inv' /\ reader'[r].out = reader[r].out BY Zenon, <2>2, <3>1, Retry_Inv
      <3>3. \A q \in Readers : q /= r => reader'[q] = reader[q] BY Zenon, <2>2, <1>0 DEF Retry
      <3> QED BY Zenon, <3>1, <3>2, <3>3
    <2>3. CASE ~ Odd(sequence)
      <3> DEFINE new == [reader[r] EXCEPT !.pc = "valid", !.before = sequence]
      <3>1. /\ new \in ReaderType /\ new.pc = "valid" /\ new.before = sequence
            /\ new.out = reader[r].out
        BY ZenonT(60), <1>0 DEF ReaderType, Inv, TypeOK
      <3>2. reader' = [reader EXCEPT ![r] = new] /\ UNCHANGED slotVars
        BY Zenon, <1>5, <2>3, Parity DEF LoadSequence
      <3>3. new.before <= sequence BY <3>1 DEF Inv, TypeOK
      <3> HIDE DEF new
      <3>4. Inv' BY ZenonT(60), <3>1, <3>2, <3>3, <2>3, Reader_Moves
      <3> QED BY Zenon, <3>1, <3>2, <3>4, <1>m
    <2> QED BY Zenon, <1>5, <2>1, <2>2, <2>3 DEF LoadSequence
  <1>6. CASE LoadValid(r)
    <2> DEFINE new == [reader[r] EXCEPT !.pc = "words", !.i = 1, !.ready = valid, !.got = NoWords]
    <2>1. /\ new \in ReaderType /\ new.pc = "words" /\ new.before = reader[r].before
          /\ new.out = reader[r].out /\ new.i = 1 /\ new.ready = valid
      <3>1. 1 \in 1 .. WordCount + 1 OBVIOUS
      <3>2. NoWords \in [Words -> Nat] BY Zenon DEF NoWords
      <3>3. valid \in {0, 1} BY Zenon DEF Inv, TypeOK
      <3> QED BY ZenonT(60), <1>0, <3>1, <3>2, <3>3 DEF ReaderType
    <2>2. reader' = [reader EXCEPT ![r] = new] /\ UNCHANGED slotVars BY Zenon, <1>6 DEF LoadValid
    <2>3. ~ Odd(reader[r].before) /\ reader[r].before <= sequence
      BY Zenon, <1>6 DEF LoadValid, Inv, ReaderInv
    <2>4. \A w \in Words : ~ (w < 1) BY DEF Words
    <2> HIDE DEF new
    <2>5. Inv' BY ZenonT(60), <2>1, <2>2, <2>3, <2>4, Reader_Moves
    <2> QED BY Zenon, <2>1, <2>2, <2>5, <1>m
  <1>7. CASE LoadWord(r)
    <2> DEFINE i == reader[r].i
               got == [reader[r].got EXCEPT ![i] = words[i]]
               new == [reader[r] EXCEPT !.i = i + 1, !.got = got]
    <2>0. i \in Words /\ i + 1 \in 1 .. WordCount + 1 /\ words \in [Words -> Nat]
      <3>0. i \in 1 .. WordCount + 1 BY Zenon, <1>0 DEF ReaderType
      <3>1. i \in Words BY <1>7, <3>0, WordAssumption DEF LoadWord, Words
      <3>2. i + 1 \in 1 .. WordCount + 1 BY <3>1 DEF Words
      <3>3. words \in [Words -> Nat] BY Zenon DEF Inv, TypeOK
      <3> QED BY Zenon, <3>1, <3>2, <3>3
    <2>1. got \in [Words -> Nat] BY Zenon, <1>0, <2>0 DEF ReaderType
    <2>2. /\ new \in ReaderType /\ new.pc = "words" /\ new.before = reader[r].before
          /\ new.out = reader[r].out /\ new.i = i + 1 /\ new.ready = reader[r].ready
          /\ new.got = got
      BY ZenonT(60), <1>0, <1>7, <2>0, <2>1 DEF ReaderType, LoadWord
    <2>3. reader' = [reader EXCEPT ![r] = new] /\ UNCHANGED slotVars BY Zenon, <1>7 DEF LoadWord
    <2>4. ~ Odd(reader[r].before) /\ reader[r].before <= sequence
      BY Zenon, <1>7 DEF LoadWord, Inv, ReaderInv
    <2>5. ASSUME sequence = reader[r].before
          PROVE  /\ reader[r].ready = valid
                 /\ \A w \in Words : w < i + 1 => got[w] = words[w]
      <3>1. /\ reader[r].ready = valid
            /\ \A w \in Words : w < i => reader[r].got[w] = words[w]
        BY Zenon, <1>7, <2>5 DEF LoadWord, Inv, ReaderInv
      <3>2. \A w \in Words : w < i + 1 => w = i \/ w < i BY SMTT(40), <2>0 DEF Words
      <3> QED BY Zenon, <3>1, <3>2, <2>0, <1>0 DEF ReaderType
    <2> HIDE DEF new, got, i
    <2>6. Inv' BY ZenonT(60), <2>2, <2>3, <2>4, <2>5, Reader_Moves
    <2> QED BY Zenon, <2>2, <2>3, <2>6, <1>m
  <1>8. CASE ReloadSequence(r)
    <2>1. CASE Retry(r)
      <3>1. UNCHANGED slotVars BY Zenon, <1>8 DEF ReloadSequence
      <3>2. Inv' /\ reader'[r].out = reader[r].out BY Zenon, <2>1, <3>1, Retry_Inv
      <3>3. \A q \in Readers : q /= r => reader'[q] = reader[q] BY Zenon, <2>1, <1>0 DEF Retry
      <3> QED BY Zenon, <3>1, <3>2, <3>3
    <2>2. CASE sequence = reader[r].before
      <3> DEFINE k == IF reader[r].ready = 1 THEN reader[r].got ELSE NoKey
                 new == [reader[r] EXCEPT !.pc = "recheck", !.out = k]
      <3>1. k = Current /\ Current \in Keys \cup {NoKey}
        BY Zenon, <1>8, <2>2, Read_Current DEF ReloadSequence
      <3>2. reader' = [reader EXCEPT ![r] = new] /\ UNCHANGED slotVars
        BY Zenon, <1>8, <2>2 DEF ReloadSequence, Unmoved
      <3> HIDE DEF k
      <3>3. new \in ReaderType /\ new.pc = "recheck" /\ new.out = Current
        BY ZenonT(60), <1>0, <3>1 DEF ReaderType
      <3> HIDE DEF new
      <3>4. Inv' BY ZenonT(60), <3>2, <3>3, Reader_Moves
      <3> QED BY Zenon, <3>2, <3>3, <3>4, <1>m
    <2> QED BY Zenon, <1>8, <2>1, <2>2 DEF ReloadSequence, Unmoved
  <1>9. CASE Finish(r)
    <2> DEFINE kept == [reader[r] EXCEPT !.pc = Settled(r, reader[r].out),
                          !.bound = IF reader[r].out /= NoKey THEN {"bound"} ELSE reader[r].bound]
               lost == [reader[r] EXCEPT !.pc = Settled(r, NoKey), !.out = NoKey]
    <2>1. /\ kept \in ReaderType /\ kept.pc \notin {"valid", "words"}
          /\ kept.out = reader[r].out
      BY ZenonT(60), <1>0 DEF ReaderType, Settled
    <2>2. /\ lost \in ReaderType /\ lost.pc \notin {"valid", "words"}
          /\ lost.out = NoKey
      BY ZenonT(60), <1>0 DEF ReaderType, Settled
    <2>3. /\ UNCHANGED slotVars
          /\ \/ reader' = [reader EXCEPT ![r] = kept]
             \/ reader' = [reader EXCEPT ![r] = lost]
      BY Zenon, <1>9 DEF Finish
    <2> HIDE DEF kept, lost
    <2>4. Inv' BY Zenon, <2>1, <2>2, <2>3, Reader_Moves
    <2> QED BY Zenon, <2>1, <2>2, <2>3, <2>4, <1>m
  <1> QED BY Zenon, <1>1, <1>2, <1>3, <1>4, <1>5, <1>6, <1>7, <1>8, <1>9 DEF Reference, Snapshot

LEMMA Next_Inv == Inv /\ [Next]_vars => Inv'
  <1> SUFFICES ASSUME Inv, [Next]_vars PROVE Inv'
    BY Zenon
  <1>1. CASE Owner
    <2>1. TypeOK' /\ OwnerInv' /\ Effect BY Zenon, <1>1, Owner_OwnerInv DEF Inv
    <2>2. \A r \in Readers : ReaderInv(r)' BY SMTT(40), <2>1, Owner_ReaderInv DEF Inv
    <2> QED BY Zenon, <2>1, <2>2 DEF Inv
  <1>2. CASE OwnerDies
    BY Zenon, <1>2 DEF OwnerDies, Inv, TypeOK, OwnerInv, Storing, ReaderInv
  <1>3. CASE \E r \in Readers : Reference(r)
    BY SMTT(40), <1>3, Reference_Inv
  <1>4. CASE UNCHANGED vars
    BY Zenon, <1>4 DEF vars, Inv, TypeOK, OwnerInv, Storing, ReaderInv
  <1> QED BY Zenon, <1>1, <1>2, <1>3, <1>4 DEF Next

(* Every reachable state of the slot and its references is well typed; in  *)
(* particular a snapshot never returns words of two different updates.     *)
THEOREM Slot_Typed == Spec => []TypeOK
  <1>1. Init => Inv BY Zenon, Init_Inv
  <1>2. Inv /\ [Next]_vars => Inv' BY Zenon, Next_Inv
  <1>3. Inv => TypeOK BY Zenon DEF Inv
  <1> QED BY <1>1, <1>2, <1>3, PTL DEF Spec

-----------------------------------------------------------------------------
(* The refinement: a store is a Store or a Close of the register when its  *)
(* first access changes what the slot holds; a reference's step is a Read. *)

Outs == [r \in Readers |-> reader[r].out]

Step == Register!Next \/ UNCHANGED <<Current, ClosedForGood, Outs>>

\* The key the slot holds stays; the slot may leave use.
LEMMA Step_SameKey ==
  ASSUME Outs' = Outs, Current' = Current, live' \in {live, {}}
  PROVE  Step
  <1>1. CASE ClosedForGood' = ClosedForGood BY Zenon, <1>1 DEF Step
  <1>2. CASE ClosedForGood' /= ClosedForGood
    <2>1. ClosedForGood' = {"closed"} /\ Current' = NoKey
      BY Zenon, <1>2 DEF ClosedForGood
    <2>2. Register!Close BY Zenon, <2>1 DEF Register!Close, Outs
    <2> QED BY Zenon, <2>2 DEF Step, Register!Next
  <1> QED BY Zenon, <1>1, <1>2

\* The key changes; in a slot out of use it can only be dropped.
LEMMA Step_NewKey ==
  ASSUME Outs' = Outs, live' = live, live \in {{}, {"live"}},
         Current' \in Keys \cup {NoKey}, live = {} => Current' = NoKey
  PROVE  Step
  <1>1. CASE live = {}
    <2>1. Current' = NoKey /\ ClosedForGood' = {"closed"} BY Zenon, <1>1 DEF ClosedForGood
    <2>2. Register!Close BY Zenon, <2>1 DEF Register!Close, Outs
    <2> QED BY Zenon, <2>2 DEF Step, Register!Next
  <1>2. CASE live = {"live"}
    <2>1. ClosedForGood = {} /\ ClosedForGood' = {} BY Zenon, <1>2 DEF ClosedForGood
    <2>2. Register!Store(Current') BY Zenon, <2>1 DEF Register!Store, Outs
    <2> QED BY Zenon, <2>2 DEF Step, Register!Next
  <1> QED BY Zenon, <1>1, <1>2

LEMMA Owner_Step == ASSUME Inv, Owner PROVE Step
  <1>0. Outs' = Outs BY Zenon, Owner_OwnerInv DEF Inv, Effect, Outs
  <1>1. CASE (\E k \in Keys : Update(k)) \/ Withdraw
    <2>1. Current' = Current /\ live' = live
      BY <1>1 DEF Update, Withdraw, CanStore, Current
    <2> QED BY SMTT(40), <1>0, <2>1, Step_SameKey
  <1>2. CASE Close
    <2>1. Current' = Current /\ live' = {} BY Zenon, <1>2 DEF Close, CanStore, Current
    <2> QED BY Zenon, <1>0, <2>1, Step_SameKey
  <1>3. CASE BeginStore
    <2>1. live' = live /\ live \in {{}, {"live"}} BY Zenon, <1>3 DEF BeginStore, Inv, TypeOK
    <2>2. Current' = writer'.key BY <1>3 DEF BeginStore, Current
    <2>3. writer'.key \in {NoKey, writer.key} /\ writer.pc = "begin"
      BY <1>3 DEF BeginStore
    <2>4. writer.key \in Keys \cup {NoKey} BY Zenon DEF Inv, TypeOK, WriterType
    <2>5. live = {} => writer.key = NoKey BY SMTT(40), <2>3 DEF Inv, OwnerInv
    <2> QED BY Zenon, <1>0, <2>1, <2>2, <2>3, <2>4, <2>5, Step_NewKey
  <1>4. CASE StoreValid \/ StoreWord
    <2>1. Current' = Current /\ live' = live BY <1>4 DEF StoreValid, StoreWord, Current
    <2> QED BY Zenon, <1>0, <2>1, Step_SameKey
  <1>5. CASE EndStore
    <2>1. writer.pc = "words" /\ writer'.pc = "idle" /\ valid' = valid /\ words' = words
      BY Zenon, <1>5 DEF EndStore, Idle
    <2>2. live' \in {live, {}} BY Zenon, <1>5 DEF EndStore
    <2>3. CASE writer.key = NoKey BY <1>0, <2>1, <2>2, <2>3, Step_SameKey DEF Inv, OwnerInv, Current
    <2>4. CASE writer.key \in Keys
      <3>1. valid = 1 /\ \A w \in Words : words[w] = writer.key[w]
        BY <1>5, <2>4 DEF EndStore, Inv, OwnerInv, TypeOK, WriterType, Words
      <3>2. words = writer.key BY <3>1, <2>4, KeyWords DEF Inv, TypeOK
      <3>3. Current' = Current BY Zenon, <2>1, <3>1, <3>2 DEF Current
      <3> QED BY Zenon, <1>0, <2>2, <3>3, Step_SameKey
    <2> QED BY Zenon, <2>3, <2>4 DEF Inv, TypeOK, WriterType
  <1> QED BY Zenon, <1>1, <1>2, <1>3, <1>4, <1>5 DEF Owner

LEMMA Reference_Step == ASSUME Inv, NEW r \in Readers, Reference(r) PROVE Step
  <1>1. /\ UNCHANGED slotVars /\ Inv'
        /\ reader'[r].out \in {Current, NoKey, reader[r].out}
        /\ \A q \in Readers : q /= r => reader'[q] = reader[q]
    BY Zenon, Reference_Inv
  <1>2. Current' = Current /\ ClosedForGood' = ClosedForGood
    BY Zenon, <1>1 DEF slotVars, Current, ClosedForGood
  <1>3. Outs' = [Outs EXCEPT ![r] = reader'[r].out] BY ZenonT(60), <1>1 DEF Outs
  <1>4. CASE reader'[r].out \in {Current, NoKey}
    <2>1. Register!Read(r) BY ZenonT(60), <1>2, <1>3, <1>4 DEF Register!Read, Outs
    <2> QED BY Zenon, <2>1 DEF Step, Register!Next
  <1>5. CASE reader'[r].out = reader[r].out
    <2>1. Outs' = Outs BY ZenonT(60), <1>3, <1>5 DEF Outs
    <2> QED BY Zenon, <2>1, <1>2 DEF Step
  <1> QED BY Zenon, <1>1, <1>4, <1>5

(* The slot of SharedSlot.cpp, written by KeyRegistry.cpp and read by      *)
(* KeyClient.cpp, implements the atomic register of KeyRegister.           *)
THEOREM Slot_IsAtomicRegister == Spec => IsAtomicRegister
  <1>1. Init => Inv BY Zenon, Init_Inv
  <1>2. Inv /\ [Next]_vars => Inv' BY Zenon, Next_Inv
  <1>3. Init => Register!Init
    BY DEF Init, Register!Init, Current, ClosedForGood, Idle
  <1>4. Inv /\ [Next]_vars => [Register!Next]_(Register!vars)
    <2> SUFFICES ASSUME Inv, [Next]_vars PROVE [Register!Next]_(Register!vars)
      BY Zenon
    <2>1. CASE Owner BY Zenon, <2>1, Owner_Step DEF Step, Register!vars, Outs
    <2>2. CASE OwnerDies
      BY Zenon, <2>2 DEF OwnerDies, Register!vars, Current, ClosedForGood
    <2>3. CASE \E r \in Readers : Reference(r)
      BY Zenon, <2>3, Reference_Step DEF Step, Register!vars, Outs
    <2>4. CASE UNCHANGED vars
      BY Zenon, <2>4 DEF vars, Register!vars, Current, ClosedForGood
    <2> QED BY Zenon, <2>1, <2>2, <2>3, <2>4 DEF Next
  <1> QED BY <1>1, <1>2, <1>3, <1>4, PTL DEF Spec, IsAtomicRegister, Register!Spec
=============================================================================
