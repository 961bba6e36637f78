--------------------------- MODULE FuzzyregionProofs ---------------------------
(***************************************************************************)
(* Lemmas about the values and operators of Fuzzyregion and FuzzySets, for *)
(* every geometry engine that meets the assumptions of GeometryEngine and  *)
(* every set of alphas.  The proofs about the machines cite them by name.  *)
(*                                                                         *)
(* From least and greatest elements: what Min, Max and the cuts select,    *)
(* that a finite set of levels with alphas of their own has exactly one    *)
(* list from high to low (HighestFirst), what CanonicalOutcome answers for *)
(* which levels, and what a set operation gathers.                         *)
(***************************************************************************)
EXTENDS FuzzySets, FiniteSetTheorems, TLAPS

-----------------------------------------------------------------------------
\* Least and greatest elements, and bijections of a set onto itself.

\* A non-empty set of natural numbers has a least element, which Min returns.
LEMMA MinIsLeast ==
    ASSUME NEW S \in SUBSET Nat, S # {}
    PROVE  Min(S) \in S /\ \A k \in S : Min(S) <= k
  <1>1. PICK x \in S : \A y \in S : ~(<<y, x>> \in OpToRel(<, Nat))
    BY NatLessThanWellFounded, WFMin, Zenon
  <1>2. ASSUME NEW y \in S, ~(x <= y)
        PROVE  FALSE
    <2>1. y \in Nat /\ x \in Nat /\ y < x
      BY <1>2
    <2>2. <<y, x>> \in OpToRel(<, Nat)
      BY <2>1 DEF OpToRel
    <2> QED
      BY <1>1, <2>2
  <1> QED
    BY <1>2 DEF Min

LEMMA MaxIsGreatest ==
    ASSUME NEW n \in Nat, NEW S \in SUBSET (0..n), S # {}
    PROVE  Max(S) \in S /\ \A k \in S : k <= Max(S)
  <1> DEFINE D == {n - k : k \in S}
  <1>1. \A k \in S : k \in Int /\ n - k \in Nat
    OBVIOUS
  <1>2. D \in SUBSET Nat
    BY <1>1
  <1>3. D # {}
    OBVIOUS
  <1>4. Min(D) \in D /\ \A d \in D : Min(D) <= d
    <2> HIDE DEF D
    <2> QED
      BY <1>2, <1>3, MinIsLeast
  <1>5. PICK x \in S : Min(D) = n - x
    BY <1>4
  <1>6. \A k \in S : n - x <= n - k
    BY <1>4, <1>5
  <1>7. \A k \in S : x >= k
    <2> HIDE DEF D
    <2> QED
      BY <1>1, <1>6
  <1> QED
    BY <1>1, <1>7 DEF Max

\* A bijection of a set onto itself maps into the set and reaches all of it.
LEMMA BijectionOntoItself ==
    ASSUME NEW S, NEW f \in Bijection(S, S)
    PROVE  f \in [S -> S] /\ \A t \in S : \E s \in S : f[s] = t
  BY DEF Bijection, Injection, Surjection

LEMMA BijectionIsInjective ==
    ASSUME NEW S, NEW f \in Bijection(S, S)
    PROVE  \A s, t \in S : f[s] = f[t] => s = t
  <1>1. f \in [S -> S] /\ IsInjective(f)
    BY DEF Bijection, Injection
  <1> QED
    BY <1>1 DEF IsInjective

-----------------------------------------------------------------------------
\* Levels and values.

LEMMA CanonicalLevelIsLevel == Seq(CanonicalLevel) \subseteq Seq(Level)
  <1>1. CanonicalLevel \subseteq Level
    BY DEF CanonicalLevel, Level, Extent
  <1> QED
    BY <1>1

\* Alphas are integers.
LEMMA LevelAlphaIsInt ==
    ASSUME NEW s \in Seq(Level)
    PROVE  \A k \in DOMAIN s : s[k].alpha \in Int
  <1>1. \A k \in DOMAIN s : s[k] \in Level
    OBVIOUS
  <1>2. \A l \in Level : l.alpha \in Alpha
    BY DEF Level
  <1>3. Alpha \subseteq Int
    BY AlphaAssumption
  <1> QED
    BY <1>1, <1>2, <1>3

\* Normalizing a level that is not empty gives a level of the canonical form.
LEMMA NormalizedLevelType ==
    ASSUME NEW l \in Level, ~IsEmpty(Normalize(l.geometry))
    PROVE  NormalizedLevel(l) \in CanonicalLevel
  BY NormalizeAssumption DEF NormalizedLevel, CanonicalLevel, Level, Extent

\* Normalizing a level of the canonical form changes nothing.
LEMMA NormalizedIsItself ==
    ASSUME NEW l \in CanonicalLevel
    PROVE  NormalizedLevel(l) = l /\ ~IsEmpty(l.geometry)
  BY DEF NormalizedLevel, CanonicalLevel, Extent

LEMMA EmptyValueType == EmptyValue(NoSrid) \in FuzzyValue
  BY DEF EmptyValue, FuzzyValue

LEMMA EmptyIsCanonical == Canonical(EmptyValue(NoSrid))
  BY DEF Canonical, EmptyValue, StrictlyDescending, StrictlyNested, OneSrid

LEMMA EmptyIsCanonicalValue ==
    ASSUME NEW s \in Srid \cup {NoSrid}
    PROVE  EmptyValue(s) \in FuzzyValue /\ Canonical(EmptyValue(s))
  BY DEF EmptyValue, FuzzyValue, Canonical, StrictlyDescending, StrictlyNested, OneSrid

Operand == {v \in FuzzyValue : Canonical(v)}

\* A level of an operand is an extent in the operand's SRID.
LEMMA OperandLevel ==
    ASSUME NEW v \in Operand, NEW i \in DOMAIN v.levels
    PROVE  /\ v.levels[i].geometry \in Extent
           /\ SridOf(v.levels[i].geometry) = v.srid
           /\ v.levels[i].alpha \in Alpha
           /\ v.srid \in Srid /\ v.srid # NoSrid
  <1>1. v.levels \in Seq(CanonicalLevel) /\ OneSrid(v.levels, v.srid)
    BY DEF Operand, Canonical
  <1>2. v.levels[i] \in CanonicalLevel
    BY <1>1
  <1>3. v.levels[i].geometry \in Extent /\ v.levels[i].alpha \in Alpha
    BY <1>2 DEF CanonicalLevel
  <1>4. v.levels[i].geometry \in Geometry
    BY <1>3 DEF Extent
  <1>5. SridOf(v.levels[i].geometry) = v.srid
    BY <1>1 DEF OneSrid
  <1> QED
    BY <1>3, <1>4, <1>5, NormalizeAssumption, NoSridAssumption

LEMMA OperandFacts ==
    ASSUME NEW v \in Operand
    PROVE  /\ v.levels \in Seq(Level) /\ Len(v.levels) \in Nat
           /\ DOMAIN v.levels = 1..Len(v.levels)
           /\ StrictlyDescending(v.levels)
           /\ \A k \in DOMAIN v.levels : /\ v.levels[k].alpha \in Alpha
                                         /\ v.levels[k].alpha \in 1..One
                                         /\ v.levels[k].alpha \in Int
  <1>1. v.levels \in Seq(Level) /\ StrictlyDescending(v.levels)
    BY DEF Operand, FuzzyValue, Canonical
  <1>2. \A k \in DOMAIN v.levels : v.levels[k].alpha \in Alpha
    BY OperandLevel
  <1>3. \A a \in Alpha : a \in 1..One /\ a \in Int
    BY AlphaAssumption
  <1> QED
    BY <1>1, <1>2, <1>3

OfLevels(r) == [srid |-> SridOf(r[1].geometry), levels |-> r]

-----------------------------------------------------------------------------
\* Descending levels.

\* Where the levels descend, the first of a set of indices has the highest alpha.
LEMMA FirstIsHighest ==
    ASSUME NEW s \in Seq(Level), StrictlyDescending(s),
           NEW hits \in SUBSET DOMAIN s, hits # {}
    PROVE  /\ Min(hits) \in hits
           /\ \A k \in hits : s[k].alpha <= s[Min(hits)].alpha
  <1>1. hits \in SUBSET Nat
    OBVIOUS
  <1>2. Min(hits) \in hits /\ \A k \in hits : Min(hits) <= k
    BY <1>1, MinIsLeast
  <1>3. \A k \in DOMAIN s : s[k].alpha \in Int
    BY LevelAlphaIsInt
  <1>4. ASSUME NEW k \in hits
        PROVE  s[k].alpha <= s[Min(hits)].alpha
    <2>1. k \in Nat /\ Min(hits) \in Nat /\ Min(hits) <= k
      BY <1>1, <1>2
    <2>2. Min(hits) < k \/ Min(hits) = k
      BY <2>1
    <2>3. Min(hits) < k => s[Min(hits)].alpha > s[k].alpha
      BY <1>2 DEF StrictlyDescending
    <2> QED
      BY <1>2, <1>3, <2>2, <2>3
  <1> QED
    BY <1>2, <1>4

\* Without equal neighbours, levels in order are strictly in order.
LEMMA NoEqualNeighbours ==
    ASSUME NEW s \in Seq(Level),
           \A i, j \in DOMAIN s : i < j => s[i].alpha >= s[j].alpha,
           \A k \in 1..Len(s) - 1 : s[k].alpha # s[k + 1].alpha
    PROVE  StrictlyDescending(s)
  <1>1. SUFFICES ASSUME NEW i \in DOMAIN s, NEW j \in DOMAIN s, i < j
                 PROVE  s[i].alpha > s[j].alpha
    BY DEF StrictlyDescending
  <1>2. i \in 1..Len(s) - 1 /\ i + 1 \in DOMAIN s /\ i < i + 1
    BY <1>1
  <1>3. \A k \in DOMAIN s : s[k].alpha \in Int
    BY LevelAlphaIsInt
  <1>4. s[i].alpha > s[i + 1].alpha
    BY <1>2, <1>3
  <1>5. s[i + 1].alpha >= s[j].alpha
    <2>1. i + 1 < j \/ i + 1 = j
      BY <1>1, <1>2
    <2> QED
      BY <1>2, <1>3, <2>1
  <1> QED
    BY <1>2, <1>3, <1>4, <1>5

\* A permutation that puts strictly descending levels in descending order moves
\* none: the least index moved would go to a level of a lower alpha.
LEMMA SortOfDescending ==
    ASSUME NEW s \in Seq(Level), StrictlyDescending(s),
           NEW order \in Bijection(DOMAIN s, DOMAIN s),
           \A i, j \in DOMAIN s : i < j => s[order[i]].alpha >= s[order[j]].alpha
    PROVE  \A i \in DOMAIN s : order[i] = i
  <1> DEFINE moved == {i \in DOMAIN s : order[i] # i}
  <1>1. SUFFICES ASSUME moved # {}
                 PROVE  FALSE
    OBVIOUS
  <1>2. moved \in SUBSET Nat
    OBVIOUS
  <1>3. Min(moved) \in moved /\ \A k \in moved : Min(moved) <= k
    BY <1>1, <1>2, MinIsLeast
  <1>4. PICK m \in DOMAIN s : /\ order[m] # m
                             /\ \A i \in DOMAIN s : order[i] # i => m <= i
    BY <1>3
  <1>5. /\ order \in [DOMAIN s -> DOMAIN s]
        /\ \A j \in DOMAIN s : \E i \in DOMAIN s : order[i] = j
        /\ \A i, j \in DOMAIN s : order[i] = order[j] => i = j
    BY BijectionOntoItself, BijectionIsInjective
  <1>6. \A i \in DOMAIN s : i \in Nat
    OBVIOUS
  <1>7. PICK k \in DOMAIN s : order[k] = m
    BY <1>5
  <1>8. m < k
    <2>1. k # m
      BY <1>4, <1>7
    <2>2. ~(k < m)
      BY <1>4, <1>6, <1>7
    <2> QED
      BY <1>6, <2>1, <2>2
  <1>9. order[m] \in DOMAIN s /\ m < order[m]
    <2>1. order[m] \in DOMAIN s
      BY <1>5
    <2>2. ASSUME order[m] < m
          PROVE  FALSE
      <3>1. ~(m <= order[m])
        BY <1>6, <2>1, <2>2
      <3>2. order[order[m]] = order[m]
        BY <1>4, <2>1, <3>1
      <3> QED
        BY <1>4, <1>5, <2>1, <3>2
    <2> QED
      BY <1>4, <1>6, <2>1, <2>2
  <1>10. s[order[m]].alpha >= s[m].alpha
    BY <1>7, <1>8
  <1>11. s[m].alpha > s[order[m]].alpha
    BY <1>9 DEF StrictlyDescending
  <1>12. s[m].alpha \in Int /\ s[order[m]].alpha \in Int
    BY <1>9, LevelAlphaIsInt
  <1> QED
    BY <1>10, <1>11, <1>12

\* Two descending lists of the same levels are the same list: at the first index
\* where they differ each would have to be above the other.
LEMMA DescendingIsUnique ==
    ASSUME NEW n \in Nat, NEW r \in [1..n -> Level], NEW s \in [1..n -> Level],
           StrictlyDescending(r), StrictlyDescending(s), ToSet(r) = ToSet(s)
    PROVE  r = s
  <1> DEFINE differ == {k \in 1..n : r[k] # s[k]}
  <1>1. SUFFICES ASSUME differ # {}
                 PROVE  FALSE
    OBVIOUS
  <1>2. PICK m \in 1..n : r[m] # s[m] /\ \A k \in 1..n : k < m => r[k] = s[k]
    <2>1. differ \in SUBSET Nat
      OBVIOUS
    <2>2. Min(differ) \in differ /\ \A k \in differ : Min(differ) <= k
      BY <1>1, <2>1, MinIsLeast
    <2> DEFINE m == Min(differ)
    <2>3. \A k \in 1..n : k \in differ <=> r[k] # s[k]
      OBVIOUS
    <2>4. m \in 1..n /\ r[m] # s[m]
      BY <2>2
    <2>5. \A k \in differ : ~(k < m)
      BY <2>1, <2>2
    <2> HIDE DEF differ, m
    <2> QED
      BY <2>3, <2>4, <2>5
  <1>3. r \in Seq(Level) /\ s \in Seq(Level) /\ DOMAIN r = 1..n /\ DOMAIN s = 1..n
    OBVIOUS
  <1>4. \A k \in 1..n : r[k].alpha \in Int /\ s[k].alpha \in Int
    BY <1>3, LevelAlphaIsInt
  <1>5. PICK i \in 1..n : s[i] = r[m]
    BY <1>2, <1>3 DEF ToSet
  <1>6. PICK j \in 1..n : r[j] = s[m]
    BY <1>2, <1>3 DEF ToSet
  <1>7. m < i
    <2>1. i # m
      BY <1>2, <1>5
    <2>2. ~(i < m)
      BY <1>2, <1>3, <1>4, <1>5 DEF StrictlyDescending
    <2> QED
      BY <2>1, <2>2
  <1>8. m < j
    <2>1. j # m
      BY <1>2, <1>6
    <2>2. ~(j < m)
      BY <1>2, <1>3, <1>4, <1>6 DEF StrictlyDescending
    <2> QED
      BY <2>1, <2>2
  <1>9. s[m].alpha > r[m].alpha
    BY <1>3, <1>5, <1>7 DEF StrictlyDescending
  <1>10. r[m].alpha > s[m].alpha
    BY <1>3, <1>6, <1>8 DEF StrictlyDescending
  <1> QED
    BY <1>4, <1>9, <1>10

\* A descending list is what HighestFirst makes of its levels.
LEMMA HighestFirstIs ==
    ASSUME NEW s \in Seq(Level), StrictlyDescending(s)
    PROVE  HighestFirst(ToSet(s)) = s
  <1> DEFINE n == Len(s)
             S == ToSet(s)
  <1>1. n \in Nat /\ DOMAIN s = 1..n /\ \A k \in 1..n : s[k] \in Level
    OBVIOUS
  <1>2. S = {s[k] : k \in 1..n}
    BY <1>1 DEF ToSet
  <1>3. s \in [1..n -> S]
    BY <1>1, <1>2
  <1>4. Cardinality(S) = n
    <2>1. \A i, j \in 1..n : s[i] = s[j] => i = j
      <3>1. \A k \in 1..n : s[k].alpha \in Int
        BY <1>1, LevelAlphaIsInt
      <3> QED
        BY <1>1, <3>1 DEF StrictlyDescending
    <2>2. s \in Surjection(1..n, S)
      BY <1>2, <1>3 DEF Surjection
    <2>3. s \in Injection(1..n, S)
      BY <1>3, <2>1 DEF Injection, IsInjective
    <2>4. IsFiniteSet(1..n) /\ Cardinality(1..n) = n
      <3>1. 1 \in Int /\ n \in Int
        BY <1>1
      <3>2. IsFiniteSet(1..n) /\ Cardinality(1..n) = IF 1 > n THEN 0 ELSE n - 1 + 1
        BY <3>1, FS_Interval
      <3> QED
        BY <1>1, <3>2
    <2> QED
      BY <2>2, <2>3, <2>4, FS_Surjection
  <1>5. ASSUME NEW r \in [1..Cardinality(S) -> S], ToSet(r) = S, StrictlyDescending(r)
        PROVE  r = s
    <2>1. S \subseteq Level
      BY <1>1, <1>2
    <2>2. r \in [1..n -> Level] /\ s \in [1..n -> Level]
      BY <1>3, <1>4, <1>5, <2>1
    <2> QED
      BY <1>1, <1>5, <2>2, DescendingIsUnique
  <1> HIDE DEF S
  <1>6. s \in [1..Cardinality(S) -> S] /\ ToSet(s) = S
    BY <1>3, <1>4 DEF S
  <1> QED
    BY <1>5, <1>6 DEF HighestFirst, S

\* Finitely many levels with alphas of their own have such a list: a least set
\* without one would get one by appending its lowest level to the list of the rest.
LEMMA HighestFirstSorts ==
    ASSUME NEW S \in SUBSET Level, IsFiniteSet(S),
           \A l, h \in S : l.alpha = h.alpha => l = h
    PROVE  /\ HighestFirst(S) \in Seq(Level)
           /\ ToSet(HighestFirst(S)) = S
           /\ StrictlyDescending(HighestFirst(S))
  <1> DEFINE Lists(T) == {s \in Seq(Level) : StrictlyDescending(s) /\ ToSet(s) = T}
             unsorted == {T \in SUBSET S : Lists(T) = {}}
             sizes == {Cardinality(T) : T \in unsorted}
  <1>1. \A T \in SUBSET S : IsFiniteSet(T) /\ Cardinality(T) \in Nat
    BY FS_Subset, FS_CardinalityType
  <1>2. ASSUME unsorted # {}
        PROVE  FALSE
    <2>1. sizes \in SUBSET Nat /\ sizes # {}
      BY <1>1, <1>2
    <2>2. PICK T \in unsorted : \A U \in unsorted : Cardinality(T) <= Cardinality(U)
      <3> HIDE DEF unsorted
      <3>1. Min(sizes) \in sizes /\ \A k \in sizes : Min(sizes) <= k
        BY <2>1, MinIsLeast
      <3> QED
        BY <3>1
    <2>3. T \in SUBSET S /\ Lists(T) = {}
      OBVIOUS
    <2>4. T # {}
      <3>1. <<>> \in Lists({})
        BY DEF StrictlyDescending, ToSet
      <3> QED
        BY <2>3, <3>1
    <2>5. \A l \in T : l.alpha \in Nat /\ l.alpha \in Int
      <3>1. \A l \in T : l.alpha \in Alpha
        BY <2>3 DEF Level
      <3>2. \A a \in Alpha : a \in Nat /\ a \in Int
        BY AlphaAssumption
      <3> QED
        BY <3>1, <3>2
    <2>6. PICK l \in T : \A h \in T : l.alpha <= h.alpha
      <3> DEFINE alphas == {h.alpha : h \in T}
      <3>1. alphas \in SUBSET Nat /\ alphas # {}
        BY <2>4, <2>5
      <3>2. Min(alphas) \in alphas /\ \A a \in alphas : Min(alphas) <= a
        <4> HIDE DEF alphas
        <4> QED
          BY <3>1, MinIsLeast
      <3>3. PICK h \in T : h.alpha = Min(alphas)
        BY <3>2
      <3>4. \A k \in T : k.alpha \in alphas
        OBVIOUS
      <3> HIDE DEF alphas
      <3> QED
        BY <3>2, <3>3, <3>4
    <2>7. T \ {l} \in SUBSET S /\ Cardinality(T \ {l}) < Cardinality(T)
      <3>1. Cardinality(T \ {l}) = Cardinality(T) - 1
        BY <1>1, <2>3, FS_RemoveElement
      <3> QED
        BY <1>1, <2>3, <3>1
    <2>8. PICK s \in Seq(Level) : StrictlyDescending(s) /\ ToSet(s) = T \ {l}
      <3>1. T \ {l} \notin unsorted
        BY <1>1, <2>2, <2>3, <2>7
      <3> QED
        BY <2>7, <3>1
    <2> DEFINE n == Len(s)
               r == Append(s, l)
    <2>9. /\ n \in Nat /\ DOMAIN s = 1..n /\ r \in Seq(Level) /\ DOMAIN r = 1..n + 1
          /\ \A k \in 1..n : r[k] = s[k]
          /\ r[n + 1] = l
      <3>1. l \in Level
        BY <2>3
      <3> QED
        BY <2>8, <3>1
    <2> HIDE DEF n, r
    <2>10. StrictlyDescending(r)
      <3> SUFFICES ASSUME NEW i \in 1..n + 1, NEW j \in 1..n + 1, i < j
                   PROVE  r[i].alpha > r[j].alpha
        BY <2>9 DEF StrictlyDescending
      <3>1. i \in 1..n
        BY <2>9
      <3>2. CASE j \in 1..n
        BY <2>8, <2>9, <3>1, <3>2 DEF StrictlyDescending
      <3>3. CASE j = n + 1
        <4>1. s[i] \in T \ {l}
          BY <2>8, <2>9, <3>1 DEF ToSet
        <4>2. l.alpha <= s[i].alpha /\ l.alpha # s[i].alpha
          BY <2>3, <2>6, <4>1
        <4>3. s[i].alpha > l.alpha
          BY <2>5, <4>1, <4>2
        <4> QED
          BY <2>9, <3>1, <3>3, <4>3
      <3> QED
        BY <2>9, <3>2, <3>3
    <2>11. ToSet(r) = T
      <3>1. ToSet(r) = {r[k] : k \in 1..n} \cup {r[n + 1]}
        BY <2>9 DEF ToSet
      <3>2. {r[k] : k \in 1..n} = ToSet(s)
        BY <2>9 DEF ToSet
      <3> QED
        BY <2>8, <2>9, <3>1, <3>2
    <2> QED
      BY <2>3, <2>9, <2>10, <2>11
  <1>3. PICK s \in Seq(Level) : StrictlyDescending(s) /\ ToSet(s) = S
    BY <1>2
  <1>4. HighestFirst(S) = s
    BY <1>3, HighestFirstIs
  <1> QED
    BY <1>3, <1>4

-----------------------------------------------------------------------------
\* Nested levels.

LEMMA ExtentCoversItself ==
    ASSUME NEW g \in Extent
    PROVE  Covers(g, g) /\ TopoEquals(g, g)
  BY CoversAssumption DEF SameSrid

\* Extents that may be compared with each other.
Comparable(ks) ==
    /\ \A i \in DOMAIN ks : ks[i].geometry \in Extent
    /\ \A i, j \in DOMAIN ks : SameSrid(ks[i].geometry, ks[j].geometry)

\* The last loop compares neighbours; containment reaches every pair so far.
NestedUpTo(ks, n) ==
    \A i, j \in DOMAIN ks : i < j /\ j <= n => Covers(ks[j].geometry, ks[i].geometry)

\* One more neighbour nested is one more level that contains all those above.
LEMMA NestingExtends ==
    ASSUME NEW ks \in Seq(CanonicalLevel), Comparable(ks), NEW n \in Nat \ {0},
           NestedUpTo(ks, n), n + 1 \in DOMAIN ks,
           Covers(ks[n + 1].geometry, ks[n].geometry)
    PROVE  NestedUpTo(ks, n + 1)
  <1>1. SUFFICES ASSUME NEW i \in DOMAIN ks, NEW j \in DOMAIN ks, i < j, j <= n + 1
                 PROVE  Covers(ks[j].geometry, ks[i].geometry)
    BY DEF NestedUpTo
  <1>2. i \in Nat /\ j \in Nat /\ n \in DOMAIN ks
    OBVIOUS
  <1>3. CASE j <= n
    BY <1>1, <1>3 DEF NestedUpTo
  <1>4. CASE j = n + 1 /\ i = n
    BY <1>4
  <1>5. CASE j = n + 1 /\ i < n
    <2>1. Covers(ks[n].geometry, ks[i].geometry)
      <3>1. n <= n
        OBVIOUS
      <3> QED
        BY <1>2, <1>5, <3>1 DEF NestedUpTo
    <2>2. /\ ks[n + 1].geometry \in Extent /\ ks[n].geometry \in Extent
          /\ ks[i].geometry \in Extent
          /\ SameSrid(ks[n + 1].geometry, ks[n].geometry)
          /\ SameSrid(ks[n].geometry, ks[i].geometry)
      BY <1>2 DEF Comparable
    <2> QED
      BY <1>5, <2>1, <2>2, CoversAssumption
  <1>6. j <= n \/ (j = n + 1 /\ i = n) \/ (j = n + 1 /\ i < n)
    BY <1>1, <1>2
  <1> QED
    BY <1>3, <1>4, <1>5, <1>6

\* Where each of the first n levels contains those above it and no two neighbours
\* are equal, no two of the first n are equal.
LEMMA NestedAreUnequal ==
    ASSUME NEW ks \in Seq(CanonicalLevel), Comparable(ks), NEW n \in Nat, NestedUpTo(ks, n),
           \A m \in DOMAIN ks :
               m + 1 \in DOMAIN ks => ~TopoEquals(ks[m].geometry, ks[m + 1].geometry),
           NEW i \in DOMAIN ks, NEW j \in DOMAIN ks, i < j, j <= n
    PROVE  /\ Covers(ks[j].geometry, ks[i].geometry)
           /\ ~TopoEquals(ks[j].geometry, ks[i].geometry)
  <1>1. /\ i \in Nat /\ j \in Nat /\ i + 1 \in DOMAIN ks /\ i < i + 1 /\ i + 1 <= n
        /\ i + 1 = j \/ i + 1 < j
    OBVIOUS
  <1>2. Covers(ks[j].geometry, ks[i].geometry) /\ Covers(ks[i + 1].geometry, ks[i].geometry)
    BY <1>1 DEF NestedUpTo
  <1>3. /\ ks[i].geometry \in Extent /\ ks[i + 1].geometry \in Extent
        /\ ks[j].geometry \in Extent
        /\ SameSrid(ks[i].geometry, ks[j].geometry)
        /\ SameSrid(ks[j].geometry, ks[i].geometry)
        /\ SameSrid(ks[j].geometry, ks[i + 1].geometry)
        /\ SameSrid(ks[i].geometry, ks[i + 1].geometry)
    BY <1>1 DEF Comparable
  <1>4. Covers(ks[j].geometry, ks[i + 1].geometry)
    <2>1. CASE i + 1 = j
      BY <1>3, <2>1, ExtentCoversItself
    <2>2. CASE i + 1 < j
      BY <1>1, <2>2 DEF NestedUpTo
    <2> QED
      BY <1>1, <2>1, <2>2
  <1>5. ASSUME TopoEquals(ks[j].geometry, ks[i].geometry)
        PROVE  FALSE
    <2>1. Covers(ks[i].geometry, ks[j].geometry)
      BY <1>3, <1>5, CoversAssumption
    <2>2. Covers(ks[i].geometry, ks[i + 1].geometry)
      BY <1>3, <1>4, <2>1, CoversAssumption
    <2>3. TopoEquals(ks[i].geometry, ks[i + 1].geometry)
      BY <1>2, <1>3, <2>2, CoversAssumption
    <2> QED
      BY <1>1, <2>3
  <1> QED
    BY <1>2, <1>5

\* Nested to its end, the list is strictly nested.
LEMMA NestingIsStrict ==
    ASSUME NEW ks \in Seq(CanonicalLevel), Comparable(ks), NestedUpTo(ks, Len(ks)),
           \A m \in DOMAIN ks :
               m + 1 \in DOMAIN ks => ~TopoEquals(ks[m].geometry, ks[m + 1].geometry)
    PROVE  StrictlyNested(ks)
  <1>1. Len(ks) \in Nat /\ \A j \in DOMAIN ks : j <= Len(ks)
    OBVIOUS
  <1> QED
    BY <1>1, NestedAreUnequal DEF StrictlyNested

-----------------------------------------------------------------------------
\* Cuts and membership.

\* The levels that cover a place.
Covering(s, p) == {k \in DOMAIN s : CoversPlace(s[k].geometry, p)}

\* When its levels descend, a value's membership is the highest alpha of a
\* level that covers the place.
LEMMA MembershipIsHighest ==
    ASSUME NEW v, NEW s \in Seq(Level), v.levels = s, StrictlyDescending(s), NEW p
    PROVE  /\ Covering(s, p) = {} => MembershipAt(v, p) = 0
           /\ \A k \in Covering(s, p) : s[k].alpha <= MembershipAt(v, p)
           /\ Covering(s, p) # {} => \E k \in Covering(s, p) : s[k].alpha = MembershipAt(v, p)
  <1>1. {k \in 1..Len(s) : CoversPlace(s[k].geometry, p)} = Covering(s, p)
    BY DEF Covering
  <1>2. MembershipAt(v, p) =
            LET hit == IF Covering(s, p) # {} THEN Min(Covering(s, p)) ELSE 0
            IN IF hit = 0 THEN 0 ELSE s[hit].alpha
    BY <1>1 DEF MembershipAt, SelectInSeq
  <1>3. CASE Covering(s, p) = {}
    BY <1>2, <1>3
  <1>4. CASE Covering(s, p) # {}
    <2>1. Covering(s, p) \in SUBSET DOMAIN s
      BY DEF Covering
    <2>2. /\ Min(Covering(s, p)) \in Covering(s, p)
          /\ \A k \in Covering(s, p) : s[k].alpha <= s[Min(Covering(s, p))].alpha
      BY <1>4, <2>1, FirstIsHighest
    <2>3. Min(Covering(s, p)) # 0
      <3>1. DOMAIN s = 1..Len(s) /\ Min(Covering(s, p)) \in DOMAIN s
        BY <2>1, <2>2
      <3> QED
        BY <3>1
    <2>4. MembershipAt(v, p) = s[Min(Covering(s, p))].alpha
      BY <1>2, <1>4, <2>3
    <2> QED
      BY <1>4, <2>2, <2>4
  <1> QED
    BY <1>3, <1>4

\* An alpha and a threshold that is no negative zero compare as their integers do.
LEMMA AlphasCompare ==
    ASSUME NEW t \in 0..One, NEW a \in 0..One
    PROVE  /\ FloatLeq(t, a) <=> a >= t
           /\ FloatLess(t, a) <=> a > t
           /\ IsZero(t) <=> t = 0
  <1>1. One \in Nat /\ Infinity \in Nat /\ One < Infinity
    BY FloatRangeAssumption
  <1>2. ASSUME NEW x \in 0..One
        PROVE  Value(x) = x /\ ~IsNan(x)
    BY <1>1, <1>2 DEF Value, IsNan
  <1>3. 0 \in 0..One
    BY <1>1
  <1> QED
    BY <1>2, <1>3 DEF FloatLeq, FloatLess, FloatEq, IsZero

\* The index a selection returns is 0 or one of the sequence.
LEMMA LastOfSome ==
    ASSUME NEW s, Len(s) \in Nat, DOMAIN s = 1..Len(s), NEW I \in SUBSET (1..Len(s))
    PROVE  (IF I # {} THEN Max(I) ELSE 0) \in {0} \cup DOMAIN s
  <1>1. I \in SUBSET (0..Len(s))
    OBVIOUS
  <1> QED
    BY <1>1, MaxIsGreatest

LEMMA CutSelectsLevel ==
    ASSUME NEW v \in FuzzyValue, NEW t
    PROVE  /\ AlphaCut(v, t) \in {0} \cup DOMAIN v.levels
           /\ StrictAlphaCut(v, t) \in {0} \cup DOMAIN v.levels
  <1>1. v.levels \in Seq(Level)
    BY DEF FuzzyValue
  <1>2. Len(v.levels) \in Nat /\ DOMAIN v.levels = 1..Len(v.levels)
    BY <1>1
  <1>3. Len(v.levels) \in {0} \cup DOMAIN v.levels
    BY <1>2
  <1> DEFINE weak == {i \in 1..Len(v.levels) : FloatLeq(t, v.levels[i].alpha)}
  <1> DEFINE strict == {i \in 1..Len(v.levels) : FloatLess(t, v.levels[i].alpha)}
  <1>4. (IF weak # {} THEN Max(weak) ELSE 0) \in {0} \cup DOMAIN v.levels
    BY <1>2, LastOfSome
  <1>5. (IF strict # {} THEN Max(strict) ELSE 0) \in {0} \cup DOMAIN v.levels
    BY <1>2, LastOfSome
  <1>6. AlphaCut(v, t) = IF IsZero(t) THEN Len(v.levels)
                         ELSE IF weak # {} THEN Max(weak) ELSE 0
    BY Zenon DEF AlphaCut, SupportIndex, SelectLastInSeq
  <1>7. StrictAlphaCut(v, t) = IF IsZero(t) THEN Len(v.levels)
                               ELSE IF strict # {} THEN Max(strict) ELSE 0
    BY Zenon DEF StrictAlphaCut, SupportIndex, SelectLastInSeq
  <1> HIDE DEF weak, strict
  <1> QED
    BY <1>3, <1>4, <1>5, <1>6, <1>7

\* The last index of a non-empty initial part, or 0 for an empty one.
LEMMA LastOfInitialPart ==
    ASSUME NEW n \in Nat, NEW I \in SUBSET (1..n),
           \A i \in I, k \in 1..n : k <= i => k \in I
    PROVE  /\ (IF I # {} THEN Max(I) ELSE 0) \in 0..n
           /\ \A k \in 1..n : k \in I <=> k <= (IF I # {} THEN Max(I) ELSE 0)
  <1>1. CASE I = {}
    BY <1>1
  <1>2. CASE I # {}
    <2>1. I \in SUBSET (0..n)
      OBVIOUS
    <2>2. Max(I) \in I /\ \A k \in I : k <= Max(I)
      BY <1>2, <2>1, MaxIsGreatest
    <2>3. Max(I) \in 1..n
      BY <2>2
    <2> QED
      BY <1>2, <2>2, <2>3
  <1> QED
    BY <1>1, <1>2

\* In a falling list the entries from a bound up (Weak), or above it (Strict), are
\* an initial part.
LEMMA FallingEntries ==
    ASSUME NEW n \in Nat, NEW f \in [1..n -> Int], NEW t \in Int,
           \A i, k \in 1..n : k <= i => f[k] >= f[i],
           NEW weak \in SUBSET (1..n), \A k \in 1..n : k \in weak <=> f[k] >= t,
           NEW strict \in SUBSET (1..n), \A k \in 1..n : k \in strict <=> f[k] > t
    PROVE  /\ \A i \in weak, k \in 1..n : k <= i => k \in weak
           /\ \A i \in strict, k \in 1..n : k <= i => k \in strict
  OBVIOUS

\* A cut is the last level with an alpha at or above the threshold, a strict cut
\* the last with an alpha above it.
LEMMA CutSplits ==
    ASSUME NEW v \in Operand, NEW t \in 0..One
    PROVE  /\ AlphaCut(v, t) \in 0..Len(v.levels)
           /\ StrictAlphaCut(v, t) \in 0..Len(v.levels)
           /\ \A k \in DOMAIN v.levels : v.levels[k].alpha >= t <=> k <= AlphaCut(v, t)
           /\ \A k \in DOMAIN v.levels : v.levels[k].alpha > t <=> k <= StrictAlphaCut(v, t)
  <1> DEFINE n == Len(v.levels)
             alphas == [k \in 1..n |-> v.levels[k].alpha]
             weak == {i \in 1..n : FloatLeq(t, v.levels[i].alpha)}
             strict == {i \in 1..n : FloatLess(t, v.levels[i].alpha)}
             weakCut == IF weak # {} THEN Max(weak) ELSE 0
             strictCut == IF strict # {} THEN Max(strict) ELSE 0
  <1>1. /\ n \in Nat /\ DOMAIN v.levels = 1..n
        /\ \A k \in 1..n : v.levels[k].alpha \in 1..One
        /\ t \in Int /\ t >= 0 /\ One \in Nat
    BY OperandFacts, AlphaAssumption
  <1>2. /\ alphas \in [1..n -> Int]
        /\ \A k \in 1..n : alphas[k] = v.levels[k].alpha /\ alphas[k] >= 1
    BY <1>1
  <1>3. \A i, k \in 1..n : k <= i => alphas[k] >= alphas[i]
    <2> SUFFICES ASSUME NEW i \in 1..n, NEW k \in 1..n, k <= i
                 PROVE  v.levels[k].alpha >= v.levels[i].alpha
      BY <1>2
    <2>1. k = i \/ v.levels[k].alpha > v.levels[i].alpha
      BY <1>1, OperandFacts DEF StrictlyDescending
    <2> QED
      BY <1>1, <2>1
  <1>4. /\ AlphaCut(v, t) = IF IsZero(t) THEN n ELSE weakCut
        /\ StrictAlphaCut(v, t) = IF IsZero(t) THEN n ELSE strictCut
    BY Zenon DEF AlphaCut, StrictAlphaCut, SupportIndex, SelectLastInSeq
  <1>5. IsZero(t) <=> t = 0
    BY AlphasCompare
  <1>6. \A k \in 1..n : /\ FloatLeq(t, v.levels[k].alpha) <=> v.levels[k].alpha >= t
                        /\ FloatLess(t, v.levels[k].alpha) <=> v.levels[k].alpha > t
    <2> SUFFICES ASSUME NEW k \in 1..n
                 PROVE  /\ FloatLeq(t, v.levels[k].alpha) <=> v.levels[k].alpha >= t
                        /\ FloatLess(t, v.levels[k].alpha) <=> v.levels[k].alpha > t
      OBVIOUS
    <2>1. v.levels[k].alpha \in 0..One
      BY <1>1
    <2> QED
      BY <2>1, AlphasCompare
  <1>7. /\ weak \in SUBSET (1..n) /\ strict \in SUBSET (1..n)
        /\ \A k \in 1..n : k \in weak <=> alphas[k] >= t
        /\ \A k \in 1..n : k \in strict <=> alphas[k] > t
    BY <1>2, <1>6
  <1> HIDE DEF weak, strict, alphas, n
  <1>8. /\ \A i \in weak, k \in 1..n : k <= i => k \in weak
        /\ \A i \in strict, k \in 1..n : k <= i => k \in strict
    BY <1>1, <1>2, <1>3, <1>7, FallingEntries
  <1>9. /\ weakCut \in 0..n
        /\ \A k \in 1..n : k \in weak <=> k <= weakCut
    BY <1>1, <1>7, <1>8, LastOfInitialPart
  <1>10. /\ strictCut \in 0..n
         /\ \A k \in 1..n : k \in strict <=> k <= strictCut
    BY <1>1, <1>7, <1>8, LastOfInitialPart
  <1> HIDE DEF weakCut, strictCut
  <1>11. /\ AlphaCut(v, t) \in 0..n /\ StrictAlphaCut(v, t) \in 0..n
         /\ \A k \in 1..n : alphas[k] >= t <=> k <= AlphaCut(v, t)
         /\ \A k \in 1..n : alphas[k] > t <=> k <= StrictAlphaCut(v, t)
    <2>1. CASE t = 0
      BY <1>1, <1>2, <1>4, <1>5, <2>1
    <2>2. CASE t # 0
      BY <1>4, <1>5, <1>7, <1>9, <1>10, <2>2
    <2> QED
      BY <2>1, <2>2
  <1> QED
    BY <1>1, <1>2, <1>11 DEF n

\* A level covers a place when its alpha is at most the membership there.
LEMMA LevelCovers ==
    ASSUME NEW v \in Operand, NEW p \in Place, NEW k \in DOMAIN v.levels
    PROVE  CoversPlace(v.levels[k].geometry, p) <=> v.levels[k].alpha <= MembershipAt(v, p)
  <1> DEFINE mu == MembershipAt(v, p)
  <1>1. /\ v.levels \in Seq(Level) /\ StrictlyDescending(v.levels)
        /\ \A j \in DOMAIN v.levels : v.levels[j].alpha \in Int /\ v.levels[j].alpha >= 1
        /\ DOMAIN v.levels = 1..Len(v.levels) /\ Len(v.levels) \in Nat
    BY OperandFacts, AlphaAssumption
  <1>2. /\ Covering(v.levels, p) = {} => mu = 0
        /\ \A j \in Covering(v.levels, p) : v.levels[j].alpha <= mu
        /\ Covering(v.levels, p) # {} =>
               \E j \in Covering(v.levels, p) : v.levels[j].alpha = mu
    BY <1>1, MembershipIsHighest
  <1>3. k \in Covering(v.levels, p) <=> CoversPlace(v.levels[k].geometry, p)
    BY DEF Covering
  <1> HIDE DEF mu
  <1>4. ASSUME v.levels[k].alpha <= mu
        PROVE  CoversPlace(v.levels[k].geometry, p)
    <2>1. Covering(v.levels, p) # {}
      BY <1>1, <1>2, <1>4
    <2>2. PICK j \in Covering(v.levels, p) : v.levels[j].alpha = mu
      BY <1>2, <2>1
    <2>3. j \in DOMAIN v.levels /\ CoversPlace(v.levels[j].geometry, p)
      BY DEF Covering
    <2>4. j = k \/ j < k
      <3>1. ~(k < j)
        BY <1>1, <1>4, <2>2, <2>3 DEF StrictlyDescending
      <3> QED
        BY <1>1, <2>3, <3>1
    <2>5. CASE j < k
      <3>1. Covers(v.levels[k].geometry, v.levels[j].geometry)
        BY <2>3, <2>5 DEF Operand, Canonical, StrictlyNested
      <3>2. /\ v.levels[k].geometry \in Extent /\ v.levels[j].geometry \in Extent
            /\ SameSrid(v.levels[k].geometry, v.levels[j].geometry)
        BY <2>3, OperandLevel DEF SameSrid
      <3> QED
        BY <2>3, <3>1, <3>2, PlaceAssumption
    <2> QED
      BY <2>3, <2>4, <2>5
  <1> QED
    BY <1>2, <1>3, <1>4 DEF mu

\* The membership at a place is the alpha of a level, or 0.
LEMMA MembershipIsAlpha ==
    ASSUME NEW v \in Operand, NEW p \in Place
    PROVE  /\ MembershipAt(v, p) \in 0..One
           /\ MembershipAt(v, p) # 0 =>
                  \E k \in DOMAIN v.levels : v.levels[k].alpha = MembershipAt(v, p)
  <1>1. /\ v.levels \in Seq(Level) /\ StrictlyDescending(v.levels)
        /\ \A j \in DOMAIN v.levels : v.levels[j].alpha \in 1..One
    BY OperandFacts
  <1>2. /\ Covering(v.levels, p) = {} => MembershipAt(v, p) = 0
        /\ Covering(v.levels, p) # {} =>
               \E j \in Covering(v.levels, p) : v.levels[j].alpha = MembershipAt(v, p)
    BY <1>1, MembershipIsHighest
  <1>3. Covering(v.levels, p) \subseteq DOMAIN v.levels
    BY DEF Covering
  <1> QED
    BY <1>1, <1>2, <1>3, AlphaAssumption

\* A cut covers the places where the membership is at least the threshold, a
\* strict cut those where it is greater; where there is no cut there are none.
LEMMA CutCovers ==
    ASSUME NEW v \in Operand, NEW p \in Place, NEW t \in 0..One
    PROVE  /\ t # 0 => (MembershipAt(v, p) >= t
                           <=> /\ AlphaCut(v, t) # 0
                               /\ CoversPlace(v.levels[AlphaCut(v, t)].geometry, p))
           /\ MembershipAt(v, p) > t
                  <=> /\ StrictAlphaCut(v, t) # 0
                      /\ CoversPlace(v.levels[StrictAlphaCut(v, t)].geometry, p)
  <1> DEFINE mu == MembershipAt(v, p)
             i == AlphaCut(v, t)
             j == StrictAlphaCut(v, t)
             n == Len(v.levels)
             a(k) == v.levels[k].alpha
  <1>1. /\ n \in Nat /\ DOMAIN v.levels = 1..n /\ i \in 0..n /\ j \in 0..n
        /\ \A k \in 1..n : a(k) \in Int /\ a(k) >= 1
        /\ \A k \in 1..n : a(k) >= t <=> k <= i
        /\ \A k \in 1..n : a(k) > t <=> k <= j
    BY OperandFacts, CutSplits, AlphaAssumption
  <1>2. /\ mu \in Int /\ mu >= 0 /\ t \in Int /\ t >= 0
        /\ mu # 0 => \E k \in 1..n : a(k) = mu
    BY <1>1, MembershipIsAlpha, AlphaAssumption
  <1>3. \A k \in 1..n : CoversPlace(v.levels[k].geometry, p) <=> a(k) <= mu
    BY <1>1, LevelCovers
  <1>4. \A k, m \in 1..n : k <= m => a(m) <= a(k)
    <2> SUFFICES ASSUME NEW k \in 1..n, NEW m \in 1..n, k <= m
                 PROVE  a(m) <= a(k)
      OBVIOUS
    <2>1. k = m \/ a(k) > a(m)
      BY <1>1, OperandFacts DEF StrictlyDescending
    <2> QED
      BY <1>1, <2>1
  <1> HIDE DEF mu, i, j, n, a
  <1>5. t # 0 => (mu >= t <=> i # 0 /\ CoversPlace(v.levels[i].geometry, p))
    <2>1. ASSUME t # 0, mu >= t
          PROVE  i # 0 /\ CoversPlace(v.levels[i].geometry, p)
      <3>1. PICK k \in 1..n : a(k) = mu
        BY <1>2, <2>1
      <3>2. k <= i /\ i \in 1..n
        BY <1>1, <2>1, <3>1
      <3> QED
        BY <1>3, <1>4, <3>1, <3>2
    <2>2. ASSUME i # 0, CoversPlace(v.levels[i].geometry, p)
          PROVE  mu >= t
      <3>1. i \in 1..n /\ a(i) >= t /\ a(i) <= mu
        BY <1>1, <1>3, <2>2
      <3> QED
        BY <1>1, <1>2, <3>1
    <2> QED
      BY <2>1, <2>2
  <1>6. mu > t <=> j # 0 /\ CoversPlace(v.levels[j].geometry, p)
    <2>1. ASSUME mu > t
          PROVE  j # 0 /\ CoversPlace(v.levels[j].geometry, p)
      <3>1. PICK k \in 1..n : a(k) = mu
        BY <1>2, <2>1
      <3>2. k <= j /\ j \in 1..n
        BY <1>1, <2>1, <3>1
      <3> QED
        BY <1>3, <1>4, <3>1, <3>2
    <2>2. ASSUME j # 0, CoversPlace(v.levels[j].geometry, p)
          PROVE  mu > t
      <3>1. j \in 1..n /\ a(j) > t /\ a(j) <= mu
        BY <1>1, <1>3, <2>2
      <3> QED
        BY <1>1, <1>2, <3>1
    <2> QED
      BY <2>1, <2>2
  <1> QED
    BY <1>5, <1>6 DEF mu, i, j

-----------------------------------------------------------------------------
\* What canonicalize answers: the operators CanonicalOutcome is made of.

UniqueAlphas(S) == \A l, h \in S : l.alpha = h.alpha => l = h

LEMMA AlphaOfLevel ==
    ASSUME NEW S \in SUBSET Level
    PROVE  \A l \in S : l.alpha \in Int /\ l.alpha \in 1..One
  <1>1. \A l \in S : l.alpha \in Alpha
    BY DEF Level
  <1>2. \A a \in Alpha : a \in Int /\ a \in 1..One
    BY AlphaAssumption
  <1> QED
    BY <1>1, <1>2

\* Among levels with alphas of their own, the highest is the one above the others.
LEMMA HighestIs ==
    ASSUME NEW S \in SUBSET Level, UniqueAlphas(S), NEW l \in S,
           \A h \in S : l.alpha >= h.alpha
    PROVE  Highest(S) = l
  <1>1. ASSUME NEW k \in S, \A h \in S : k.alpha >= h.alpha
        PROVE  k = l
    <2>1. k.alpha \in Int /\ l.alpha \in Int
      BY AlphaOfLevel
    <2>2. k.alpha >= l.alpha /\ l.alpha >= k.alpha
      BY <1>1
    <2>3. k.alpha = l.alpha
      BY <2>1, <2>2
    <2> QED
      BY <2>3 DEF UniqueAlphas
  <1> QED
    BY <1>1 DEF Highest

LEMMA LowestIs ==
    ASSUME NEW S \in SUBSET Level, UniqueAlphas(S), NEW l \in S,
           \A h \in S : l.alpha <= h.alpha
    PROVE  Lowest(S) = l
  <1>1. ASSUME NEW k \in S, \A h \in S : k.alpha <= h.alpha
        PROVE  k = l
    <2>1. k.alpha \in Int /\ l.alpha \in Int
      BY AlphaOfLevel
    <2>2. k.alpha <= l.alpha /\ l.alpha <= k.alpha
      BY <1>1
    <2>3. k.alpha = l.alpha
      BY <2>1, <2>2
    <2> QED
      BY <2>3 DEF UniqueAlphas
  <1> QED
    BY <1>1 DEF Lowest

LEMMA HighestExists ==
    ASSUME NEW S \in SUBSET Level, S # {}
    PROVE  Highest(S) \in S /\ \A h \in S : Highest(S).alpha >= h.alpha
  <1> DEFINE alphas == {l.alpha : l \in S}
  <1>1. \A l \in S : l.alpha \in Int /\ l.alpha \in 1..One
    BY AlphaOfLevel
  <1>2. One \in Nat /\ alphas \in SUBSET (0..One) /\ alphas # {}
    BY <1>1, AlphaAssumption
  <1>3. \A l \in S : l.alpha \in alphas
    OBVIOUS
  <1>4. \A a \in alphas : \E l \in S : l.alpha = a
    OBVIOUS
  <1> HIDE DEF alphas
  <1>5. Max(alphas) \in alphas /\ \A a \in alphas : a <= Max(alphas)
    BY <1>2, MaxIsGreatest
  <1>6. PICK l \in S : l.alpha = Max(alphas)
    BY <1>4, <1>5
  <1>7. \A h \in S : l.alpha >= h.alpha
    BY <1>1, <1>3, <1>5, <1>6
  <1> QED
    BY <1>7 DEF Highest

\* The levels of a descending list have alphas of their own.
LEMMA DescendingIsUniqueAlphas ==
    ASSUME NEW s \in Seq(Level), StrictlyDescending(s)
    PROVE  ToSet(s) \in SUBSET Level /\ UniqueAlphas(ToSet(s))
  <1>1. ToSet(s) \in SUBSET Level
    BY DEF ToSet
  <1>2. ASSUME NEW i \in DOMAIN s, NEW j \in DOMAIN s, s[i].alpha = s[j].alpha
        PROVE  i = j
    <2>1. i \in Int /\ j \in Int /\ s[i].alpha \in Int /\ s[j].alpha \in Int
      BY LevelAlphaIsInt
    <2> QED
      BY <1>2, <2>1 DEF StrictlyDescending
  <1> QED
    BY <1>1, <1>2 DEF ToSet, UniqueAlphas

\* Normalizing changes geometries only.
LEMMA NormalizedLevelsAre ==
    ASSUME NEW r \in Seq(Level)
    PROVE  /\ DOMAIN NormalizedLevels(r) = DOMAIN r
           /\ Len(NormalizedLevels(r)) = Len(r)
           /\ \A k \in DOMAIN r :
                  /\ NormalizedLevels(r)[k] = NormalizedLevel(r[k])
                  /\ NormalizedLevel(r[k]).alpha = r[k].alpha
                  /\ NormalizedLevel(r[k]).geometry = Normalize(r[k].geometry)
                  /\ NormalizedLevel(r[k]) \in Level
  <1>1. DOMAIN r = 1..Len(r) /\ Len(r) \in Nat
    OBVIOUS
  <1>2. ASSUME NEW l \in Level
        PROVE  /\ NormalizedLevel(l).alpha = l.alpha
               /\ NormalizedLevel(l).geometry = Normalize(l.geometry)
               /\ NormalizedLevel(l) \in Level
    BY NormalizeAssumption DEF NormalizedLevel, Level
  <1>3. NormalizedLevels(r) = [k \in 1..Len(r) |-> NormalizedLevel(r[k])]
    BY <1>1 DEF NormalizedLevels
  <1>4. \A k \in DOMAIN r : r[k] \in Level
    OBVIOUS
  <1> QED
    BY <1>1, <1>2, <1>3, <1>4

\* EmptyAt is the first level that is empty, 0 when none is.
LEMMA EmptyAtIs ==
    ASSUME NEW r \in Seq(Level)
    PROVE  /\ (\A k \in DOMAIN r : ~IsEmpty(NormalizedLevel(r[k]).geometry)) => EmptyAt(r) = 0
           /\ EmptyAt(r) = 0 => \A k \in DOMAIN r : ~IsEmpty(NormalizedLevel(r[k]).geometry)
           /\ \A k \in DOMAIN r :
                  /\ IsEmpty(NormalizedLevel(r[k]).geometry)
                  /\ \A j \in DOMAIN r : j < k => ~IsEmpty(NormalizedLevel(r[j]).geometry)
                  => EmptyAt(r) = k
  <1> DEFINE n == Len(r)
             empty == {k \in 1..n : IsEmpty(NormalizedLevels(r)[k].geometry)}
  <1>1. n \in Nat /\ DOMAIN r = 1..n /\ Len(NormalizedLevels(r)) = n
    BY NormalizedLevelsAre
  <1>2. \A k \in 1..n : NormalizedLevels(r)[k] = NormalizedLevel(r[k])
    BY <1>1, NormalizedLevelsAre
  <1>3. EmptyAt(r) = IF empty # {} THEN Min(empty) ELSE 0
    BY <1>1, Zenon DEF EmptyAt, SelectInSeq
  <1>4. \A k \in 1..n : k \in empty <=> IsEmpty(NormalizedLevel(r[k]).geometry)
    BY <1>2
  <1>5. empty \in SUBSET Nat /\ empty \in SUBSET (1..n)
    OBVIOUS
  <1>6. empty # {} => Min(empty) \in empty /\ \A k \in empty : Min(empty) <= k
    BY <1>5, MinIsLeast
  <1> HIDE DEF empty, n
  <1>7. ASSUME NEW k \in 1..n, k \in empty, \A j \in 1..n : j < k => j \notin empty
        PROVE  EmptyAt(r) = k
    <2> DEFINE m == Min(empty)
    <2>1. empty # {} /\ m \in empty /\ m <= k
      BY <1>6, <1>7
    <2>2. m \in 1..n /\ ~(m < k)
      BY <1>5, <1>7, <2>1
    <2>3. EmptyAt(r) = m
      BY <1>3, <2>1
    <2> HIDE DEF m
    <2> QED
      BY <1>1, <2>1, <2>2, <2>3
  <1>8. EmptyAt(r) = 0 => empty = {}
    BY <1>1, <1>3, <1>5, <1>6
  <1>9. empty = {} => EmptyAt(r) = 0
    BY <1>3
  <1> QED
    BY <1>1, <1>4, <1>5, <1>7, <1>8, <1>9

\* Levels without an empty one and without a repeated alpha.
LEMMA NormalizedLevelsUnique ==
    ASSUME NEW r \in Seq(Level), EmptyAt(r) = 0, DuplicateAlphas(r) = {}
    PROVE  /\ NormalizedLevels(r) \in Seq(CanonicalLevel)
           /\ ToSet(NormalizedLevels(r)) \in SUBSET CanonicalLevel
           /\ ToSet(NormalizedLevels(r)) \in SUBSET Level
           /\ IsFiniteSet(ToSet(NormalizedLevels(r)))
           /\ UniqueAlphas(ToSet(NormalizedLevels(r)))
  <1> DEFINE s == NormalizedLevels(r)
             n == Len(r)
  <1>1. n \in Nat /\ DOMAIN r = 1..n /\ DOMAIN s = 1..n /\ Len(s) = n
    BY NormalizedLevelsAre
  <1>2. \A k \in 1..n : /\ s[k] = NormalizedLevel(r[k])
                        /\ s[k].alpha = r[k].alpha
                        /\ s[k] \in CanonicalLevel
    <2> SUFFICES ASSUME NEW k \in 1..n
                 PROVE  /\ s[k] = NormalizedLevel(r[k])
                        /\ s[k].alpha = r[k].alpha
                        /\ s[k] \in CanonicalLevel
      OBVIOUS
    <2>1. /\ s[k] = NormalizedLevel(r[k]) /\ NormalizedLevel(r[k]).alpha = r[k].alpha
          /\ NormalizedLevel(r[k]).geometry = Normalize(r[k].geometry)
      BY <1>1, NormalizedLevelsAre
    <2>2. ~IsEmpty(NormalizedLevel(r[k]).geometry)
      BY <1>1, EmptyAtIs
    <2>3. r[k] \in Level
      BY <1>1
    <2> QED
      BY <2>1, <2>2, <2>3, NormalizedLevelType
  <1>3. s = [k \in 1..n |-> NormalizedLevel(r[k])]
    BY <1>1 DEF NormalizedLevels
  <1>4. s \in [1..n -> CanonicalLevel]
    BY <1>2, <1>3
  <1>5. ToSet(s) = {s[k] : k \in 1..n}
    BY <1>1 DEF ToSet
  <1> HIDE DEF s, n
  <1>6. s \in Seq(CanonicalLevel)
    BY <1>1, <1>4
  <1>7. ToSet(s) \in SUBSET CanonicalLevel /\ ToSet(s) \in SUBSET Level
    <2>1. CanonicalLevel \subseteq Level
      BY DEF CanonicalLevel, Level, Extent
    <2> QED
      BY <1>4, <1>5, <2>1
  <1>8. IsFiniteSet(ToSet(s))
    <2>1. s \in Surjection(1..n, ToSet(s))
      <3>1. s \in [1..n -> ToSet(s)]
        BY <1>4, <1>5
      <3> QED
        BY <1>5, <3>1 DEF Surjection
    <2>2. IsFiniteSet(1..n)
      <3>1. 1 \in Int /\ n \in Int
        BY <1>1
      <3> QED
        BY <3>1, FS_Interval
    <2> QED
      BY <2>1, <2>2, FS_Surjection
  <1>9. UniqueAlphas(ToSet(s))
    <2>1. ASSUME NEW i \in 1..n, NEW j \in 1..n, s[i].alpha = s[j].alpha, i # j
          PROVE  FALSE
      <3>1. r[j].alpha = r[i].alpha /\ j \in DOMAIN r \ {i}
        BY <1>1, <1>2, <2>1
      <3>2. r[i].alpha \in DuplicateAlphas(r)
        BY <1>1, <3>1 DEF DuplicateAlphas
      <3> QED
        BY <3>2
    <2> QED
      BY <1>5, <2>1 DEF UniqueAlphas
  <1> QED
    BY <1>6, <1>7, <1>8, <1>9 DEF s

\* The set of levels the answer is computed from.
GivenLevels(r) == ToSet(NormalizedLevels(r))

\* The branches of CanonicalOutcome, each under the condition that leads to it.
LEMMA OutcomeBranches ==
    ASSUME NEW r \in Seq(Level)
    PROVE  LET S == GivenLevels(r)
               sound == EmptyAt(r) = 0 /\ r # <<>> /\ DuplicateAlphas(r) = {}
               bad == Highest(Unnested(S))
           IN /\ EmptyAt(r) # 0 =>
                     CanonicalOutcome(r) = Rejected("EmptyGeometry", <<r[EmptyAt(r)].alpha>>)
              /\ EmptyAt(r) = 0 /\ r = <<>> =>
                     CanonicalOutcome(r) = Accepted(EmptyValue(NoSrid))
              /\ EmptyAt(r) = 0 /\ DuplicateAlphas(r) # {} =>
                     CanonicalOutcome(r)
                         = Rejected("DuplicateAlpha", <<Max(DuplicateAlphas(r))>>)
              /\ sound /\ Foreign(S) # {} =>
                     CanonicalOutcome(r) = Rejected("MixedSrid", <<Highest(Foreign(S)).alpha>>)
              /\ sound /\ Foreign(S) = {} /\ Unnested(S) # {} =>
                     CanonicalOutcome(r)
                         = Rejected("NonNestedLevels",
                               <<Representative(S, Lowest(Above(S, bad))).alpha, bad.alpha>>)
              /\ sound /\ Foreign(S) = {} /\ Unnested(S) = {} =>
                     CanonicalOutcome(r)
                         = Accepted([srid |-> SridOf(Highest(S).geometry),
                                     levels |-> HighestFirst({Representative(S, l) : l \in S})])
  <1>1. DuplicateAlphas(r) # {} => r # <<>>
    BY DEF DuplicateAlphas
  <1> QED
    BY <1>1, Zenon DEF CanonicalOutcome, GivenLevels

\* The kinds of answer it has.
LEMMA OutcomeKinds ==
    ASSUME NEW r \in Seq(Level)
    PROVE  LET o == CanonicalOutcome(r)
           IN /\ o.kind \in {"Ok", "EmptyGeometry", "DuplicateAlpha", "MixedSrid", "NonNestedLevels"}
              /\ o.kind = "Ok" => o = Accepted(o.value)
  <1>1. /\ \A v : Accepted(v).kind = "Ok" /\ Accepted(v).value = v
        /\ \A kind, alphas : Rejected(kind, alphas).kind = kind
    BY DEF Accepted, Rejected
  <1> DEFINE S == GivenLevels(r)
             bad == Highest(Unnested(S))
             sound == EmptyAt(r) = 0 /\ r # <<>> /\ DuplicateAlphas(r) = {}
  <1>2. CASE EmptyAt(r) # 0
    <2>1. CanonicalOutcome(r) = Rejected("EmptyGeometry", <<r[EmptyAt(r)].alpha>>)
      BY <1>2, OutcomeBranches
    <2> QED
      BY <1>1, <2>1
  <1>3. CASE EmptyAt(r) = 0 /\ r = <<>>
    <2>1. CanonicalOutcome(r) = Accepted(EmptyValue(NoSrid))
      BY <1>3, OutcomeBranches
    <2> QED
      BY <1>1, <2>1
  <1>4. CASE EmptyAt(r) = 0 /\ DuplicateAlphas(r) # {}
    <2>1. CanonicalOutcome(r) = Rejected("DuplicateAlpha", <<Max(DuplicateAlphas(r))>>)
      BY <1>4, OutcomeBranches
    <2> QED
      BY <1>1, <2>1
  <1>5. CASE sound /\ Foreign(S) # {}
    <2>1. CanonicalOutcome(r) = Rejected("MixedSrid", <<Highest(Foreign(S)).alpha>>)
      BY <1>5, OutcomeBranches
    <2> QED
      BY <1>1, <2>1
  <1>6. CASE sound /\ Foreign(S) = {} /\ Unnested(S) # {}
    <2>1. CanonicalOutcome(r)
              = Rejected("NonNestedLevels",
                         <<Representative(S, Lowest(Above(S, bad))).alpha, bad.alpha>>)
      BY <1>6, OutcomeBranches
    <2> QED
      BY <1>1, <2>1
  <1>7. CASE sound /\ Foreign(S) = {} /\ Unnested(S) = {}
    <2> DEFINE v == [srid |-> SridOf(Highest(S).geometry),
                     levels |-> HighestFirst({Representative(S, l) : l \in S})]
    <2>1. CanonicalOutcome(r) = Accepted(v)
      BY <1>7, OutcomeBranches
    <2> HIDE DEF v
    <2> QED
      BY <1>1, <2>1
  <1> QED
    BY <1>2, <1>3, <1>4, <1>5, <1>6, <1>7

\* The highest level of an extent stands for every level that has it.
LEMMA RepresentativeIs ==
    ASSUME NEW S \in SUBSET Level, UniqueAlphas(S), NEW l, NEW k \in S,
           TopoEquals(k.geometry, l.geometry),
           \A h \in S : TopoEquals(h.geometry, l.geometry) => k.alpha >= h.alpha
    PROVE  Representative(S, l) = k
  <1> DEFINE T == {h \in S : TopoEquals(h.geometry, l.geometry)}
  <1>1. T \in SUBSET Level /\ UniqueAlphas(T) /\ k \in T /\ \A h \in T : k.alpha >= h.alpha
    BY DEF UniqueAlphas
  <1>2. Highest(T) = k
    <2> HIDE DEF T
    <2> QED
      BY <1>1, HighestIs
  <1> QED
    BY <1>2 DEF Representative

LEMMA RepresentativeStands ==
    ASSUME NEW S \in SUBSET CanonicalLevel, NEW l \in S
    PROVE  /\ Representative(S, l) \in S
           /\ TopoEquals(Representative(S, l).geometry, l.geometry)
           /\ \A h \in S : TopoEquals(h.geometry, l.geometry)
                               => Representative(S, l).alpha >= h.alpha
  <1> DEFINE T == {h \in S : TopoEquals(h.geometry, l.geometry)}
  <1>1. l \in T
    <2>1. l.geometry \in Extent
      BY DEF CanonicalLevel
    <2> QED
      BY <2>1, ExtentCoversItself
  <1>2. T \in SUBSET Level
    BY DEF CanonicalLevel, Level, Extent
  <1>3. Highest(T) \in T /\ \A h \in T : Highest(T).alpha >= h.alpha
    <2> HIDE DEF T
    <2> QED
      BY <1>1, <1>2, HighestExists
  <1> QED
    BY <1>3 DEF Representative

\* The highest level of a descending list is its first.
LEMMA HighestOfDescending ==
    ASSUME NEW s \in Seq(Level), StrictlyDescending(s), s # <<>>
    PROVE  Highest(ToSet(s)) = s[1]
  <1>1. 1 \in DOMAIN s /\ DOMAIN s \subseteq Nat \ {0}
    OBVIOUS
  <1>2. ToSet(s) \in SUBSET Level /\ UniqueAlphas(ToSet(s)) /\ s[1] \in ToSet(s)
    BY <1>1, DescendingIsUniqueAlphas DEF ToSet
  <1>3. \A k \in DOMAIN s : s[1].alpha >= s[k].alpha
    <2> SUFFICES ASSUME NEW k \in DOMAIN s
                 PROVE  s[1].alpha >= s[k].alpha
      OBVIOUS
    <2>1. s[1].alpha \in Int /\ s[k].alpha \in Int
      BY <1>1, LevelAlphaIsInt
    <2>2. k = 1 \/ 1 < k
      BY <1>1
    <2> QED
      BY <1>1, <2>1, <2>2 DEF StrictlyDescending
  <1>4. \A h \in ToSet(s) : s[1].alpha >= h.alpha
    BY <1>3 DEF ToSet
  <1> QED
    BY <1>2, <1>4, HighestIs

\* A canonical list is answered with the value of exactly its levels.
LEMMA CanonicalIsAccepted ==
    ASSUME NEW r \in Seq(Level), r # <<>>, Canonical(OfLevels(r))
    PROVE  CanonicalOutcome(r) = Accepted(OfLevels(r))
  <1> DEFINE S == ToSet(r)
  <1>1. /\ r \in Seq(CanonicalLevel) /\ StrictlyDescending(r) /\ StrictlyNested(r)
        /\ OneSrid(r, SridOf(r[1].geometry))
        /\ 1 \in DOMAIN r
    BY DEF Canonical, OfLevels
  <1>2. NormalizedLevels(r) = r
    <2>1. \A k \in DOMAIN r : NormalizedLevel(r[k]) = r[k]
      BY <1>1, NormalizedIsItself
    <2>2. r = [k \in DOMAIN r |-> r[k]]
      OBVIOUS
    <2> QED
      BY <2>1, <2>2 DEF NormalizedLevels
  <1>3. EmptyAt(r) = 0
    <2>1. \A k \in DOMAIN r : ~IsEmpty(NormalizedLevel(r[k]).geometry)
      BY <1>1, NormalizedIsItself
    <2> QED
      BY <2>1, EmptyAtIs
  <1>4. DuplicateAlphas(r) = {}
    <2>1. ASSUME NEW i \in DOMAIN r, NEW j \in DOMAIN r, r[i].alpha = r[j].alpha
          PROVE  i = j
      <3>1. i \in Int /\ j \in Int /\ r[i].alpha \in Int /\ r[j].alpha \in Int
        BY LevelAlphaIsInt
      <3> QED
        BY <1>1, <2>1, <3>1 DEF StrictlyDescending
    <2> QED
      BY <2>1 DEF DuplicateAlphas
  <1>5. /\ S \in SUBSET Level /\ UniqueAlphas(S) /\ Highest(S) = r[1]
    BY <1>1, DescendingIsUniqueAlphas, HighestOfDescending
  <1>6. \A k \in DOMAIN r : r[k].geometry \in Extent /\ r[k].alpha \in Int
    <2>1. \A k \in DOMAIN r : r[k] \in CanonicalLevel
      BY <1>1
    <2> QED
      BY <2>1, LevelAlphaIsInt DEF CanonicalLevel
  <1>7. \A i, j \in DOMAIN r : SameSrid(r[i].geometry, r[j].geometry)
    BY <1>1 DEF OneSrid, SameSrid
  <1>8. Foreign(S) = {}
    BY <1>1, <1>5, <1>7 DEF Foreign, ToSet
  <1>9. \A i, j \in DOMAIN r : r[i].alpha > r[j].alpha => i < j
    <2> SUFFICES ASSUME NEW i \in DOMAIN r, NEW j \in DOMAIN r, r[i].alpha > r[j].alpha
                 PROVE  i < j
      OBVIOUS
    <2>1. i \in Int /\ j \in Int
      OBVIOUS
    <2>2. r[i].alpha \in Int /\ r[j].alpha \in Int
      BY <1>6
    <2>3. i # j /\ ~(j < i)
      BY <1>1, <2>2 DEF StrictlyDescending
    <2> QED
      BY <2>1, <2>3
  <1>10. Unnested(S) = {}
    <2>1. \A i, j \in DOMAIN r : r[i].alpha > r[j].alpha => Covers(r[j].geometry, r[i].geometry)
      BY <1>1, <1>9 DEF StrictlyNested
    <2> QED
      BY <2>1 DEF Unnested, Above, ToSet
  <1>11. ASSUME NEW k \in DOMAIN r
         PROVE  Representative(S, r[k]) = r[k]
    <2>1. r[k] \in S
      BY DEF ToSet
    <2>2. TopoEquals(r[k].geometry, r[k].geometry)
      BY <1>6, ExtentCoversItself
    <2>3. ASSUME NEW j \in DOMAIN r, TopoEquals(r[j].geometry, r[k].geometry), j # k
          PROVE  FALSE
      <3>1. TopoEquals(r[k].geometry, r[j].geometry)
        BY <1>6, <1>7, <2>3, CoversAssumption
      <3>2. j < k \/ k < j
        BY <2>3
      <3> QED
        BY <1>1, <2>3, <3>1, <3>2 DEF StrictlyNested
    <2>4. \A h \in S : TopoEquals(h.geometry, r[k].geometry) => r[k].alpha >= h.alpha
      <3>1. r[k].alpha >= r[k].alpha
        BY <1>6
      <3> QED
        BY <2>3, <3>1 DEF ToSet
    <2> HIDE DEF S
    <2> QED
      BY <1>5, <2>1, <2>2, <2>4, RepresentativeIs
  <1>12. {Representative(S, l) : l \in S} = S
    BY <1>11 DEF ToSet
  <1>13. HighestFirst(S) = r
    BY <1>1, HighestFirstIs
  <1> HIDE DEF S
  <1>14. S = GivenLevels(r)
    BY <1>2 DEF S, GivenLevels
  <1>15. CanonicalOutcome(r)
             = Accepted([srid |-> SridOf(Highest(S).geometry),
                         levels |-> HighestFirst({Representative(S, l) : l \in S})])
    BY <1>3, <1>4, <1>8, <1>10, <1>14, OutcomeBranches
  <1> QED
    BY <1>5, <1>12, <1>13, <1>15 DEF OfLevels

\* Which answer has which kind.
LEMMA NoLevels ==
    EmptyAt(<<>>) = 0 /\ CanonicalOutcome(<<>>) = Accepted(EmptyValue(NoSrid))
  <1>1. <<>> \in Seq(Level) /\ \A k \in DOMAIN <<>> : FALSE
    OBVIOUS
  <1>2. EmptyAt(<<>>) = 0
    BY <1>1, EmptyAtIs
  <1> QED
    BY <1>1, <1>2, OutcomeBranches

LEMMA OutcomeIsOk ==
    ASSUME NEW r \in Seq(Level), CanonicalOutcome(r).kind = "Ok"
    PROVE  LET S == GivenLevels(r)
           IN \/ r = <<>> /\ CanonicalOutcome(r) = Accepted(EmptyValue(NoSrid))
              \/ /\ EmptyAt(r) = 0 /\ r # <<>> /\ DuplicateAlphas(r) = {}
                 /\ Foreign(S) = {} /\ Unnested(S) = {}
                 /\ CanonicalOutcome(r)
                        = Accepted([srid |-> SridOf(Highest(S).geometry),
                                    levels |-> HighestFirst({Representative(S, l) : l \in S})])
  <1>0. \A kind, alphas : Rejected(kind, alphas).kind = kind
    BY DEF Rejected
  <1>1. CASE EmptyAt(r) # 0
    <2>1. CanonicalOutcome(r) = Rejected("EmptyGeometry", <<r[EmptyAt(r)].alpha>>)
      BY <1>1, OutcomeBranches
    <2> QED
      BY <1>0, <2>1
  <1>2. CASE EmptyAt(r) = 0 /\ r = <<>>
    BY <1>2, OutcomeBranches
  <1>3. CASE EmptyAt(r) = 0 /\ DuplicateAlphas(r) # {}
    <2>1. CanonicalOutcome(r) = Rejected("DuplicateAlpha", <<Max(DuplicateAlphas(r))>>)
      BY <1>3, OutcomeBranches
    <2> QED
      BY <1>0, <2>1
  <1>4. CASE EmptyAt(r) = 0 /\ r # <<>> /\ DuplicateAlphas(r) = {}
    <2> DEFINE S == GivenLevels(r)
               bad == Highest(Unnested(S))
    <2>1. Foreign(S) = {}
      <3>1. Foreign(S) # {} =>
                CanonicalOutcome(r) = Rejected("MixedSrid", <<Highest(Foreign(S)).alpha>>)
        BY <1>4, OutcomeBranches
      <3> QED
        BY <1>0, <3>1
    <2>2. Unnested(S) = {}
      <3>1. Unnested(S) # {} =>
                CanonicalOutcome(r)
                    = Rejected("NonNestedLevels",
                          <<Representative(S, Lowest(Above(S, bad))).alpha, bad.alpha>>)
        BY <1>4, <2>1, OutcomeBranches
      <3> QED
        BY <1>0, <3>1
    <2> QED
      BY <1>4, <2>1, <2>2, OutcomeBranches
  <1> QED
    BY <1>1, <1>2, <1>3, <1>4

\* Whatever list it is asked about, what canonicalize accepts is a canonical value.
LEMMA AcceptedIsOperand ==
    ASSUME NEW r \in Seq(Level), CanonicalOutcome(r).kind = "Ok"
    PROVE  /\ CanonicalOutcome(r).value \in Operand
           /\ CanonicalOutcome(r).value.levels = <<>> => CanonicalOutcome(r).value = EmptyValue(NoSrid)
           /\ CanonicalOutcome(r).value.levels = <<>> <=> r = <<>>
  <1> DEFINE S == GivenLevels(r)
             K == {Representative(S, l) : l \in S}
             ks == HighestFirst(K)
             v == [srid |-> SridOf(Highest(S).geometry), levels |-> ks]
  <1>1. CASE r = <<>>
    <2>1. CanonicalOutcome(r) = Accepted(EmptyValue(NoSrid))
      BY <1>1, NoLevels
    <2> QED
      BY <1>1, <2>1, EmptyIsCanonicalValue DEF Operand, Accepted, EmptyValue
  <1>2. CASE r # <<>>
    <2>1. /\ EmptyAt(r) = 0 /\ DuplicateAlphas(r) = {}
          /\ Foreign(S) = {} /\ Unnested(S) = {}
          /\ CanonicalOutcome(r) = Accepted(v)
      BY <1>2, OutcomeIsOk
    <2>2. /\ S \in SUBSET CanonicalLevel /\ S \in SUBSET Level
          /\ IsFiniteSet(S) /\ UniqueAlphas(S)
      BY <2>1, NormalizedLevelsUnique DEF GivenLevels
    <2>3. S # {}
      <3>1. 1 \in DOMAIN r
        BY <1>2
      <3>2. 1 \in DOMAIN NormalizedLevels(r)
        BY <3>1, NormalizedLevelsAre
      <3> QED
        BY <3>2 DEF GivenLevels, ToSet
    <2> HIDE DEF S
    <2>4. /\ \A l \in S : /\ Representative(S, l) \in S
                          /\ TopoEquals(Representative(S, l).geometry, l.geometry)
                          /\ \A h \in S : TopoEquals(h.geometry, l.geometry)
                                              => Representative(S, l).alpha >= h.alpha
          /\ K \in SUBSET S
      BY <2>2, RepresentativeStands
    <2>5. K \in SUBSET Level /\ K \in SUBSET CanonicalLevel /\ IsFiniteSet(K) /\ K # {}
      BY <2>2, <2>3, <2>4, FS_Subset
    <2>6. \A l, h \in K : l.alpha = h.alpha => l = h
      BY <2>2, <2>4 DEF UniqueAlphas
    <2>7. \A k \in K : \E l \in S : k = Representative(S, l)
      OBVIOUS
    <2> HIDE DEF K
    <2>8. ks \in Seq(Level) /\ ToSet(ks) = K /\ StrictlyDescending(ks)
      BY <2>5, <2>6, HighestFirstSorts
    <2> HIDE DEF ks
    <2>9. \A k \in DOMAIN ks : ks[k] \in K /\ ks[k] \in S /\ ks[k] \in CanonicalLevel
      <3>1. \A k \in DOMAIN ks : ks[k] \in ToSet(ks)
        BY DEF ToSet
      <3> QED
        BY <2>4, <2>5, <2>8, <3>1
    <2>10. ks \in Seq(CanonicalLevel)
      <3>1. Len(ks) \in Nat /\ DOMAIN ks = 1..Len(ks) /\ ks = [k \in 1..Len(ks) |-> ks[k]]
        BY <2>8
      <3> QED
        BY <2>9, <3>1
    <2>11. \A l \in S : l.geometry \in Extent /\ l.alpha \in Int
      <3>1. \A l \in S : l \in CanonicalLevel
        BY <2>2
      <3> QED
        BY <2>2, <3>1, AlphaOfLevel DEF CanonicalLevel
    <2>12. Highest(S) \in S /\ \A l \in S : SridOf(l.geometry) = SridOf(Highest(S).geometry)
      <3>1. Highest(S) \in S
        BY <2>2, <2>3, HighestExists
      <3> QED
        BY <2>1, <3>1 DEF Foreign, SameSrid
    <2>13. \A l, h \in S : h.alpha > l.alpha => Covers(l.geometry, h.geometry)
      BY <2>1 DEF Unnested, Above
    <2>14. StrictlyNested(ks)
      <3> SUFFICES ASSUME NEW i \in DOMAIN ks, NEW j \in DOMAIN ks, i < j
                   PROVE  /\ Covers(ks[j].geometry, ks[i].geometry)
                          /\ ~TopoEquals(ks[j].geometry, ks[i].geometry)
        BY DEF StrictlyNested
      <3>1. ks[i].alpha > ks[j].alpha /\ ks[i] \in S /\ ks[j] \in S /\ ks[j] \in K
        BY <2>8, <2>9 DEF StrictlyDescending
      <3>2. Covers(ks[j].geometry, ks[i].geometry)
        BY <2>13, <3>1
      <3>3. ASSUME TopoEquals(ks[j].geometry, ks[i].geometry)
            PROVE  FALSE
        <4>1. PICK l \in S : ks[j] = Representative(S, l)
          BY <2>7, <3>1
        <4>2. /\ SameSrid(ks[j].geometry, ks[i].geometry) /\ SameSrid(ks[i].geometry, ks[j].geometry)
              /\ SameSrid(ks[j].geometry, l.geometry) /\ SameSrid(l.geometry, ks[j].geometry)
              /\ SameSrid(ks[i].geometry, l.geometry)
          BY <2>12, <3>1 DEF SameSrid
        <4>3. /\ Covers(ks[i].geometry, ks[j].geometry)
              /\ Covers(ks[j].geometry, l.geometry) /\ Covers(l.geometry, ks[j].geometry)
          BY <2>4, <2>11, <3>1, <3>3, <4>1, <4>2, CoversAssumption
        <4>4. Covers(ks[i].geometry, l.geometry)
          BY <2>11, <3>1, <4>2, <4>3, CoversAssumption
        <4>5. Covers(l.geometry, ks[i].geometry)
          BY <2>11, <3>1, <3>2, <4>2, <4>3, CoversAssumption
        <4>6. TopoEquals(ks[i].geometry, l.geometry)
          BY <2>11, <3>1, <4>2, <4>4, <4>5, CoversAssumption
        <4>7. ks[j].alpha >= ks[i].alpha
          BY <2>4, <3>1, <4>1, <4>6
        <4> QED
          BY <2>11, <3>1, <4>7
      <3> QED
        BY <3>2, <3>3
    <2>15. OneSrid(ks, SridOf(Highest(S).geometry))
      BY <2>9, <2>12 DEF OneSrid
    <2>16. v \in Operand
      <3>1. SridOf(Highest(S).geometry) \in Srid
        BY <2>11, <2>12, NormalizeAssumption DEF Extent
      <3>2. v \in FuzzyValue
        BY <2>8, <3>1 DEF FuzzyValue
      <3>3. Canonical(v)
        BY <2>8, <2>10, <2>14, <2>15 DEF Canonical
      <3> QED
        BY <3>2, <3>3 DEF Operand
    <2>17. ks # <<>>
      BY <2>5, <2>8 DEF ToSet
    <2> QED
      BY <1>2, <2>1, <2>16, <2>17 DEF Accepted
  <1> QED
    BY <1>1, <1>2

\* Reading the levels of a canonical value gives the value back, but for the SRID
\* of an empty one, which is lost.
LEMMA OperandIsAccepted ==
    ASSUME NEW v \in Operand
    PROVE  /\ v.levels # <<>> => CanonicalOutcome(v.levels) = Accepted(v)
           /\ v.levels = <<>> => CanonicalOutcome(v.levels) = Accepted(EmptyValue(NoSrid))
  <1>1. v.levels \in Seq(Level)
    BY OperandFacts
  <1>2. CASE v.levels # <<>>
    <2>1. 1 \in DOMAIN v.levels
      BY <1>1, <1>2
    <2>2. SridOf(v.levels[1].geometry) = v.srid
      BY <2>1, OperandLevel
    <2>3. v \in [srid : Srid \cup {NoSrid}, levels : Seq(Level)] /\ Canonical(v)
      BY DEF Operand, FuzzyValue
    <2>4. v = OfLevels(v.levels)
      BY <2>2, <2>3 DEF OfLevels
    <2> QED
      BY <1>1, <1>2, <2>3, <2>4, CanonicalIsAccepted
  <1>3. CASE v.levels = <<>>
    BY <1>3, NoLevels
  <1> QED
    BY <1>2, <1>3

-----------------------------------------------------------------------------
\* The set operations as functions: what each threshold gives, and all of them.

\* What one threshold gives, before it is normalized: a geometry in the common
\* SRID.  No overlay is asked of geometries in two SRIDs.
LEMMA ThresholdGeometryType ==
    ASSUME NEW v \in Operand, NEW w \in Operand, NEW o \in Operations, CompatibleSrid(v, w),
           NEW t \in Alpha, NEW g \in ThresholdGeometry(o, v, w, t)
    PROVE  g \in Geometry /\ SridOf(g) = CommonSrid(v, w)
  <1> DEFINE i == AlphaCut(v, t)
             j == RightCut(o, w, t)
             gv == v.levels[i].geometry
             gw == w.levels[j].geometry
             combined == {CASE o = "union" -> EngineUnion(gv, gw)
                            [] o = "intersection" -> EngineIntersection(gv, gw)
                            [] o = "difference" -> EngineDifference(gv, gw)}
  <1>1. i \in {0} \cup DOMAIN v.levels
    BY CutSelectsLevel DEF Operand
  <1>2. j \in {0} \cup DOMAIN w.levels
    BY CutSelectsLevel DEF RightCut, Operand
  <1>3. i # 0 => gv \in Extent /\ SridOf(gv) = v.srid /\ v.srid # NoSrid
    BY <1>1, OperandLevel
  <1>4. j # 0 => gw \in Extent /\ SridOf(gw) = w.srid /\ w.srid # NoSrid
    BY <1>2, OperandLevel
  <1>5. ThresholdGeometry(o, v, w, t) =
            CASE i # 0 /\ j # 0 -> combined
              [] i # 0 /\ j = 0 -> IF o = "intersection" THEN {} ELSE {gv}
              [] i = 0 /\ j # 0 -> IF o = "union" THEN {gw} ELSE {}
              [] i = 0 /\ j = 0 -> {}
    BY DEF ThresholdGeometry
  <1> HIDE DEF i, j, gv, gw
  <1>6. CASE i # 0 /\ j # 0
    <2>1. SameSrid(gv, gw) /\ v.srid = w.srid
      BY <1>3, <1>4, <1>6 DEF CompatibleSrid, SameSrid
    <2>2. g \in combined
      BY <1>5, <1>6
    <2>3. g \in {EngineUnion(gv, gw), EngineIntersection(gv, gw), EngineDifference(gv, gw)}
      BY <2>2 DEF Operations
    <2>4. g \in Geometry /\ SameSrid(g, gv)
      BY <2>1, <2>3, <1>3, <1>4, <1>6, OverlayAssumption
    <2> QED
      BY <2>4, <1>3, <1>6 DEF SameSrid, CommonSrid
  <1>7. CASE i # 0 /\ j = 0
    <2>1. g = gv
      BY <1>5, <1>7
    <2> QED
      BY <2>1, <1>3, <1>7 DEF Extent, CommonSrid
  <1>8. CASE i = 0 /\ j # 0
    <2>1. g = gw
      BY <1>5, <1>8
    <2>2. CommonSrid(v, w) = w.srid
      BY <1>4, <1>8 DEF CommonSrid, CompatibleSrid
    <2> QED
      BY <2>1, <2>2, <1>4, <1>8 DEF Extent
  <1>9. CASE i = 0 /\ j = 0
    BY <1>5, <1>9
  <1> QED
    BY <1>6, <1>7, <1>8, <1>9

LEMMA ThresholdLevelType ==
    ASSUME NEW v \in Operand, NEW w \in Operand, NEW o \in Operations, CompatibleSrid(v, w),
           NEW t \in Alpha, NEW l \in ThresholdLevels(o, v, w, t)
    PROVE  /\ l \in CanonicalLevel
           /\ l.alpha = t
           /\ SridOf(l.geometry) = CommonSrid(v, w)
  <1>1. PICK g \in ThresholdGeometry(o, v, w, t) :
            l = [alpha |-> t, geometry |-> Normalize(g)] /\ ~IsEmpty(Normalize(g))
    BY DEF ThresholdLevels
  <1>2. g \in Geometry /\ SridOf(g) = CommonSrid(v, w)
    BY ThresholdGeometryType
  <1>3. Normalize(g) \in Extent /\ SridOf(Normalize(g)) = SridOf(g)
    BY <1>1, <1>2, NormalizeAssumption DEF Extent
  <1> QED
    BY <1>1, <1>2, <1>3 DEF CanonicalLevel

\* A threshold contributes one level at most: one iteration visits all of them.
LEMMA AtMostOneLevel ==
    ASSUME NEW o \in Operations, NEW v, NEW w, NEW t,
           NEW l \in ThresholdLevels(o, v, w, t), NEW h \in ThresholdLevels(o, v, w, t)
    PROVE  l = h
  <1> DEFINE i == AlphaCut(v, t)
             j == RightCut(o, w, t)
             combined == CASE o = "union" -> EngineUnion(v.levels[i].geometry, w.levels[j].geometry)
                           [] o = "intersection" ->
                                  EngineIntersection(v.levels[i].geometry, w.levels[j].geometry)
                           [] o = "difference" ->
                                  EngineDifference(v.levels[i].geometry, w.levels[j].geometry)
  <1>1. PICK g \in ThresholdGeometry(o, v, w, t) : l = [alpha |-> t, geometry |-> Normalize(g)]
    BY DEF ThresholdLevels
  <1>2. PICK k \in ThresholdGeometry(o, v, w, t) : h = [alpha |-> t, geometry |-> Normalize(k)]
    BY DEF ThresholdLevels
  <1>3. ThresholdGeometry(o, v, w, t) =
            CASE i # 0 /\ j # 0 -> {combined}
              [] i # 0 /\ j = 0 -> IF o = "intersection" THEN {} ELSE {v.levels[i].geometry}
              [] i = 0 /\ j # 0 -> IF o = "union" THEN {w.levels[j].geometry} ELSE {}
              [] i = 0 /\ j = 0 -> {}
    BY DEF ThresholdGeometry
  <1> HIDE DEF i, j, combined
  <1>4. g = k
    BY <1>3
  <1> QED
    BY <1>1, <1>2, <1>4

\* What all thresholds give, as the list that is canonicalized.
GatheredLevels(o, v, w) == UNION {ThresholdLevels(o, v, w, t) : t \in AlphaDomain(v, w)}

LEMMA GatheredSort ==
    ASSUME NEW v \in Operand, NEW w \in Operand, NEW o \in Operations, CompatibleSrid(v, w)
    PROVE  LET s == HighestFirst(GatheredLevels(o, v, w))
           IN /\ s \in Seq(Level) /\ s \in Seq(CanonicalLevel)
              /\ StrictlyDescending(s)
              /\ ToSet(s) = GatheredLevels(o, v, w)
              /\ \A l \in GatheredLevels(o, v, w) :
                     /\ l \in CanonicalLevel /\ l.alpha \in AlphaDomain(v, w)
                     /\ l \in ThresholdLevels(o, v, w, l.alpha)
                     /\ SridOf(l.geometry) = CommonSrid(v, w)
  <1> DEFINE all == GatheredLevels(o, v, w)
             s == HighestFirst(all)
             alphaOf == [l \in all |-> l.alpha]
  <1>1. AlphaDomain(v, w) \subseteq Alpha
    BY OperandFacts DEF AlphaDomain, ToSet
  <1>2. ASSUME NEW l \in all
        PROVE  /\ l \in CanonicalLevel /\ l.alpha \in AlphaDomain(v, w)
               /\ l \in ThresholdLevels(o, v, w, l.alpha)
               /\ SridOf(l.geometry) = CommonSrid(v, w)
    <2>1. PICK t \in AlphaDomain(v, w) : l \in ThresholdLevels(o, v, w, t)
      BY DEF GatheredLevels
    <2> QED
      BY <1>1, <2>1, ThresholdLevelType
  <1>3. all \in SUBSET Level
    BY <1>2 DEF CanonicalLevel, Level, Extent
  <1> HIDE DEF all
  <1>4. \A l, h \in all : l.alpha = h.alpha => l = h
    BY <1>2, AtMostOneLevel
  <1>5. IsFiniteSet(all)
    <2>1. alphaOf \in [all -> 1..One]
      BY <1>3, AlphaOfLevel
    <2>2. alphaOf \in Injection(all, 1..One)
      BY <1>4, <2>1 DEF Injection, IsInjective
    <2>3. IsFiniteSet(1..One)
      <3>1. 1 \in Int /\ One \in Int
        BY AlphaAssumption
      <3> QED
        BY <3>1, FS_Interval
    <2> QED
      BY <2>2, <2>3, FS_Injection
  <1>6. s \in Seq(Level) /\ ToSet(s) = all /\ StrictlyDescending(s)
    BY <1>3, <1>4, <1>5, HighestFirstSorts
  <1> HIDE DEF s
  <1>7. s \in Seq(CanonicalLevel)
    <2>1. \A k \in DOMAIN s : s[k] \in CanonicalLevel
      BY <1>2, <1>6 DEF ToSet
    <2> QED
      BY <1>6, <2>1
  <1> QED
    BY <1>2, <1>6, <1>7 DEF s, all

\* What an operation answers with is a canonical value.
LEMMA SetOutcomeIsOperand ==
    ASSUME NEW v \in Operand, NEW w \in Operand, NEW o \in Operations,
           SetOperationOutcome(o, v, w).kind = "Ok"
    PROVE  SetOperationOutcome(o, v, w).value \in Operand
  <1> DEFINE s == HighestFirst(GatheredLevels(o, v, w))
  <1>1. SetOperationOutcome(o, v, w) =
            IF ~CompatibleSrid(v, w) THEN Rejected("MixedOperandSrid", <<>>)
            ELSE IF s = <<>> THEN EmptyResult(v, w) ELSE CanonicalOutcome(s)
    BY DEF SetOperationOutcome, GatheredLevels
  <1>2. CompatibleSrid(v, w)
    BY <1>1 DEF Rejected
  <1>3. s \in Seq(Level)
    BY <1>2, GatheredSort
  <1> HIDE DEF s
  <1>4. CASE s = <<>>
    <2>1. SetOperationOutcome(o, v, w).value = EmptyValue(CommonSrid(v, w))
      BY <1>1, <1>2, <1>4 DEF EmptyResult, Accepted
    <2>2. CommonSrid(v, w) \in Srid \cup {NoSrid}
      BY DEF Operand, FuzzyValue, CommonSrid
    <2> QED
      BY <2>1, <2>2, EmptyIsCanonicalValue DEF Operand
  <1>5. CASE s # <<>>
    BY <1>1, <1>2, <1>3, <1>5, AcceptedIsOperand
  <1> QED
    BY <1>4, <1>5
=============================================================================
