----------------------------- MODULE QueriesProofs -----------------------------
(***************************************************************************)
(* Theorems about the functions that only read, for every geometry engine, *)
(* set of alphas, table and sequence of statements.  Half of them read the *)
(* stored payload and half the canonicalized value; as every row is a      *)
(* canonical value (TableInv), which reading returns with its levels, each *)
(* property is one about the cuts, memberships and levels of an operand.   *)
(***************************************************************************)
EXTENDS Queries, ExtensionProofs

-----------------------------------------------------------------------------
\* Thresholds.

\* Exactly the numbers from 0 to 1 are thresholds.
LEMMA ThresholdIs ==
    ASSUME NEW x \in QueryThresholds
    PROVE  /\ ThresholdError(x) = "None" <=> FloatLeq(0, x) /\ FloatLeq(x, One)
           /\ ThresholdError(x) = "None" =>
                  /\ Value(x) \in 0..One
                  /\ ThresholdOf(x) = Accepted(x)
           /\ ThresholdError(x) # "None" => ThresholdOf(x) = Rejected("InvalidThreshold", <<>>)
  <1>1. x \in Int /\ One \in Int /\ Infinity \in Int /\ 0 < One /\ One < Infinity
    BY QueryArgumentsAssumption, FloatRangeAssumption DEF F64
  <1>2. Value(x) \in Int /\ Value(0) = 0 /\ Value(One) = One
    BY <1>1 DEF Value
  <1>3. FloatLeq(0, x) /\ FloatLeq(x, One) => IsFinite(x) /\ 0 <= Value(x) /\ Value(x) <= One
    BY <1>1, <1>2 DEF FloatLeq, IsNan, IsFinite
  <1> QED
    BY <1>1, <1>2, <1>3 DEF ThresholdError, ThresholdOf

\* A threshold cuts where its number does: -0.0 where 0.0.
LEMMA CutIsByNumber ==
    ASSUME NEW v \in Operand, NEW x \in QueryThresholds, ThresholdError(x) = "None"
    PROVE  AlphaCut(v, x) = AlphaCut(v, Value(x))
  <1> DEFINE t == Value(x)
             n == Len(v.levels)
             asGiven == {i \in 1..n : FloatLeq(x, v.levels[i].alpha)}
             byNumber == {i \in 1..n : FloatLeq(t, v.levels[i].alpha)}
  <1>1. t \in 0..One /\ x \in Int /\ One \in Nat /\ Infinity \in Nat /\ One < Infinity
    BY ThresholdIs, QueryArgumentsAssumption, FloatRangeAssumption DEF F64
  <1>2. Value(t) = Value(x)
    BY <1>1 DEF Value
  <1> HIDE DEF t
  <1>3. \A a : FloatLeq(x, a) <=> FloatLeq(t, a)
    BY <1>2 DEF FloatLeq, IsNan
  <1>4. IsZero(x) <=> IsZero(t)
    BY <1>2 DEF IsZero, FloatEq, IsNan
  <1>5. asGiven = byNumber
    BY <1>3
  <1>6. /\ AlphaCut(v, x) = IF IsZero(x) THEN n ELSE IF asGiven # {} THEN Max(asGiven) ELSE 0
        /\ AlphaCut(v, t) = IF IsZero(t) THEN n ELSE IF byNumber # {} THEN Max(byNumber) ELSE 0
    BY Zenon DEF AlphaCut, SupportIndex, SelectLastInSeq
  <1> HIDE DEF asGiven, byNumber
  <1> QED
    BY <1>4, <1>5, <1>6 DEF t

-----------------------------------------------------------------------------
\* What the functions answer for a canonical value.

\* The geometry of a level or of none, as it is returned.
LEMMA ProjectionIs ==
    ASSUME NEW v \in Operand
    PROVE  /\ Projection(v, 0) = {EmptyMultipolygon(v.srid)}
           /\ \A k \in DOMAIN v.levels : Projection(v, k) = {v.levels[k].geometry}
  <1>1. {v.levels[k].geometry : k \in {0} \ {0}} = {}
    OBVIOUS
  <1>2. ASSUME NEW k \in DOMAIN v.levels
        PROVE  {v.levels[j].geometry : j \in {k} \ {0}} = {v.levels[k].geometry}
    <2>1. k # 0
      BY OperandFacts
    <2> QED
      BY <2>1
  <1> QED
    BY <1>1, <1>2 DEF Projection, OrEmpty

LEMMA CutsAre ==
    ASSUME NEW v \in Operand, NEW t
    PROVE  /\ AlphaCutEwkb(v, t) = AlphaCut(v, t)
           /\ AlphaCutEwkb(v, t) = AlphaCut(Read(v), t)
           /\ SupportEwkb(v) = SupportIndex(Read(v))
  <1>1. Read(v).levels = v.levels
    BY ReadIsOperand
  <1> QED
    BY <1>1, Zenon DEF AlphaCutEwkb, AlphaCut, SupportEwkb, SupportIndex

LEMMA CutIs ==
    ASSUME NEW v \in Operand, NEW x \in QueryThresholds
    PROVE  IF ThresholdError(x) = "None"
           THEN LET i == AlphaCut(v, Value(x))
                IN /\ i \in {0} \cup DOMAIN v.levels
                   /\ Cut(v, x) = Accepted(Projection(v, i))
                   /\ AreaAt(v, x) = Accepted(IF i = 0 THEN 0 ELSE Area(v.levels[i].geometry))
           ELSE Cut(v, x).kind # "Ok" /\ AreaAt(v, x) = Cut(v, x)
  <1>1. CASE ThresholdError(x) = "None"
    <2> DEFINE i == AlphaCut(v, Value(x))
    <2>1. ThresholdOf(x) = Accepted(x)
      BY <1>1, ThresholdIs
    <2>2. /\ AlphaCutEwkb(v, x) = i
          /\ AlphaCut(Read(v), x) = i
          /\ Read(v).levels = v.levels
      BY <1>1, CutsAre, CutIsByNumber, ReadIsOperand
    <2>3. i \in {0} \cup DOMAIN v.levels
      BY CutSelectsLevel, OperandIsValue
    <2>4. ToDomain(v) = Accepted(Read(v))
      BY StoredIsRead
    <2> HIDE DEF i
    <2>5. Cut(v, x) = Accepted(Projection(v, i))
      BY <2>1, <2>2 DEF Cut, AndThen, Accepted
    <2>6. AreaAt(v, x) = Accepted(IF i = 0 THEN 0 ELSE Area(v.levels[i].geometry))
      BY <2>1, <2>2, <2>4 DEF AreaAt, AndThen, Accepted
    <2> QED
      BY <1>1, <2>3, <2>5, <2>6 DEF i
  <1>2. CASE ThresholdError(x) # "None"
    <2>1. ThresholdOf(x) = Rejected("InvalidThreshold", <<>>)
      BY <1>2, ThresholdIs
    <2> QED
      BY <1>2, <2>1 DEF Cut, AreaAt, AndThen, Rejected
  <1> QED
    BY <1>1, <1>2

LEMMA BboxIs ==
    ASSUME NEW v \in Operand
    PROVE  /\ Bbox(v).kind = "Ok"
           /\ v.levels = <<>> => Bbox(v).value = {EmptyMultipolygon(v.srid)}
           /\ v.levels # <<>> => Bbox(v).value = {BoundingBox(v.levels[Len(v.levels)].geometry)}
  <1> DEFINE n == Len(v.levels)
             boxes == {BoundingBox(v.levels[k].geometry) : k \in {n} \ {0}}
  <1>1. ToDomain(v) = Accepted(Read(v)) /\ Read(v).levels = v.levels
    BY StoredIsRead, ReadIsOperand
  <1>2. Bbox(v) = Accepted(OrEmpty(boxes, v.srid))
    <2> DEFINE w == Read(v)
    <2>1. SupportIndex(w) = n
      BY <1>1 DEF SupportIndex
    <2>2. w.levels = v.levels /\ ToDomain(v) = Accepted(w)
      BY <1>1
    <2> HIDE DEF w
    <2>3. Bbox(v) = Accepted(OrEmpty({BoundingBox(w.levels[k].geometry) :
                                         k \in {SupportIndex(w)} \ {0}}, v.srid))
      <3> DEFINE r == ToDomain(v)
      <3>1. Bbox(v) = IF r.kind = "Ok"
                      THEN Accepted(OrEmpty({BoundingBox(r.value.levels[k].geometry) :
                                                k \in {SupportIndex(r.value)} \ {0}}, v.srid))
                      ELSE r
        BY Zenon DEF Bbox, AndThen
      <3>2. r.kind = "Ok" /\ r.value = w
        BY <2>2 DEF Accepted
      <3> HIDE DEF r
      <3> QED
        BY <3>1, <3>2
    <2> QED
      BY <2>1, <2>2, <2>3
  <1>3. n \in Nat /\ (n = 0 <=> v.levels = <<>>)
    BY OperandFacts
  <1>4. CASE n = 0
    BY <1>2, <1>3, <1>4 DEF OrEmpty, Accepted
  <1>5. CASE n # 0
    <2>1. boxes = {BoundingBox(v.levels[n].geometry)}
      BY <1>5
    <2> QED
      BY <1>2, <1>3, <1>5, <2>1 DEF OrEmpty, Accepted
  <1> QED
    BY <1>4, <1>5

\* The core is the level of alpha 1, if there is one.
LEMMA CoreIs ==
    ASSUME NEW v \in Operand
    PROVE  /\ CoreEwkb(v) \in {0} \cup DOMAIN v.levels
           /\ CoreEwkb(v) # 0 => v.levels[CoreEwkb(v)].alpha = One
           /\ CoreEwkb(v) = 0 => \A k \in DOMAIN v.levels : v.levels[k].alpha # One
  <1> DEFINE I == {i \in 1..Len(v.levels) : v.levels[i].alpha = One}
  <1>1. CoreEwkb(v) = IF I # {} THEN Min(I) ELSE 0
    BY Zenon DEF CoreEwkb, SelectInSeq
  <1>2. DOMAIN v.levels = 1..Len(v.levels) /\ I \in SUBSET Nat
    BY OperandFacts
  <1>3. I # {} => Min(I) \in I
    BY <1>2, MinIsLeast
  <1>4. CASE I = {}
    BY <1>1, <1>2, <1>4
  <1>5. CASE I # {}
    <2>1. CoreEwkb(v) \in I
      BY <1>1, <1>3, <1>5
    <2> HIDE DEF I
    <2>2. CoreEwkb(v) # 0
      BY <1>2, <2>1 DEF I
    <2> QED
      BY <1>2, <2>1, <2>2 DEF I
  <1> QED
    BY <1>4, <1>5

LEMMA EmptyIs ==
    ASSUME NEW v \in Operand
    PROVE  LET empty == EmptyMultipolygon(v.srid)
           IN /\ IsEmpty(empty) /\ Area(empty) = 0
              /\ SridOf(empty) = IF v.srid = NoSrid THEN UnknownSrid ELSE v.srid
  <1>1. v.srid \in Srid \cup {NoSrid}
    BY DEF Operand, FuzzyValue
  <1> QED
    BY <1>1, EmptyMultipolygonAssumption

-----------------------------------------------------------------------------
\* Cuts and memberships.

\* A place is in what a projection returns when the level covers it.
LEMMA InProjectionIs ==
    ASSUME NEW v \in Operand, NEW k \in {0} \cup DOMAIN v.levels, NEW p
    PROVE  InProjection(Projection(v, k), p)
               <=> k # 0 /\ CoversPlace(v.levels[k].geometry, p)
  <1>1. CASE k = 0
    BY <1>1, ProjectionIs, EmptyIs DEF InProjection
  <1>2. CASE k # 0
    <2>1. k \in DOMAIN v.levels
      BY <1>2
    <2>2. Projection(v, k) = {v.levels[k].geometry} /\ ~IsEmpty(v.levels[k].geometry)
      BY <2>1, ProjectionIs, OperandLevel DEF Extent
    <2> QED
      BY <1>2, <2>2 DEF InProjection
  <1> QED
    BY <1>1, <1>2

LEMMA MembershipAnswer ==
    ASSUME NEW v \in Operand, NEW point \in Points, point.valid
    PROVE  IF v.srid \notin {NoSrid, point.srid}
           THEN MembershipAtPoint(v, point).kind = "PointSridMismatch"
           ELSE MembershipAtPoint(v, point) = Accepted(MembershipAt(v, point.place))
  <1> DEFINE r == ToDomain(v)
  <1>1. MembershipAtPoint(v, point) =
            IF v.srid \notin {NoSrid, point.srid} THEN Rejected("PointSridMismatch", <<>>)
            ELSE IF r.kind = "Ok" THEN Accepted(MembershipAt(r.value, point.place)) ELSE r
    BY Zenon DEF MembershipAtPoint, AndThen
  <1>2. r.kind = "Ok" /\ r.value = Read(v) /\ Read(v).levels = v.levels
    BY StoredIsRead, ReadIsOperand DEF Accepted
  <1>3. MembershipAt(Read(v), point.place) = MembershipAt(v, point.place)
    BY <1>2, Zenon DEF MembershipAt
  <1> HIDE DEF r
  <1>4. r.kind = "Ok" => MembershipAt(r.value, point.place) = MembershipAt(v, point.place)
    BY <1>2, <1>3
  <1>5. Rejected("PointSridMismatch", <<>>).kind = "PointSridMismatch"
    BY DEF Rejected
  <1> QED
    BY <1>1, <1>2, <1>4, <1>5

\* The support, the core and the cuts of an operand cover a place as its membership
\* there says.
LEMMA CutsFollowMembership ==
    ASSUME NEW v \in Operand, NEW p \in Place
    PROVE  LET mu == MembershipAt(v, p)
           IN /\ InProjection(Support(v), p) <=> mu > 0
              /\ InProjection(Core(v), p) <=> mu = One
              /\ \A x \in {y \in QueryThresholds : ThresholdError(y) = "None"} :
                     InProjection(Cut(v, x).value, p) <=> mu > 0 /\ mu >= Value(x)
  <1> DEFINE mu == MembershipAt(v, p)
             n == Len(v.levels)
  <1>1. /\ mu \in 0..One /\ One \in Nat /\ 0 < One
        /\ mu # 0 => \E k \in DOMAIN v.levels : v.levels[k].alpha = mu
        /\ \A k \in DOMAIN v.levels : CoversPlace(v.levels[k].geometry, p)
                                          <=> v.levels[k].alpha <= mu
    BY MembershipIsAlpha, LevelCovers, FloatRangeAssumption
  <1>2. \A k \in DOMAIN v.levels : v.levels[k].alpha \in 1..One
    BY OperandFacts
  <1>3. InProjection(Support(v), p) <=> mu > 0
    <2>1. 0 \in 0..One /\ IsZero(0)
      BY <1>1, AlphasCompare
    <2>2. StrictAlphaCut(v, 0) = n
      BY <2>1, Zenon DEF StrictAlphaCut, SupportIndex
    <2>3. mu > 0 <=> n # 0 /\ CoversPlace(v.levels[n].geometry, p)
      BY <2>1, <2>2, CutCovers
    <2>4. n \in {0} \cup DOMAIN v.levels
      BY OperandFacts
    <2>5. Support(v) = Projection(v, n)
      BY DEF Support, SupportEwkb
    <2> HIDE DEF mu, n
    <2> QED
      BY <2>3, <2>4, <2>5, InProjectionIs
  <1>4. InProjection(Core(v), p) <=> mu = One
    <2> DEFINE c == CoreEwkb(v)
    <2>1. /\ c \in {0} \cup DOMAIN v.levels
          /\ c # 0 => v.levels[c].alpha = One
          /\ c = 0 => \A k \in DOMAIN v.levels : v.levels[k].alpha # One
      BY CoreIs
    <2>2. InProjection(Core(v), p) <=> c # 0 /\ CoversPlace(v.levels[c].geometry, p)
      BY <2>1, InProjectionIs DEF Core
    <2> HIDE DEF c, mu
    <2>3. ASSUME c # 0
          PROVE  CoversPlace(v.levels[c].geometry, p) <=> mu = One
      <3>1. c \in DOMAIN v.levels /\ v.levels[c].alpha = One
        BY <2>1, <2>3
      <3> QED
        BY <1>1, <3>1
    <2>4. ASSUME c = 0, mu = One
          PROVE  FALSE
      BY <1>1, <2>1, <2>4
    <2> QED
      BY <2>2, <2>3, <2>4
  <1>5. ASSUME NEW x \in QueryThresholds, ThresholdError(x) = "None"
        PROVE  InProjection(Cut(v, x).value, p) <=> mu > 0 /\ mu >= Value(x)
    <2> DEFINE t == Value(x)
               i == AlphaCut(v, t)
    <2>1. t \in 0..One
      BY <1>5, ThresholdIs
    <2>2. i \in {0} \cup DOMAIN v.levels /\ Cut(v, x).value = Projection(v, i)
      BY <1>5, CutIs DEF Accepted
    <2>3. InProjection(Cut(v, x).value, p) <=> i # 0 /\ CoversPlace(v.levels[i].geometry, p)
      BY <2>2, InProjectionIs
    <2>4. CASE t = 0
      <3>1. i = n
        <4>1. IsZero(t)
          BY <2>1, <2>4, AlphasCompare
        <4> QED
          BY <4>1, Zenon DEF AlphaCut, SupportIndex
      <3>2. InProjection(Support(v), p) <=> n # 0 /\ CoversPlace(v.levels[n].geometry, p)
        BY <2>2, <3>1, InProjectionIs DEF Support, SupportEwkb
      <3> HIDE DEF i, mu, n, t
      <3> QED
        BY <1>1, <1>3, <2>3, <2>4, <3>1, <3>2 DEF t
    <2>5. CASE t # 0
      <3>1. mu >= t <=> i # 0 /\ CoversPlace(v.levels[i].geometry, p)
        BY <2>1, <2>5, CutCovers
      <3> HIDE DEF i, mu, t
      <3> QED
        BY <1>1, <2>1, <2>3, <2>5, <3>1 DEF t
    <2> QED
      BY <2>4, <2>5
  <1> QED
    BY <1>3, <1>4, <1>5

-----------------------------------------------------------------------------
\* Areas and boxes.

\* The cut at a lower threshold is at no higher a level.
LEMMA CutsFall ==
    ASSUME NEW v \in Operand, NEW t \in 0..One, NEW u \in 0..One, t <= u
    PROVE  AlphaCut(v, u) <= AlphaCut(v, t)
  <1> DEFINE i == AlphaCut(v, u)
             j == AlphaCut(v, t)
             n == Len(v.levels)
  <1>1. /\ i \in 0..n /\ j \in 0..n /\ n \in Nat
        /\ \A k \in 1..n : v.levels[k].alpha >= u <=> k <= i
        /\ \A k \in 1..n : v.levels[k].alpha >= t <=> k <= j
        /\ \A k \in 1..n : v.levels[k].alpha \in Int
    BY CutSplits, OperandFacts
  <1>2. t \in Int /\ u \in Int
    BY AlphaAssumption
  <1> SUFFICES i <= j
    OBVIOUS
  <1> HIDE DEF i, j, n
  <1>3. CASE i = 0
    BY <1>1, <1>3
  <1>4. CASE i # 0
    <2>1. i \in 1..n /\ v.levels[i].alpha >= u
      BY <1>1, <1>4
    <2>2. v.levels[i].alpha >= t
      BY <1>1, <1>2, <2>1
    <2> QED
      BY <1>1, <2>1, <2>2
  <1> QED
    BY <1>3, <1>4

\* A level contains the levels above it and itself.
LEMMA LowerContains ==
    ASSUME NEW v \in Operand, NEW i \in DOMAIN v.levels, NEW j \in DOMAIN v.levels, i <= j
    PROVE  /\ v.levels[i].geometry \in Extent /\ v.levels[j].geometry \in Extent
           /\ SameSrid(v.levels[j].geometry, v.levels[i].geometry)
           /\ Covers(v.levels[j].geometry, v.levels[i].geometry)
  <1>1. /\ v.levels[i].geometry \in Extent /\ v.levels[j].geometry \in Extent
        /\ SameSrid(v.levels[j].geometry, v.levels[i].geometry)
    BY OperandLevel DEF SameSrid
  <1>2. i = j \/ i < j
    BY OperandFacts
  <1>3. StrictlyNested(v.levels)
    BY DEF Operand, Canonical
  <1>4. Covers(v.levels[j].geometry, v.levels[i].geometry)
    BY <1>1, <1>2, <1>3, ExtentCoversItself DEF StrictlyNested
  <1> QED
    BY <1>1, <1>4

\* The area of a cut is the one of the geometry it returns, and falls.
LEMMA AreasFall ==
    ASSUME NEW v \in Operand, NEW x \in QueryThresholds, NEW y \in QueryThresholds,
           ThresholdError(x) = "None", ThresholdError(y) = "None", FloatLeq(x, y)
    PROVE  AreaAt(v, y).value <= AreaAt(v, x).value
  <1> DEFINE i == AlphaCut(v, Value(x))
             j == AlphaCut(v, Value(y))
  <1>1. /\ i \in {0} \cup DOMAIN v.levels /\ j \in {0} \cup DOMAIN v.levels
        /\ AreaAt(v, x).value = IF i = 0 THEN 0 ELSE Area(v.levels[i].geometry)
        /\ AreaAt(v, y).value = IF j = 0 THEN 0 ELSE Area(v.levels[j].geometry)
    BY CutIs DEF Accepted
  <1>2. j <= i
    <2>1. Value(x) <= Value(y)
      BY DEF FloatLeq
    <2>2. Value(x) \in 0..One /\ Value(y) \in 0..One
      BY ThresholdIs
    <2> QED
      BY <2>1, <2>2, CutsFall
  <1> HIDE DEF i, j
  <1>3. DOMAIN v.levels \subseteq Nat \ {0}
    BY OperandFacts
  <1>4. \A k \in DOMAIN v.levels : Area(v.levels[k].geometry) \in Nat
    BY OperandLevel, MeasureAssumption
  <1>5. CASE j = 0
    BY <1>1, <1>4, <1>5
  <1>6. CASE j # 0
    <2>1. i \in DOMAIN v.levels /\ j \in DOMAIN v.levels
      BY <1>1, <1>2, <1>3, <1>6
    <2>2. Area(v.levels[j].geometry) <= Area(v.levels[i].geometry)
      BY <1>2, <2>1, LowerContains, MeasureAssumption
    <2>3. i # 0
      BY <1>3, <2>1
    <2> QED
      BY <1>1, <1>6, <2>2, <2>3
  <1> QED
    BY <1>5, <1>6

\* The box of the support covers every level.
LEMMA BoxCovers ==
    ASSUME NEW v \in Operand, NEW k \in DOMAIN v.levels, NEW h \in Bbox(v).value
    PROVE  Covers(h, v.levels[k].geometry)
  <1> DEFINE n == Len(v.levels)
  <1>1. n \in DOMAIN v.levels /\ k <= n /\ v.levels # <<>>
    BY OperandFacts
  <1>2. h = BoundingBox(v.levels[n].geometry)
    BY <1>1, BboxIs
  <1> QED
    BY <1>1, <1>2, LowerContains, MeasureAssumption

\* What MeasuresOfCuts says of a row.
LEMMA Measures ==
    ASSUME NEW v \in Operand, NEW x \in QueryThresholds
    PROVE  LET cut == Cut(v, x)
               area == AreaAt(v, x)
           IN /\ area.kind = cut.kind
              /\ cut.kind = "Ok" =>
                     \A g \in cut.value :
                         /\ area.value = Area(g)
                         /\ \A h \in Bbox(v).value : IsEmpty(g) \/ Covers(h, g)
                         /\ \A y \in QueryThresholds :
                                AreaAt(v, y).kind = "Ok" /\ FloatLeq(x, y) =>
                                    AreaAt(v, y).value <= area.value
  <1>1. CASE ThresholdError(x) = "None"
    <2> DEFINE i == AlphaCut(v, Value(x))
    <2>1. /\ i \in {0} \cup DOMAIN v.levels
          /\ Cut(v, x) = Accepted(Projection(v, i))
          /\ AreaAt(v, x) = Accepted(IF i = 0 THEN 0 ELSE Area(v.levels[i].geometry))
      BY <1>1, CutIs
    <2> HIDE DEF i
    <2>2. AreaAt(v, x).kind = Cut(v, x).kind
      BY <2>1 DEF Accepted
    <2>3. ASSUME NEW g \in Cut(v, x).value
          PROVE  /\ AreaAt(v, x).value = Area(g)
                 /\ \A h \in Bbox(v).value : IsEmpty(g) \/ Covers(h, g)
      <3>1. g \in Projection(v, i)
        BY <2>1, <2>3 DEF Accepted
      <3>2. AreaAt(v, x).value = IF i = 0 THEN 0 ELSE Area(v.levels[i].geometry)
        BY <2>1 DEF Accepted
      <3>3. CASE i = 0
        <4>1. g = EmptyMultipolygon(v.srid)
          BY <3>1, <3>3, ProjectionIs
        <4> QED
          BY <3>2, <3>3, <4>1, EmptyIs
      <3>4. CASE i # 0
        <4>1. i \in DOMAIN v.levels /\ g = v.levels[i].geometry
          BY <2>1, <3>1, <3>4, ProjectionIs
        <4> QED
          BY <3>2, <3>4, <4>1, BoxCovers
      <3> QED
        BY <3>3, <3>4
    <2>4. ASSUME NEW y \in QueryThresholds, AreaAt(v, y).kind = "Ok", FloatLeq(x, y)
          PROVE  AreaAt(v, y).value <= AreaAt(v, x).value
      <3>1. ThresholdError(y) = "None"
        BY <2>4, CutIs
      <3> QED
        BY <1>1, <2>4, <3>1, AreasFall
    <2> QED
      BY <2>2, <2>3, <2>4
  <1>2. CASE ThresholdError(x) # "None"
    BY <1>2, CutIs
  <1> QED
    BY <1>1, <1>2

-----------------------------------------------------------------------------
\* Where the cuts change.

\* The levels that reach a threshold are those up to its cut.
LEMMA ReachingIs ==
    ASSUME NEW v \in Operand, NEW x \in QueryThresholds, ThresholdError(x) = "None"
    PROVE  {k \in DOMAIN v.levels : FloatLeq(x, v.levels[k].alpha)} = 1..AlphaCut(v, Value(x))
  <1> DEFINE t == Value(x)
             i == AlphaCut(v, t)
  <1>1. t \in 0..One
    BY ThresholdIs
  <1>2. /\ i \in 0..Len(v.levels)
        /\ \A k \in DOMAIN v.levels : v.levels[k].alpha >= t <=> k <= i
    BY <1>1, CutSplits
  <1>3. /\ DOMAIN v.levels = 1..Len(v.levels) /\ Len(v.levels) \in Nat
        /\ \A k \in DOMAIN v.levels : v.levels[k].alpha \in 0..One
    BY OperandFacts, AlphaAssumption
  <1>4. Value(t) = Value(x)
    BY <1>1 DEF Value
  <1> HIDE DEF i, t
  <1>5. \A a : FloatLeq(x, a) <=> FloatLeq(t, a)
    BY <1>4 DEF FloatLeq, IsNan
  <1>6. \A k \in DOMAIN v.levels : FloatLeq(x, v.levels[k].alpha) <=> k <= i
    BY <1>1, <1>2, <1>3, <1>5, AlphasCompare
  <1>7. {k \in DOMAIN v.levels : FloatLeq(x, v.levels[k].alpha)} = 1..i
    BY <1>2, <1>3, <1>6
  <1> QED
    BY <1>7 DEF i, t

\* Two levels, or a level and none, are returned as two geometries.
LEMMA ProjectionsDiffer ==
    ASSUME NEW v \in Operand, NEW i \in {0} \cup DOMAIN v.levels,
           NEW j \in {0} \cup DOMAIN v.levels, i < j
    PROVE  Projection(v, i) # Projection(v, j)
  <1>1. DOMAIN v.levels \subseteq Nat \ {0}
    BY OperandFacts
  <1>2. j \in DOMAIN v.levels /\ Projection(v, j) = {v.levels[j].geometry}
    BY <1>1, ProjectionIs
  <1>3. v.levels[j].geometry \in Extent
    BY <1>2, OperandLevel
  <1>4. CASE i = 0
    <2>1. IsEmpty(EmptyMultipolygon(v.srid)) /\ ~IsEmpty(v.levels[j].geometry)
      BY <1>3, EmptyIs DEF Extent
    <2>2. Projection(v, i) = {EmptyMultipolygon(v.srid)}
      BY <1>4, ProjectionIs
    <2> QED
      BY <1>2, <2>1, <2>2
  <1>5. CASE i # 0
    <2>1. i \in DOMAIN v.levels /\ Projection(v, i) = {v.levels[i].geometry}
      BY <1>5, ProjectionIs
    <2>2. ~TopoEquals(v.levels[j].geometry, v.levels[i].geometry)
      BY <1>2, <2>1 DEF Operand, Canonical, StrictlyNested
    <2>3. TopoEquals(v.levels[j].geometry, v.levels[j].geometry)
      BY <1>3, ExtentCoversItself
    <2> QED
      BY <1>2, <2>1, <2>2, <2>3
  <1> QED
    BY <1>4, <1>5

\* What CutsChangeAtAlphas says of a row.
LEMMA CutsDiffer ==
    ASSUME NEW v \in Operand
    PROVE  LET Reaching(t) == {k \in DOMAIN v.levels : FloatLeq(t, v.levels[k].alpha)}
           IN \A x, y \in {q \in QueryThresholds : ThresholdError(q) = "None"} :
                  /\ Reaching(x) = Reaching(y) <=> Cut(v, x) = Cut(v, y)
                  /\ Reaching(x) = Reaching(y) => AreaAt(v, x) = AreaAt(v, y)
  <1> DEFINE Reaching(t) == {k \in DOMAIN v.levels : FloatLeq(t, v.levels[k].alpha)}
  <1> SUFFICES ASSUME NEW x \in QueryThresholds, ThresholdError(x) = "None",
                      NEW y \in QueryThresholds, ThresholdError(y) = "None"
               PROVE  /\ Reaching(x) = Reaching(y) <=> Cut(v, x) = Cut(v, y)
                      /\ Reaching(x) = Reaching(y) => AreaAt(v, x) = AreaAt(v, y)
    OBVIOUS
  <1> DEFINE i == AlphaCut(v, Value(x))
             j == AlphaCut(v, Value(y))
  <1>1. Reaching(x) = 1..i /\ Reaching(y) = 1..j
    BY ReachingIs
  <1>2. /\ i \in {0} \cup DOMAIN v.levels /\ j \in {0} \cup DOMAIN v.levels
        /\ Cut(v, x) = Accepted(Projection(v, i)) /\ Cut(v, y) = Accepted(Projection(v, j))
        /\ i = j => AreaAt(v, x) = AreaAt(v, y)
    BY CutIs
  <1>3. DOMAIN v.levels \subseteq Nat \ {0}
    BY OperandFacts
  <1> HIDE DEF i, j, Reaching
  <1>4. i \in Nat /\ j \in Nat
    BY <1>2, <1>3
  <1>5. Reaching(x) = Reaching(y) <=> i = j
    BY <1>1, <1>4
  <1>6. Cut(v, x) = Cut(v, y) => i = j
    <2> SUFFICES ASSUME Cut(v, x) = Cut(v, y)
                 PROVE  i = j
      OBVIOUS
    <2>1. Accepted(Projection(v, i)) = Accepted(Projection(v, j))
      BY <1>2
    <2>2. Projection(v, i) = Projection(v, j)
      BY <2>1 DEF Accepted
    <2>3. ~(i < j) /\ ~(j < i)
      BY <1>2, <2>2, ProjectionsDiffer
    <2> QED
      BY <1>4, <2>3
  <1> QED
    BY <1>2, <1>5, <1>6 DEF Reaching

-----------------------------------------------------------------------------
\* SRIDs and descriptions.

\* Whatever is taken out of a value has the value's SRID.
LEMMA ProjectionSrid ==
    ASSUME NEW v \in Operand, NEW k \in {0} \cup DOMAIN v.levels, NEW g \in Projection(v, k)
    PROVE  SridOf(g) = IF v.srid = NoSrid THEN UnknownSrid ELSE v.srid
  <1>1. CASE k = 0
    BY <1>1, ProjectionIs, EmptyIs
  <1>2. CASE k # 0
    <2>1. k \in DOMAIN v.levels
      BY <1>2
    <2>2. g = v.levels[k].geometry
      BY <2>1, ProjectionIs
    <2> QED
      BY <2>1, <2>2, OperandLevel
  <1> QED
    BY <1>1, <1>2

LEMMA BoxSrid ==
    ASSUME NEW v \in Operand, NEW g \in Bbox(v).value
    PROVE  SridOf(g) = IF v.srid = NoSrid THEN UnknownSrid ELSE v.srid
  <1>1. CASE v.levels = <<>>
    BY <1>1, BboxIs, EmptyIs
  <1>2. CASE v.levels # <<>>
    <2> DEFINE n == Len(v.levels)
    <2>1. n \in DOMAIN v.levels
      BY <1>2, OperandFacts
    <2>2. g = BoundingBox(v.levels[n].geometry)
      BY <1>2, BboxIs
    <2> HIDE DEF n
    <2>3. v.levels[n].geometry \in Extent /\ SridOf(v.levels[n].geometry) = v.srid /\ v.srid # NoSrid
      BY <2>1, OperandLevel
    <2>4. SameSrid(g, v.levels[n].geometry)
      BY <2>2, <2>3, MeasureAssumption
    <2> QED
      BY <2>3, <2>4 DEF SameSrid
  <1> QED
    BY <1>1, <1>2

\* The levels of a value are no more than the alphas in use: each has its own.
LEMMA LevelsAreCounted ==
    ASSUME NEW v \in Operand
    PROVE  Len(v.levels) <= MaxI32
  <1> DEFINE n == Len(v.levels)
             alphaOf == [k \in 1..n |-> v.levels[k].alpha]
  <1>1. n \in Nat /\ \A k \in 1..n : v.levels[k].alpha \in Alpha /\ v.levels[k].alpha \in Int
    BY OperandFacts
  <1>2. ASSUME NEW i \in 1..n, NEW j \in 1..n, v.levels[i].alpha = v.levels[j].alpha
        PROVE  i = j
    <2>1. i < j \/ j < i \/ i = j
      OBVIOUS
    <2>2. i \in DOMAIN v.levels /\ j \in DOMAIN v.levels
      BY OperandFacts
    <2> QED
      BY <1>1, <1>2, <2>1, <2>2, OperandFacts DEF StrictlyDescending
  <1>3. alphaOf \in Injection(1..n, Alpha)
    BY <1>1, <1>2 DEF Injection, IsInjective
  <1>4. IsFiniteSet(Alpha) /\ Cardinality(1..n) <= Cardinality(Alpha)
    BY <1>3, LevelCountAssumption, FS_Injection
  <1>5. Cardinality(1..n) = n
    <2>1. 1 \in Int /\ n \in Int
      BY <1>1
    <2>2. Cardinality(1..n) = IF 1 > n THEN 0 ELSE n - 1 + 1
      BY <2>1, FS_Interval
    <2> QED
      BY <1>1, <2>2
  <1>6. Cardinality(Alpha) \in Nat
    BY LevelCountAssumption, FS_CardinalityType
  <1> QED
    BY <1>1, <1>4, <1>5, <1>6, LevelCountAssumption

\* What DescriptionsAgree says of a row.
LEMMA Descriptions ==
    ASSUME NEW v \in Operand
    PROVE  LET payload == LevelsJson(v)
               value == ToJsonb(v).value
           IN /\ ValidationErrors(v) = {}
              /\ ToJsonb(v).kind = "Ok"
              /\ NumLevels(v) = Accepted(value.num_levels)
              /\ payload.levels = value.levels
              /\ payload.is_empty = value.is_empty
              /\ value.max_alpha = MaxAlpha(v)
              /\ value.min_alpha = MinAlpha(v)
              /\ value.srid = IF payload.is_empty THEN NoSrid ELSE payload.srid
  <1> DEFINE w == Read(v)
             json == [srid |-> w.srid, is_empty |-> w.levels = <<>>,
                      num_levels |-> Len(w.levels), levels |-> w.levels,
                      min_alpha |-> MinAlpha(w), max_alpha |-> MaxAlpha(w)]
  <1>1. ToDomain(v) = Accepted(w) /\ w.levels = v.levels
    BY StoredIsRead, ReadIsOperand
  <1>2. w.srid = IF v.levels = <<>> THEN NoSrid ELSE v.srid
    BY DEF Read, EmptyValue
  <1> HIDE DEF w
  <1>3. ToJsonb(v) = Accepted(json)
    BY <1>1 DEF ToJsonb, AndThen, Accepted
  <1>4. ValidationErrors(v) = {}
    BY <1>1 DEF ValidationErrors, Accepted
  <1>5. NumLevels(v) = Accepted(Len(v.levels))
    <2>1. ~(Len(v.levels) > MaxI32)
      BY LevelsAreCounted, OperandFacts, LevelCountAssumption
    <2> QED
      BY <2>1, Zenon DEF NumLevels
  <1>6. MinAlpha(w) = MinAlpha(v) /\ MaxAlpha(w) = MaxAlpha(v)
    BY <1>1, Zenon DEF MinAlpha, MaxAlpha
  <1>7. ToJsonb(v).kind = "Ok" /\ ToJsonb(v).value = json
    BY <1>3 DEF Accepted
  <1>8. /\ json.num_levels = Len(v.levels)
        /\ json.levels = v.levels
        /\ json.is_empty = (v.levels = <<>>)
        /\ json.min_alpha = MinAlpha(v) /\ json.max_alpha = MaxAlpha(v)
        /\ json.srid = IF v.levels = <<>> THEN NoSrid ELSE v.srid
    BY <1>1, <1>2, <1>6
  <1> HIDE DEF json
  <1>9. /\ LevelsJson(v).levels = v.levels
        /\ LevelsJson(v).is_empty = (v.levels = <<>>)
        /\ LevelsJson(v).srid = v.srid
    BY DEF LevelsJson
  <1> QED
    BY <1>4, <1>5, <1>7, <1>8, <1>9

-----------------------------------------------------------------------------
\* The theorems.

\* alpha_cut, support and core cover exactly the places membership_at says: the
\* bytes that are stored and the value they are read as are one fuzzy set.
THEOREM CutsAgreeWithMembership == ExtSpec => []CutsMatchMembership
  <1>1. TableInv => CutsMatchMembership
    <2> SUFFICES ASSUME TableInv, NEW id \in Filled, NEW point \in {q \in Points : q.valid}
                 PROVE  LET mu == MembershipAtPoint(Stored(id), point)
                        IN IF Stored(id).srid \notin {NoSrid, point.srid}
                           THEN mu.kind = "PointSridMismatch"
                           ELSE /\ mu.kind = "Ok"
                                /\ InProjection(Support(Stored(id)), point.place) <=> mu.value > 0
                                /\ InProjection(Core(Stored(id)), point.place)
                                       <=> mu.value = One
                                /\ \A x \in {y \in QueryThresholds : ThresholdError(y) = "None"} :
                                       InProjection(Cut(Stored(id), x).value, point.place)
                                           <=> mu.value > 0 /\ mu.value >= Value(x)
      BY Zenon DEF CutsMatchMembership
    <2>1. Stored(id) \in Operand /\ point \in Points /\ point.valid /\ point.place \in Place
      BY StoredIsOperand, QueryArgumentsAssumption
    <2>2. CASE Stored(id).srid \notin {NoSrid, point.srid}
      BY <2>1, <2>2, MembershipAnswer
    <2>3. CASE Stored(id).srid \in {NoSrid, point.srid}
      <3> DEFINE mu == MembershipAtPoint(Stored(id), point)
      <3>1. mu.kind = "Ok" /\ mu.value = MembershipAt(Stored(id), point.place)
        BY <2>1, <2>3, MembershipAnswer DEF Accepted
      <3> HIDE DEF mu
      <3>2. /\ InProjection(Support(Stored(id)), point.place) <=> mu.value > 0
            /\ InProjection(Core(Stored(id)), point.place) <=> mu.value = One
            /\ \A x \in {y \in QueryThresholds : ThresholdError(y) = "None"} :
                   InProjection(Cut(Stored(id), x).value, point.place)
                       <=> mu.value > 0 /\ mu.value >= Value(x)
        BY <2>1, <3>1, CutsFollowMembership
      <3> QED
        BY <2>3, <3>1, <3>2 DEF mu
    <2> QED
      BY <2>2, <2>3
  <1> QED
    BY TableInvariant, <1>1, PTL

\* area_at measures what alpha_cut returns and falls with the threshold; bbox
\* covers every cut.
THEOREM MeasuresFollowCuts == ExtSpec => []MeasuresOfCuts
  <1>1. TableInv => MeasuresOfCuts
    <2>1. TableInv => \A id \in Filled : Stored(id) \in Operand
      BY StoredIsOperand
    <2> QED
      BY <2>1, Measures DEF MeasuresOfCuts
  <1> QED
    BY TableInvariant, <1>1, PTL

\* alpha_cut returns one geometry for two thresholds exactly when the same levels
\* reach them, whichever branch and whichever zero it was asked for; area_at follows.
THEOREM CutsChangeAtStoredAlphas == ExtSpec => []CutsChangeAtAlphas
  <1>1. TableInv => CutsChangeAtAlphas
    <2>1. TableInv => \A id \in Filled : Stored(id) \in Operand
      BY StoredIsOperand
    <2> QED
      BY <2>1, CutsDiffer DEF CutsChangeAtAlphas
  <1> QED
    BY TableInvariant, <1>1, PTL

\* Cuts, support, core and box have the SRID the row reports, the empty ones too.
THEOREM ProjectionsKeepSrid == ExtSpec => []ProjectionsCarrySrid
  <1>1. TableInv => ProjectionsCarrySrid
    <2> SUFFICES ASSUME TableInv, NEW id \in Filled
                 PROVE  LET srid == IF Stored(id).srid = NoSrid THEN UnknownSrid
                                    ELSE Stored(id).srid
                            cuts == UNION {Cut(Stored(id), x).value :
                                x \in {y \in QueryThresholds : ThresholdError(y) = "None"}}
                        IN \A g \in cuts \cup Support(Stored(id)) \cup Core(Stored(id))
                                         \cup Bbox(Stored(id)).value : SridOf(g) = srid
      BY Zenon DEF ProjectionsCarrySrid
    <2> DEFINE v == Stored(id)
               srid == IF v.srid = NoSrid THEN UnknownSrid ELSE v.srid
    <2>1. v \in Operand
      BY StoredIsOperand
    <2> HIDE DEF v
    <2>2. ASSUME NEW x \in QueryThresholds, ThresholdError(x) = "None",
                 NEW g \in Cut(v, x).value
          PROVE  SridOf(g) = srid
      <3> DEFINE i == AlphaCut(v, Value(x))
      <3>1. i \in {0} \cup DOMAIN v.levels /\ Cut(v, x) = Accepted(Projection(v, i))
        BY <2>1, <2>2, CutIs
      <3>2. g \in Projection(v, i)
        BY <2>2, <3>1 DEF Accepted
      <3> HIDE DEF i
      <3> QED
        BY <2>1, <3>1, <3>2, ProjectionSrid
    <2>3. \A g \in Support(v) \cup Core(v) : SridOf(g) = srid
      <3>1. Len(v.levels) \in {0} \cup DOMAIN v.levels
        BY <2>1, OperandFacts
      <3>2. CoreEwkb(v) \in {0} \cup DOMAIN v.levels
        BY <2>1, CoreIs
      <3> QED
        BY <2>1, <3>1, <3>2, ProjectionSrid DEF Support, SupportEwkb, Core
    <2>4. \A g \in Bbox(v).value : SridOf(g) = srid
      BY <2>1, BoxSrid
    <2> QED
      BY <2>2, <2>3, <2>4 DEF v
  <1> QED
    BY TableInvariant, <1>1, PTL

\* What is reported of the payload and what of the canonicalized value agrees.
THEOREM DescriptionsAlwaysAgree == ExtSpec => []DescriptionsAgree
  <1>1. TableInv => DescriptionsAgree
    <2>1. TableInv => \A id \in Filled : Stored(id) \in Operand
      BY StoredIsOperand
    <2> QED
      BY <2>1, Descriptions DEF DescriptionsAgree
  <1> QED
    BY TableInvariant, <1>1, PTL
=============================================================================
