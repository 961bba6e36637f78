----------------------------- MODULE ClosureProofs -----------------------------
(***************************************************************************)
(* What the docs of the set operations claim, for every engine with exact  *)
(* overlays and all canonical operands: the operations are closed, and the *)
(* membership in a result is the operation's function of the memberships   *)
(* in the operands.                                                        *)
(*                                                                         *)
(* The argument: a cut at t covers a place when the membership there is at *)
(* least t (CutCovers), so the level gathered at t covers the places where *)
(* the operation's function is at least t (ThresholdCovers).  A lower      *)
(* threshold therefore has the larger extent, which is nesting, and the    *)
(* highest level that covers a place has the function's value.  The same   *)
(* holds of the set functions on the rows of a table; since each level of  *)
(* a value is the highest one somewhere (LevelIsReached), two values with  *)
(* the same memberships have the same levels, which gives the laws.        *)
(***************************************************************************)
EXTENDS SetOperationProofs, ExactOverlays, ExtensionProofs

-----------------------------------------------------------------------------
\* What one threshold contributes.

\* The operation's function of two memberships is at least t.
Reaches(o, muLeft, muRight, t) ==
    CASE o = "union" -> muLeft >= t \/ muRight >= t
      [] o = "intersection" -> muLeft >= t /\ muRight >= t
      [] o = "difference" -> muLeft >= t /\ muRight <= OneMinus(t)

\* Off the boundaries both hold of one and the same places; on them an
\* intersection may cover less, and a difference more.
CoversEnough(o, p) == p \in Interior \/ o # "intersection"
CoversNoMore(o, p) == p \in Interior \/ o # "difference"

LEMMA GeometryCovers ==
    ASSUME NEW v \in Operand, NEW w \in Operand, NEW o \in Operations, CompatibleSrid(v, w),
           NEW t \in Alpha, NEW p \in Place
    PROVE  LET reached == Reaches(o, MembershipAt(v, p), MembershipAt(w, p), t)
           IN /\ ThresholdGeometry(o, v, w, t) = {} => ~reached
              /\ \A g \in ThresholdGeometry(o, v, w, t) :
                     LET covered == CoversPlace(Normalize(g), p)
                     IN /\ CoversEnough(o, p) /\ reached => covered
                        /\ CoversNoMore(o, p) /\ covered => reached
                        /\ o = "difference" /\ covered => MembershipAt(v, p) >= t
  <1> DEFINE muLeft == MembershipAt(v, p)
             muRight == MembershipAt(w, p)
             i == AlphaCut(v, t)
             j == RightCut(o, w, t)
             gv == v.levels[i].geometry
             gw == w.levels[j].geometry
             reached == Reaches(o, muLeft, muRight, t)
             inLeft == CoversPlace(gv, p)
             inRight == CoversPlace(gw, p)
  <1>1. /\ t \in 1..One /\ t \in 0..One /\ t # 0 /\ t \in Int
        /\ OneMinus(t) \in 0..One /\ OneMinus(t) \in Int
    BY AlphaAssumption, OneMinusAssumption
  <1>2. muLeft \in Int /\ muRight \in Int
    BY MembershipIsAlpha, AlphaAssumption
  <1>3. muLeft >= t <=> i # 0 /\ inLeft
    BY <1>1, CutCovers
  <1>4. o # "difference" => (muRight >= t <=> j # 0 /\ inRight)
    <2> SUFFICES ASSUME o # "difference"
                 PROVE  muRight >= t <=> j # 0 /\ inRight
      OBVIOUS
    <2>1. j = AlphaCut(w, t)
      BY DEF RightCut
    <2> QED
      BY <1>1, <2>1, CutCovers
  <1>5. o = "difference" => (muRight > OneMinus(t) <=> j # 0 /\ inRight)
    <2> SUFFICES ASSUME o = "difference"
                 PROVE  muRight > OneMinus(t) <=> j # 0 /\ inRight
      OBVIOUS
    <2>1. j = StrictAlphaCut(w, OneMinus(t))
      BY DEF RightCut
    <2> QED
      BY <1>1, <2>1, CutCovers
  <1>6. /\ o = "union" => (reached <=> (i # 0 /\ inLeft) \/ (j # 0 /\ inRight))
        /\ o = "intersection" => (reached <=> i # 0 /\ inLeft /\ j # 0 /\ inRight)
        /\ o = "difference" => (reached <=> i # 0 /\ inLeft /\ ~(j # 0 /\ inRight))
    <2> HIDE DEF muLeft, muRight, i, j, inLeft, inRight
    <2>1. muRight <= OneMinus(t) <=> ~(muRight > OneMinus(t))
      BY <1>1, <1>2
    <2> QED
      BY <1>3, <1>4, <1>5, <2>1 DEF Reaches
  <1>7. i # 0 => gv \in Extent /\ SridOf(gv) = v.srid /\ v.srid # NoSrid
    <2>1. i \in {0} \cup DOMAIN v.levels
      BY CutSelectsLevel DEF Operand
    <2> QED
      BY <2>1, OperandLevel
  <1>8. j # 0 => gw \in Extent /\ SridOf(gw) = w.srid /\ w.srid # NoSrid
    <2>1. j \in {0} \cup DOMAIN w.levels
      BY CutSelectsLevel DEF RightCut, Operand
    <2> QED
      BY <2>1, OperandLevel
  <1>9. ThresholdGeometry(o, v, w, t) =
            CASE i # 0 /\ j # 0 -> {CASE o = "union" -> EngineUnion(gv, gw)
                                      [] o = "intersection" -> EngineIntersection(gv, gw)
                                      [] o = "difference" -> EngineDifference(gv, gw)}
              [] i # 0 /\ j = 0 -> IF o = "intersection" THEN {} ELSE {gv}
              [] i = 0 /\ j # 0 -> IF o = "union" THEN {gw} ELSE {}
              [] i = 0 /\ j = 0 -> {}
    BY DEF ThresholdGeometry
  <1>10. o \in {"union", "intersection", "difference"}
    BY DEF Operations
  <1> HIDE DEF i, j, gv, gw, reached, inLeft, inRight
  <1>11. ASSUME i # 0, j # 0, NEW g \in ThresholdGeometry(o, v, w, t)
         PROVE  LET covered == CoversPlace(Normalize(g), p)
                IN /\ CoversEnough(o, p) /\ reached => covered
                   /\ CoversNoMore(o, p) /\ covered => reached
                   /\ o = "difference" /\ covered => inLeft
    <2>1. SameSrid(gv, gw) /\ gv \in Extent /\ gw \in Extent
      BY <1>7, <1>8, <1>11 DEF CompatibleSrid, SameSrid
    <2>2. /\ o = "union" => g = EngineUnion(gv, gw)
          /\ o = "intersection" => g = EngineIntersection(gv, gw)
          /\ o = "difference" => g = EngineDifference(gv, gw)
      BY <1>9, <1>11
    <2>3. /\ CoversPlace(Normalize(EngineUnion(gv, gw)), p) <=> inLeft \/ inRight
          /\ CoversPlace(Normalize(EngineIntersection(gv, gw)), p) => inLeft /\ inRight
          /\ p \in Interior /\ inLeft /\ inRight
                 => CoversPlace(Normalize(EngineIntersection(gv, gw)), p)
          /\ CoversPlace(Normalize(EngineDifference(gv, gw)), p) => inLeft
          /\ inLeft /\ ~inRight => CoversPlace(Normalize(EngineDifference(gv, gw)), p)
          /\ p \in Interior /\ CoversPlace(Normalize(EngineDifference(gv, gw)), p) => ~inRight
      BY <2>1, ExactOverlayAssumption DEF inLeft, inRight
    <2>4. CASE o = "union"
      BY <1>6, <1>11, <2>2, <2>3, <2>4
    <2>5. CASE o = "intersection"
      BY <1>6, <1>11, <2>2, <2>3, <2>5 DEF CoversEnough
    <2>6. CASE o = "difference"
      BY <1>6, <1>11, <2>2, <2>3, <2>6 DEF CoversNoMore
    <2> QED
      BY <1>10, <2>4, <2>5, <2>6
  <1>12. ASSUME i = 0 \/ j = 0, NEW g \in ThresholdGeometry(o, v, w, t)
         PROVE  /\ CoversPlace(Normalize(g), p) <=> reached
                /\ o = "difference" /\ CoversPlace(Normalize(g), p) => i # 0 /\ inLeft
    <2>1. CASE i # 0 /\ j = 0
      <3>1. o # "intersection" /\ g = gv
        BY <1>9, <1>12, <2>1
      <3>2. Normalize(g) = gv
        BY <1>7, <2>1, <3>1 DEF Extent
      <3> QED
        BY <1>6, <1>10, <2>1, <3>1, <3>2 DEF inLeft
    <2>2. CASE i = 0 /\ j # 0
      <3>1. o = "union" /\ g = gw
        BY <1>9, <1>12, <2>2
      <3>2. Normalize(g) = gw
        BY <1>8, <2>2, <3>1 DEF Extent
      <3> QED
        BY <1>6, <2>2, <3>1, <3>2 DEF inRight
    <2>3. CASE i = 0 /\ j = 0
      BY <1>9, <1>12, <2>3
    <2> QED
      BY <1>12, <2>1, <2>2, <2>3
  <1>13. ThresholdGeometry(o, v, w, t) = {} => ~reached
    <2>1. CASE i # 0 /\ j # 0
      BY <1>9, <2>1
    <2>2. CASE i # 0 /\ j = 0
      BY <1>6, <1>9, <1>10, <2>2
    <2>3. CASE i = 0
      BY <1>6, <1>9, <1>10, <2>3
    <2> QED
      BY <2>1, <2>2, <2>3
  <1>14. ASSUME NEW g \in ThresholdGeometry(o, v, w, t)
         PROVE  LET covered == CoversPlace(Normalize(g), p)
                IN /\ CoversEnough(o, p) /\ reached => covered
                   /\ CoversNoMore(o, p) /\ covered => reached
                   /\ o = "difference" /\ covered => muLeft >= t
    BY <1>3, <1>11, <1>12
  <1> QED
    BY <1>13, <1>14 DEF reached

LEMMA ThresholdCovers ==
    ASSUME NEW v \in Operand, NEW w \in Operand, NEW o \in Operations, CompatibleSrid(v, w),
           NEW t \in Alpha, NEW p \in Place
    PROVE  LET reached == Reaches(o, MembershipAt(v, p), MembershipAt(w, p), t)
           IN /\ ThresholdLevels(o, v, w, t) = {} /\ CoversEnough(o, p) => ~reached
              /\ \A l \in ThresholdLevels(o, v, w, t) :
                     LET covered == CoversPlace(l.geometry, p)
                     IN /\ CoversEnough(o, p) /\ reached => covered
                        /\ CoversNoMore(o, p) /\ covered => reached
                        /\ o = "difference" /\ covered => MembershipAt(v, p) >= t
  <1> DEFINE reached == Reaches(o, MembershipAt(v, p), MembershipAt(w, p), t)
  <1>1. /\ ThresholdGeometry(o, v, w, t) = {} => ~reached
        /\ \A g \in ThresholdGeometry(o, v, w, t) :
               /\ CoversEnough(o, p) /\ reached => CoversPlace(Normalize(g), p)
               /\ CoversNoMore(o, p) /\ CoversPlace(Normalize(g), p) => reached
               /\ o = "difference" /\ CoversPlace(Normalize(g), p) => MembershipAt(v, p) >= t
    BY GeometryCovers
  <1> HIDE DEF reached
  <1>2. \A l \in ThresholdLevels(o, v, w, t) :
            \E g \in ThresholdGeometry(o, v, w, t) : l.geometry = Normalize(g)
    BY DEF ThresholdLevels
  <1>3. ASSUME ThresholdLevels(o, v, w, t) = {}, CoversEnough(o, p)
        PROVE  ~reached
    <2>1. CASE ThresholdGeometry(o, v, w, t) = {}
      BY <1>1, <2>1
    <2>2. CASE ThresholdGeometry(o, v, w, t) # {}
      <3>1. PICK g \in ThresholdGeometry(o, v, w, t) : TRUE
        BY <2>2
      <3>2. IsEmpty(Normalize(g))
        <4>1. SUFFICES ASSUME ~IsEmpty(Normalize(g))
                       PROVE  [alpha |-> t, geometry |-> Normalize(g)]
                                  \in ThresholdLevels(o, v, w, t)
          BY <1>3
        <4> QED
          BY <3>1, <4>1 DEF ThresholdLevels
      <3>3. Normalize(g) \in Geometry
        BY ThresholdGeometryType, NormalizeAssumption
      <3>4. ~CoversPlace(Normalize(g), p)
        BY <3>2, <3>3, ExactOverlayAssumption
      <3> QED
        BY <1>1, <1>3, <3>4
    <2> QED
      BY <2>1, <2>2
  <1> QED
    BY <1>1, <1>2, <1>3 DEF reached

\* What reaches a threshold reaches every lower one.
LEMMA LowerIsReached ==
    ASSUME NEW o \in Operations, NEW a \in Int, NEW b \in Int,
           NEW t \in Alpha, NEW u \in Alpha, u <= t, Reaches(o, a, b, t)
    PROVE  Reaches(o, a, b, u)
  <1>1. /\ t \in Int /\ u \in Int
        /\ OneMinus(t) \in Int /\ OneMinus(u) \in Int /\ OneMinus(u) >= OneMinus(t)
    <2>1. t \in Int /\ u \in Int /\ \A x \in 0..One : x \in Int
      BY AlphaAssumption
    <2> QED
      BY <2>1, OneMinusAssumption
  <1>2. /\ a >= t => a >= u
        /\ b >= t => b >= u
        /\ b <= OneMinus(t) => b <= OneMinus(u)
    BY <1>1
  <1>3. CASE o = "union"
    BY <1>2, <1>3 DEF Reaches
  <1>4. CASE o = "intersection"
    BY <1>2, <1>4 DEF Reaches
  <1>5. CASE o = "difference"
    BY <1>2, <1>5 DEF Reaches
  <1> QED
    BY <1>3, <1>4, <1>5 DEF Operations

\* What a lower threshold contributes contains what a higher one does.
LEMMA LowerIsLarger ==
    ASSUME NEW v \in Operand, NEW w \in Operand, NEW o \in Operations, CompatibleSrid(v, w),
           NEW t \in Alpha, NEW u \in Alpha, u <= t,
           NEW h \in ThresholdLevels(o, v, w, t), NEW l \in ThresholdLevels(o, v, w, u)
    PROVE  Covers(l.geometry, h.geometry)
  <1>1. /\ h.geometry \in Extent /\ l.geometry \in Extent
        /\ SameSrid(l.geometry, h.geometry)
    BY ThresholdLevelType DEF SameSrid, CanonicalLevel
  <1>2. ASSUME NEW p \in Interior, CoversPlace(h.geometry, p)
        PROVE  CoversPlace(l.geometry, p)
    <2>1. p \in Place /\ CoversEnough(o, p) /\ CoversNoMore(o, p)
      BY ValuesAssumption DEF CoversEnough, CoversNoMore
    <2>2. Reaches(o, MembershipAt(v, p), MembershipAt(w, p), t)
      BY <1>2, <2>1, ThresholdCovers
    <2>3. MembershipAt(v, p) \in Int /\ MembershipAt(w, p) \in Int
      BY <2>1, MembershipIsAlpha, AlphaAssumption
    <2>4. Reaches(o, MembershipAt(v, p), MembershipAt(w, p), u)
      BY <2>2, <2>3, LowerIsReached
    <2> QED
      BY <2>1, <2>4, ThresholdCovers
  <1> QED
    BY <1>1, <1>2, ExactOverlayAssumption

-----------------------------------------------------------------------------
\* The invariant, besides what LoopInv says the loop has gathered.

NestInv ==
    /\ phase = "finish" => outcome.kind # "NonNestedLevels"
    /\ answer.kind # "NonNestedLevels"

ClosedInv == NestInv /\ MembershipOfResult

-----------------------------------------------------------------------------
\* Closure.

\* Of two gathered levels the one of the lower alpha contains the other.
LEMMA GatheredNest ==
    ASSUME SetInv, LoopInv, phase = "finish",
           NEW i \in DOMAIN gathered, NEW j \in DOMAIN gathered,
           gathered[j].alpha <= gathered[i].alpha
    PROVE  Covers(gathered[j].geometry, gathered[i].geometry)
  <1>1. /\ left \in Operand /\ right \in Operand /\ op \in Operations
        /\ CompatibleSrid(left, right) /\ Visited \subseteq Alpha
    BY VisitedAreAlphas DEF SetInv, OperandInv
  <1>2. /\ gathered[i] \in LevelsAt(gathered[i].alpha) /\ gathered[i].alpha \in Alpha
        /\ gathered[j] \in LevelsAt(gathered[j].alpha) /\ gathered[j].alpha \in Alpha
    BY <1>1 DEF LoopInv
  <1> QED
    BY <1>1, <1>2, LowerIsLarger DEF LevelsAt

\* canonicalize does not find a pair that fails to nest.
LEMMA NestingHolds ==
    ASSUME SetInv, LoopInv, phase = "finish", CheckNesting
    PROVE  outcome' = outcome
  <1>1. pc = "nest" /\ cursor + 1 \in DOMAIN kept /\ cursor \in Nat \ {0}
        /\ kept \in Seq(CanonicalLevel) /\ levels \in Seq(CanonicalLevel)
        /\ raw \in Seq(CanonicalLevel) /\ raw = gathered
    BY DEF CheckNesting, SetInv, CanonInv, TypeOK, CallInv, GatherInv
  <1>2. cursor \in DOMAIN kept /\ cursor < cursor + 1
    BY <1>1
  <1>3. \A m \in DOMAIN kept : \E k \in DOMAIN raw : kept[m] = raw[k]
    <2> SUFFICES ASSUME NEW m \in DOMAIN kept
                 PROVE  \E k \in DOMAIN raw : kept[m] = raw[k]
      OBVIOUS
    <2>1. PICK j \in DOMAIN levels : kept[m] = levels[j]
      BY <1>1 DEF SetInv, CanonInv, CollapseInv, StandsFor
    <2>2. PICK k \in DOMAIN raw : levels[j] = NormalizedLevel(raw[k])
      BY <1>1 DEF SetInv, CanonInv, SortInv, SortedLoops
    <2>3. raw[k] \in CanonicalLevel
      BY <1>1
    <2> QED
      BY <2>1, <2>2, <2>3, NormalizedIsItself
  <1>4. PICK i, j \in DOMAIN gathered : kept[cursor] = gathered[i] /\ kept[cursor + 1] = gathered[j]
    BY <1>1, <1>2, <1>3
  <1>5. gathered[j].alpha <= gathered[i].alpha
    <2>1. gathered[i].alpha > gathered[j].alpha
      BY <1>1, <1>2, <1>4 DEF SetInv, CanonInv, CollapseInv, StandsFor, StrictlyDescending
    <2>2. gathered[i].alpha \in Int /\ gathered[j].alpha \in Int
      BY <1>1, CanonicalLevelIsLevel, LevelAlphaIsInt
    <2> QED
      BY <2>1, <2>2
  <1>6. Covers(kept[cursor + 1].geometry, kept[cursor].geometry)
    BY <1>4, <1>5, GatheredNest
  <1> QED
    BY <1>6 DEF CheckNesting

LEMMA NestingNotRefused ==
    ASSUME SetInv, LoopInv, phase = "finish", outcome.kind # "NonNestedLevels", CanonStep
    PROVE  outcome'.kind # "NonNestedLevels"
  <1>1. CASE CheckNesting
    BY <1>1, NestingHolds
  <1>2. CASE ~CheckNesting
    BY <1>2 DEF CanonStep, NormalizeLevel, AcceptEmpty, SortLevels, CheckDuplicates, CheckSrid,
       StartCollapse, CollapseLevel, StartNesting, Accept, EngineFailure, Enter, Advance, Return,
       Accepted, Rejected
  <1> QED
    BY <1>1, <1>2

-----------------------------------------------------------------------------
\* Membership.

\* MembershipOfResult, of an answer v.
MembershipIs(v) ==
    \A p \in Place :
        LET muLeft == MembershipAt(left, p)
            muRight == MembershipAt(right, p)
            mu == MembershipAt(v, p)
        IN CASE op = "union" -> mu = -Smaller(-muLeft, -muRight)
             [] op = "intersection" ->
                    /\ mu <= Smaller(muLeft, muRight)
                    /\ p \in Interior => mu = Smaller(muLeft, muRight)
             [] op = "difference" ->
                    /\ mu <= muLeft
                    /\ \A t \in LevelsOfDifference(muLeft, muRight) : t <= mu
                    /\ p \in Interior =>
                           mu \in LevelsOfDifference(muLeft, muRight) \cup {0}

LEMMA MembershipMeaning ==
    MembershipOfResult <=> (answer.kind = "Ok" => MembershipIs(answer.value))
  BY DEF MembershipOfResult, MembershipIs

\* A value that says of each place what the gathered levels say has, as its
\* membership there, the highest alpha the operation's function reaches.
LEMMA HighestReached ==
    ASSUME SetInv, LoopInv, phase \in {"gather", "finish"}, domain = {},
           NEW v, NEW p \in Place, Preserves(v, gathered, p)
    PROVE  LET mu == MembershipAt(v, p)
               reaches(t) == Reaches(op, MembershipAt(left, p), MembershipAt(right, p), t)
           IN /\ \A t \in Visited : CoversEnough(op, p) /\ reaches(t) => t <= mu
              /\ \/ mu = 0
                 \/ /\ mu \in Visited
                    /\ CoversNoMore(op, p) => reaches(mu)
                    /\ op = "difference" => MembershipAt(left, p) >= mu
  <1> DEFINE mu == MembershipAt(v, p)
             reaches(t) == Reaches(op, MembershipAt(left, p), MembershipAt(right, p), t)
  <1>1. /\ left \in Operand /\ right \in Operand /\ op \in Operations
        /\ CompatibleSrid(left, right) /\ Visited \subseteq Alpha
        /\ gathered \in Seq(CanonicalLevel)
    BY VisitedAreAlphas DEF SetInv, OperandInv, GatherInv
  <1>2. \A t \in Visited :
            /\ LevelsAt(t) = {} /\ CoversEnough(op, p) => ~reaches(t)
            /\ \A l \in LevelsAt(t) :
                   /\ l.alpha = t
                   /\ CoversEnough(op, p) /\ reaches(t) => CoversPlace(l.geometry, p)
                   /\ CoversNoMore(op, p) /\ CoversPlace(l.geometry, p) => reaches(t)
                   /\ op = "difference" /\ CoversPlace(l.geometry, p)
                          => MembershipAt(left, p) >= t
    <2> SUFFICES ASSUME NEW t \in Visited
                 PROVE  /\ LevelsAt(t) = {} /\ CoversEnough(op, p) => ~reaches(t)
                        /\ \A l \in LevelsAt(t) :
                               /\ l.alpha = t
                               /\ CoversEnough(op, p) /\ reaches(t) => CoversPlace(l.geometry, p)
                               /\ CoversNoMore(op, p) /\ CoversPlace(l.geometry, p) => reaches(t)
                               /\ op = "difference" /\ CoversPlace(l.geometry, p)
                                      => MembershipAt(left, p) >= t
      OBVIOUS
    <2>1. t \in Alpha
      BY <1>1
    <2>2. \A l \in LevelsAt(t) : l.alpha = t
      BY <1>1, <2>1, ThresholdLevelType DEF LevelsAt
    <2> QED
      BY <1>1, <2>1, <2>2, ThresholdCovers DEF LevelsAt
  <1>3. \A k \in DOMAIN gathered : k \in Given(gathered, p) <=> CoversPlace(gathered[k].geometry, p)
    <2> SUFFICES ASSUME NEW k \in DOMAIN gathered
                 PROVE  k \in Given(gathered, p) <=> CoversPlace(gathered[k].geometry, p)
      OBVIOUS
    <2>1. gathered[k] \in CanonicalLevel
      BY <1>1
    <2>2. Normalize(gathered[k].geometry) = gathered[k].geometry
      BY <2>1 DEF CanonicalLevel, Extent
    <2> QED
      BY <2>2 DEF Given
  <1>4. /\ \A k \in Given(gathered, p) : gathered[k].alpha <= mu
        /\ Given(gathered, p) # {} => \E k \in Given(gathered, p) : gathered[k].alpha = mu
        /\ Given(gathered, p) = {} => mu = 0
    BY DEF Preserves
  <1>5. Given(gathered, p) \subseteq DOMAIN gathered
    BY DEF Given
  <1> HIDE DEF mu, reaches
  <1>6. ASSUME NEW t \in Visited, CoversEnough(op, p), reaches(t)
        PROVE  t <= mu
    <2>1. LevelsAt(t) # {}
      BY <1>2, <1>6
    <2>2. PICK k \in DOMAIN gathered : gathered[k] \in LevelsAt(t)
      BY <2>1 DEF LoopInv
    <2>3. CoversPlace(gathered[k].geometry, p) /\ gathered[k].alpha = t
      BY <1>2, <1>6, <2>2
    <2> QED
      BY <1>3, <1>4, <2>3
  <1>7. ASSUME mu # 0
        PROVE  /\ mu \in Visited
               /\ CoversNoMore(op, p) => reaches(mu)
               /\ op = "difference" => MembershipAt(left, p) >= mu
    <2>1. PICK k \in Given(gathered, p) : gathered[k].alpha = mu
      BY <1>4, <1>7
    <2>2. /\ gathered[k].alpha \in Visited /\ gathered[k] \in LevelsAt(gathered[k].alpha)
          /\ CoversPlace(gathered[k].geometry, p)
      BY <1>3, <1>5, <2>1 DEF LoopInv
    <2> QED
      BY <1>2, <2>1, <2>2
  <1> QED
    BY <1>6, <1>7 DEF mu, reaches

\* The largest of a set that one of two numbers reaches, and that both reach.
LEMMA LargestReached ==
    ASSUME NEW S, NEW a \in Int, NEW b \in Int, NEW m \in Int,
           a >= 0, b >= 0, m >= 0, a # 0 => a \in S, b # 0 => b \in S
    PROVE  /\ (\A t \in S : a >= t \/ b >= t => t <= m) /\ (m = 0 \/ a >= m \/ b >= m)
                  => m = -Smaller(-a, -b)
           /\ (\A t \in S : a >= t /\ b >= t => t <= m) /\ (m = 0 \/ (a >= m /\ b >= m))
                  => m = Smaller(a, b)
  <1>1. ASSUME \A t \in S : a >= t \/ b >= t => t <= m, m = 0 \/ a >= m \/ b >= m
        PROVE  m = -Smaller(-a, -b)
    <2>1. a # 0 => a <= m
      BY <1>1
    <2>2. b # 0 => b <= m
      BY <1>1
    <2>3. a <= m /\ b <= m
      BY <2>1, <2>2
    <2>4. CASE -a <= -b
      <3>1. a >= b /\ a = m
        BY <1>1, <2>3, <2>4
      <3> QED
        BY <2>4, <3>1 DEF Smaller
    <2>5. CASE ~(-a <= -b)
      <3>1. b = m
        BY <1>1, <2>3, <2>5
      <3> QED
        BY <2>5, <3>1 DEF Smaller
    <2> QED
      BY <2>4, <2>5
  <1>2. ASSUME \A t \in S : a >= t /\ b >= t => t <= m, m = 0 \/ (a >= m /\ b >= m)
        PROVE  m = Smaller(a, b)
    <2>1. a <= b /\ a # 0 => a <= m
      BY <1>2
    <2>2. b <= a /\ b # 0 => b <= m
      BY <1>2
    <2>3. m <= a /\ m <= b
      BY <1>2
    <2>4. CASE a <= b
      BY <2>1, <2>3, <2>4 DEF Smaller
    <2>5. CASE ~(a <= b)
      BY <2>2, <2>3, <2>5 DEF Smaller
    <2> QED
      BY <2>4, <2>5
  <1> QED
    BY <1>1, <1>2

LEMMA AnswerMembership ==
    ASSUME SetInv, LoopInv, phase \in {"gather", "finish"}, domain = {},
           NEW v, \A p \in Place : Preserves(v, gathered, p)
    PROVE  MembershipIs(v)
  <1>1. /\ left \in Operand /\ right \in Operand /\ op \in Operations
        /\ Visited \subseteq Alpha
    BY VisitedAreAlphas DEF SetInv, OperandInv
  <1>2. \A t \in Visited : t \in Int /\ t >= 1 /\ OneMinus(t) \in Int
    <2>1. \A x \in 0..One : x \in Int
      BY AlphaAssumption
    <2> QED
      BY <1>1, <2>1, AlphaAssumption, OneMinusAssumption
  <1> SUFFICES ASSUME NEW p \in Place
               PROVE  LET muLeft == MembershipAt(left, p)
                          muRight == MembershipAt(right, p)
                          mu == MembershipAt(v, p)
                      IN CASE op = "union" -> mu = -Smaller(-muLeft, -muRight)
                           [] op = "intersection" ->
                                  /\ mu <= Smaller(muLeft, muRight)
                                  /\ p \in Interior => mu = Smaller(muLeft, muRight)
                           [] op = "difference" ->
                                  /\ mu <= muLeft
                                  /\ \A t \in LevelsOfDifference(muLeft, muRight) : t <= mu
                                  /\ p \in Interior =>
                                         mu \in LevelsOfDifference(muLeft, muRight) \cup {0}
    BY DEF MembershipIs
  <1> DEFINE muLeft == MembershipAt(left, p)
             muRight == MembershipAt(right, p)
             mu == MembershipAt(v, p)
  <1>3. /\ \A t \in Visited : CoversEnough(op, p) /\ Reaches(op, muLeft, muRight, t) => t <= mu
        /\ \/ mu = 0
           \/ /\ mu \in Visited
              /\ CoversNoMore(op, p) => Reaches(op, muLeft, muRight, mu)
              /\ op = "difference" => muLeft >= mu
    BY HighestReached
  <1>4. /\ muLeft \in Int /\ muLeft >= 0 /\ (muLeft # 0 => muLeft \in Visited)
        /\ muRight \in Int /\ muRight >= 0 /\ (muRight # 0 => muRight \in Visited)
    <2>1. \A x \in 0..One : x \in Int /\ x >= 0
      BY AlphaAssumption
    <2>2. \A k \in DOMAIN left.levels : left.levels[k].alpha \in Visited
      BY DEF Visited, AlphaDomain, ToSet
    <2>3. \A k \in DOMAIN right.levels : right.levels[k].alpha \in Visited
      BY DEF Visited, AlphaDomain, ToSet
    <2> QED
      BY <1>1, <2>1, <2>2, <2>3, MembershipIsAlpha
  <1> HIDE DEF muLeft, muRight, mu
  <1>5. mu \in Int /\ mu >= 0
    BY <1>2, <1>3
  <1>6. CASE op = "union"
    <2>1. \A t : Reaches(op, muLeft, muRight, t) <=> muLeft >= t \/ muRight >= t
      BY <1>6 DEF Reaches
    <2>2. CoversEnough(op, p) /\ CoversNoMore(op, p)
      BY <1>6 DEF CoversEnough, CoversNoMore
    <2>3. /\ \A t \in Visited : muLeft >= t \/ muRight >= t => t <= mu
          /\ mu = 0 \/ muLeft >= mu \/ muRight >= mu
      BY <1>3, <2>1, <2>2
    <2>4. mu = -Smaller(-muLeft, -muRight)
      BY <1>4, <1>5, <2>3, LargestReached
    <2> QED
      BY <1>6, <2>4 DEF muLeft, muRight, mu
  <1>7. CASE op = "intersection"
    <2>1. \A t : Reaches(op, muLeft, muRight, t) <=> muLeft >= t /\ muRight >= t
      BY <1>7 DEF Reaches
    <2>2. (p \in Interior => CoversEnough(op, p)) /\ CoversNoMore(op, p)
      BY <1>7 DEF CoversEnough, CoversNoMore
    <2>3. mu = 0 \/ (muLeft >= mu /\ muRight >= mu)
      BY <1>3, <2>1, <2>2
    <2>4. mu <= Smaller(muLeft, muRight)
      BY <1>4, <1>5, <2>3 DEF Smaller
    <2>5. p \in Interior => mu = Smaller(muLeft, muRight)
      <3> SUFFICES ASSUME p \in Interior
                   PROVE  mu = Smaller(muLeft, muRight)
        OBVIOUS
      <3>1. \A t \in Visited : muLeft >= t /\ muRight >= t => t <= mu
        BY <1>3, <2>1, <2>2
      <3> QED
        BY <1>4, <1>5, <2>3, <3>1, LargestReached
    <2> QED
      BY <1>7, <2>4, <2>5 DEF muLeft, muRight, mu
  <1>8. CASE op = "difference"
    <2>1. \A t : Reaches(op, muLeft, muRight, t) <=> muLeft >= t /\ muRight <= OneMinus(t)
      BY <1>8 DEF Reaches
    <2>2. CoversEnough(op, p) /\ (p \in Interior => CoversNoMore(op, p))
      BY <1>8 DEF CoversEnough, CoversNoMore
    <2>3. mu <= muLeft
      BY <1>3, <1>4, <1>5, <1>8
    <2>4. \A t \in LevelsOfDifference(muLeft, muRight) : t <= mu
      <3> SUFFICES ASSUME NEW t \in LevelsOfDifference(muLeft, muRight)
                   PROVE  t <= mu
        OBVIOUS
      <3>1. t \in Visited /\ t <= muLeft /\ muRight <= OneMinus(t)
        BY DEF LevelsOfDifference, Visited
      <3>2. t \in Int
        BY <1>2, <3>1
      <3>3. muLeft >= t
        BY <1>4, <3>1, <3>2
      <3> QED
        BY <1>3, <2>1, <2>2, <3>1, <3>3
    <2>5. p \in Interior => mu \in LevelsOfDifference(muLeft, muRight) \cup {0}
      <3> SUFFICES ASSUME p \in Interior, mu # 0
                   PROVE  mu \in LevelsOfDifference(muLeft, muRight)
        OBVIOUS
      <3>1. mu \in Visited /\ muRight <= OneMinus(mu)
        BY <1>3, <2>1, <2>2
      <3> QED
        BY <2>3, <3>1 DEF LevelsOfDifference, Visited
    <2> QED
      BY <1>8, <2>3, <2>4, <2>5 DEF muLeft, muRight, mu
  <1> QED
    BY <1>1, <1>6, <1>7, <1>8 DEF Operations

-----------------------------------------------------------------------------
\* The steps.

LEMMA ClosedInit == SetInit => ClosedInv
  <1> SUFFICES ASSUME SetInit
               PROVE  ClosedInv
    OBVIOUS
  <1>1. phase = "idle" /\ answer.kind = "Pending"
    BY DEF SetInit, Pending
  <1> QED
    BY <1>1 DEF ClosedInv, NestInv, MembershipOfResult

\* A step that leaves the operands and the answer alone keeps what is said of it.
LEMMA AnswerUnchanged ==
    ASSUME MembershipOfResult, UNCHANGED <<op, left, right, answer>>
    PROVE  MembershipOfResult'
  BY DEF MembershipOfResult, LevelsOfDifference

\* An answer that is the value v has v's membership.
LEMMA AnswerIs ==
    ASSUME NEW v, MembershipIs(v), UNCHANGED <<op, left, right>>, answer' = Accepted(v)
    PROVE  MembershipOfResult'
  <1>1. answer'.value = v
    BY DEF Accepted
  <1> QED
    BY <1>1 DEF MembershipOfResult, MembershipIs, LevelsOfDifference

\* A step of the loop answers nothing.
LEMMA GatherCloses ==
    ASSUME ClosedInv, StartGather \/ GatherLevel
    PROVE  ClosedInv'
  <1>1. phase' = "gather" /\ UNCHANGED <<op, left, right, answer>>
    BY DEF StartGather, GatherLevel
  <1> QED
    BY <1>1, AnswerUnchanged DEF ClosedInv, NestInv

\* A refusal before or in the loop.
LEMMA RefusalCloses ==
    ASSUME RejectSrid \/ GatherFailure
    PROVE  ClosedInv'
  <1>1. phase' = "done" /\ answer'.kind \in {"MixedOperandSrid", "Geometry"}
    BY DEF RejectSrid, GatherFailure, Reply, Rejected
  <1> QED
    BY <1>1 DEF ClosedInv, NestInv, MembershipOfResult

LEMMA EmptySaysNothing ==
    ASSUME NEW s, NEW p
    PROVE  Preserves(EmptyValue(s), <<>>, p)
  <1>1. <<>> \in Seq(Level) /\ EmptyValue(s).levels = <<>>
    BY DEF EmptyValue
  <1>2. StrictlyDescending(<<>>) /\ Covering(<<>>, p) = {}
    BY DEF StrictlyDescending, Covering
  <1>3. MembershipAt(EmptyValue(s), p) = 0
    BY <1>1, <1>2, MembershipIsHighest
  <1>4. Given(<<>>, p) = {}
    BY DEF Given
  <1> QED
    BY <1>3, <1>4 DEF Preserves

\* No level gathered: the membership is 0 everywhere.
LEMMA FinishEmptyCloses ==
    ASSUME SetInv, LoopInv, FinishEmpty
    PROVE  ClosedInv'
  <1>1. /\ phase = "gather" /\ phase' = "done" /\ domain = {} /\ gathered = <<>>
        /\ UNCHANGED <<op, left, right>>
        /\ answer' = Accepted(EmptyValue(Common))
    BY DEF FinishEmpty, Reply, EmptyResult, Common
  <1>2. \A p \in Place : Preserves(EmptyValue(Common), gathered, p)
    BY <1>1, EmptySaysNothing
  <1>3. MembershipIs(EmptyValue(Common))
    BY <1>1, <1>2, AnswerMembership
  <1>4. MembershipOfResult'
    BY <1>1, <1>3, AnswerIs
  <1> QED
    BY <1>1, <1>4 DEF ClosedInv, NestInv, Accepted

LEMMA FinishLevelsCloses ==
    ASSUME SetInv, ClosedInv, FinishLevels
    PROVE  ClosedInv'
  <1>1. /\ UNCHANGED <<op, left, right, answer>>
        /\ pc = "idle" /\ UNCHANGED outcome
    BY DEF FinishLevels, Call
  <1>2. outcome.kind = "Pending"
    BY <1>1 DEF SetInv, CanonInv, OutcomeInv, Pending
  <1> QED
    BY <1>1, <1>2, AnswerUnchanged DEF ClosedInv, NestInv

LEMMA CanonicalizeCloses ==
    ASSUME SetInv, LoopInv, ClosedInv, Canonicalize
    PROVE  ClosedInv'
  <1>1. phase = "finish" /\ CanonStep /\ UNCHANGED <<op, left, right, answer>>
    BY DEF Canonicalize, opVars
  <1>2. outcome'.kind # "NonNestedLevels"
    BY <1>1, NestingNotRefused DEF ClosedInv, NestInv
  <1> QED
    BY <1>1, <1>2, AnswerUnchanged DEF ClosedInv, NestInv

\* What canonicalize answers says of a place what the gathered levels say.
LEMMA DeliverCloses ==
    ASSUME SetInv, LoopInv, ClosedInv, Deliver
    PROVE  ClosedInv'
  <1>1. /\ phase = "finish" /\ phase' = "done" /\ answer' = outcome
        /\ UNCHANGED <<op, left, right>>
    BY DEF Deliver, Reply
  <1>2. raw = gathered /\ domain = {}
    BY <1>1 DEF SetInv, CallInv, LoopInv
  <1>3. MembershipOfResult'
    <2>1. CASE outcome.kind = "Ok"
      <3>1. \A p \in Place : Preserves(outcome.value, gathered, p)
        BY <1>2, <2>1, PreservedMeaning DEF SetInv, CanonInv
      <3>2. MembershipIs(outcome.value)
        BY <1>1, <1>2, <3>1, AnswerMembership
      <3> QED
        BY <1>1, <3>2 DEF MembershipOfResult, MembershipIs, LevelsOfDifference
    <2>2. CASE outcome.kind # "Ok"
      BY <1>1, <2>2 DEF MembershipOfResult
    <2> QED
      BY <2>1, <2>2
  <1> QED
    BY <1>1, <1>3 DEF ClosedInv, NestInv

LEMMA ClosedStep == SetInv /\ LoopInv /\ ClosedInv /\ [SetNext]_setVars => ClosedInv'
  <1> SUFFICES ASSUME SetInv, LoopInv, ClosedInv, [SetNext]_setVars
               PROVE  ClosedInv'
    OBVIOUS
  <1>1. CASE UNCHANGED setVars
    <2>1. UNCHANGED <<phase, op, left, right, answer>> /\ UNCHANGED outcome
      BY <1>1 DEF setVars, opVars, canonVars
    <2> QED
      BY <2>1, AnswerUnchanged DEF ClosedInv, NestInv
  <1>2. CASE SetStep
    BY <1>2, RefusalCloses, GatherCloses, FinishEmptyCloses, FinishLevelsCloses,
       CanonicalizeCloses, DeliverCloses DEF SetStep
  <1> QED
    BY <1>1, <1>2 DEF SetNext

-----------------------------------------------------------------------------

LEMMA ClosedInvariant == SetSpec => []ClosedInv
  BY SetInvariant, LoopInitially, LoopStep, ClosedInit, ClosedStep, PTL DEF SetSpec

\* With exact overlays canonicalize refuses nothing the loop has gathered: on
\* operands of one SRID only a failing engine call is an error, as the doc of
\* the standard set operations says.
THEOREM SetOperationsAreClosed == SetSpec => []Closed
  <1>1. SetInv /\ ClosedInv => Closed
    BY DEF SetInv, AnswerInv, RefusesOnlyUnnested, ClosedInv, NestInv, Closed
  <1> QED
    BY SetInvariant, ClosedInvariant, <1>1, PTL

\* The membership in a result is the operation's function of the memberships in
\* the operands, the boundaries and the alphas of a difference apart.
THEOREM ResultMembership == SetSpec => []MembershipOfResult
  <1>1. ClosedInv => MembershipOfResult
    BY DEF ClosedInv
  <1> QED
    BY ClosedInvariant, <1>1, PTL

-----------------------------------------------------------------------------
\* The operations as functions of their operands, and so the set functions of SQL.

\* Nothing canonicalize refuses is ever gathered, and the answer has the SRID of
\* the operands.
LEMMA OutcomeIsAccepted ==
    ASSUME NEW v \in Operand, NEW w \in Operand, NEW o \in Operations, CompatibleSrid(v, w)
    PROVE  /\ SetOperationOutcome(o, v, w) = Accepted(SetOperationOutcome(o, v, w).value)
           /\ SetOperationOutcome(o, v, w).value.srid = CommonSrid(v, w)
           /\ AlphaDomain(v, w) = {} =>
                  SetOperationOutcome(o, v, w).value = EmptyValue(CommonSrid(v, w))
           /\ LET S == GatheredLevels(o, v, w)
              IN ToSet(SetOperationOutcome(o, v, w).value.levels) = {Representative(S, l) : l \in S}
  <1> DEFINE S == GatheredLevels(o, v, w)
             s == HighestFirst(S)
             srid == CommonSrid(v, w)
  <1>1. SetOperationOutcome(o, v, w) =
            IF s = <<>> THEN EmptyResult(v, w) ELSE CanonicalOutcome(s)
    BY DEF SetOperationOutcome, GatheredLevels
  <1>2. /\ s \in Seq(Level) /\ s \in Seq(CanonicalLevel)
        /\ StrictlyDescending(s)
        /\ ToSet(s) = S
        /\ \A l \in S : /\ l \in CanonicalLevel /\ l.alpha \in Alpha
                        /\ l \in ThresholdLevels(o, v, w, l.alpha)
                        /\ SridOf(l.geometry) = srid
    BY GatheredSort DEF CanonicalLevel
  <1> HIDE DEF s, srid
  <1>3. CASE s = <<>>
    <2>1. SetOperationOutcome(o, v, w) = Accepted(EmptyValue(srid))
      BY <1>1, <1>3 DEF EmptyResult, srid
    <2>2. S = {} /\ ToSet(<<>>) = {}
      BY <1>2, <1>3 DEF ToSet
    <2> QED
      BY <2>1, <2>2 DEF Accepted, EmptyValue, srid
  <1>4. CASE s # <<>>
    <2>1. s[1] \in S
      BY <1>2, <1>4 DEF ToSet
    <2>2. AlphaDomain(v, w) # {}
      BY <2>1 DEF GatheredLevels
    <2> HIDE DEF S
    <2>3. \A k \in DOMAIN s : NormalizedLevel(s[k]) = s[k] /\ ~IsEmpty(s[k].geometry)
      BY <1>2, NormalizedIsItself
    <2>4. NormalizedLevels(s) = s
      <3>1. s = [k \in DOMAIN s |-> s[k]]
        BY <1>2
      <3> QED
        BY <2>3, <3>1 DEF NormalizedLevels
    <2>5. EmptyAt(s) = 0
      BY <1>2, <2>3, EmptyAtIs
    <2>6. DuplicateAlphas(s) = {}
      BY <1>2, DescendingHasNoDuplicates
    <2>7. GivenLevels(s) = S
      BY <1>2, <2>4 DEF GivenLevels
    <2>8. S \in SUBSET Level
      BY <1>2 DEF CanonicalLevel, Level, Extent
    <2>9. Highest(S) \in S
      BY <2>1, <2>8, HighestExists
    <2>10. Foreign(S) = {}
      BY <1>2, <2>9 DEF Foreign, SameSrid
    <2>11. Unnested(S) = {}
      <3> SUFFICES ASSUME NEW l \in S, NEW h \in Above(S, l)
                   PROVE  Covers(l.geometry, h.geometry)
        BY DEF Unnested
      <3>1. h \in S /\ h.alpha > l.alpha
        BY DEF Above
      <3>2. h.alpha \in Int /\ l.alpha \in Int
        BY <2>8, <3>1, AlphaOfLevel
      <3>3. l.alpha <= h.alpha
        BY <3>1, <3>2
      <3> QED
        BY <1>2, <3>1, <3>3, LowerIsLarger
    <2>12. CanonicalOutcome(s)
               = Accepted([srid |-> SridOf(Highest(S).geometry),
                           levels |-> HighestFirst({Representative(S, l) : l \in S})])
      BY <1>2, <1>4, <2>5, <2>6, <2>7, <2>10, <2>11, OutcomeBranches
    <2>13. SridOf(Highest(S).geometry) = srid
      BY <1>2, <2>9
    <2> DEFINE chosen == {Representative(S, l) : l \in S}
    <2>14. ToSet(HighestFirst(chosen)) = chosen
      <3>1. UniqueAlphas(S) /\ IsFiniteSet(S)
        BY <1>2, <2>6, <2>7, <2>5, NormalizedLevelsUnique DEF GivenLevels
      <3>2. S \in SUBSET CanonicalLevel
        BY <1>2
      <3>3. chosen \subseteq S
        BY <3>2, RepresentativeStands
      <3>4. IsFiniteSet(chosen) /\ chosen \in SUBSET Level
        BY <2>8, <3>1, <3>3, FS_Subset
      <3>5. \A l, h \in chosen : l.alpha = h.alpha => l = h
        BY <3>1, <3>3 DEF UniqueAlphas
      <3> HIDE DEF chosen
      <3> QED
        BY <3>4, <3>5, HighestFirstSorts
    <2> QED
      BY <1>1, <1>4, <2>2, <2>12, <2>13, <2>14 DEF Accepted, srid, S
  <1> QED
    BY <1>3, <1>4

\* A set function of two stored values.
LEMMA SetFunctionSrid ==
    ASSUME NEW a \in Operand, NEW b \in Operand, NEW o \in Operations
    PROVE  LET reply == SetFunction(o, a, b)
           IN /\ a.levels # <<>> /\ b.levels # <<>> /\ a.srid # b.srid =>
                     reply.kind = "MixedOperandSrid"
              /\ a.levels = <<>> \/ b.levels = <<>> \/ a.srid = b.srid =>
                     /\ reply.kind = "Ok"
                     /\ a.levels # <<>> => reply.value.srid = a.srid
                     /\ a.levels = <<>> /\ b.levels # <<>> => reply.value.srid = b.srid
                     /\ a.levels = <<>> /\ b.levels = <<>> =>
                            reply.value = EmptyValue(NoSrid)
  <1> DEFINE v == Read(a)
             w == Read(b)
             result == SetOperationOutcome(o, v, w)
  <1>1. SetFunction(o, a, b) = AndThen(result, FromDomain)
    BY SetFunctionIs
  <1>2. /\ v \in Operand /\ w \in Operand
        /\ v.levels = a.levels /\ w.levels = b.levels
        /\ v.srid = IF a.levels = <<>> THEN NoSrid ELSE a.srid
        /\ w.srid = IF b.levels = <<>> THEN NoSrid ELSE b.srid
    BY ReadIsOperand DEF Read, EmptyValue
  <1>3. /\ a.levels # <<>> => a.srid # NoSrid
        /\ b.levels # <<>> => b.srid # NoSrid
    <2>1. ASSUME NEW u \in Operand, u.levels # <<>>
          PROVE  u.srid # NoSrid
      <3>1. 1 \in DOMAIN u.levels
        BY <2>1, OperandFacts
      <3> QED
        BY <3>1, OperandLevel
    <2> QED
      BY <2>1
  <1> HIDE DEF v, w
  <1>4. CompatibleSrid(v, w) <=> a.levels = <<>> \/ b.levels = <<>> \/ a.srid = b.srid
    BY <1>2, <1>3 DEF CompatibleSrid
  <1>5. CASE ~CompatibleSrid(v, w)
    <2>1. result.kind = "MixedOperandSrid"
      BY <1>5 DEF SetOperationOutcome, Rejected
    <2> HIDE DEF result
    <2>2. SetFunction(o, a, b) = result
      BY <1>1, <2>1 DEF AndThen
    <2> QED
      BY <1>4, <1>5, <2>1, <2>2
  <1>6. CASE CompatibleSrid(v, w)
    <2>1. /\ result = Accepted(result.value)
          /\ result.value.srid = CommonSrid(v, w)
          /\ AlphaDomain(v, w) = {} => result.value = EmptyValue(CommonSrid(v, w))
      BY <1>2, <1>6, OutcomeIsAccepted
    <2>2. result.value \in Operand
      <3>1. result.kind = "Ok"
        BY <2>1 DEF Accepted
      <3> QED
        BY <1>2, <3>1, SetOutcomeIsOperand
    <2>3. a.levels = <<>> /\ b.levels = <<>> => AlphaDomain(v, w) = {}
      BY <1>2 DEF AlphaDomain, ToSet
    <2> HIDE DEF result
    <2>4. SetFunction(o, a, b) = Accepted(result.value)
      <3> DEFINE x == result.value
      <3>1. NewStored(x) = Accepted(x)
        BY <2>2, OperandIsEncoded
      <3>2. result.kind = "Ok"
        BY <2>1 DEF Accepted
      <3> HIDE DEF x
      <3>3. SetFunction(o, a, b) = FromDomain(result.value)
        BY <1>1, <3>2 DEF AndThen
      <3> QED
        BY <3>1, <3>3 DEF FromDomain, x
    <2>5. SetFunction(o, a, b).kind = "Ok" /\ SetFunction(o, a, b).value = result.value
      BY <2>4 DEF Accepted
    <2> QED
      BY <1>2, <1>3, <1>4, <1>6, <2>1, <2>3, <2>5 DEF CommonSrid
  <1> QED
    BY <1>5, <1>6

\* A set function of any two rows answers in the SRID of the operands that have
\* levels, and refuses exactly the two that differ: with exact overlays no row a
\* sequence of statements can produce makes it fail otherwise.
THEOREM SetFunctionsKeepSrid == ExtSpec => []SridFromLevels
  <1>1. TableInv => SridFromLevels
    <2> SUFFICES ASSUME TableInv, NEW a \in Filled, NEW b \in Filled, NEW o \in Operations
                 PROVE  LET reply == SetFunction(o, Stored(a), Stored(b))
                            srids == {Stored(id).srid : id \in {a, b} \cap NonEmpty}
                        IN IF Cardinality(srids) = 2 THEN reply.kind = "MixedOperandSrid"
                           ELSE /\ reply.kind = "Ok"
                                /\ srids # {} => reply.value.srid \in srids
                                /\ srids = {} => reply.value = EmptyValue(NoSrid)
      BY Zenon DEF SridFromLevels
    <2> DEFINE v == Stored(a)
               w == Stored(b)
               srids == {Stored(id).srid : id \in {a, b} \cap NonEmpty}
               reply == SetFunction(o, v, w)
    <2>1. v \in Operand /\ w \in Operand
      BY StoredIsOperand
    <2>2. /\ a \in NonEmpty <=> v.levels # <<>>
          /\ b \in NonEmpty <=> w.levels # <<>>
      BY DEF NonEmpty
    <2>3. /\ v.levels # <<>> /\ w.levels # <<>> /\ v.srid # w.srid =>
                 reply.kind = "MixedOperandSrid"
          /\ v.levels = <<>> \/ w.levels = <<>> \/ v.srid = w.srid =>
                 /\ reply.kind = "Ok"
                 /\ v.levels # <<>> => reply.value.srid = v.srid
                 /\ v.levels = <<>> /\ w.levels # <<>> => reply.value.srid = w.srid
                 /\ v.levels = <<>> /\ w.levels = <<>> => reply.value = EmptyValue(NoSrid)
      BY <2>1, SetFunctionSrid
    <2>4. \A s : s \in srids <=> \/ v.levels # <<>> /\ s = v.srid
                                 \/ w.levels # <<>> /\ s = w.srid
      BY <2>2
    <2> HIDE DEF v, w, srids, reply
    <2>5. Cardinality(srids) = 2 <=> v.levels # <<>> /\ w.levels # <<>> /\ v.srid # w.srid
      <3>1. CASE v.levels # <<>> /\ w.levels # <<>> /\ v.srid # w.srid
        <4>1. srids = {v.srid, w.srid}
          BY <2>4, <3>1
        <4>2. Cardinality({v.srid}) = 1 /\ IsFiniteSet({v.srid}) /\ w.srid \notin {v.srid}
          BY <3>1, FS_Singleton
        <4>3. Cardinality({v.srid} \cup {w.srid}) = Cardinality({v.srid}) + 1
          BY <4>2, FS_AddElement
        <4>4. srids = {v.srid} \cup {w.srid}
          BY <4>1
        <4> QED
          BY <3>1, <4>2, <4>3, <4>4
      <3>2. CASE ~(v.levels # <<>> /\ w.levels # <<>> /\ v.srid # w.srid)
        <4>1. srids = {} \/ \E s : srids = {s}
          <5>1. CASE v.levels # <<>>
            <6>1. \A s : s \in srids <=> s = v.srid
              BY <2>4, <3>2, <5>1
            <6> QED
              BY <6>1
          <5>2. CASE v.levels = <<>>
            <6>1. \A s : s \in srids <=> w.levels # <<>> /\ s = w.srid
              BY <2>4, <5>2
            <6>2. srids = IF w.levels # <<>> THEN {w.srid} ELSE {}
              BY <6>1
            <6> QED
              BY <6>2
          <5> QED
            BY <5>1, <5>2
        <4>2. Cardinality(srids) = 0 \/ Cardinality(srids) = 1
          BY <4>1, FS_EmptySet, FS_Singleton
        <4> QED
          BY <3>2, <4>2
      <3> QED
        BY <3>1, <3>2
    <2>6. srids = {} <=> v.levels = <<>> /\ w.levels = <<>>
      BY <2>4
    <2> QED
      BY <2>3, <2>4, <2>5, <2>6 DEF v, w, srids, reply
  <1> QED
    BY TableInvariant, <1>1, PTL

-----------------------------------------------------------------------------
\* With regular areas a value is determined by its memberships off the boundaries.

LEMMA SamePlaces ==
    ASSUME NEW g \in Extent, NEW h \in Extent, SameSrid(g, h),
           \A p \in Interior : CoversPlace(g, p) <=> CoversPlace(h, p)
    PROVE  TopoEquals(g, h)
  <1>1. SameSrid(h, g)
    BY DEF SameSrid
  <1>2. Covers(g, h) /\ Covers(h, g)
    BY <1>1, ExactOverlayAssumption
  <1> QED
    BY <1>2, CoversAssumption

\* A list that falls strictly; two lists of which the first takes all its numbers
\* from the second; two equal ones.
Falls(n, a) == \A i, j \in 1..n : i < j => a[i] > a[j]
Among(m, a, n, b) == \A i \in 1..m : \E j \in 1..n : a[i] = b[j]
SameNumbers(m, a, n, b) == m = n /\ \A k \in 1..m : a[k] = b[k]

\* Two lists that fall strictly through the same numbers are equal.
LEMMA FallingAgree ==
    ASSUME NEW m \in Nat, NEW n \in Nat, NEW a \in [1..m -> Int], NEW b \in [1..n -> Int],
           Falls(m, a), Falls(n, b), Among(m, a, n, b), Among(n, b, m, a)
    PROVE  SameNumbers(m, a, n, b)
  <1> DEFINE differ == {k \in 1..m : k \in 1..n /\ a[k] # b[k]}
  <1>1. ASSUME differ # {}
        PROVE  FALSE
    <2> DEFINE d == Min(differ)
    <2>1. differ \in SUBSET Nat
      OBVIOUS
    <2>2. d \in differ /\ \A k \in differ : d <= k
      BY <1>1, <2>1, MinIsLeast
    <2> HIDE DEF d
    <2>3. d \in 1..m /\ d \in 1..n /\ a[d] # b[d]
      BY <2>2
    <2>4. \A k \in 1..m : k < d /\ k \in 1..n => a[k] = b[k]
      BY <2>2, <2>3
    <2> HIDE DEF differ
    <2>5. PICK j \in 1..n : a[d] = b[j]
      BY <2>3 DEF Among
    <2>6. PICK i \in 1..m : b[d] = a[i]
      BY <2>3 DEF Among
    <2>7. j >= d
      <3> SUFFICES ASSUME j < d
                   PROVE  FALSE
        BY <2>3
      <3>1. j \in 1..m
        BY <2>3
      <3>2. a[j] = b[j] /\ a[j] > a[d]
        BY <2>3, <2>4, <3>1 DEF Falls
      <3> QED
        BY <2>3, <2>5, <3>1, <3>2
    <2>8. i >= d
      <3> SUFFICES ASSUME i < d
                   PROVE  FALSE
        BY <2>3
      <3>1. i \in 1..n
        BY <2>3
      <3>2. a[i] = b[i] /\ b[i] > b[d]
        BY <2>3, <2>4, <3>1 DEF Falls
      <3> QED
        BY <2>3, <2>6, <3>1, <3>2
    <2>9. j # d /\ i # d
      BY <2>3, <2>5, <2>6
    <2>10. d < j /\ d < i
      BY <2>3, <2>7, <2>8, <2>9
    <2>11. b[d] > b[j] /\ a[d] > a[i]
      BY <2>3, <2>10 DEF Falls
    <2>12. a[d] \in Int /\ b[d] \in Int
      BY <2>3
    <2> QED
      BY <2>5, <2>6, <2>11, <2>12
  <1>2. \A k \in 1..m : k \in 1..n => a[k] = b[k]
    BY <1>1
  <1> HIDE DEF differ
  <1>3. ASSUME m < n
        PROVE  FALSE
    <2>1. m + 1 \in 1..n
      BY <1>3
    <2>2. PICK i \in 1..m : b[m + 1] = a[i]
      BY <2>1 DEF Among
    <2>3. i \in 1..n /\ i < m + 1 /\ b[i] \in Int
      BY <1>3
    <2>4. b[i] > b[m + 1] /\ a[i] = b[i]
      BY <1>2, <2>1, <2>3 DEF Falls
    <2> QED
      BY <2>2, <2>3, <2>4
  <1>4. ASSUME n < m
        PROVE  FALSE
    <2>1. n + 1 \in 1..m
      BY <1>4
    <2>2. PICK j \in 1..n : a[n + 1] = b[j]
      BY <2>1 DEF Among
    <2>3. j \in 1..m /\ j < n + 1 /\ a[j] \in Int
      BY <1>4
    <2>4. a[j] > a[n + 1] /\ a[j] = b[j]
      BY <1>2, <2>1, <2>3 DEF Falls
    <2> QED
      BY <2>2, <2>3, <2>4
  <1>5. m = n
    BY <1>3, <1>4
  <1> QED
    BY <1>2, <1>5 DEF SameNumbers

\* The alphas of r are among those of s.
AlphasAmong(r, s) == \A i \in DOMAIN r : \E j \in DOMAIN s : r[i].alpha = s[j].alpha

LEMMA DescendingAgree ==
    ASSUME NEW r \in Seq(Level), NEW s \in Seq(Level),
           StrictlyDescending(r), StrictlyDescending(s), AlphasAmong(r, s), AlphasAmong(s, r)
    PROVE  Len(r) = Len(s) /\ \A k \in DOMAIN r : r[k].alpha = s[k].alpha
  <1> DEFINE lenR == Len(r)
             lenS == Len(s)
             ofR == [k \in 1..lenR |-> r[k].alpha]
             ofS == [k \in 1..lenS |-> s[k].alpha]
  <1>1. /\ lenR \in Nat /\ DOMAIN r = 1..lenR
        /\ lenS \in Nat /\ DOMAIN s = 1..lenS
        /\ \A k \in 1..lenR : r[k].alpha \in Int
        /\ \A k \in 1..lenS : s[k].alpha \in Int
    BY LevelAlphaIsInt
  <1> HIDE DEF lenR, lenS
  <1>2. Falls(lenR, ofR) /\ Falls(lenS, ofS)
    BY <1>1 DEF Falls, StrictlyDescending
  <1>3. ofR \in [1..lenR -> Int] /\ ofS \in [1..lenS -> Int]
    BY <1>1
  <1>4. /\ \A k \in 1..lenR : ofR[k] = r[k].alpha
        /\ \A k \in 1..lenS : ofS[k] = s[k].alpha
    OBVIOUS
  <1> HIDE DEF ofR, ofS
  <1>5. Among(lenR, ofR, lenS, ofS) /\ Among(lenS, ofS, lenR, ofR)
    <2>1. ASSUME NEW i \in 1..lenR
          PROVE  \E j \in 1..lenS : ofR[i] = ofS[j]
      <3>1. PICK j \in 1..lenS : r[i].alpha = s[j].alpha
        BY <1>1 DEF AlphasAmong
      <3> QED
        BY <1>4, <3>1
    <2>2. ASSUME NEW j \in 1..lenS
          PROVE  \E i \in 1..lenR : ofS[j] = ofR[i]
      <3>1. PICK i \in 1..lenR : s[j].alpha = r[i].alpha
        BY <1>1 DEF AlphasAmong
      <3> QED
        BY <1>4, <3>1
    <2> QED
      BY <2>1, <2>2 DEF Among
  <1>6. SameNumbers(lenR, ofR, lenS, ofS)
    BY <1>1, <1>2, <1>3, <1>5, FallingAgree
  <1> QED
    BY <1>1, <1>4, <1>6 DEF lenR, lenS, SameNumbers

\* Each level of a value is the highest one somewhere.
LEMMA LevelIsReached ==
    ASSUME NEW v \in Operand, NEW k \in DOMAIN v.levels
    PROVE  \E p \in Interior : MembershipAt(v, p) = v.levels[k].alpha
  <1>1. /\ DOMAIN v.levels = 1..Len(v.levels) /\ Len(v.levels) \in Nat
        /\ \A i, j \in DOMAIN v.levels : i < j => v.levels[i].alpha > v.levels[j].alpha
        /\ \A i \in DOMAIN v.levels : v.levels[i].alpha \in Int /\ v.levels[i].alpha \in 1..One
    BY OperandFacts DEF StrictlyDescending
  <1>2. PICK p \in Interior :
            /\ CoversPlace(v.levels[k].geometry, p)
            /\ k # 1 => ~CoversPlace(v.levels[k - 1].geometry, p)
    <2>1. CASE k = 1
      BY <2>1, OperandLevel, ExactOverlayAssumption
    <2>2. CASE k # 1
      <3> DEFINE g == v.levels[k].geometry
                 h == v.levels[k - 1].geometry
      <3>1. k - 1 \in DOMAIN v.levels /\ k - 1 < k
        BY <1>1, <2>2
      <3>2. Covers(g, h) /\ ~TopoEquals(g, h)
        BY <3>1 DEF Operand, Canonical, StrictlyNested
      <3>3. g \in Extent /\ h \in Extent /\ SameSrid(g, h) /\ SameSrid(h, g)
        BY <3>1, OperandLevel DEF SameSrid
      <3> HIDE DEF g, h
      <3>4. ~Covers(h, g)
        BY <3>2, <3>3, CoversAssumption
      <3>5. \E q \in Interior : CoversPlace(g, q) /\ ~CoversPlace(h, q)
        BY <3>3, <3>4, ExactOverlayAssumption
      <3> QED
        BY <3>5 DEF g, h
    <2> QED
      BY <2>1, <2>2
  <1> DEFINE mu == MembershipAt(v, p)
  <1>3. p \in Place
    BY ValuesAssumption
  <1>4. v.levels[k].alpha <= mu /\ mu \in 0..One
    BY <1>2, <1>3, LevelCovers, MembershipIsAlpha
  <1>5. PICK j \in DOMAIN v.levels : v.levels[j].alpha = mu
    <2>1. mu # 0
      BY <1>1, <1>4
    <2> QED
      BY <1>3, <2>1, MembershipIsAlpha
  <1> HIDE DEF mu
  <1>6. ~(j < k)
    <2> SUFFICES ASSUME j < k
                 PROVE  FALSE
      OBVIOUS
    <2>1. k - 1 \in DOMAIN v.levels /\ k # 1 /\ (j = k - 1 \/ j < k - 1)
      BY <1>1
    <2>2. v.levels[k - 1].alpha <= mu
      BY <1>1, <1>5, <2>1
    <2> QED
      BY <1>2, <1>3, <2>1, <2>2, LevelCovers DEF mu
  <1>7. j = k
    <2> SUFFICES ASSUME k < j
                 PROVE  FALSE
      BY <1>1, <1>6
    <2>1. v.levels[k].alpha > v.levels[j].alpha
      BY <1>1
    <2> QED
      BY <1>1, <1>4, <1>5, <2>1
  <1> QED
    BY <1>5, <1>7 DEF mu

LEMMA MembershipDetermines ==
    ASSUME NEW v \in Operand, NEW w \in Operand, v.srid = w.srid,
           \A p \in Interior : MembershipAt(v, p) = MembershipAt(w, p)
    PROVE  SameFuzzySet(v, w)
  <1>1. ASSUME NEW x \in Operand, NEW y \in Operand, NEW k \in DOMAIN x.levels,
               \A p \in Interior : MembershipAt(x, p) = MembershipAt(y, p)
        PROVE  \E j \in DOMAIN y.levels : x.levels[k].alpha = y.levels[j].alpha
    <2>1. PICK p \in Interior : MembershipAt(x, p) = x.levels[k].alpha
      BY LevelIsReached
    <2>2. p \in Place /\ MembershipAt(y, p) = x.levels[k].alpha
      BY <1>1, <2>1, ValuesAssumption
    <2>3. x.levels[k].alpha # 0
      BY OperandFacts
    <2> QED
      BY <2>2, <2>3, MembershipIsAlpha
  <1>2. /\ v.levels \in Seq(Level) /\ StrictlyDescending(v.levels)
        /\ w.levels \in Seq(Level) /\ StrictlyDescending(w.levels)
        /\ DOMAIN v.levels = 1..Len(v.levels) /\ DOMAIN w.levels = 1..Len(w.levels)
    BY OperandFacts
  <1>3. AlphasAmong(v.levels, w.levels)
    BY <1>1 DEF AlphasAmong
  <1>4. AlphasAmong(w.levels, v.levels)
    <2>1. \A p \in Interior : MembershipAt(w, p) = MembershipAt(v, p)
      OBVIOUS
    <2> QED
      BY <1>1, <2>1 DEF AlphasAmong
  <1>5. /\ Len(v.levels) = Len(w.levels)
        /\ \A k \in DOMAIN v.levels : v.levels[k].alpha = w.levels[k].alpha
    BY <1>2, <1>3, <1>4, DescendingAgree
  <1>6. ASSUME NEW k \in DOMAIN v.levels
        PROVE  /\ v.levels[k].alpha = w.levels[k].alpha
               /\ TopoEquals(v.levels[k].geometry, w.levels[k].geometry)
    <2>1. k \in DOMAIN w.levels
      BY <1>2, <1>5
    <2>2. v.levels[k].alpha = w.levels[k].alpha
      BY <1>5
    <2>3. /\ v.levels[k].geometry \in Extent /\ w.levels[k].geometry \in Extent
          /\ SameSrid(v.levels[k].geometry, w.levels[k].geometry)
      BY <2>1, OperandLevel DEF SameSrid
    <2>4. ASSUME NEW p \in Interior
          PROVE  CoversPlace(v.levels[k].geometry, p) <=> CoversPlace(w.levels[k].geometry, p)
      <3>1. p \in Place /\ MembershipAt(v, p) = MembershipAt(w, p)
        BY ValuesAssumption
      <3> QED
        BY <2>1, <2>2, <3>1, LevelCovers
    <2> QED
      BY <2>2, <2>3, <2>4, SamePlaces
  <1> QED
    BY <1>5, <1>6 DEF SameFuzzySet

\* The membership in an outcome reaches the thresholds that the operation's
\* function of the memberships in the operands reaches.
LEMMA OutcomeReaches ==
    ASSUME NEW v \in Operand, NEW w \in Operand, NEW o \in Operations, CompatibleSrid(v, w),
           NEW p \in Interior, NEW t \in AlphaDomain(v, w)
    PROVE  LET mu == MembershipAt(SetOperationOutcome(o, v, w).value, p)
           IN /\ mu >= t <=> Reaches(o, MembershipAt(v, p), MembershipAt(w, p), t)
              /\ mu # 0 => mu \in AlphaDomain(v, w)
  <1> DEFINE x == SetOperationOutcome(o, v, w).value
             S == GatheredLevels(o, v, w)
             mu == MembershipAt(x, p)
             muLeft == MembershipAt(v, p)
             muRight == MembershipAt(w, p)
  <1>1. x \in Operand /\ ToSet(x.levels) = {Representative(S, l) : l \in S}
    <2>1. SetOperationOutcome(o, v, w).kind = "Ok"
      BY OutcomeIsAccepted DEF Accepted
    <2> QED
      BY <2>1, OutcomeIsAccepted, SetOutcomeIsOperand
  <1>2. /\ S \in SUBSET CanonicalLevel
        /\ \A l \in S : /\ l.alpha \in AlphaDomain(v, w)
                        /\ l \in ThresholdLevels(o, v, w, l.alpha)
    BY GatheredSort
  <1>3. AlphaDomain(v, w) \subseteq Alpha
    BY OperandFacts DEF AlphaDomain, ToSet
  <1>4. p \in Place /\ CoversEnough(o, p) /\ CoversNoMore(o, p)
    BY ValuesAssumption DEF CoversEnough, CoversNoMore
  <1>5. muLeft \in Int /\ muRight \in Int /\ mu \in 0..One
    BY <1>1, <1>4, MembershipIsAlpha, AlphaAssumption
  <1> HIDE DEF x, S, mu, muLeft, muRight
  <1>6. mu # 0 => \E l \in S : l.alpha = mu /\ CoversPlace(l.geometry, p)
    <2> SUFFICES ASSUME mu # 0
                 PROVE  \E l \in S : l.alpha = mu /\ CoversPlace(l.geometry, p)
      OBVIOUS
    <2>1. PICK k \in DOMAIN x.levels : x.levels[k].alpha = mu
      BY <1>1, <1>4, MembershipIsAlpha DEF mu
    <2>2. CoversPlace(x.levels[k].geometry, p)
      <3>1. x.levels[k].alpha <= mu
        BY <1>5, <2>1
      <3> QED
        BY <1>1, <1>4, <3>1, LevelCovers DEF mu
    <2>3. x.levels[k] \in S
      <3>1. x.levels[k] \in ToSet(x.levels)
        BY DEF ToSet
      <3> QED
        BY <1>1, <1>2, <3>1, RepresentativeStands
    <2> QED
      BY <2>1, <2>2, <2>3
  <1>7. ASSUME mu >= t
        PROVE  Reaches(o, muLeft, muRight, t)
    <2>1. t \in Alpha /\ t \in 1..One
      BY <1>3, AlphaAssumption
    <2>2. mu # 0
      BY <1>7, <2>1
    <2>3. PICK l \in S : l.alpha = mu /\ CoversPlace(l.geometry, p)
      BY <1>6, <2>2
    <2>4. mu \in Alpha /\ l \in ThresholdLevels(o, v, w, mu)
      BY <1>2, <1>3, <2>3
    <2>5. Reaches(o, muLeft, muRight, mu)
      BY <1>4, <2>3, <2>4, ThresholdCovers DEF muLeft, muRight
    <2>6. t <= mu
      BY <1>5, <1>7, <2>1
    <2> QED
      BY <1>5, <2>1, <2>4, <2>5, <2>6, LowerIsReached
  <1>8. ASSUME Reaches(o, muLeft, muRight, t)
        PROVE  mu >= t
    <2>1. t \in Alpha
      BY <1>3
    <2>2. PICK l \in ThresholdLevels(o, v, w, t) : CoversPlace(l.geometry, p)
      BY <1>4, <1>8, <2>1, ThresholdCovers DEF muLeft, muRight
    <2>3. l \in S /\ l.alpha = t
      BY <2>1, <2>2, ThresholdLevelType DEF S, GatheredLevels
    <2> DEFINE k == Representative(S, l)
    <2>4. k \in S /\ TopoEquals(k.geometry, l.geometry)
      BY <1>2, <2>3, RepresentativeStands
    <2>5. k.alpha >= l.alpha
      <3>1. TopoEquals(l.geometry, l.geometry)
        BY <1>2, <2>3, ExtentCoversItself DEF CanonicalLevel
      <3> QED
        BY <1>2, <2>3, <3>1, RepresentativeStands
    <2>6. k \in ToSet(x.levels)
      BY <1>1, <2>3
    <2> HIDE DEF k
    <2>7. CoversPlace(k.geometry, p)
      <3>1. /\ k.geometry \in Extent /\ l.geometry \in Extent
            /\ SameSrid(k.geometry, l.geometry)
        BY <1>2, <2>3, <2>4, GatheredSort DEF S, SameSrid, CanonicalLevel
      <3>2. Covers(k.geometry, l.geometry)
        BY <2>4, <3>1, CoversAssumption
      <3> QED
        BY <1>4, <2>2, <3>1, <3>2, PlaceAssumption
    <2>8. PICK i \in DOMAIN x.levels : x.levels[i] = k
      BY <2>6 DEF ToSet
    <2>9. k.alpha <= mu
      BY <1>1, <1>4, <2>7, <2>8, LevelCovers DEF mu
    <2>10. k.alpha \in Int /\ t \in Int
      <3>1. \A a \in Alpha : a \in Int
        BY AlphaAssumption
      <3> QED
        BY <1>2, <1>3, <2>1, <2>4, <3>1
    <2> QED
      BY <1>5, <2>3, <2>5, <2>9, <2>10
  <1>9. mu # 0 => mu \in AlphaDomain(v, w)
    BY <1>2, <1>6
  <1> QED
    BY <1>7, <1>8, <1>9 DEF mu, muLeft, muRight, x

\* Union and intersection of two stored values, place by place.
LEMMA SetFunctionMembership ==
    ASSUME NEW a \in Operand, NEW b \in Operand, NEW o \in {"union", "intersection"},
           SetFunction(o, a, b).kind = "Ok", NEW p \in Interior
    PROVE  LET muA == MembershipAt(a, p)
               muB == MembershipAt(b, p)
               mu == MembershipAt(SetFunction(o, a, b).value, p)
           IN /\ o = "union" => mu = -Smaller(-muA, -muB)
              /\ o = "intersection" => mu = Smaller(muA, muB)
  <1> DEFINE v == Read(a)
             w == Read(b)
             result == SetOperationOutcome(o, v, w)
             muA == MembershipAt(a, p)
             muB == MembershipAt(b, p)
             mu == MembershipAt(result.value, p)
             S == AlphaDomain(v, w)
  <1>1. o \in Operations /\ p \in Place
    BY ValuesAssumption DEF Operations
  <1>2. /\ v \in Operand /\ w \in Operand
        /\ MembershipAt(v, p) = muA /\ MembershipAt(w, p) = muB
    BY ReadIsOperand DEF MembershipAt
  <1>3. SetFunction(o, a, b) = AndThen(result, FromDomain)
    BY SetFunctionIs
  <1> HIDE DEF v, w
  <1>4. CompatibleSrid(v, w)
    <2> SUFFICES ASSUME ~CompatibleSrid(v, w)
                 PROVE  FALSE
      OBVIOUS
    <2>1. result.kind = "MixedOperandSrid"
      BY DEF SetOperationOutcome, Rejected
    <2> HIDE DEF result
    <2> QED
      BY <1>3, <2>1 DEF AndThen
  <1>5. result = Accepted(result.value) /\ result.value \in Operand
    <2>1. result = Accepted(result.value)
      BY <1>1, <1>2, <1>4, OutcomeIsAccepted
    <2>2. result.kind = "Ok"
      BY <2>1 DEF Accepted
    <2> QED
      BY <1>1, <1>2, <2>1, <2>2, SetOutcomeIsOperand
  <1>6. SetFunction(o, a, b).value = result.value
    <2> HIDE DEF result
    <2>1. result.kind = "Ok"
      BY <1>5 DEF Accepted
    <2>2. NewStored(result.value) = Accepted(result.value)
      BY <1>5, OperandIsEncoded
    <2> QED
      BY <1>3, <2>1, <2>2 DEF AndThen, FromDomain, Accepted
  <1>7. /\ muA \in 0..One /\ muB \in 0..One /\ mu \in 0..One
        /\ muA # 0 => muA \in S
        /\ muB # 0 => muB \in S
    BY <1>1, <1>2, <1>5, MembershipIsAlpha DEF AlphaDomain, ToSet
  <1>8. /\ \A t \in S : mu >= t <=> Reaches(o, muA, muB, t)
        /\ S # {} /\ mu # 0 => mu \in S
    BY <1>1, <1>2, <1>4, OutcomeReaches
  <1>9. S = {} => mu = 0
    <2> SUFFICES ASSUME S = {}
                 PROVE  mu = 0
      OBVIOUS
    <2>1. result.value = EmptyValue(CommonSrid(v, w))
      BY <1>1, <1>2, <1>4, OutcomeIsAccepted
    <2> HIDE DEF result
    <2>2. result.value.levels = <<>>
      BY <2>1 DEF EmptyValue
    <2> QED
      BY <1>1, <1>5, <2>2, MembershipIsAlpha
  <1> HIDE DEF muA, muB, mu, S
  <1>10. muA \in Int /\ muB \in Int /\ mu \in Int /\ muA >= 0 /\ muB >= 0 /\ mu >= 0
    BY <1>7, AlphaAssumption
  <1>11. CASE o = "union"
    <2>1. \A t \in S : muA >= t \/ muB >= t => t <= mu
      <3> SUFFICES ASSUME NEW t \in S, muA >= t \/ muB >= t
                   PROVE  t <= mu
        OBVIOUS
      <3>1. mu >= t
        BY <1>8, <1>11 DEF Reaches
      <3>2. t \in Int
        BY <1>2, OperandFacts DEF S, AlphaDomain, ToSet
      <3> QED
        BY <1>10, <3>1, <3>2
    <2>2. mu = 0 \/ muA >= mu \/ muB >= mu
      <3> SUFFICES ASSUME mu # 0
                   PROVE  muA >= mu \/ muB >= mu
        OBVIOUS
      <3>1. mu \in S /\ mu >= mu
        BY <1>8, <1>9, <1>10
      <3> QED
        BY <1>8, <1>11, <3>1 DEF Reaches
    <2>3. mu = -Smaller(-muA, -muB)
      BY <1>7, <1>10, <2>1, <2>2, LargestReached
    <2> QED
      BY <1>6, <1>11, <2>3 DEF mu, muA, muB
  <1>12. CASE o = "intersection"
    <2>1. \A t \in S : muA >= t /\ muB >= t => t <= mu
      <3> SUFFICES ASSUME NEW t \in S, muA >= t /\ muB >= t
                   PROVE  t <= mu
        OBVIOUS
      <3>1. mu >= t
        BY <1>8, <1>12 DEF Reaches
      <3>2. t \in Int
        BY <1>2, OperandFacts DEF S, AlphaDomain, ToSet
      <3> QED
        BY <1>10, <3>1, <3>2
    <2>2. mu = 0 \/ (muA >= mu /\ muB >= mu)
      <3> SUFFICES ASSUME mu # 0
                   PROVE  muA >= mu /\ muB >= mu
        OBVIOUS
      <3>1. mu \in S /\ mu >= mu
        BY <1>8, <1>9, <1>10
      <3> QED
        BY <1>8, <1>12, <3>1 DEF Reaches
    <2>3. muA # 0 => muA \in S
      BY <1>7
    <2>4. muB # 0 => muB \in S
      BY <1>7
    <2>5. mu = Smaller(muA, muB)
      BY <1>10, <2>1, <2>2, <2>3, <2>4, LargestReached
    <2> QED
      BY <1>6, <1>12, <2>5 DEF mu, muA, muB
  <1> QED
    BY <1>11, <1>12

LEMMA Absorption ==
    ASSUME NEW a \in Int, NEW b \in Int
    PROVE  /\ Smaller(a, b) = Smaller(b, a)
           /\ Smaller(-a, -b) = Smaller(-b, -a)
           /\ -Smaller(-a, -Smaller(a, b)) = a
           /\ Smaller(a, -Smaller(-a, -b)) = a
  BY DEF Smaller

LEMMA LatticeOfOperands ==
    ASSUME NEW v \in Operand, NEW w \in Operand, v.levels # <<>>, w.levels # <<>>, v.srid = w.srid
    PROVE  LET Join(x, y) == SetFunction("union", x, y).value
               Meet(x, y) == SetFunction("intersection", x, y).value
           IN /\ SameFuzzySet(Join(v, w), Join(w, v))
              /\ SameFuzzySet(Meet(v, w), Meet(w, v))
              /\ SameFuzzySet(Join(v, Meet(v, w)), v)
              /\ SameFuzzySet(Meet(v, Join(v, w)), v)
  <1> DEFINE Join(x, y) == SetFunction("union", x, y).value
             Meet(x, y) == SetFunction("intersection", x, y).value
             Mu(x, p) == MembershipAt(x, p)
  <1>1. "union" \in Operations /\ "intersection" \in Operations
    BY DEF Operations
  <1>2. ASSUME NEW x \in Operand, NEW y \in Operand,
               x.levels # <<>>, y.levels = <<>> \/ x.srid = y.srid
        PROVE  /\ SetFunction("union", x, y).kind = "Ok"
               /\ SetFunction("intersection", x, y).kind = "Ok"
               /\ Join(x, y) \in Operand /\ Join(x, y).srid = x.srid
               /\ Meet(x, y) \in Operand /\ Meet(x, y).srid = x.srid
    BY <1>1, <1>2, SetFunctionSrid, SetFunctionIsOperand
  <1>3. ASSUME NEW x \in Operand, NEW y \in Operand, NEW p \in Interior,
               x.levels # <<>>, y.levels = <<>> \/ x.srid = y.srid
        PROVE  /\ Mu(Join(x, y), p) = -Smaller(-Mu(x, p), -Mu(y, p))
               /\ Mu(Meet(x, y), p) = Smaller(Mu(x, p), Mu(y, p))
    BY <1>2, <1>3, SetFunctionMembership
  <1>4. ASSUME NEW x \in Operand, NEW p \in Interior
        PROVE  Mu(x, p) \in Int
    BY ValuesAssumption, MembershipIsAlpha, AlphaAssumption
  <1>5. /\ Join(v, w) \in Operand /\ Join(v, w).srid = v.srid
        /\ Meet(v, w) \in Operand /\ Meet(v, w).srid = v.srid
        /\ Join(w, v) \in Operand /\ Join(w, v).srid = v.srid
        /\ Meet(w, v) \in Operand /\ Meet(w, v).srid = v.srid
    BY <1>2
  <1>6. /\ Join(v, Meet(v, w)) \in Operand /\ Join(v, Meet(v, w)).srid = v.srid
        /\ Meet(v, Join(v, w)) \in Operand /\ Meet(v, Join(v, w)).srid = v.srid
    BY <1>2, <1>5
  <1> HIDE DEF Join, Meet, Mu
  <1>7. ASSUME NEW p \in Interior
        PROVE  /\ Mu(Join(v, w), p) = Mu(Join(w, v), p)
               /\ Mu(Meet(v, w), p) = Mu(Meet(w, v), p)
               /\ Mu(Join(v, Meet(v, w)), p) = Mu(v, p)
               /\ Mu(Meet(v, Join(v, w)), p) = Mu(v, p)
    <2>1. /\ Mu(Join(v, w), p) = -Smaller(-Mu(v, p), -Mu(w, p))
          /\ Mu(Join(w, v), p) = -Smaller(-Mu(w, p), -Mu(v, p))
          /\ Mu(Meet(v, w), p) = Smaller(Mu(v, p), Mu(w, p))
          /\ Mu(Meet(w, v), p) = Smaller(Mu(w, p), Mu(v, p))
      BY <1>3
    <2>2. /\ Mu(Join(v, Meet(v, w)), p) = -Smaller(-Mu(v, p), -Mu(Meet(v, w), p))
          /\ Mu(Meet(v, Join(v, w)), p) = Smaller(Mu(v, p), Mu(Join(v, w), p))
      BY <1>3, <1>5
    <2> QED
      BY <1>4, <2>1, <2>2, Absorption
  <1>8. /\ SameFuzzySet(Join(v, w), Join(w, v))
        /\ SameFuzzySet(Meet(v, w), Meet(w, v))
        /\ SameFuzzySet(Join(v, Meet(v, w)), v)
        /\ SameFuzzySet(Meet(v, Join(v, w)), v)
    BY <1>5, <1>6, <1>7, MembershipDetermines DEF Mu
  <1> QED
    BY <1>8 DEF Join, Meet

\* Union and intersection of any two rows of one SRID commute and absorb each
\* other, level by level: with exact overlays no level is lost, doubled or given
\* another alpha by the cutting, the overlays and the canonicalization on the way.
THEOREM LatticeLawsHold == ExtSpec => []LatticeLaws
  <1>1. TableInv => LatticeLaws
    <2> SUFFICES ASSUME TableInv, NEW a \in NonEmpty, NEW b \in NonEmpty,
                        Stored(a).srid = Stored(b).srid
                 PROVE  LET Join(x, y) == SetFunction("union", x, y).value
                            Meet(x, y) == SetFunction("intersection", x, y).value
                            v == Stored(a)
                            w == Stored(b)
                        IN /\ SameFuzzySet(Join(v, w), Join(w, v))
                           /\ SameFuzzySet(Meet(v, w), Meet(w, v))
                           /\ SameFuzzySet(Join(v, Meet(v, w)), v)
                           /\ SameFuzzySet(Meet(v, Join(v, w)), v)
      BY Zenon DEF LatticeLaws
    <2>1. /\ a \in Filled /\ Stored(a).levels # <<>>
          /\ b \in Filled /\ Stored(b).levels # <<>>
      BY DEF NonEmpty
    <2>2. Stored(a) \in Operand /\ Stored(b) \in Operand
      BY <2>1, StoredIsOperand
    <2> QED
      BY <2>1, <2>2, LatticeOfOperands
  <1> QED
    BY TableInvariant, <1>1, PTL
=============================================================================
