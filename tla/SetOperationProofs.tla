-------------------------- MODULE SetOperationProofs --------------------------
(***************************************************************************)
(* Theorems about Canonicalization, and about SetOperation, which runs it. *)
(*                                                                         *)
(* Canonicalization: for every geometry engine that meets the assumptions  *)
(* of GeometryEngine, every set of alphas and every input: the safety of   *)
(* the loops first, then that canonicalize implements its contract, i.e.   *)
(* that the answer of the loops is the function CanonicalOutcome of the    *)
(* raw levels, or the error of an engine call.  The argument for the       *)
(* contract: the sorted levels are the given ones, so the scan for         *)
(* duplicates and the SRID loop meet the highest defect first.  The kept   *)
(* levels stand for the sorted ones, each at the last place above it; up   *)
(* to its cursor the nesting loop has shown the kept levels, and so the    *)
(* given ones they stand for, to nest, and the neighbour it stops at is    *)
(* the highest given level that fails to contain one above it.             *)
(*                                                                         *)
(* SetOperation: for every such engine, of whose overlays nothing is       *)
(* assumed, and for all canonical operands.  The call of canonicalize in   *)
(* it is the machine of Canonicalization, so the invariant CanonInv is a   *)
(* part of the invariant here.  The steps are lemmas about any canonical   *)
(* operands, so that SqlCallProofs can cite them of the values a statement *)
(* has read.  SetInv says what the gathered levels are good for, LoopInv   *)
(* which they are: what the visited alphas contribute.  With the contract  *)
(* of canonicalize LoopInv makes the call the function SetOperationOutcome.*)
(***************************************************************************)
EXTENDS SetOperation, FuzzyregionProofs

-----------------------------------------------------------------------------
\* The inductive invariant.

SortedLoops == {"duplicates", "srid", "collapse", "nest"}

\* Until the call returns there is no outcome.
OutcomeInv == pc # "done" => outcome = Pending

\* The first loop has normalized the levels before its cursor.
NormalizeInv ==
    /\ pc = "idle" => raw = <<>> /\ cursor = 1 /\ levels = <<>>
    /\ pc \in {"idle", "normalize"} =>
           /\ Len(levels) = cursor - 1
           /\ Len(levels) <= Len(raw)
           /\ \A k \in DOMAIN levels : levels[k] = NormalizedLevel(raw[k])
    /\ pc \in {"idle", "normalize", "duplicates", "srid"} => kept = <<>>

\* Sorting lost no level, added none, and put higher alphas first.
SortInv ==
    pc \in SortedLoops =>
        /\ levels # <<>>
        /\ \A k \in DOMAIN raw : \E j \in DOMAIN levels : levels[j] = NormalizedLevel(raw[k])
        /\ \A j \in DOMAIN levels : \E k \in DOMAIN raw : levels[j] = NormalizedLevel(raw[k])
        /\ \A i, j \in DOMAIN levels : i < j => levels[i].alpha >= levels[j].alpha

DuplicateInv == pc \in {"srid", "collapse", "nest"} => StrictlyDescending(levels)

SridUpTo(n) ==
    \A k \in DOMAIN levels : k <= n => SameSrid(levels[k].geometry, levels[1].geometry)

SridInv ==
    /\ pc = "srid" => SridUpTo(cursor - 1)
    /\ pc \in {"collapse", "nest"} => SridUpTo(Len(levels))

\* The kept level m stands for the level l: it has its extent, and is the last of
\* the kept ones that are not below it.
Stands(ks, m, l) ==
    /\ ks[m].alpha >= l.alpha
    /\ TopoEquals(ks[m].geometry, l.geometry)
    /\ \A h \in DOMAIN ks : ks[h].alpha >= l.alpha => h <= m

\* The kept levels ks stand for the first n of the levels ls.
StandsFor(ks, ls, n) ==
    /\ \A m \in DOMAIN ks : \E k \in DOMAIN ls : k <= n /\ ks[m] = ls[k]
    /\ \A k \in DOMAIN ls : k <= n => \E m \in DOMAIN ks : Stands(ks, m, ls[k])
    /\ StrictlyDescending(ks)
    /\ \A m \in DOMAIN ks :
           m + 1 \in DOMAIN ks => ~TopoEquals(ks[m].geometry, ks[m + 1].geometry)

CollapseInv ==
    /\ pc = "collapse" => cursor <= Len(levels) + 1 /\ StandsFor(kept, levels, cursor - 1)
    /\ pc = "nest" => StandsFor(kept, levels, Len(levels))

NestingInv == pc = "nest" => NestedUpTo(kept, cursor)

CanonInv ==
    /\ TypeOK
    /\ OutcomeInv
    /\ NormalizeInv
    /\ SortInv
    /\ DuplicateInv
    /\ SridInv
    /\ CollapseInv
    /\ NestingInv
    /\ ResultCanonical
    /\ MembershipPreserved

-----------------------------------------------------------------------------
\* Type correctness.

LEMMA InitType == CanonInit => TypeOK
  BY DEF CanonInit, TypeOK, Pending

\* Each action keeps the types; that Accept builds a value needs SortInv, which
\* knows there is a first level to take the SRID from.
LEMMA TypeStep ==
    ASSUME TypeOK, OutcomeInv, SortInv, [Next]_canonVars
    PROVE  TypeOK'
  <1> USE DEF TypeOK, Enter, Advance, Return, Rejected
  <1>1. CASE UNCHANGED canonVars
    BY <1>1 DEF canonVars
  <1>2. ASSUME NEW input \in Inputs, Call(input)
        PROVE  TypeOK'
    BY <1>2, InputsAssumption DEF Call
  <1>3. CASE NormalizeLevel
    <2> DEFINE level == NormalizedLevel(raw[cursor])
    <2>1. CASE IsEmpty(level.geometry)
      BY <1>3, <2>1 DEF NormalizeLevel
    <2>2. CASE ~IsEmpty(level.geometry)
      <3>1. raw[cursor] \in Level
        BY <1>3 DEF NormalizeLevel
      <3>2. level.geometry = Normalize(raw[cursor].geometry)
        BY <3>1 DEF NormalizedLevel, Level
      <3>3. level \in CanonicalLevel
        BY <2>2, <3>1, <3>2, NormalizedLevelType
      <3>4. /\ levels' = Append(levels, level)
            /\ cursor' = cursor + 1
            /\ UNCHANGED <<pc, raw, kept, outcome>>
        BY <1>3, <2>2 DEF NormalizeLevel
      <3> QED
        BY <3>3, <3>4
    <2> QED
      BY <2>1, <2>2
  <1>4. CASE AcceptEmpty
    BY <1>4, EmptyValueType DEF AcceptEmpty, Accepted
  <1>5. CASE SortLevels
    <2>1. PICK order \in Bijection(DOMAIN levels, DOMAIN levels) :
              levels' = [i \in DOMAIN levels |-> levels[order[i]]]
      BY <1>5 DEF SortLevels
    <2>2. order \in [1..Len(levels) -> 1..Len(levels)]
      <3>1. order \in [DOMAIN levels -> DOMAIN levels]
        BY BijectionOntoItself
      <3> QED
        BY <3>1, SMTT(40)
    <2>3. levels' \in Seq(CanonicalLevel)
      BY <2>1, <2>2, SMTT(40)
    <2> QED
      BY <1>5, <2>3 DEF SortLevels
  <1>6. CASE CheckDuplicates
    BY <1>6 DEF CheckDuplicates
  <1>7. CASE CheckSrid
    BY <1>7 DEF CheckSrid
  <1>8. CASE StartCollapse
    BY <1>8 DEF StartCollapse
  <1>9. CASE CollapseLevel
    <2>1. levels[cursor] \in CanonicalLevel
      BY <1>9 DEF CollapseLevel
    <2>2. kept' \in Seq(CanonicalLevel)
      BY <1>9, <2>1 DEF CollapseLevel
    <2> QED
      BY <1>9, <2>2 DEF CollapseLevel
  <1>10. CASE StartNesting
    BY <1>10 DEF StartNesting
  <1>11. CASE CheckNesting
    BY <1>11 DEF CheckNesting
  <1>12. CASE Accept
    <2>1. 1 \in DOMAIN levels /\ levels[1] \in CanonicalLevel
      BY <1>12 DEF Accept, SortInv, SortedLoops
    <2>2. SridOf(levels[1].geometry) \in Srid
      BY <2>1, NormalizeAssumption DEF CanonicalLevel, Extent
    <2>3. outcome'.value \in FuzzyValue
      BY <1>12, <2>2, CanonicalLevelIsLevel DEF Accept, Accepted, FuzzyValue
    <2> QED
      BY <1>12, <2>3 DEF Accept
  <1>13. CASE EngineFailure
    BY <1>13 DEF EngineFailure
  <1>14. CASE pc = "done" /\ UNCHANGED canonVars
    BY <1>14 DEF canonVars
  <1> QED
    BY <1>1, <1>2, <1>3, <1>4, <1>5, <1>6, <1>7, <1>8, <1>9, <1>10, <1>11, <1>12, <1>13, <1>14
    DEF Next, CanonStep

-----------------------------------------------------------------------------
\* The first loop, and the variables the later loops have not touched yet.

LEMMA NormalizeStep ==
    ASSUME TypeOK, OutcomeInv, NormalizeInv, [Next]_canonVars
    PROVE  OutcomeInv' /\ NormalizeInv'
  <1> USE DEF OutcomeInv, NormalizeInv, Enter, Advance, Return, TypeOK
  <1>1. CASE UNCHANGED canonVars
    BY <1>1 DEF canonVars
  <1>2. ASSUME NEW input \in Inputs, Call(input)
        PROVE  OutcomeInv' /\ NormalizeInv'
    <2>1. input \in Seq(Level)
      BY InputsAssumption
    <2> QED
      BY <1>2, <2>1 DEF Call
  <1>3. CASE NormalizeLevel
    <2> DEFINE level == NormalizedLevel(raw[cursor])
    <2>1. CASE IsEmpty(level.geometry)
      BY <1>3, <2>1 DEF NormalizeLevel
    <2>2. CASE ~IsEmpty(level.geometry)
      <3>1. /\ pc = "normalize" /\ cursor \in 1..Len(raw)
            /\ levels' = Append(levels, NormalizedLevel(raw[cursor]))
            /\ cursor' = cursor + 1
            /\ UNCHANGED <<pc, raw, kept, outcome>>
        BY <1>3, <2>2 DEF NormalizeLevel
      <3>2. Len(levels) = cursor - 1 /\ cursor \in Nat
        BY <3>1
      <3>3. Len(levels') = cursor' - 1 /\ Len(levels') <= Len(raw')
        BY <3>1, <3>2
      <3>4. \A k \in DOMAIN levels' : levels'[k] = NormalizedLevel(raw'[k])
        <4>1. \A k \in 1..Len(levels) : levels'[k] = levels[k]
          BY <3>1
        <4>2. levels'[cursor] = NormalizedLevel(raw[cursor])
          BY <3>1, <3>2
        <4>3. DOMAIN levels' = 1..cursor
          BY <3>1, <3>2
        <4>4. ASSUME NEW k \in 1..cursor
              PROVE  levels'[k] = NormalizedLevel(raw[k])
          <5>1. CASE k = cursor
            BY <4>2, <5>1
          <5>2. CASE k # cursor
            BY <3>1, <3>2, <4>1, <5>2
          <5> QED
            BY <5>1, <5>2
        <4> QED
          BY <3>1, <4>3, <4>4
      <3> QED
        BY <3>1, <3>3, <3>4
    <2> QED
      BY <2>1, <2>2
  <1>4. CASE AcceptEmpty
    BY <1>4 DEF AcceptEmpty
  <1>5. CASE SortLevels
    BY <1>5 DEF SortLevels
  <1>6. CASE CheckDuplicates
    BY <1>6 DEF CheckDuplicates
  <1>7. CASE CheckSrid
    BY <1>7 DEF CheckSrid
  <1>8. CASE StartCollapse
    BY <1>8 DEF StartCollapse
  <1>9. CASE CollapseLevel
    BY <1>9 DEF CollapseLevel
  <1>10. CASE StartNesting
    BY <1>10 DEF StartNesting
  <1>11. CASE CheckNesting
    BY <1>11 DEF CheckNesting
  <1>12. CASE Accept
    BY <1>12 DEF Accept
  <1>13. CASE EngineFailure
    BY <1>13 DEF EngineFailure
  <1>14. CASE pc = "done" /\ UNCHANGED canonVars
    BY <1>14 DEF canonVars
  <1> QED
    BY <1>1, <1>2, <1>3, <1>4, <1>5, <1>6, <1>7, <1>8, <1>9, <1>10, <1>11, <1>12, <1>13, <1>14
    DEF Next, CanonStep

-----------------------------------------------------------------------------
\* Sorting, and the scan for duplicates.

\* SortLevels keeps the set of levels: nothing lost, nothing added.
LEMMA SortKeepsLevels ==
    ASSUME TypeOK, NormalizeInv, SortLevels
    PROVE  /\ levels' # <<>>
           /\ DOMAIN levels' = DOMAIN levels
           /\ \A k \in DOMAIN raw : \E j \in DOMAIN levels' : levels'[j] = NormalizedLevel(raw[k])
           /\ \A j \in DOMAIN levels' : \E k \in DOMAIN raw : levels'[j] = NormalizedLevel(raw[k])
           /\ \A i, j \in DOMAIN levels' : i < j => levels'[i].alpha >= levels'[j].alpha
  <1>1. PICK order \in Bijection(DOMAIN levels, DOMAIN levels) :
            /\ \A i, j \in DOMAIN levels :
                   i < j => levels[order[i]].alpha >= levels[order[j]].alpha
            /\ levels' = [i \in DOMAIN levels |-> levels[order[i]]]
    BY DEF SortLevels
  <1>2. /\ \A i \in DOMAIN levels : order[i] \in DOMAIN levels
        /\ \A j \in DOMAIN levels : \E i \in DOMAIN levels : order[i] = j
    BY BijectionOntoItself
  <1>3. DOMAIN levels' = DOMAIN levels
    BY <1>1
  <1>4. /\ DOMAIN raw = DOMAIN levels
        /\ levels # <<>>
        /\ \A k \in DOMAIN levels : levels[k] = NormalizedLevel(raw[k])
    <2>1. Len(levels) = cursor - 1 /\ Len(levels) <= Len(raw) /\ cursor \notin 1..Len(raw)
      BY DEF SortLevels, NormalizeInv, TypeOK
    <2>2. cursor \in Nat \ {0} /\ Len(raw) \in Nat /\ Len(levels) \in Nat
      BY DEF TypeOK
    <2>3. Len(levels) = Len(raw)
      BY <2>1, <2>2
    <2> QED
      BY <2>3 DEF SortLevels, NormalizeInv, TypeOK
  <1>5. levels' # <<>>
    <2>1. 1 \in DOMAIN levels
      BY <1>4 DEF TypeOK
    <2> QED
      BY <1>3, <2>1
  <1>6. ASSUME NEW k \in DOMAIN raw
        PROVE  \E j \in DOMAIN levels' : levels'[j] = NormalizedLevel(raw[k])
    <2>1. PICK i \in DOMAIN levels : order[i] = k
      BY <1>2, <1>4
    <2>2. levels'[i] = NormalizedLevel(raw[k])
      BY <1>1, <1>4, <2>1
    <2> QED
      BY <1>3, <2>2
  <1>7. \A j \in DOMAIN levels' : \E k \in DOMAIN raw : levels'[j] = NormalizedLevel(raw[k])
    BY <1>1, <1>2, <1>3, <1>4
  <1>8. \A i, j \in DOMAIN levels' : i < j => levels'[i].alpha >= levels'[j].alpha
    BY <1>1, <1>3
  <1> QED
    BY <1>3, <1>5, <1>6, <1>7, <1>8

LEMMA SortStep ==
    ASSUME TypeOK, NormalizeInv, SortInv, DuplicateInv, [Next]_canonVars
    PROVE  SortInv' /\ DuplicateInv'
  <1> USE DEF SortInv, SortedLoops, DuplicateInv, Enter, Advance, Return
  <1>1. CASE UNCHANGED canonVars
    BY <1>1 DEF canonVars
  <1>2. ASSUME NEW input \in Inputs, Call(input)
        PROVE  SortInv' /\ DuplicateInv'
    BY <1>2 DEF Call
  <1>3. CASE NormalizeLevel
    BY <1>3 DEF NormalizeLevel
  <1>4. CASE AcceptEmpty
    BY <1>4 DEF AcceptEmpty
  <1>5. CASE SortLevels
    <2>1. pc' = "duplicates" /\ raw' = raw
      BY <1>5 DEF SortLevels
    <2> QED
      BY <1>5, <2>1, SortKeepsLevels
  <1>6. CASE CheckDuplicates
    <2>1. CASE \E k \in 1..Len(levels) - 1 : levels[k].alpha = levels[k + 1].alpha
      BY <1>6, <2>1 DEF CheckDuplicates
    <2>2. CASE ~\E k \in 1..Len(levels) - 1 : levels[k].alpha = levels[k + 1].alpha
      <3>1. levels \in Seq(Level)
        BY CanonicalLevelIsLevel DEF TypeOK
      <3>2. StrictlyDescending(levels)
        BY <1>6, <2>2, <3>1, NoEqualNeighbours DEF CheckDuplicates
      <3>3. pc = "duplicates" /\ pc' = "srid" /\ UNCHANGED <<raw, levels>>
        BY <1>6, <2>2 DEF CheckDuplicates
      <3> QED
        BY <3>2, <3>3
    <2> QED
      BY <2>1, <2>2
  <1>7. CASE CheckSrid
    BY <1>7 DEF CheckSrid
  <1>8. CASE StartCollapse
    BY <1>8 DEF StartCollapse
  <1>9. CASE CollapseLevel
    BY <1>9 DEF CollapseLevel
  <1>10. CASE StartNesting
    BY <1>10 DEF StartNesting
  <1>11. CASE CheckNesting
    BY <1>11 DEF CheckNesting
  <1>12. CASE Accept
    BY <1>12 DEF Accept
  <1>13. CASE EngineFailure
    BY <1>13 DEF EngineFailure
  <1>14. CASE pc = "done" /\ UNCHANGED canonVars
    BY <1>14 DEF canonVars
  <1> QED
    BY <1>1, <1>2, <1>3, <1>4, <1>5, <1>6, <1>7, <1>8, <1>9, <1>10, <1>11, <1>12, <1>13, <1>14
    DEF Next, CanonStep

-----------------------------------------------------------------------------
\* The SRID loop.

LEMMA SridStep ==
    ASSUME TypeOK, SridInv, [Next]_canonVars
    PROVE  SridInv'
  <1> USE DEF SridInv, Enter, Advance, Return
  <1>1. CASE UNCHANGED canonVars
    BY <1>1 DEF canonVars, SridUpTo
  <1>2. ASSUME NEW input \in Inputs, Call(input)
        PROVE  SridInv'
    BY <1>2 DEF Call
  <1>3. CASE NormalizeLevel
    BY <1>3 DEF NormalizeLevel
  <1>4. CASE AcceptEmpty
    BY <1>4 DEF AcceptEmpty
  <1>5. CASE SortLevels
    BY <1>5 DEF SortLevels
  <1>6. CASE CheckDuplicates
    <2>1. CASE pc' = "done"
      BY <2>1
    <2>2. CASE pc' # "done"
      <3>1. pc' = "srid" /\ cursor' = 1 /\ levels' = levels
        BY <1>6, <2>2 DEF CheckDuplicates
      <3>2. levels \in Seq(CanonicalLevel)
        BY DEF TypeOK
      <3>3. \A k \in DOMAIN levels : ~(k <= 0)
        BY <3>2
      <3> QED
        BY <3>1, <3>3 DEF SridUpTo
    <2> QED
      BY <2>1, <2>2
  <1>7. CASE CheckSrid
    <2>1. CASE SameSrid(levels[cursor].geometry, levels[1].geometry)
      <3>1. pc = "srid" /\ pc' = "srid" /\ levels' = levels /\ cursor' = cursor + 1
        BY <1>7, <2>1 DEF CheckSrid
      <3>2. cursor \in Nat /\ levels \in Seq(CanonicalLevel)
        BY DEF TypeOK
      <3>3. ASSUME NEW k \in DOMAIN levels, k <= cursor
            PROVE  SameSrid(levels[k].geometry, levels[1].geometry)
        <4>1. k <= cursor - 1 \/ k = cursor
          BY <3>2, <3>3
        <4> QED
          BY <2>1, <3>1, <4>1 DEF SridUpTo
      <3>4. cursor' - 1 = cursor
        BY <3>1, <3>2
      <3> QED
        BY <3>1, <3>3, <3>4 DEF SridUpTo
    <2>2. CASE ~SameSrid(levels[cursor].geometry, levels[1].geometry)
      BY <1>7, <2>2 DEF CheckSrid
    <2> QED
      BY <2>1, <2>2
  <1>8. CASE StartCollapse
    <2>1. cursor \in Nat \ {0} /\ levels \in Seq(CanonicalLevel) /\ cursor \notin DOMAIN levels
      BY <1>8 DEF StartCollapse, TypeOK
    <2>2. \A k \in DOMAIN levels : k <= cursor - 1
      BY <2>1
    <2> QED
      BY <1>8, <2>2 DEF StartCollapse, SridUpTo
  <1>9. CASE CollapseLevel
    BY <1>9 DEF CollapseLevel, SridUpTo
  <1>10. CASE StartNesting
    BY <1>10 DEF StartNesting, SridUpTo
  <1>11. CASE CheckNesting
    BY <1>11 DEF CheckNesting, SridUpTo
  <1>12. CASE Accept
    BY <1>12 DEF Accept
  <1>13. CASE EngineFailure
    BY <1>13 DEF EngineFailure
  <1>14. CASE pc = "done" /\ UNCHANGED canonVars
    BY <1>14 DEF canonVars
  <1> QED
    BY <1>1, <1>2, <1>3, <1>4, <1>5, <1>6, <1>7, <1>8, <1>9, <1>10, <1>11, <1>12, <1>13, <1>14
    DEF Next, CanonStep

\* Once the loop is over, the levels have one SRID.
LEMMA OneSridAfterLoop ==
    ASSUME TypeOK, SridInv, pc \in {"collapse", "nest"}
    PROVE  \A i, j \in DOMAIN levels : SameSrid(levels[i].geometry, levels[j].geometry)
  <1>1. SridUpTo(Len(levels))
    BY DEF SridInv
  <1>2. \A k \in DOMAIN levels : k <= Len(levels)
    BY DEF TypeOK
  <1> QED
    BY <1>1, <1>2 DEF SridUpTo, SameSrid

-----------------------------------------------------------------------------
\* The collapse loop.

\* A kept level is above every level the loop has not reached.
LEMMA KeptAreHigher ==
    ASSUME NEW ls \in Seq(Level), StrictlyDescending(ls), NEW ks, NEW n \in Nat,
           n + 1 \in DOMAIN ls, StandsFor(ks, ls, n)
    PROVE  \A m \in DOMAIN ks : ks[m].alpha > ls[n + 1].alpha
  <1>1. SUFFICES ASSUME NEW m \in DOMAIN ks
                 PROVE  ks[m].alpha > ls[n + 1].alpha
    OBVIOUS
  <1>2. PICK k \in DOMAIN ls : k <= n /\ ks[m] = ls[k]
    BY DEF StandsFor
  <1>3. k < n + 1
    BY <1>2
  <1> QED
    BY <1>2, <1>3 DEF StrictlyDescending

\* Dropping a level whose extent the last kept level already has.
LEMMA DropKeepsStanding ==
    ASSUME NEW ls \in Seq(Level), StrictlyDescending(ls), NEW ks \in Seq(Level), NEW n \in Nat,
           n + 1 \in DOMAIN ls, StandsFor(ks, ls, n),
           ks # <<>>, TopoEquals(Last(ks).geometry, ls[n + 1].geometry)
    PROVE  StandsFor(ks, ls, n + 1)
  <1>1. \A m \in DOMAIN ks : \E k \in DOMAIN ls : k <= n + 1 /\ ks[m] = ls[k]
    <2>1. \A k \in DOMAIN ls : k <= n => k <= n + 1
      OBVIOUS
    <2> QED
      BY <2>1 DEF StandsFor
  <1>2. ASSUME NEW k \in DOMAIN ls, k <= n + 1
        PROVE  \E m \in DOMAIN ks : Stands(ks, m, ls[k])
    <2>1. CASE k <= n
      BY <2>1 DEF StandsFor
    <2>2. CASE k = n + 1
      <3>1. Len(ks) \in DOMAIN ks /\ Last(ks) = ks[Len(ks)]
        BY DEF Last
      <3>2. ks[Len(ks)].alpha > ls[k].alpha
        BY <2>2, <3>1, KeptAreHigher
      <3>3. ks[Len(ks)].alpha \in Int /\ ls[k].alpha \in Int
        BY <3>1, LevelAlphaIsInt
      <3>4. \A h \in DOMAIN ks : h <= Len(ks)
        OBVIOUS
      <3> QED
        BY <2>2, <3>1, <3>2, <3>3, <3>4 DEF Stands
    <2> QED
      BY <1>2, <2>1, <2>2
  <1> QED
    BY <1>1, <1>2 DEF StandsFor

\* Keeping a level that the last kept level does not already stand for.
LEMMA AppendKeepsStanding ==
    ASSUME NEW ls \in Seq(CanonicalLevel), StrictlyDescending(ls),
           NEW ks \in Seq(CanonicalLevel), NEW n \in Nat,
           n + 1 \in DOMAIN ls, StandsFor(ks, ls, n),
           ks # <<>> => ~TopoEquals(Last(ks).geometry, ls[n + 1].geometry)
    PROVE  StandsFor(Append(ks, ls[n + 1]), ls, n + 1)
  <1> DEFINE l == ls[n + 1]
             as == Append(ks, l)
  <1>1. l \in CanonicalLevel /\ l.alpha \in Alpha /\ l.geometry \in Extent
    <2>1. ls[n + 1] \in CanonicalLevel
      OBVIOUS
    <2> QED
      BY <2>1 DEF CanonicalLevel
  <1>2. /\ DOMAIN as = 1..Len(ks) + 1
        /\ DOMAIN ks = 1..Len(ks)
        /\ Len(ks) \in Nat
        /\ as[Len(ks) + 1] = l
        /\ \A m \in DOMAIN ks : as[m] = ks[m]
    BY <1>1
  <1>3. \A m \in DOMAIN as : m \in DOMAIN ks \/ m = Len(ks) + 1
    BY <1>2
  <1>4. \A m \in DOMAIN ks : m \in DOMAIN as
    BY <1>2
  <1>5. Len(ks) + 1 \in DOMAIN as
    BY <1>2
  <1> HIDE DEF as, l
  <1>6. \A m \in DOMAIN as : \E k \in DOMAIN ls : k <= n + 1 /\ as[m] = ls[k]
    <2>1. \A k \in DOMAIN ls : k <= n => k <= n + 1
      OBVIOUS
    <2>2. n + 1 <= n + 1
      OBVIOUS
    <2>3. ASSUME NEW m \in DOMAIN ks
          PROVE  \E k \in DOMAIN ls : k <= n + 1 /\ as[m] = ls[k]
      <3>1. PICK k \in DOMAIN ls : k <= n /\ ks[m] = ls[k]
        BY DEF StandsFor
      <3>2. k <= n + 1 /\ as[m] = ls[k]
        BY <1>2, <2>1, <3>1
      <3> QED
        BY <3>2
    <2> QED
      BY <1>2, <1>3, <2>2, <2>3 DEF l
  <1>7. ASSUME NEW k \in DOMAIN ls, k <= n + 1
        PROVE  \E m \in DOMAIN as : Stands(as, m, ls[k])
    <2>1. CASE k <= n
      <3>1. PICK m \in DOMAIN ks : Stands(ks, m, ls[k])
        BY <2>1 DEF StandsFor
      <3>2. m \in DOMAIN as /\ as[m] = ks[m]
        BY <1>2, <1>4
      <3>3. as[m].alpha >= ls[k].alpha /\ TopoEquals(as[m].geometry, ls[k].geometry)
        BY <3>1, <3>2 DEF Stands
      <3>4. ~(as[Len(ks) + 1].alpha >= ls[k].alpha)
        <4>1. ls[k].alpha > ls[n + 1].alpha
          BY <2>1 DEF StrictlyDescending
        <4>2. ls[k].alpha \in Int /\ ls[n + 1].alpha \in Int
          BY CanonicalLevelIsLevel, LevelAlphaIsInt
        <4>3. ~(ls[n + 1].alpha >= ls[k].alpha)
          BY <4>1, <4>2
        <4> QED
          BY <1>2, <4>3 DEF l
      <3>5. ASSUME NEW h \in DOMAIN as, as[h].alpha >= ls[k].alpha
            PROVE  h <= m
        <4>1. h \in DOMAIN ks
          BY <1>3, <3>4, <3>5
        <4> QED
          BY <1>2, <3>1, <3>5, <4>1 DEF Stands
      <3> QED
        BY <3>2, <3>3, <3>5 DEF Stands
    <2>2. CASE k = n + 1
      <3>1. l.alpha \in Int
        <4>1. Alpha \subseteq Int
          BY AlphaAssumption
        <4> QED
          BY <1>1, <4>1
      <3>2. l.alpha >= l.alpha /\ TopoEquals(l.geometry, l.geometry)
        BY <1>1, <3>1, ExtentCoversItself
      <3>3. as[Len(ks) + 1] = l /\ ls[k] = l
        BY <1>2, <2>2 DEF l
      <3>4. /\ as[Len(ks) + 1].alpha >= ls[k].alpha
            /\ TopoEquals(as[Len(ks) + 1].geometry, ls[k].geometry)
        BY <3>2, <3>3
      <3>5. \A h \in DOMAIN as : h <= Len(ks) + 1
        BY <1>2
      <3> QED
        BY <1>5, <3>4, <3>5 DEF Stands
    <2>3. k \in Nat
      OBVIOUS
    <2>4. k <= n \/ k = n + 1
      BY <1>7, <2>3
    <2> QED
      BY <2>1, <2>2, <2>4
  <1>8. ASSUME NEW i \in DOMAIN as, NEW j \in DOMAIN as, i < j
        PROVE  as[i].alpha > as[j].alpha
    <2>1. CASE j \in DOMAIN ks
      <3>1. i \in DOMAIN ks
        BY <1>2, <1>8, <2>1
      <3> QED
        BY <1>2, <1>8, <2>1, <3>1 DEF StandsFor, StrictlyDescending
    <2>2. CASE j = Len(ks) + 1
      <3>1. i \in DOMAIN ks
        BY <1>2, <1>8, <2>2
      <3>2. ls \in Seq(Level)
        BY CanonicalLevelIsLevel
      <3>3. ks[i].alpha > ls[n + 1].alpha
        BY <3>1, <3>2, KeptAreHigher
      <3> QED
        BY <1>2, <2>2, <3>1, <3>3 DEF l
    <2> QED
      BY <1>3, <2>1, <2>2
  <1>9. ASSUME NEW m \in DOMAIN as, m + 1 \in DOMAIN as
        PROVE  ~TopoEquals(as[m].geometry, as[m + 1].geometry)
    <2>1. m \in DOMAIN ks
      BY <1>2, <1>9
    <2>2. CASE m + 1 \in DOMAIN ks
      BY <1>2, <2>1, <2>2 DEF StandsFor
    <2>3. CASE m + 1 = Len(ks) + 1
      <3>1. m = Len(ks) /\ ks # <<>>
        BY <1>2, <2>1, <2>3
      <3>2. as[m] = Last(ks)
        BY <1>2, <2>1, <3>1 DEF Last
      <3> QED
        BY <1>2, <2>3, <3>1, <3>2 DEF l
    <2> QED
      BY <1>3, <1>9, <2>2, <2>3
  <1>10. StandsFor(as, ls, n + 1)
    BY <1>6, <1>7, <1>8, <1>9 DEF StandsFor, StrictlyDescending
  <1> QED
    BY <1>10 DEF as, l

LEMMA CollapseStep ==
    ASSUME TypeOK, NormalizeInv, DuplicateInv, CollapseInv, [Next]_canonVars
    PROVE  CollapseInv'
  <1> USE DEF CollapseInv, Enter, Advance, Return
  <1>1. CASE UNCHANGED canonVars
    BY <1>1 DEF canonVars
  <1>2. ASSUME NEW input \in Inputs, Call(input)
        PROVE  CollapseInv'
    BY <1>2 DEF Call
  <1>3. CASE NormalizeLevel
    BY <1>3 DEF NormalizeLevel
  <1>4. CASE AcceptEmpty
    BY <1>4 DEF AcceptEmpty
  <1>5. CASE SortLevels
    BY <1>5 DEF SortLevels
  <1>6. CASE CheckDuplicates
    BY <1>6 DEF CheckDuplicates
  <1>7. CASE CheckSrid
    BY <1>7 DEF CheckSrid
  <1>8. CASE StartCollapse
    <2>1. /\ pc' = "collapse" /\ cursor' = 1 /\ kept' = <<>> /\ levels' = levels
          /\ levels \in Seq(CanonicalLevel)
      BY <1>8 DEF StartCollapse, NormalizeInv, TypeOK
    <2>2. \A k \in DOMAIN levels : ~(k <= 0)
      BY <2>1
    <2>3. StandsFor(<<>>, levels, 0)
      BY <2>2 DEF StandsFor, StrictlyDescending
    <2>4. 1 <= Len(levels) + 1
      BY <2>1
    <2> QED
      BY <2>1, <2>3, <2>4
  <1>9. CASE CollapseLevel
    <2>1. /\ pc = "collapse" /\ pc' = "collapse" /\ cursor' = cursor + 1 /\ levels' = levels
          /\ cursor \in Nat \ {0} /\ cursor \in DOMAIN levels
          /\ levels \in Seq(CanonicalLevel) /\ kept \in Seq(CanonicalLevel)
      BY <1>9 DEF CollapseLevel, TypeOK
    <2>2. StrictlyDescending(levels) /\ StandsFor(kept, levels, cursor - 1)
      BY <2>1 DEF DuplicateInv
    <2>3. cursor - 1 \in Nat /\ (cursor - 1) + 1 = cursor
      BY <2>1
    <2>4. StandsFor(kept', levels, cursor)
      <3>1. CASE kept # <<>> /\ TopoEquals(Last(kept).geometry, levels[cursor].geometry)
        <4>1. kept' = kept
          BY <1>9, <3>1 DEF CollapseLevel
        <4>2. levels \in Seq(Level) /\ kept \in Seq(Level)
          BY <2>1, CanonicalLevelIsLevel
        <4> QED
          BY <2>1, <2>2, <2>3, <3>1, <4>1, <4>2, DropKeepsStanding
      <3>2. CASE ~(kept # <<>> /\ TopoEquals(Last(kept).geometry, levels[cursor].geometry))
        <4>1. kept' = Append(kept, levels[cursor])
          BY <1>9, <3>2 DEF CollapseLevel
        <4> QED
          BY <2>1, <2>2, <2>3, <3>2, <4>1, AppendKeepsStanding
      <3> QED
        BY <3>1, <3>2
    <2>5. cursor' <= Len(levels) + 1 /\ cursor' - 1 = cursor
      BY <2>1
    <2> QED
      BY <2>1, <2>4, <2>5
  <1>10. CASE StartNesting
    <2>1. /\ pc = "collapse" /\ pc' = "nest" /\ kept' = kept /\ levels' = levels
          /\ cursor \in Nat \ {0} /\ cursor \notin DOMAIN levels
          /\ levels \in Seq(CanonicalLevel)
      BY <1>10 DEF StartNesting, TypeOK
    <2>2. cursor <= Len(levels) + 1 /\ StandsFor(kept, levels, cursor - 1)
      BY <2>1
    <2>3. cursor - 1 = Len(levels)
      BY <2>1, <2>2
    <2> QED
      BY <2>1, <2>2, <2>3
  <1>11. CASE CheckNesting
    BY <1>11 DEF CheckNesting
  <1>12. CASE Accept
    BY <1>12 DEF Accept
  <1>13. CASE EngineFailure
    BY <1>13 DEF EngineFailure
  <1>14. CASE pc = "done" /\ UNCHANGED canonVars
    BY <1>14 DEF canonVars
  <1> QED
    BY <1>1, <1>2, <1>3, <1>4, <1>5, <1>6, <1>7, <1>8, <1>9, <1>10, <1>11, <1>12, <1>13, <1>14
    DEF Next, CanonStep

-----------------------------------------------------------------------------
\* The nesting loop.

LEMMA KeptComparable ==
    ASSUME TypeOK, SridInv, CollapseInv, pc = "nest"
    PROVE  Comparable(kept)
  <1>1. \A m \in DOMAIN kept : \E k \in DOMAIN levels : kept[m] = levels[k]
    BY DEF CollapseInv, StandsFor
  <1>2. \A i, j \in DOMAIN levels : SameSrid(levels[i].geometry, levels[j].geometry)
    BY OneSridAfterLoop
  <1>3. \A i \in DOMAIN kept : kept[i] \in CanonicalLevel
    BY DEF TypeOK
  <1>4. \A i \in DOMAIN kept : kept[i].geometry \in Extent
    BY <1>3 DEF CanonicalLevel
  <1>5. \A i, j \in DOMAIN kept : SameSrid(kept[i].geometry, kept[j].geometry)
    BY <1>1, <1>2
  <1> QED
    BY <1>4, <1>5 DEF Comparable

LEMMA NestingStep ==
    ASSUME TypeOK, SridInv, CollapseInv, NestingInv, [Next]_canonVars
    PROVE  NestingInv'
  <1> USE DEF NestingInv, Enter, Advance, Return
  <1>1. CASE UNCHANGED canonVars
    BY <1>1 DEF canonVars
  <1>2. ASSUME NEW input \in Inputs, Call(input)
        PROVE  NestingInv'
    BY <1>2 DEF Call
  <1>3. CASE NormalizeLevel
    BY <1>3 DEF NormalizeLevel
  <1>4. CASE AcceptEmpty
    BY <1>4 DEF AcceptEmpty
  <1>5. CASE SortLevels
    BY <1>5 DEF SortLevels
  <1>6. CASE CheckDuplicates
    BY <1>6 DEF CheckDuplicates
  <1>7. CASE CheckSrid
    BY <1>7 DEF CheckSrid
  <1>8. CASE StartCollapse
    BY <1>8 DEF StartCollapse
  <1>9. CASE CollapseLevel
    BY <1>9 DEF CollapseLevel
  <1>10. CASE StartNesting
    <2>1. cursor' = 1 /\ kept' = kept /\ kept \in Seq(CanonicalLevel)
      BY <1>10 DEF StartNesting, TypeOK
    <2>2. \A i, j \in DOMAIN kept : ~(i < j /\ j <= 1)
      BY <2>1
    <2> QED
      BY <2>1, <2>2 DEF NestedUpTo
  <1>11. CASE CheckNesting
    <2>1. CASE Covers(kept[cursor + 1].geometry, kept[cursor].geometry)
      <3>1. /\ pc = "nest" /\ pc' = "nest" /\ kept' = kept /\ cursor' = cursor + 1
            /\ cursor + 1 \in DOMAIN kept
            /\ cursor \in Nat \ {0} /\ kept \in Seq(CanonicalLevel)
        BY <1>11, <2>1 DEF CheckNesting, TypeOK
      <3>2. Comparable(kept)
        BY <3>1, KeptComparable
      <3>3. NestedUpTo(kept, cursor + 1)
        BY <2>1, <3>1, <3>2, NestingExtends
      <3> QED
        BY <3>1, <3>3
    <2>2. CASE ~Covers(kept[cursor + 1].geometry, kept[cursor].geometry)
      BY <1>11, <2>2 DEF CheckNesting
    <2> QED
      BY <2>1, <2>2
  <1>12. CASE Accept
    BY <1>12 DEF Accept
  <1>13. CASE EngineFailure
    BY <1>13 DEF EngineFailure
  <1>14. CASE pc = "done" /\ UNCHANGED canonVars
    BY <1>14 DEF canonVars
  <1> QED
    BY <1>1, <1>2, <1>3, <1>4, <1>5, <1>6, <1>7, <1>8, <1>9, <1>10, <1>11, <1>12, <1>13, <1>14
    DEF Next, CanonStep

-----------------------------------------------------------------------------
\* The result.

\* What the nesting loop accepts is canonical.
LEMMA AcceptedIsCanonical ==
    ASSUME TypeOK, SortInv, SridInv, CollapseInv, NestingInv, Accept
    PROVE  Canonical([srid |-> SridOf(levels[1].geometry), levels |-> kept])
  <1>1. /\ pc = "nest" /\ cursor \in Nat \ {0} /\ cursor + 1 \notin DOMAIN kept
        /\ kept \in Seq(CanonicalLevel) /\ levels \in Seq(CanonicalLevel)
    BY DEF Accept, TypeOK
  <1>2. Comparable(kept)
    BY <1>1, KeptComparable
  <1>3. StandsFor(kept, levels, Len(levels))
    BY <1>1 DEF CollapseInv
  <1>4. NestedUpTo(kept, Len(kept))
    <2>1. Len(kept) <= cursor
      BY <1>1
    <2>2. \A j \in DOMAIN kept : j <= Len(kept) => j <= cursor
      BY <1>1, <2>1
    <2> QED
      BY <1>1, <2>2 DEF NestingInv, NestedUpTo
  <1>5. StrictlyNested(kept)
    BY <1>1, <1>2, <1>3, <1>4, NestingIsStrict DEF StandsFor
  <1>6. OneSrid(kept, SridOf(levels[1].geometry))
    <2>1. 1 \in DOMAIN levels
      BY <1>1 DEF SortInv, SortedLoops
    <2>2. \A k \in DOMAIN levels : SameSrid(levels[k].geometry, levels[1].geometry)
      BY <1>1, <2>1, OneSridAfterLoop
    <2>3. \A m \in DOMAIN kept : \E k \in DOMAIN levels : kept[m] = levels[k]
      BY <1>3 DEF StandsFor
    <2> QED
      BY <2>2, <2>3 DEF OneSrid, SameSrid
  <1> QED
    BY <1>1, <1>3, <1>5, <1>6 DEF Canonical, StandsFor

\* The given levels whose normalized geometry covers a place.
Given(r, p) == {k \in DOMAIN r : CoversPlace(Normalize(r[k].geometry), p)}

\* The value v says of the place p what the raw levels r say.
Preserves(v, r, p) ==
    /\ \A k \in Given(r, p) : r[k].alpha <= MembershipAt(v, p)
    /\ Given(r, p) # {} => \E k \in Given(r, p) : r[k].alpha = MembershipAt(v, p)
    /\ Given(r, p) = {} => MembershipAt(v, p) = 0

LEMMA PreservedMeaning ==
    MembershipPreserved <=>
        (outcome.kind = "Ok" => \A p \in Place : Preserves(outcome.value, raw, p))
  BY DEF MembershipPreserved, Preserves, Given

\* A kept level covers a place exactly when a given one of its alpha does, and
\* every given level that covers it is represented at its alpha or above.
LEMMA KeptCoverTheSame ==
    ASSUME TypeOK, SortInv, SridInv, CollapseInv, pc = "nest", NEW p \in Place
    PROVE  /\ \A k \in Given(raw, p) :
                  \E m \in Covering(kept, p) : kept[m].alpha >= raw[k].alpha
           /\ \A m \in Covering(kept, p) :
                  \E k \in Given(raw, p) : raw[k].alpha = kept[m].alpha
  <1>1. /\ raw \in Seq(Level) /\ levels \in Seq(CanonicalLevel)
        /\ kept \in Seq(CanonicalLevel)
    BY DEF TypeOK
  <1>2. ASSUME NEW k \in DOMAIN raw
        PROVE  /\ NormalizedLevel(raw[k]).alpha = raw[k].alpha
               /\ NormalizedLevel(raw[k]).geometry = Normalize(raw[k].geometry)
    <2>1. raw[k] \in Level
      BY <1>1
    <2> QED
      BY <2>1 DEF NormalizedLevel, Level
  <1>3. /\ \A k \in DOMAIN raw : \E j \in DOMAIN levels : levels[j] = NormalizedLevel(raw[k])
        /\ \A j \in DOMAIN levels : \E k \in DOMAIN raw : levels[j] = NormalizedLevel(raw[k])
    BY DEF SortInv, SortedLoops
  <1>4. StandsFor(kept, levels, Len(levels))
    BY DEF CollapseInv
  <1>5. \A j \in DOMAIN levels : levels[j].geometry \in Extent
    <2>1. \A j \in DOMAIN levels : levels[j] \in CanonicalLevel
      BY <1>1
    <2> QED
      BY <2>1 DEF CanonicalLevel
  <1>6. \A i, j \in DOMAIN levels : SameSrid(levels[i].geometry, levels[j].geometry)
    BY OneSridAfterLoop
  <1>7. ASSUME NEW k \in Given(raw, p)
        PROVE  \E m \in Covering(kept, p) : kept[m].alpha >= raw[k].alpha
    <2>1. k \in DOMAIN raw /\ CoversPlace(Normalize(raw[k].geometry), p)
      BY DEF Given
    <2>2. PICK j \in DOMAIN levels : levels[j] = NormalizedLevel(raw[k])
      BY <1>3, <2>1
    <2>3. levels[j].alpha = raw[k].alpha /\ CoversPlace(levels[j].geometry, p)
      BY <1>2, <2>1, <2>2
    <2>4. j <= Len(levels)
      BY <1>1
    <2>5. PICK m \in DOMAIN kept : /\ kept[m].alpha >= levels[j].alpha
                                   /\ TopoEquals(kept[m].geometry, levels[j].geometry)
      BY <1>4, <2>4 DEF StandsFor, Stands
    <2>6. PICK i \in DOMAIN levels : kept[m] = levels[i]
      BY <1>4 DEF StandsFor
    <2>7. Covers(kept[m].geometry, levels[j].geometry)
      BY <1>5, <1>6, <2>5, <2>6, CoversAssumption
    <2>8. CoversPlace(kept[m].geometry, p)
      BY <1>5, <1>6, <2>3, <2>6, <2>7, PlaceAssumption
    <2>9. m \in Covering(kept, p)
      BY <2>8 DEF Covering
    <2> QED
      BY <2>3, <2>5, <2>9
  <1>8. ASSUME NEW m \in Covering(kept, p)
        PROVE  \E k \in Given(raw, p) : raw[k].alpha = kept[m].alpha
    <2>1. m \in DOMAIN kept /\ CoversPlace(kept[m].geometry, p)
      BY DEF Covering
    <2>2. PICK j \in DOMAIN levels : kept[m] = levels[j]
      BY <1>4, <2>1 DEF StandsFor
    <2>3. PICK k \in DOMAIN raw : levels[j] = NormalizedLevel(raw[k])
      BY <1>3
    <2>4. raw[k].alpha = kept[m].alpha /\ CoversPlace(Normalize(raw[k].geometry), p)
      BY <1>2, <2>1, <2>2, <2>3
    <2> QED
      BY <2>4 DEF Given
  <1> QED
    BY <1>7, <1>8

LEMMA AcceptPreservesMembership ==
    ASSUME TypeOK, SortInv, SridInv, CollapseInv, Accept, NEW v, v.levels = kept
    PROVE  \A p \in Place : Preserves(v, raw, p)
  <1>1. SUFFICES ASSUME NEW p \in Place
                 PROVE  Preserves(v, raw, p)
    OBVIOUS
  <1>2. pc = "nest" /\ kept \in Seq(Level) /\ raw \in Seq(Level)
    BY CanonicalLevelIsLevel DEF Accept, TypeOK
  <1>3. StrictlyDescending(kept)
    BY <1>2 DEF CollapseInv, StandsFor
  <1>4. /\ Covering(kept, p) = {} => MembershipAt(v, p) = 0
        /\ \A m \in Covering(kept, p) : kept[m].alpha <= MembershipAt(v, p)
        /\ Covering(kept, p) # {} =>
               \E m \in Covering(kept, p) : kept[m].alpha = MembershipAt(v, p)
    BY <1>2, <1>3, MembershipIsHighest
  <1>5. /\ \A k \in Given(raw, p) :
               \E m \in Covering(kept, p) : kept[m].alpha >= raw[k].alpha
        /\ \A m \in Covering(kept, p) :
               \E k \in Given(raw, p) : raw[k].alpha = kept[m].alpha
    BY <1>2, KeptCoverTheSame
  <1>6. /\ \A m \in DOMAIN kept : kept[m].alpha \in Int
        /\ \A k \in DOMAIN raw : raw[k].alpha \in Int
    BY <1>2, LevelAlphaIsInt
  <1>7. ASSUME NEW k \in Given(raw, p)
        PROVE  /\ raw[k].alpha <= MembershipAt(v, p)
               /\ \E h \in Given(raw, p) : raw[h].alpha = MembershipAt(v, p)
    <2>1. PICK m \in Covering(kept, p) : kept[m].alpha >= raw[k].alpha
      BY <1>5
    <2>2. PICK top \in Covering(kept, p) : kept[top].alpha = MembershipAt(v, p)
      BY <1>4, <2>1
    <2>3. PICK h \in Given(raw, p) : raw[h].alpha = kept[top].alpha
      BY <1>5
    <2>4. /\ kept[m].alpha \in Int /\ raw[k].alpha \in Int
          /\ kept[top].alpha \in Int
      BY <1>6 DEF Covering, Given
    <2>5. kept[m].alpha <= MembershipAt(v, p)
      BY <1>4
    <2>6. raw[k].alpha <= MembershipAt(v, p)
      BY <2>1, <2>2, <2>4, <2>5
    <2> QED
      BY <2>2, <2>3, <2>6
  <1>8. Given(raw, p) = {} => MembershipAt(v, p) = 0
    BY <1>4, <1>5
  <1> QED
    BY <1>7, <1>8 DEF Preserves

\* Only the two accepting actions return a value.
LEMMA OnlyAcceptReturns ==
    ASSUME OutcomeInv, [Next]_canonVars, outcome'.kind = "Ok"
    PROVE  AcceptEmpty \/ Accept \/ UNCHANGED canonVars
  <1> USE DEF OutcomeInv, Pending, Enter, Advance, Return, Rejected
  <1>1. CASE UNCHANGED canonVars
    BY <1>1
  <1>2. ASSUME NEW input \in Inputs, Call(input)
        PROVE  FALSE
    BY <1>2 DEF Call
  <1>3. CASE NormalizeLevel
    BY <1>3 DEF NormalizeLevel
  <1>4. CASE SortLevels
    BY <1>4 DEF SortLevels
  <1>5. CASE CheckDuplicates
    BY <1>5 DEF CheckDuplicates
  <1>6. CASE CheckSrid
    BY <1>6 DEF CheckSrid
  <1>7. CASE StartCollapse
    BY <1>7 DEF StartCollapse
  <1>8. CASE CollapseLevel
    BY <1>8 DEF CollapseLevel
  <1>9. CASE StartNesting
    BY <1>9 DEF StartNesting
  <1>10. CASE CheckNesting
    BY <1>10 DEF CheckNesting
  <1>11. CASE EngineFailure
    BY <1>11 DEF EngineFailure, EngineCallDue
  <1> QED
    BY <1>1, <1>2, <1>3, <1>4, <1>5, <1>6, <1>7, <1>8, <1>9, <1>10, <1>11
    DEF Next, CanonStep

LEMMA EmptyPreservesMembership ==
    ASSUME NEW p
    PROVE  Preserves(EmptyValue(NoSrid), <<>>, p)
  <1>1. <<>> \in Seq(Level) /\ EmptyValue(NoSrid).levels = <<>>
    BY DEF EmptyValue
  <1>2. StrictlyDescending(<<>>) /\ Covering(<<>>, p) = {}
    BY DEF StrictlyDescending, Covering
  <1>3. MembershipAt(EmptyValue(NoSrid), p) = 0
    BY <1>1, <1>2, MembershipIsHighest
  <1>4. Given(<<>>, p) = {}
    BY DEF Given
  <1> QED
    BY <1>3, <1>4 DEF Preserves

LEMMA ResultStep ==
    ASSUME CanonInv, [Next]_canonVars
    PROVE  ResultCanonical' /\ MembershipPreserved'
  <1> USE DEF CanonInv
  <1>1. SUFFICES ASSUME outcome'.kind = "Ok"
                 PROVE  /\ Canonical(outcome'.value)
                        /\ \A p \in Place : Preserves(outcome'.value, raw', p)
    BY DEF ResultCanonical, MembershipPreserved, Preserves, Given
  <1>2. CASE AcceptEmpty
    <2>1. /\ pc = "normalize" /\ cursor \notin DOMAIN raw /\ levels = <<>>
          /\ outcome' = Accepted(EmptyValue(NoSrid)) /\ raw' = raw
      BY <1>2 DEF AcceptEmpty, Return
    <2>2. raw = <<>>
      <3>1. Len(levels) = cursor - 1 /\ raw \in Seq(Level) /\ cursor \in Nat
        BY <2>1 DEF NormalizeInv, TypeOK
      <3>2. cursor = 1
        BY <2>1, <3>1
      <3> QED
        BY <2>1, <3>1, <3>2
    <2>3. outcome'.value = EmptyValue(NoSrid)
      BY <2>1 DEF Accepted
    <2> QED
      BY <2>1, <2>2, <2>3, EmptyIsCanonical, EmptyPreservesMembership
  <1>3. CASE Accept
    <2> DEFINE v == [srid |-> SridOf(levels[1].geometry), levels |-> kept]
    <2>1. outcome'.value = v /\ raw' = raw /\ v.levels = kept
      BY <1>3 DEF Accept, Return, Accepted
    <2>2. Canonical(v)
      BY <1>3, AcceptedIsCanonical
    <2> HIDE DEF v
    <2>3. \A p \in Place : Preserves(v, raw, p)
      BY <1>3, <2>1, AcceptPreservesMembership
    <2> QED
      BY <2>1, <2>2, <2>3
  <1>4. CASE UNCHANGED canonVars
    <2>1. outcome' = outcome /\ raw' = raw
      BY <1>4 DEF canonVars
    <2> QED
      BY <1>1, <2>1, PreservedMeaning DEF ResultCanonical
  <1> QED
    BY <1>1, <1>2, <1>3, <1>4, OnlyAcceptReturns

-----------------------------------------------------------------------------
\* The theorems.

LEMMA InitInv == CanonInit => CanonInv
  BY InitType DEF CanonInit, CanonInv, OutcomeInv, NormalizeInv, SortInv, SortedLoops,
     DuplicateInv, SridInv, CollapseInv, NestingInv, ResultCanonical, MembershipPreserved,
     Pending

LEMMA StepInv == CanonInv /\ [Next]_canonVars => CanonInv'
  <1> SUFFICES ASSUME CanonInv, [Next]_canonVars
               PROVE  CanonInv'
    OBVIOUS
  <1>1. TypeOK'
    BY TypeStep DEF CanonInv
  <1>2. OutcomeInv' /\ NormalizeInv'
    BY NormalizeStep DEF CanonInv
  <1>3. SortInv' /\ DuplicateInv'
    BY SortStep DEF CanonInv
  <1>4. SridInv'
    BY SridStep DEF CanonInv
  <1>5. CollapseInv'
    BY CollapseStep DEF CanonInv
  <1>6. NestingInv'
    BY NestingStep DEF CanonInv
  <1>7. ResultCanonical' /\ MembershipPreserved'
    BY ResultStep
  <1> QED
    BY <1>1, <1>2, <1>3, <1>4, <1>5, <1>6, <1>7 DEF CanonInv

LEMMA CanonInvariant == Spec => []CanonInv
  BY InitInv, StepInv, PTL DEF Spec

\* Every state of canonicalize is well typed: past the first loop it works on
\* normalized, non-empty geometries only.
THEOREM TypeCorrect == Spec => []TypeOK
  <1>1. CanonInv => TypeOK
    BY DEF CanonInv
  <1> QED
    BY CanonInvariant, <1>1, PTL

\* Whatever engine, alphas and input: what canonicalize accepts is canonical, with
\* strict nesting between every two levels although the code compares neighbours.
THEOREM CanonicalResult == Spec => []ResultCanonical
  <1>1. CanonInv => ResultCanonical
    BY DEF CanonInv
  <1> QED
    BY CanonInvariant, <1>1, PTL

\* Sorting and collapsing leave the membership of every place as the raw levels
\* gave it.
THEOREM MembershipIsPreserved == Spec => []MembershipPreserved
  <1>1. CanonInv => MembershipPreserved
    BY DEF CanonInv
  <1> QED
    BY CanonInvariant, <1>1, PTL

\* No predicate of the engine is asked about geometries of two SRIDs.
THEOREM OneSridCompared == Spec => []ComparesOneSrid
  <1>1. CanonInv => ComparesOneSrid
    BY OneSridAfterLoop DEF CanonInv, ComparesOneSrid
  <1> QED
    BY CanonInvariant, <1>1, PTL
-----------------------------------------------------------------------------
\* Repeated alphas.

LEMMA DescendingHasNoDuplicates ==
    ASSUME NEW s \in Seq(Level), StrictlyDescending(s)
    PROVE  DuplicateAlphas(s) = {}
  <1>1. ASSUME NEW i \in DOMAIN s, NEW j \in DOMAIN s, s[i].alpha = s[j].alpha
        PROVE  i = j
    <2>1. i \in Int /\ j \in Int /\ s[i].alpha \in Int /\ s[j].alpha \in Int
      BY LevelAlphaIsInt
    <2> QED
      BY <1>1, <2>1 DEF StrictlyDescending
  <1> QED
    BY <1>1 DEF DuplicateAlphas

\* Normalizing and permuting levels repeats the same alphas.
LEMMA PermutedDuplicates ==
    ASSUME NEW r \in Seq(Level), NEW order \in Bijection(DOMAIN r, DOMAIN r),
           NEW s, s = [i \in DOMAIN r |-> NormalizedLevel(r[order[i]])]
    PROVE  DuplicateAlphas(s) = DuplicateAlphas(r)
  <1>1. /\ \A i \in DOMAIN r : order[i] \in DOMAIN r
        /\ \A j \in DOMAIN r : \E i \in DOMAIN r : order[i] = j
        /\ \A i, j \in DOMAIN r : order[i] = order[j] => i = j
    BY BijectionOntoItself, BijectionIsInjective
  <1>2. DOMAIN s = DOMAIN r
    OBVIOUS
  <1>3. \A i \in DOMAIN r : s[i].alpha = r[order[i]].alpha
    <2>1. \A j \in DOMAIN r : NormalizedLevel(r[j]).alpha = r[j].alpha
      BY NormalizedLevelsAre
    <2>2. \A i \in DOMAIN r : s[i] = NormalizedLevel(r[order[i]])
      OBVIOUS
    <2> QED
      BY <1>1, <2>1, <2>2
  <1>4. ASSUME NEW i \in DOMAIN s, NEW j \in DOMAIN s \ {i}, s[j].alpha = s[i].alpha
        PROVE  s[i].alpha \in DuplicateAlphas(r)
    <2>1. order[i] \in DOMAIN r /\ order[j] \in DOMAIN r \ {order[i]}
      BY <1>1, <1>2
    <2>2. r[order[j]].alpha = r[order[i]].alpha /\ s[i].alpha = r[order[i]].alpha
      BY <1>2, <1>3, <1>4
    <2> QED
      BY <2>1, <2>2 DEF DuplicateAlphas
  <1>5. ASSUME NEW i \in DOMAIN r, NEW j \in DOMAIN r \ {i}, r[j].alpha = r[i].alpha
        PROVE  r[i].alpha \in DuplicateAlphas(s)
    <2>1. PICK a \in DOMAIN r : order[a] = i
      BY <1>1
    <2>2. PICK b \in DOMAIN r : order[b] = j
      BY <1>1
    <2>3. a \in DOMAIN s /\ b \in DOMAIN s \ {a}
      BY <1>2, <2>1, <2>2
    <2>4. s[a].alpha = r[i].alpha /\ s[b].alpha = s[a].alpha
      BY <1>3, <1>5, <2>1, <2>2
    <2> QED
      BY <2>3, <2>4 DEF DuplicateAlphas
  <1>6. \A d \in DuplicateAlphas(s) :
            \E i \in DOMAIN s : \E j \in DOMAIN s \ {i} : s[j].alpha = s[i].alpha /\ d = s[i].alpha
    BY DEF DuplicateAlphas
  <1>7. \A d \in DuplicateAlphas(r) :
            \E i \in DOMAIN r : \E j \in DOMAIN r \ {i} : r[j].alpha = r[i].alpha /\ d = r[i].alpha
    BY DEF DuplicateAlphas
  <1>8. \A d \in DuplicateAlphas(s) : d \in DuplicateAlphas(r)
    BY <1>4, <1>6
  <1>9. \A d \in DuplicateAlphas(r) : d \in DuplicateAlphas(s)
    BY <1>5, <1>7
  <1> QED
    BY <1>8, <1>9

\* Where the levels are in order, the first equal neighbours have the highest
\* repeated alpha.
LEMMA FirstPairIsHighest ==
    ASSUME NEW s \in Seq(Level),
           \A i, j \in DOMAIN s : i < j => s[i].alpha >= s[j].alpha,
           NEW pair, pair = {k \in 1..Len(s) - 1 : s[k].alpha = s[k + 1].alpha},
           pair # {}
    PROVE  /\ DuplicateAlphas(s) # {}
           /\ Max(DuplicateAlphas(s)) = s[Min(pair)].alpha
  <1> DEFINE m == Min(pair)
             D == DuplicateAlphas(s)
  <1>1. pair \in SUBSET Nat
    OBVIOUS
  <1>2. m \in pair /\ \A k \in pair : m <= k
    BY <1>1, MinIsLeast
  <1>3. m \in DOMAIN s /\ m + 1 \in DOMAIN s \ {m} /\ s[m].alpha = s[m + 1].alpha
    BY <1>2
  <1>4. s[m].alpha \in D
    <2> HIDE DEF m
    <2> QED
      BY <1>3 DEF DuplicateAlphas
  <1>5. \A k \in DOMAIN s : s[k].alpha \in Int
    BY LevelAlphaIsInt
  <1>6. ASSUME NEW i \in DOMAIN s, NEW j \in DOMAIN s, i < j, s[i].alpha = s[j].alpha
        PROVE  s[i].alpha <= s[m].alpha
    <2>1. i \in 1..Len(s) - 1 /\ i + 1 \in DOMAIN s /\ i < i + 1 /\ (i + 1 = j \/ i + 1 < j)
      BY <1>6
    <2>2. s[i].alpha >= s[i + 1].alpha /\ s[i + 1].alpha >= s[j].alpha
      BY <1>5, <2>1
    <2>3. s[i].alpha = s[i + 1].alpha
      BY <1>5, <1>6, <2>1, <2>2
    <2>4. i \in pair
      BY <2>1, <2>3
    <2>5. m \in Int /\ i \in Int /\ m <= i
      <3>1. m <= i
        BY <1>2, <2>4, Zenon
      <3>2. m \in Nat
        BY <1>1, <1>2, Zenon
      <3> HIDE DEF m
      <3> QED
        BY <2>1, <3>1, <3>2
    <2> HIDE DEF m
    <2> QED
      BY <1>3, <1>5, <2>5
  <1>7. ASSUME NEW d \in D
        PROVE  d \in Int /\ s[m].alpha >= d
    <2>1. \E i \in DOMAIN s : \E j \in DOMAIN s \ {i} : s[j].alpha = s[i].alpha /\ d = s[i].alpha
      BY DEF DuplicateAlphas
    <2>2. PICK i \in DOMAIN s : \E j \in DOMAIN s \ {i} : s[j].alpha = s[i].alpha /\ d = s[i].alpha
      BY <2>1
    <2>3. PICK j \in DOMAIN s \ {i} : s[j].alpha = s[i].alpha
      BY <2>2
    <2>4. i < j \/ j < i
      BY <2>3
    <2> HIDE DEF m
    <2> QED
      BY <1>3, <1>5, <1>6, <2>2, <2>3, <2>4
  <1> HIDE DEF m, D
  <1>8. \A d \in D : (\A c \in D : d >= c) => d = s[m].alpha
    BY <1>3, <1>4, <1>5, <1>7
  <1>9. Max(D) = s[m].alpha
    BY <1>4, <1>7, <1>8 DEF Max
  <1> QED
    BY <1>4, <1>9 DEF m, D

-----------------------------------------------------------------------------
\* What the sorted and the kept levels say of the given ones.

\* The sorted levels are a permutation of the given ones.
Permuted(r, s) ==
    \E order \in Bijection(DOMAIN r, DOMAIN r) :
        s = [i \in DOMAIN r |-> NormalizedLevel(r[order[i]])]

LEMMA SortedAreGiven ==
    ASSUME TypeOK, SortInv, pc \in SortedLoops
    PROVE  raw # <<>> /\ EmptyAt(raw) = 0 /\ GivenLevels(raw) = ToSet(levels)
  <1>1. raw \in Seq(Level) /\ levels \in Seq(CanonicalLevel) /\ levels # <<>>
    BY DEF TypeOK, SortInv
  <1>2. /\ \A k \in DOMAIN raw : \E j \in DOMAIN levels : levels[j] = NormalizedLevel(raw[k])
        /\ \A j \in DOMAIN levels : \E k \in DOMAIN raw : levels[j] = NormalizedLevel(raw[k])
    BY DEF SortInv
  <1>3. raw # <<>>
    <2>1. 1 \in DOMAIN levels
      BY <1>1
    <2>2. PICK k \in DOMAIN raw : levels[1] = NormalizedLevel(raw[k])
      BY <1>2, <2>1
    <2> QED
      BY <2>2
  <1>4. EmptyAt(raw) = 0
    <2>1. \A j \in DOMAIN levels : levels[j] \in CanonicalLevel
      BY <1>1
    <2>2. \A j \in DOMAIN levels : ~IsEmpty(levels[j].geometry)
      BY <2>1 DEF CanonicalLevel, Extent
    <2>3. \A k \in DOMAIN raw : ~IsEmpty(NormalizedLevel(raw[k]).geometry)
      BY <1>2, <2>2
    <2> QED
      BY <1>1, <2>3, EmptyAtIs
  <1>5. /\ DOMAIN NormalizedLevels(raw) = DOMAIN raw
        /\ \A k \in DOMAIN raw : NormalizedLevels(raw)[k] = NormalizedLevel(raw[k])
    BY <1>1, NormalizedLevelsAre
  <1>6. \A l \in GivenLevels(raw) : l \in ToSet(levels)
    BY <1>2, <1>5 DEF GivenLevels, ToSet
  <1>7. \A l \in ToSet(levels) : l \in GivenLevels(raw)
    BY <1>2, <1>5 DEF GivenLevels, ToSet
  <1> QED
    BY <1>3, <1>4, <1>6, <1>7

\* Equality of extents passes from one to the next.
LEMMA TopoEqualsIsEquivalence ==
    ASSUME NEW g \in Extent, NEW h \in Extent, NEW k \in Extent,
           SameSrid(g, h), SameSrid(h, k), TopoEquals(g, h), TopoEquals(h, k)
    PROVE  TopoEquals(g, k) /\ TopoEquals(h, g)
  <1>1. SameSrid(h, g) /\ SameSrid(k, h) /\ SameSrid(g, k) /\ SameSrid(k, g)
    BY DEF SameSrid
  <1>2. Covers(g, h) /\ Covers(h, g) /\ Covers(h, k) /\ Covers(k, h)
    BY CoversAssumption
  <1>3. Covers(g, k) /\ Covers(k, g)
    BY <1>1, <1>2, CoversAssumption
  <1> QED
    BY <1>1, <1>2, <1>3, CoversAssumption

\* What the collapse loop has made of levels in one SRID.
Collapsed(ks, ls) ==
    /\ ls \in Seq(CanonicalLevel)
    /\ ks \in Seq(CanonicalLevel)
    /\ StrictlyDescending(ls)
    /\ \A i, j \in DOMAIN ls : SameSrid(ls[i].geometry, ls[j].geometry)
    /\ StandsFor(ks, ls, Len(ls))

LEMMA CollapsedFacts ==
    ASSUME NEW ks, NEW ls, Collapsed(ks, ls)
    PROVE  /\ Comparable(ks) /\ Comparable(ls)
           /\ \A k \in DOMAIN ks : ks[k].alpha \in Int
           /\ \A k \in DOMAIN ls : ls[k].alpha \in Int
           /\ \A m \in DOMAIN ks : \E k \in DOMAIN ls : ks[m] = ls[k]
           /\ \A k \in DOMAIN ls : \E m \in DOMAIN ks : Stands(ks, m, ls[k])
           /\ \A m \in DOMAIN ks : \A k \in DOMAIN ls :
                  /\ SameSrid(ks[m].geometry, ls[k].geometry)
                  /\ SameSrid(ls[k].geometry, ks[m].geometry)
           /\ StrictlyDescending(ks)
           /\ \A m \in DOMAIN ks :
                  m + 1 \in DOMAIN ks => ~TopoEquals(ks[m].geometry, ks[m + 1].geometry)
  <1> USE DEF Collapsed
  <1>1. /\ \A k \in DOMAIN ks : ks[k] \in CanonicalLevel
        /\ \A k \in DOMAIN ls : ls[k] \in CanonicalLevel /\ k <= Len(ls)
    OBVIOUS
  <1>2. /\ \A k \in DOMAIN ks : ks[k].geometry \in Extent
        /\ \A k \in DOMAIN ls : ls[k].geometry \in Extent
    BY <1>1 DEF CanonicalLevel
  <1>3. /\ \A m \in DOMAIN ks : \E k \in DOMAIN ls : ks[m] = ls[k]
        /\ \A k \in DOMAIN ls : \E m \in DOMAIN ks : Stands(ks, m, ls[k])
        /\ StrictlyDescending(ks)
        /\ \A m \in DOMAIN ks :
               m + 1 \in DOMAIN ks => ~TopoEquals(ks[m].geometry, ks[m + 1].geometry)
    BY <1>1 DEF StandsFor
  <1>4. \A m \in DOMAIN ks : \A k \in DOMAIN ls :
            /\ SameSrid(ks[m].geometry, ls[k].geometry)
            /\ SameSrid(ls[k].geometry, ks[m].geometry)
    BY <1>3
  <1>5. \A i, j \in DOMAIN ks : SameSrid(ks[i].geometry, ks[j].geometry)
    BY <1>3, <1>4
  <1>6. /\ \A k \in DOMAIN ks : ks[k].alpha \in Int
        /\ \A k \in DOMAIN ls : ls[k].alpha \in Int
    BY CanonicalLevelIsLevel, LevelAlphaIsInt
  <1> QED
    BY <1>2, <1>3, <1>4, <1>5, <1>6 DEF Comparable

\* A kept level stands for itself.
LEMMA KeptStandsForItself ==
    ASSUME NEW ks, NEW ls, Collapsed(ks, ls), NEW m \in DOMAIN ks
    PROVE  Stands(ks, m, ks[m])
  <1>1. /\ ks[m].alpha \in Int /\ ks[m].geometry \in Extent
        /\ StrictlyDescending(ks) /\ DOMAIN ks \subseteq Int
        /\ \A h \in DOMAIN ks : ks[h].alpha \in Int
    BY CollapsedFacts, SMTT(40) DEF Comparable, Collapsed
  <1>2. TopoEquals(ks[m].geometry, ks[m].geometry)
    BY <1>1, ExtentCoversItself
  <1>3. ASSUME NEW h \in DOMAIN ks, ks[h].alpha >= ks[m].alpha
        PROVE  h <= m
    <2>1. ~(m < h)
      BY <1>1, <1>3 DEF StrictlyDescending
    <2>2. h \in Int /\ m \in Int
      BY <1>1
    <2> QED
      BY <2>1, <2>2
  <1> QED
    BY <1>1, <1>2, <1>3 DEF Stands

\* Among nested kept levels, the one that stands for a level is its representative.
LEMMA RepresentativeIsKept ==
    ASSUME NEW ks, NEW ls, Collapsed(ks, ls), NEW n \in Nat, NestedUpTo(ks, n),
           NEW m \in DOMAIN ks, m <= n, NEW k \in DOMAIN ls, Stands(ks, m, ls[k])
    PROVE  Representative(ToSet(ls), ls[k]) = ks[m]
  <1> DEFINE S == ToSet(ls)
  <1>1. S \in SUBSET Level /\ UniqueAlphas(S)
    BY CanonicalLevelIsLevel, DescendingIsUniqueAlphas DEF Collapsed
  <1>2. ks[m] \in S /\ TopoEquals(ks[m].geometry, ls[k].geometry)
    BY CollapsedFacts DEF ToSet, Stands
  <1>3. ASSUME NEW j \in DOMAIN ls, TopoEquals(ls[j].geometry, ls[k].geometry),
               ~(ks[m].alpha >= ls[j].alpha)
        PROVE  FALSE
    <2>1. PICK h \in DOMAIN ks : Stands(ks, h, ls[j])
      BY CollapsedFacts
    <2>2. /\ ks[h].alpha \in Int /\ ks[m].alpha \in Int /\ ls[j].alpha \in Int
          /\ StrictlyDescending(ks) /\ h \in Int /\ m \in Int
      <3>1. DOMAIN ks \subseteq Int
        BY DEF Collapsed
      <3> QED
        BY <3>1, CollapsedFacts
    <2>3. ks[h].alpha >= ls[j].alpha /\ TopoEquals(ks[h].geometry, ls[j].geometry)
      BY <2>1 DEF Stands
    <2>4. ks[h].alpha > ks[m].alpha
      BY <1>3, <2>2, <2>3
    <2>5. ~(ks[m].alpha > ks[h].alpha) /\ h # m
      BY <2>2, <2>4
    <2>6. h < m
      BY <2>2, <2>5 DEF StrictlyDescending
    <2>7. /\ ks[h].geometry \in Extent /\ ks[m].geometry \in Extent
          /\ ls[j].geometry \in Extent /\ ls[k].geometry \in Extent
      BY CollapsedFacts DEF Comparable
    <2>8. /\ SameSrid(ks[h].geometry, ls[j].geometry) /\ SameSrid(ls[j].geometry, ls[k].geometry)
          /\ SameSrid(ks[m].geometry, ls[k].geometry) /\ SameSrid(ls[k].geometry, ks[m].geometry)
          /\ SameSrid(ks[h].geometry, ls[k].geometry) /\ SameSrid(ks[h].geometry, ks[m].geometry)
      BY CollapsedFacts DEF Comparable
    <2>9. TopoEquals(ls[k].geometry, ks[m].geometry)
      <3>1. TopoEquals(ls[k].geometry, ls[k].geometry)
        BY <2>7, ExtentCoversItself
      <3>2. SameSrid(ls[k].geometry, ls[k].geometry)
        BY DEF SameSrid
      <3> QED
        BY <1>2, <2>7, <2>8, <3>1, <3>2, TopoEqualsIsEquivalence
    <2>10. TopoEquals(ks[h].geometry, ls[k].geometry)
      BY <1>3, <2>3, <2>7, <2>8, TopoEqualsIsEquivalence
    <2>11. TopoEquals(ks[h].geometry, ks[m].geometry) /\ TopoEquals(ks[m].geometry, ks[h].geometry)
      <3>1. TopoEquals(ks[h].geometry, ks[m].geometry)
        BY <2>7, <2>8, <2>9, <2>10, TopoEqualsIsEquivalence
      <3>2. SameSrid(ks[m].geometry, ks[m].geometry) /\ TopoEquals(ks[m].geometry, ks[m].geometry)
        BY <2>7, ExtentCoversItself DEF SameSrid
      <3> QED
        BY <2>7, <2>8, <3>1, <3>2, TopoEqualsIsEquivalence
    <2>12. /\ ks \in Seq(CanonicalLevel) /\ Comparable(ks)
           /\ \A i \in DOMAIN ks :
                  i + 1 \in DOMAIN ks => ~TopoEquals(ks[i].geometry, ks[i + 1].geometry)
      BY CollapsedFacts DEF Collapsed
    <2>13. ~TopoEquals(ks[m].geometry, ks[h].geometry)
      BY <2>6, <2>12, NestedAreUnequal
    <2> QED
      BY <2>11, <2>13
  <1>4. \A h \in S : TopoEquals(h.geometry, ls[k].geometry) => ks[m].alpha >= h.alpha
    BY <1>3 DEF ToSet
  <1> QED
    BY <1>1, <1>2, <1>4, RepresentativeIs

\* A level that one of the nested kept levels stands for contains those above it.
LEMMA GivenLevelsNest ==
    ASSUME NEW ks, NEW ls, Collapsed(ks, ls), NEW n \in Nat, NestedUpTo(ks, n),
           NEW m \in DOMAIN ks, m <= n, NEW k \in DOMAIN ls, Stands(ks, m, ls[k]),
           NEW j \in DOMAIN ls, j < k
    PROVE  Covers(ls[k].geometry, ls[j].geometry)
  <1>1. PICK h \in DOMAIN ks : Stands(ks, h, ls[j])
    BY CollapsedFacts
  <1>2. ks[h].alpha \in Int /\ ls[j].alpha \in Int /\ ls[k].alpha \in Int
    BY CollapsedFacts
  <1>3. ks[h].alpha >= ls[j].alpha /\ ls[j].alpha > ls[k].alpha
    BY <1>1 DEF Stands, StrictlyDescending, Collapsed
  <1>4. h <= m
    <2>1. ks[h].alpha >= ls[k].alpha
      BY <1>2, <1>3
    <2> QED
      BY <2>1 DEF Stands
  <1>5. /\ ks[h].geometry \in Extent /\ ks[m].geometry \in Extent
        /\ ls[j].geometry \in Extent /\ ls[k].geometry \in Extent
    BY CollapsedFacts DEF Comparable
  <1>6. /\ SameSrid(ks[h].geometry, ls[j].geometry) /\ SameSrid(ks[m].geometry, ls[k].geometry)
        /\ SameSrid(ls[k].geometry, ks[m].geometry) /\ SameSrid(ls[k].geometry, ks[h].geometry)
        /\ SameSrid(ks[m].geometry, ks[h].geometry)
    BY CollapsedFacts DEF Comparable
  <1>7. Covers(ks[h].geometry, ls[j].geometry) /\ Covers(ls[k].geometry, ks[m].geometry)
    <2>1. TopoEquals(ks[h].geometry, ls[j].geometry) /\ TopoEquals(ks[m].geometry, ls[k].geometry)
      BY <1>1 DEF Stands
    <2> QED
      BY <1>5, <1>6, <2>1, CoversAssumption
  <1>8. Covers(ks[m].geometry, ks[h].geometry)
    <2>1. CASE h = m
      BY <1>5, <2>1, ExtentCoversItself
    <2>2. CASE h # m
      <3>1. h < m
        BY <1>4, <2>2 DEF Collapsed
      <3> QED
        BY <3>1 DEF NestedUpTo
    <2> QED
      BY <2>1, <2>2
  <1>9. Covers(ls[k].geometry, ks[h].geometry)
    BY <1>5, <1>6, <1>7, <1>8, CoversAssumption
  <1> QED
    BY <1>5, <1>6, <1>7, <1>9, CoversAssumption

-----------------------------------------------------------------------------
\* The answer each loop gives.

\* What the scan for duplicates has found out of the given levels.
LEMMA SortedDuplicates ==
    ASSUME NEW r \in Seq(Level), NEW s \in Seq(Level), Permuted(r, s)
    PROVE  DuplicateAlphas(s) = DuplicateAlphas(r)
  <1>1. PICK order \in Bijection(DOMAIN r, DOMAIN r) :
            s = [i \in DOMAIN r |-> NormalizedLevel(r[order[i]])]
    BY DEF Permuted
  <1> QED
    BY <1>1, PermutedDuplicates

LEMMA FirstDuplicateIsAnswer ==
    ASSUME TypeOK, SortInv, pc = "duplicates", Permuted(raw, levels),
           NEW pair, pair = {k \in 1..Len(levels) - 1 : levels[k].alpha = levels[k + 1].alpha},
           pair # {}
    PROVE  Rejected("DuplicateAlpha", <<levels[Min(pair)].alpha>>) = CanonicalOutcome(raw)
  <1>1. /\ raw \in Seq(Level) /\ levels \in Seq(Level)
        /\ \A i, j \in DOMAIN levels : i < j => levels[i].alpha >= levels[j].alpha
    BY CanonicalLevelIsLevel DEF TypeOK, SortInv, SortedLoops
  <1>2. DuplicateAlphas(levels) # {} /\ Max(DuplicateAlphas(levels)) = levels[Min(pair)].alpha
    BY <1>1, FirstPairIsHighest
  <1>3. DuplicateAlphas(levels) = DuplicateAlphas(raw)
    BY <1>1, SortedDuplicates
  <1>4. EmptyAt(raw) = 0
    BY SortedAreGiven DEF SortedLoops
  <1> QED
    BY <1>1, <1>2, <1>3, <1>4, OutcomeBranches

\* The levels of the later loops pass the first two tests.
LEMMA SoundLevels ==
    ASSUME TypeOK, SortInv, DuplicateInv, pc \in {"srid", "collapse", "nest"},
           Permuted(raw, levels)
    PROVE  /\ raw \in Seq(Level) /\ raw # <<>> /\ EmptyAt(raw) = 0
           /\ DuplicateAlphas(raw) = {}
           /\ GivenLevels(raw) = ToSet(levels)
           /\ levels \in Seq(CanonicalLevel) /\ levels \in Seq(Level)
           /\ levels # <<>> /\ 1 \in DOMAIN levels
           /\ StrictlyDescending(levels)
           /\ ToSet(levels) \in SUBSET Level /\ UniqueAlphas(ToSet(levels))
           /\ Highest(ToSet(levels)) = levels[1]
  <1>1. pc \in SortedLoops
    BY DEF SortedLoops
  <1>2. raw \in Seq(Level) /\ levels \in Seq(CanonicalLevel) /\ levels \in Seq(Level)
    BY CanonicalLevelIsLevel DEF TypeOK
  <1>3. levels # <<>> /\ StrictlyDescending(levels)
    BY <1>1 DEF SortInv, DuplicateInv
  <1>4. raw # <<>> /\ EmptyAt(raw) = 0 /\ GivenLevels(raw) = ToSet(levels)
    BY <1>1, SortedAreGiven
  <1>5. DuplicateAlphas(raw) = {}
    BY <1>2, <1>3, SortedDuplicates, DescendingHasNoDuplicates
  <1>6. /\ ToSet(levels) \in SUBSET Level /\ UniqueAlphas(ToSet(levels))
        /\ Highest(ToSet(levels)) = levels[1]
    BY <1>2, <1>3, DescendingIsUniqueAlphas, HighestOfDescending
  <1>7. 1 \in DOMAIN levels
    BY <1>2, <1>3
  <1> QED
    BY <1>2, <1>3, <1>4, <1>5, <1>6, <1>7

\* The first level in another SRID is the highest one.
LEMMA FirstForeignIsAnswer ==
    ASSUME TypeOK, SortInv, DuplicateInv, SridInv, Permuted(raw, levels),
           pc = "srid", cursor \in DOMAIN levels,
           ~SameSrid(levels[cursor].geometry, levels[1].geometry)
    PROVE  Rejected("MixedSrid", <<levels[cursor].alpha>>) = CanonicalOutcome(raw)
  <1> DEFINE S == ToSet(levels)
  <1>1. /\ raw \in Seq(Level) /\ raw # <<>> /\ EmptyAt(raw) = 0
        /\ DuplicateAlphas(raw) = {} /\ GivenLevels(raw) = S
        /\ levels \in Seq(Level) /\ StrictlyDescending(levels)
        /\ S \in SUBSET Level /\ UniqueAlphas(S)
        /\ Highest(S) = levels[1]
    BY SoundLevels
  <1>2. SridUpTo(cursor - 1)
    BY DEF SridInv
  <1>3. levels[cursor] \in Foreign(S)
    BY <1>1 DEF Foreign, ToSet
  <1>4. ASSUME NEW k \in DOMAIN levels, levels[k] \in Foreign(S)
        PROVE  levels[cursor].alpha >= levels[k].alpha
    <2>1. ~(k <= cursor - 1)
      BY <1>1, <1>2, <1>4 DEF Foreign, SridUpTo
    <2>2. cursor = k \/ cursor < k
      BY <1>1, <2>1 DEF TypeOK
    <2>3. levels[cursor].alpha \in Int /\ levels[k].alpha \in Int
      BY <1>1, LevelAlphaIsInt
    <2> QED
      BY <1>1, <2>2, <2>3 DEF StrictlyDescending
  <1>5. \A h \in Foreign(S) : levels[cursor].alpha >= h.alpha
    BY <1>4 DEF Foreign, ToSet
  <1>6. Foreign(S) \in SUBSET Level /\ UniqueAlphas(Foreign(S))
    BY <1>1 DEF Foreign, UniqueAlphas
  <1>7. Highest(Foreign(S)) = levels[cursor]
    BY <1>3, <1>5, <1>6, HighestIs
  <1> HIDE DEF S
  <1> QED
    BY <1>1, <1>3, <1>7, OutcomeBranches

\* With one SRID no level is foreign.
LEMMA NoneForeign ==
    ASSUME NEW s \in Seq(Level), s # <<>>, Highest(ToSet(s)) = s[1],
           \A i, j \in DOMAIN s : SameSrid(s[i].geometry, s[j].geometry)
    PROVE  Foreign(ToSet(s)) = {}
  <1>1. 1 \in DOMAIN s
    OBVIOUS
  <1> QED
    BY <1>1 DEF Foreign, ToSet

LEMMA CollapsedAtNest ==
    ASSUME TypeOK, SortInv, DuplicateInv, SridInv, CollapseInv, pc = "nest"
    PROVE  Collapsed(kept, levels)
  <1>1. levels \in Seq(CanonicalLevel) /\ kept \in Seq(CanonicalLevel)
    BY DEF TypeOK
  <1>2. StrictlyDescending(levels) /\ StandsFor(kept, levels, Len(levels))
    BY DEF DuplicateInv, CollapseInv
  <1>3. \A i, j \in DOMAIN levels : SameSrid(levels[i].geometry, levels[j].geometry)
    BY OneSridAfterLoop
  <1> QED
    BY <1>1, <1>2, <1>3 DEF Collapsed

\* Nested to its end, the kept list holds the representatives of the given levels.
LEMMA KeptAreRepresentatives ==
    ASSUME NEW ks, NEW ls, Collapsed(ks, ls), NestedUpTo(ks, Len(ks))
    PROVE  /\ Unnested(ToSet(ls)) = {}
           /\ {Representative(ToSet(ls), l) : l \in ToSet(ls)} = ToSet(ks)
           /\ HighestFirst(ToSet(ks)) = ks
  <1> DEFINE S == ToSet(ls)
  <1>1. /\ Len(ks) \in Nat /\ \A m \in DOMAIN ks : m <= Len(ks)
        /\ ks \in Seq(Level) /\ StrictlyDescending(ks)
        /\ StrictlyDescending(ls)
        /\ \A k \in DOMAIN ls : ls[k].alpha \in Int
        /\ DOMAIN ls \subseteq Int
    BY CollapsedFacts, CanonicalLevelIsLevel DEF Collapsed
  <1>2. ASSUME NEW k \in DOMAIN ls, NEW j \in DOMAIN ls, ls[j].alpha > ls[k].alpha
        PROVE  Covers(ls[k].geometry, ls[j].geometry)
    <2>1. PICK m \in DOMAIN ks : Stands(ks, m, ls[k])
      BY CollapsedFacts
    <2>2. ~(ls[k].alpha > ls[j].alpha) /\ k # j
      BY <1>1, <1>2
    <2>3. j < k
      BY <1>1, <2>2 DEF StrictlyDescending
    <2> QED
      BY <1>1, <2>1, <2>3, GivenLevelsNest
  <1>3. Unnested(S) = {}
    BY <1>2 DEF Unnested, Above, ToSet
  <1>4. ASSUME NEW k \in DOMAIN ls
        PROVE  Representative(S, ls[k]) \in ToSet(ks)
    <2>1. PICK m \in DOMAIN ks : Stands(ks, m, ls[k])
      BY CollapsedFacts
    <2>2. Representative(S, ls[k]) = ks[m]
      BY <1>1, <2>1, RepresentativeIsKept
    <2> QED
      BY <2>2 DEF ToSet
  <1>5. ASSUME NEW m \in DOMAIN ks
        PROVE  \E k \in DOMAIN ls : ks[m] = Representative(S, ls[k])
    <2>1. PICK k \in DOMAIN ls : ks[m] = ls[k]
      BY CollapsedFacts
    <2>2. Stands(ks, m, ls[k])
      BY <2>1, KeptStandsForItself
    <2>3. Representative(S, ls[k]) = ks[m]
      BY <1>1, <2>2, RepresentativeIsKept
    <2> QED
      BY <2>3
  <1>6. {Representative(S, l) : l \in S} = ToSet(ks)
    <2>1. \A l \in S : Representative(S, l) \in ToSet(ks)
      BY <1>4 DEF ToSet
    <2>2. \A h \in ToSet(ks) : \E l \in S : h = Representative(S, l)
      BY <1>5 DEF ToSet
    <2> HIDE DEF S
    <2> QED
      BY <2>1, <2>2
  <1> QED
    BY <1>1, <1>3, <1>6, HighestFirstIs

\* The neighbour at which the kept levels stop nesting is the highest level that
\* fails to contain one above it, and the one before it stands for the lowest
\* level above it.
LEMMA FirstUnnested ==
    ASSUME NEW ks, NEW ls, Collapsed(ks, ls), NEW n \in Nat \ {0}, NestedUpTo(ks, n),
           n + 1 \in DOMAIN ks, ~Covers(ks[n + 1].geometry, ks[n].geometry)
    PROVE  /\ Unnested(ToSet(ls)) # {}
           /\ Highest(Unnested(ToSet(ls))) = ks[n + 1]
           /\ Representative(ToSet(ls), Lowest(Above(ToSet(ls), ks[n + 1]))) = ks[n]
  <1> DEFINE S == ToSet(ls)
  <1>1. /\ n \in DOMAIN ks /\ n + 1 \in DOMAIN ks /\ n < n + 1
        /\ StrictlyDescending(ks) /\ StrictlyDescending(ls)
        /\ \A k \in DOMAIN ls : ls[k].alpha \in Int
        /\ \A m \in DOMAIN ks : ks[m].alpha \in Int
        /\ DOMAIN ls \subseteq Int /\ DOMAIN ks \subseteq Int
    BY CollapsedFacts, SMTT(40) DEF Collapsed
  <1>2. PICK i \in DOMAIN ls : ks[n + 1] = ls[i]
    BY <1>1, CollapsedFacts
  <1>3. PICK j \in DOMAIN ls : ks[n] = ls[j]
    BY <1>1, CollapsedFacts
  <1>4. ls[j].alpha > ls[i].alpha
    BY <1>1, <1>2, <1>3 DEF StrictlyDescending
  <1>5. \A k \in DOMAIN ls : ls[k].alpha > ls[i].alpha => k < i
    <2>1. SUFFICES ASSUME NEW k \in DOMAIN ls, ls[k].alpha > ls[i].alpha
                   PROVE  k < i
      OBVIOUS
    <2>2. ~(ls[i].alpha > ls[k].alpha) /\ k # i
      BY <1>1, <2>1
    <2> QED
      BY <1>1, <2>2 DEF StrictlyDescending
  <1>6. S \in SUBSET Level /\ UniqueAlphas(S)
    BY CanonicalLevelIsLevel, DescendingIsUniqueAlphas DEF Collapsed
  <1>7. ls[i] \in Unnested(S)
    BY <1>2, <1>3, <1>4 DEF Unnested, Above, ToSet
  <1>8. ASSUME NEW k \in DOMAIN ls, k < i
        PROVE  \E m \in DOMAIN ks : m <= n /\ Stands(ks, m, ls[k])
    <2>1. PICK m \in DOMAIN ks : Stands(ks, m, ls[k])
      BY CollapsedFacts
    <2>2. ks[m].alpha >= ls[k].alpha /\ ls[k].alpha > ls[i].alpha
      BY <1>1, <1>8, <2>1 DEF Stands, StrictlyDescending
    <2>3. ks[m].alpha > ks[n + 1].alpha
      BY <1>1, <1>2, <2>2
    <2>4. ~(ks[n + 1].alpha > ks[m].alpha) /\ m # n + 1
      BY <1>1, <2>3
    <2>5. m < n + 1
      BY <1>1, <2>4 DEF StrictlyDescending
    <2>6. m <= n
      BY <1>1, <2>5
    <2> QED
      BY <2>1, <2>6
  <1>9. ASSUME NEW k \in DOMAIN ls, ls[k] \in Unnested(S)
        PROVE  ls[i].alpha >= ls[k].alpha
    <2>1. ASSUME ls[k].alpha > ls[i].alpha
          PROVE  FALSE
      <3>1. PICK m \in DOMAIN ks : m <= n /\ Stands(ks, m, ls[k])
        BY <1>5, <1>8, <2>1
      <3>2. PICK h \in DOMAIN ls : /\ ls[h].alpha > ls[k].alpha
                                   /\ ~Covers(ls[k].geometry, ls[h].geometry)
        BY <1>9 DEF Unnested, Above, ToSet
      <3>3. ~(ls[k].alpha > ls[h].alpha) /\ h # k
        BY <1>1, <3>2
      <3>4. h < k
        BY <1>1, <3>3 DEF StrictlyDescending
      <3>5. n \in Nat
        OBVIOUS
      <3> QED
        BY <3>1, <3>2, <3>4, <3>5, GivenLevelsNest
    <2> QED
      BY <1>1, <2>1
  <1>10. Highest(Unnested(S)) = ls[i]
    <2>1. Unnested(S) \in SUBSET Level /\ UniqueAlphas(Unnested(S))
      BY <1>6 DEF Unnested, UniqueAlphas
    <2>2. \A h \in Unnested(S) : ls[i].alpha >= h.alpha
      BY <1>9 DEF Unnested, ToSet
    <2> HIDE DEF S
    <2> QED
      BY <1>7, <2>1, <2>2, HighestIs
  <1>11. j < i
    BY <1>4, <1>5
  <1>12. i - 1 \in DOMAIN ls /\ i - 1 < i /\ (j = i - 1 \/ j < i - 1)
    BY <1>11 DEF Collapsed
  <1>13. Lowest(Above(S, ls[i])) = ls[i - 1]
    <2>1. ls[i - 1] \in Above(S, ls[i])
      BY <1>1, <1>12 DEF Above, ToSet, StrictlyDescending
    <2>2. ASSUME NEW k \in DOMAIN ls, ls[k].alpha > ls[i].alpha
          PROVE  ls[i - 1].alpha <= ls[k].alpha
      <3>1. k < i
        BY <1>5, <2>2
      <3>2. k = i - 1 \/ k < i - 1
        BY <1>1, <3>1
      <3>3. k = i - 1 \/ ls[k].alpha > ls[i - 1].alpha
        BY <1>1, <1>12, <3>2 DEF StrictlyDescending
      <3> QED
        BY <1>1, <1>12, <3>3
    <2>3. \A h \in Above(S, ls[i]) : ls[i - 1].alpha <= h.alpha
      BY <2>2 DEF Above, ToSet
    <2>4. Above(S, ls[i]) \in SUBSET Level /\ UniqueAlphas(Above(S, ls[i]))
      BY <1>6 DEF Above, UniqueAlphas
    <2> HIDE DEF S
    <2> QED
      BY <2>1, <2>3, <2>4, LowestIs
  <1>14. Stands(ks, n, ls[i - 1])
    <2>1. PICK m \in DOMAIN ks : m <= n /\ Stands(ks, m, ls[i - 1])
      BY <1>8, <1>12
    <2>2. j = i - 1 \/ ls[j].alpha > ls[i - 1].alpha
      BY <1>12 DEF Collapsed, StrictlyDescending
    <2>3. ks[n].alpha >= ls[i - 1].alpha
      BY <1>1, <1>3, <1>12, <2>2
    <2>4. n <= m
      BY <1>1, <2>1, <2>3 DEF Stands
    <2>5. n = m
      BY <1>1, <2>1, <2>4
    <2> QED
      BY <2>1, <2>5
  <1>15. Representative(S, ls[i - 1]) = ks[n]
    <2>1. n \in Nat /\ n <= n
      OBVIOUS
    <2> QED
      BY <1>1, <1>12, <1>14, <2>1, RepresentativeIsKept
  <1> QED
    BY <1>2, <1>7, <1>10, <1>13, <1>15

LEMMA UnnestedIsAnswer ==
    ASSUME TypeOK, SortInv, DuplicateInv, SridInv, CollapseInv, NestingInv,
           Permuted(raw, levels), pc = "nest", cursor + 1 \in DOMAIN kept,
           ~Covers(kept[cursor + 1].geometry, kept[cursor].geometry)
    PROVE  Rejected("NonNestedLevels", <<kept[cursor].alpha, kept[cursor + 1].alpha>>)
               = CanonicalOutcome(raw)
  <1> DEFINE S == ToSet(levels)
  <1>1. /\ raw \in Seq(Level) /\ raw # <<>> /\ EmptyAt(raw) = 0
        /\ DuplicateAlphas(raw) = {} /\ GivenLevels(raw) = S
        /\ levels \in Seq(Level) /\ levels # <<>> /\ Highest(S) = levels[1]
    BY SoundLevels
  <1>2. Foreign(S) = {}
    BY <1>1, OneSridAfterLoop, NoneForeign
  <1>3. Collapsed(kept, levels) /\ NestedUpTo(kept, cursor) /\ cursor \in Nat \ {0}
    BY CollapsedAtNest DEF NestingInv, TypeOK
  <1>4. /\ Unnested(S) # {}
        /\ Highest(Unnested(S)) = kept[cursor + 1]
        /\ Representative(S, Lowest(Above(S, kept[cursor + 1]))) = kept[cursor]
    BY <1>3, FirstUnnested
  <1> HIDE DEF S
  <1> QED
    BY <1>1, <1>2, <1>4, OutcomeBranches

LEMMA AcceptedIsAnswer ==
    ASSUME TypeOK, SortInv, DuplicateInv, SridInv, CollapseInv, NestingInv,
           Permuted(raw, levels), pc = "nest", cursor + 1 \notin DOMAIN kept
    PROVE  Accepted([srid |-> SridOf(levels[1].geometry), levels |-> kept])
               = CanonicalOutcome(raw)
  <1> DEFINE S == ToSet(levels)
  <1>1. /\ raw \in Seq(Level) /\ raw # <<>> /\ EmptyAt(raw) = 0
        /\ DuplicateAlphas(raw) = {} /\ GivenLevels(raw) = S
        /\ levels \in Seq(Level) /\ levels # <<>> /\ Highest(S) = levels[1]
    BY SoundLevels
  <1>2. Foreign(S) = {}
    BY <1>1, OneSridAfterLoop, NoneForeign
  <1>3. Collapsed(kept, levels) /\ NestedUpTo(kept, cursor) /\ cursor \in Nat \ {0}
    BY CollapsedAtNest DEF NestingInv, TypeOK
  <1>4. NestedUpTo(kept, Len(kept))
    <2>1. kept \in Seq(CanonicalLevel)
      BY DEF TypeOK
    <2>2. \A j \in DOMAIN kept : j <= Len(kept) => j <= cursor
      BY <1>3, <2>1
    <2> QED
      BY <1>3, <2>2 DEF NestedUpTo
  <1>5. /\ Unnested(S) = {}
        /\ {Representative(S, l) : l \in S} = ToSet(kept)
        /\ HighestFirst(ToSet(kept)) = kept
    BY <1>3, <1>4, KeptAreRepresentatives
  <1> HIDE DEF S
  <1>6. CanonicalOutcome(raw)
            = Accepted([srid |-> SridOf(Highest(S).geometry),
                        levels |-> HighestFirst({Representative(S, l) : l \in S})])
    <2>1. GivenLevels(raw) = S
      BY <1>1
    <2> QED
      BY ZenonT(40), <1>1, <1>2, <1>5, <2>1, OutcomeBranches
  <1>7. HighestFirst({Representative(S, l) : l \in S}) = kept
    BY Zenon, <1>5
  <1> QED
    BY Zenon, <1>1, <1>6, <1>7

-----------------------------------------------------------------------------
\* The steps of the loops as steps of the contract.

PermutedInv == pc \in SortedLoops => Permuted(raw, levels)

\* What a call has answered, once it is over.
AnsweredInv == pc = "done" => outcome \in {CanonicalOutcome(raw), Rejected("Geometry", <<>>)}

ContractInv == CanonInv /\ PermutedInv /\ AnsweredInv

\* The operators the contract is written with are the ones the function is.
LEMMA SameOutcome ==
    ASSUME NEW r
    PROVE  Contract!CanonicalOutcome(r) = CanonicalOutcome(r)
  <1>1. \A s : Contract!ToSet(s) = ToSet(s)
    BY DEF Contract!ToSet, ToSet
  <1>2. \A S : Contract!Max(S) = Max(S)
    BY DEF Contract!Max, Max
  <1>3. \A S : Contract!Min(S) = Min(S)
    BY DEF Contract!Min, Min
  <1>4. \A l : Contract!NormalizedLevel(l) = NormalizedLevel(l)
    BY DEF Contract!NormalizedLevel, NormalizedLevel
  <1>5. \A s : Contract!NormalizedLevels(s) = NormalizedLevels(s)
    BY <1>4 DEF Contract!NormalizedLevels, NormalizedLevels
  <1>6. \A s : Contract!EmptyAt(s) = EmptyAt(s)
    BY <1>3, <1>5 DEF Contract!EmptyAt, EmptyAt, Contract!SelectInSeq, SelectInSeq
  <1>7. \A s : Contract!DuplicateAlphas(s) = DuplicateAlphas(s)
    BY DEF Contract!DuplicateAlphas, DuplicateAlphas
  <1>8. \A S : Contract!Highest(S) = Highest(S)
    BY DEF Contract!Highest, Highest
  <1>9. \A S : Contract!Lowest(S) = Lowest(S)
    BY DEF Contract!Lowest, Lowest
  <1>10. \A S, l : Contract!Above(S, l) = Above(S, l)
    BY DEF Contract!Above, Above
  <1>11. \A S : Contract!Foreign(S) = Foreign(S)
    BY <1>8 DEF Contract!Foreign, Foreign, Contract!SameSrid, SameSrid
  <1>12. \A S : Contract!Unnested(S) = Unnested(S)
    BY <1>10 DEF Contract!Unnested, Unnested
  <1>13. \A S, l : Contract!Representative(S, l) = Representative(S, l)
    BY <1>8 DEF Contract!Representative, Representative
  <1>14. \A s : Contract!StrictlyDescending(s) <=> StrictlyDescending(s)
    BY DEF Contract!StrictlyDescending, StrictlyDescending
  <1>15. \A S : Contract!HighestFirst(S) = HighestFirst(S)
    BY <1>1, <1>14 DEF Contract!HighestFirst, HighestFirst, Contract!Cardinality, Cardinality
  <1>16. \A v : Contract!Accepted(v) = Accepted(v)
    BY DEF Contract!Accepted, Accepted
  <1>17. \A kind, alphas : Contract!Rejected(kind, alphas) = Rejected(kind, alphas)
    BY DEF Contract!Rejected, Rejected
  <1>18. Contract!EmptyValue(NoSrid) = EmptyValue(NoSrid)
    BY DEF Contract!EmptyValue, EmptyValue
  <1> QED
    BY <1>1, <1>2, <1>5, <1>6, <1>7, <1>8, <1>9, <1>10, <1>11, <1>12, <1>13, <1>15, <1>16,
       <1>17, <1>18 DEF Contract!CanonicalOutcome, CanonicalOutcome

\* An empty level ends the call in the first loop: it is the first one given.
LEMMA FirstEmptyIsAnswer ==
    ASSUME TypeOK, NormalizeInv, pc = "normalize", cursor \in DOMAIN raw,
           IsEmpty(NormalizedLevel(raw[cursor]).geometry)
    PROVE  Rejected("EmptyGeometry", <<NormalizedLevel(raw[cursor]).alpha>>)
               = CanonicalOutcome(raw)
  <1>1. raw \in Seq(Level) /\ levels \in Seq(CanonicalLevel) /\ cursor \in Nat \ {0}
    BY DEF TypeOK
  <1>2. Len(levels) = cursor - 1 /\ \A k \in DOMAIN levels : levels[k] = NormalizedLevel(raw[k])
    BY DEF NormalizeInv
  <1>3. \A k \in DOMAIN levels : levels[k] \in CanonicalLevel
    BY <1>1
  <1>4. \A k \in DOMAIN levels : ~IsEmpty(levels[k].geometry)
    BY <1>3 DEF CanonicalLevel, Extent
  <1>5. \A j \in DOMAIN raw : j < cursor => j \in DOMAIN levels
    BY <1>1, <1>2
  <1>6. \A j \in DOMAIN raw : j < cursor => ~IsEmpty(NormalizedLevel(raw[j]).geometry)
    BY <1>2, <1>4, <1>5
  <1>7. EmptyAt(raw) = cursor
    BY <1>1, <1>6, EmptyAtIs
  <1>8. cursor # 0 /\ NormalizedLevel(raw[cursor]).alpha = raw[cursor].alpha
    BY <1>1, NormalizedLevelsAre
  <1> QED
    BY <1>1, <1>7, <1>8, OutcomeBranches

LEMMA NoLevelsIsAnswer ==
    ASSUME TypeOK, NormalizeInv, pc = "normalize", cursor \notin DOMAIN raw, levels = <<>>
    PROVE  Accepted(EmptyValue(NoSrid)) = CanonicalOutcome(raw)
  <1>1. raw \in Seq(Level) /\ cursor \in Nat \ {0} /\ Len(levels) = cursor - 1
    BY DEF TypeOK, NormalizeInv
  <1>2. cursor = 1
    BY <1>1
  <1>3. raw = <<>>
    BY <1>1, <1>2
  <1> QED
    BY <1>3, NoLevels

\* An action that returns leaves the call asked and its levels alone.
LEMMA ReturnAnswers ==
    ASSUME OutcomeInv, pc \notin {"idle", "done"}, NEW result, Return(result),
           result \in {CanonicalOutcome(raw), Rejected("Geometry", <<>>)}
    PROVE  Contract!Answer /\ AnsweredInv' /\ PermutedInv'
  <1>1. pc' = "done" /\ outcome' = result /\ raw' = raw
    BY DEF Return
  <1>2. outcome.kind = "Pending"
    BY DEF OutcomeInv, Pending
  <1>3. Contract!CanonicalOutcome(raw) = CanonicalOutcome(raw)
    BY SameOutcome
  <1>4. Contract!Rejected("Geometry", <<>>) = Rejected("Geometry", <<>>)
    BY DEF Contract!Rejected, Rejected
  <1>5. Contract!Answer
    BY <1>1, <1>2, <1>3, <1>4 DEF Contract!Answer
  <1>6. AnsweredInv' /\ PermutedInv'
    BY <1>1 DEF AnsweredInv, PermutedInv, SortedLoops
  <1> QED
    BY <1>5, <1>6

\* The others are no step of the contract.
LEMMA LoopGoesOn ==
    ASSUME pc \notin {"idle", "done"}, pc' \notin {"idle", "done"},
           UNCHANGED <<raw, outcome>>,
           pc' \in SortedLoops => Permuted(raw, levels')
    PROVE  UNCHANGED Contract!contractVars /\ AnsweredInv' /\ PermutedInv'
  BY DEF Contract!contractVars, AnsweredInv, PermutedInv

\* Sorting permutes what the first loop has normalized.
LEMMA SortPermutes ==
    ASSUME TypeOK, NormalizeInv, SortLevels
    PROVE  Permuted(raw, levels')
  <1>1. PICK order \in Bijection(DOMAIN levels, DOMAIN levels) :
            levels' = [i \in DOMAIN levels |-> levels[order[i]]]
    BY DEF SortLevels
  <1>2. \A i \in DOMAIN levels : order[i] \in DOMAIN levels
    BY BijectionOntoItself
  <1>3. /\ raw \in Seq(Level) /\ levels \in Seq(CanonicalLevel) /\ cursor \in Nat \ {0}
        /\ Len(levels) = cursor - 1 /\ Len(levels) <= Len(raw) /\ cursor \notin DOMAIN raw
        /\ \A k \in DOMAIN levels : levels[k] = NormalizedLevel(raw[k])
    BY DEF TypeOK, NormalizeInv, SortLevels
  <1>4. DOMAIN levels = DOMAIN raw
    <2>1. Len(levels) = Len(raw)
      BY <1>3
    <2> QED
      BY <1>3, <2>1
  <1>5. levels' = [i \in DOMAIN raw |-> NormalizedLevel(raw[order[i]])]
    BY <1>1, <1>2, <1>3, <1>4
  <1> QED
    BY <1>1, <1>4, <1>5 DEF Permuted

LEMMA ContractStep ==
    ASSUME ContractInv, [Next]_canonVars
    PROVE  /\ [Contract!Ask \/ Contract!Answer]_(Contract!contractVars)
           /\ PermutedInv' /\ AnsweredInv'
  <1> USE DEF ContractInv
  <1> DEFINE Goal == /\ Contract!Ask \/ Contract!Answer \/ UNCHANGED Contract!contractVars
                     /\ PermutedInv' /\ AnsweredInv'
  <1> SUFFICES Goal
    OBVIOUS
  <1>1. CASE UNCHANGED canonVars
    BY <1>1 DEF canonVars, Contract!contractVars, PermutedInv, AnsweredInv
  <1>2. ASSUME NEW input \in Inputs, Call(input)
        PROVE  Goal
    <2>1. /\ pc = "idle" /\ pc' = "normalize" /\ raw' = input /\ outcome' = outcome
          /\ input \in Seq(Level)
      BY <1>2, InputsAssumption DEF Call
    <2>2. Contract!Level = Level
      BY DEF Contract!Level, Level
    <2>3. Contract!Ask
      BY <2>1, <2>2 DEF Contract!Ask
    <2> QED
      BY <2>1, <2>3 DEF PermutedInv, AnsweredInv, SortedLoops
  <1>3. CASE NormalizeLevel
    <2>1. pc = "normalize" /\ cursor \in DOMAIN raw
      BY <1>3 DEF NormalizeLevel
    <2>2. CASE IsEmpty(NormalizedLevel(raw[cursor]).geometry)
      <3>1. Return(Rejected("EmptyGeometry", <<NormalizedLevel(raw[cursor]).alpha>>))
        BY <1>3, <2>2 DEF NormalizeLevel
      <3> QED
        BY <2>1, <2>2, <3>1, FirstEmptyIsAnswer, ReturnAnswers DEF CanonInv
    <2>3. CASE ~IsEmpty(NormalizedLevel(raw[cursor]).geometry)
      <3>1. UNCHANGED <<pc, raw, outcome>>
        BY <1>3, <2>3 DEF NormalizeLevel
      <3> QED
        BY <2>1, <3>1, LoopGoesOn DEF SortedLoops
    <2> QED
      BY <2>2, <2>3
  <1>4. CASE AcceptEmpty
    <2>1. /\ pc = "normalize" /\ cursor \notin DOMAIN raw /\ levels = <<>>
          /\ Return(Accepted(EmptyValue(NoSrid)))
      BY <1>4 DEF AcceptEmpty
    <2> QED
      BY <2>1, NoLevelsIsAnswer, ReturnAnswers DEF CanonInv
  <1>5. CASE SortLevels
    <2>1. pc = "normalize" /\ pc' = "duplicates" /\ UNCHANGED <<raw, outcome>>
      BY <1>5 DEF SortLevels, Enter
    <2> QED
      BY <1>5, <2>1, SortPermutes, LoopGoesOn DEF CanonInv
  <1>6. CASE CheckDuplicates
    <2> DEFINE pair == {k \in 1..Len(levels) - 1 : levels[k].alpha = levels[k + 1].alpha}
    <2>1. pc = "duplicates" /\ Permuted(raw, levels)
      BY <1>6 DEF CheckDuplicates, PermutedInv, SortedLoops
    <2>2. CASE pair # {}
      <3>1. Return(Rejected("DuplicateAlpha", <<levels[Min(pair)].alpha>>))
        BY <1>6, <2>2 DEF CheckDuplicates
      <3> QED
        BY <2>1, <2>2, <3>1, FirstDuplicateIsAnswer, ReturnAnswers DEF CanonInv
    <2>3. CASE pair = {}
      <3>1. pc' = "srid" /\ UNCHANGED <<raw, levels, outcome>>
        BY <1>6, <2>3 DEF CheckDuplicates, Enter
      <3> QED
        BY <2>1, <3>1, LoopGoesOn
    <2> QED
      BY <2>2, <2>3
  <1>7. CASE CheckSrid
    <2>1. pc = "srid" /\ cursor \in DOMAIN levels /\ Permuted(raw, levels)
      BY <1>7 DEF CheckSrid, PermutedInv, SortedLoops
    <2>2. CASE SameSrid(levels[cursor].geometry, levels[1].geometry)
      <3>1. UNCHANGED <<pc, raw, levels, outcome>>
        BY <1>7, <2>2 DEF CheckSrid
      <3> QED
        BY <2>1, <3>1, LoopGoesOn
    <2>3. CASE ~SameSrid(levels[cursor].geometry, levels[1].geometry)
      <3>1. Return(Rejected("MixedSrid", <<levels[cursor].alpha>>))
        BY <1>7, <2>3 DEF CheckSrid
      <3> QED
        BY <2>1, <2>3, <3>1, FirstForeignIsAnswer, ReturnAnswers DEF CanonInv
    <2> QED
      BY <2>2, <2>3
  <1>8. CASE StartCollapse
    <2>1. /\ pc = "srid" /\ pc' = "collapse" /\ UNCHANGED <<raw, levels, outcome>>
          /\ Permuted(raw, levels)
      BY <1>8 DEF StartCollapse, Enter, PermutedInv, SortedLoops
    <2> QED
      BY <2>1, LoopGoesOn
  <1>9. CASE CollapseLevel
    <2>1. /\ pc = "collapse" /\ UNCHANGED <<pc, raw, levels, outcome>>
          /\ Permuted(raw, levels)
      BY <1>9 DEF CollapseLevel, PermutedInv, SortedLoops
    <2> QED
      BY <2>1, LoopGoesOn
  <1>10. CASE StartNesting
    <2>1. /\ pc = "collapse" /\ pc' = "nest" /\ UNCHANGED <<raw, levels, outcome>>
          /\ Permuted(raw, levels)
      BY <1>10 DEF StartNesting, Enter, PermutedInv, SortedLoops
    <2> QED
      BY <2>1, LoopGoesOn
  <1>11. CASE CheckNesting
    <2>1. pc = "nest" /\ cursor + 1 \in DOMAIN kept /\ Permuted(raw, levels)
      BY <1>11 DEF CheckNesting, PermutedInv, SortedLoops
    <2>2. CASE Covers(kept[cursor + 1].geometry, kept[cursor].geometry)
      <3>1. UNCHANGED <<pc, raw, levels, outcome>>
        BY <1>11, <2>2 DEF CheckNesting
      <3> QED
        BY <2>1, <3>1, LoopGoesOn
    <2>3. CASE ~Covers(kept[cursor + 1].geometry, kept[cursor].geometry)
      <3>1. Return(Rejected("NonNestedLevels", <<kept[cursor].alpha, kept[cursor + 1].alpha>>))
        BY <1>11, <2>3 DEF CheckNesting
      <3> QED
        BY <2>1, <2>3, <3>1, UnnestedIsAnswer, ReturnAnswers DEF CanonInv
    <2> QED
      BY <2>2, <2>3
  <1>12. CASE Accept
    <2>1. /\ pc = "nest" /\ cursor + 1 \notin DOMAIN kept /\ Permuted(raw, levels)
          /\ Return(Accepted([srid |-> SridOf(levels[1].geometry), levels |-> kept]))
      BY <1>12 DEF Accept, PermutedInv, SortedLoops
    <2> QED
      BY <2>1, AcceptedIsAnswer, ReturnAnswers DEF CanonInv
  <1>13. CASE EngineFailure
    <2>1. pc \notin {"idle", "done"} /\ Return(Rejected("Geometry", <<>>))
      BY <1>13 DEF EngineFailure, EngineCallDue
    <2> QED
      BY <2>1, ReturnAnswers DEF CanonInv
  <1>14. CASE pc = "done" /\ UNCHANGED canonVars
    BY <1>1, <1>14
  <1> QED
    BY <1>1, <1>2, <1>3, <1>4, <1>5, <1>6, <1>7, <1>8, <1>9, <1>10, <1>11, <1>12, <1>13, <1>14
    DEF Next, CanonStep

-----------------------------------------------------------------------------
\* The theorems.

LEMMA InitContractInv == CanonInit => ContractInv
  <1> SUFFICES ASSUME CanonInit
               PROVE  ContractInv
    OBVIOUS
  <1>1. pc = "idle"
    BY DEF CanonInit
  <1> QED
    BY <1>1, InitInv DEF ContractInv, PermutedInv, AnsweredInv, SortedLoops

LEMMA ContractInvStep == ContractInv /\ [Next]_canonVars => ContractInv'
  BY StepInv, ContractStep DEF ContractInv

LEMMA ContractInvariant == Spec => []ContractInv
  BY InitContractInv, ContractInvStep, PTL DEF Spec

\* canonicalize implements its contract for every engine, set of alphas and input:
\* each of its steps is the question, the answer CanonicalOutcome computes from the
\* raw levels (or an engine error), or no step of the contract.  What the loops
\* find first is what the contract names, in whatever order the levels were given.
\* (ImplementsContract adds that the answer comes, which is liveness.)
THEOREM CanonicalizeMeetsContract ==
    Spec => /\ Contract!ContractInit
            /\ [][Contract!Ask \/ Contract!Answer]_(Contract!contractVars)
  <1>1. CanonInit => Contract!ContractInit
    BY DEF CanonInit, Contract!ContractInit, Pending
  <1>2. ContractInv /\ [Next]_canonVars => [Contract!Ask \/ Contract!Answer]_(Contract!contractVars)
    BY ContractStep
  <1> QED
    BY ContractInvariant, <1>1, <1>2, PTL DEF Spec

\* Reading levels that are canonical gives exactly them, which is what lets the
\* extension read a stored value as it was written.
THEOREM CanonicalStaysUnchanged == Spec => []CanonicalUnchanged
  <1>1. ContractInv => CanonicalUnchanged
    <2> SUFFICES ASSUME ContractInv, pc = "done", outcome.kind # "Geometry", raw # <<>>,
                        Canonical(OfLevels(raw))
                 PROVE  outcome = Accepted(OfLevels(raw))
      BY DEF CanonicalUnchanged, OfLevels
    <2>1. raw \in Seq(Level)
      BY DEF ContractInv, CanonInv, TypeOK
    <2>2. CanonicalOutcome(raw) = Accepted(OfLevels(raw))
      BY <2>1, CanonicalIsAccepted
    <2>3. Rejected("Geometry", <<>>).kind = "Geometry"
      BY DEF Rejected
    <2> QED
      BY <2>2, <2>3 DEF ContractInv, AnsweredInv
  <1> QED
    BY ContractInvariant, <1>1, PTL

-----------------------------------------------------------------------------
\* SetOperation.

LEMMA ValuesAreOperands == Values \subseteq Operand
  BY ValuesAssumption DEF Operand

-----------------------------------------------------------------------------
\* The invariant.

Common == CommonSrid(left, right)

InCommonSrid(ls) == \A k \in DOMAIN ls : SridOf(ls[k].geometry) = Common

OperandInv ==
    /\ phase \in {"idle", "gather", "finish", "done"}
    /\ op \in Operations
    /\ left \in Operand /\ right \in Operand
    /\ phase # "done" => answer = Pending
    /\ phase \in {"gather", "finish"} => CompatibleSrid(left, right)

\* The loop goes down: what it has gathered is above the alphas it has to visit.
GatherInv ==
    /\ domain \subseteq Alpha
    /\ gathered \in Seq(CanonicalLevel)
    /\ StrictlyDescending(gathered)
    /\ phase = "idle" => gathered = <<>>
    /\ phase \in {"gather", "finish"} =>
           \A k \in DOMAIN gathered, t \in domain : gathered[k].alpha > t
    /\ InCommonSrid(gathered)

\* Inside canonicalize: its levels are the gathered ones, none empty, no two of
\* an alpha, all in one SRID.
CallInv ==
    /\ phase \in {"idle", "gather"} => pc = "idle"
    /\ phase = "finish" =>
           /\ raw = gathered /\ raw # <<>> /\ pc # "idle"
           /\ pc = "duplicates" => StrictlyDescending(levels)
           /\ InCommonSrid(levels)
           /\ outcome.kind \in {"Pending", "Ok", "Geometry", "NonNestedLevels"}
           /\ outcome.kind = "Ok" => outcome.value.srid = Common

AnswerInv ==
    /\ answer.kind = "Ok" => answer.value \in FuzzyValue
    /\ AnswersCanonical
    /\ SridOfResult
    /\ RefusesOnlyUnnested

SetInv == CanonInv /\ OperandInv /\ GatherInv /\ CallInv /\ AnswerInv

LEMMA CommonIsSrid ==
    ASSUME OperandInv
    PROVE  Common \in Srid \cup {NoSrid}
  BY DEF OperandInv, Operand, Common, CommonSrid, FuzzyValue

LEMMA SetInitInv == SetInit => SetInv
  <1> SUFFICES ASSUME SetInit
               PROVE  SetInv
    OBVIOUS
  <1>1. CanonInv
    BY InitInv DEF SetInit
  <1>2. pc = "idle" /\ phase = "idle" /\ answer = Pending /\ gathered = <<>> /\ domain = {}
    BY DEF SetInit, CanonInit
  <1>3. OperandInv
    BY <1>2, ValuesAreOperands DEF SetInit, OperandInv
  <1>4. GatherInv
    BY <1>2 DEF GatherInv, StrictlyDescending, InCommonSrid
  <1>5. CallInv
    BY <1>2 DEF CallInv
  <1>6. AnswerInv
    BY <1>2 DEF AnswerInv, AnswersCanonical, SridOfResult, RefusesOnlyUnnested, Pending
  <1> QED
    BY <1>1, <1>3, <1>4, <1>5, <1>6 DEF SetInv

-----------------------------------------------------------------------------
\* The steps of the operation itself.  All but FinishLevels leave canonicalize's
\* variables alone.

LEMMA UnchangedCanon ==
    ASSUME CanonInv, UNCHANGED canonVars
    PROVE  CanonInv'
  BY StepInv

LEMMA RejectSridStep ==
    ASSUME SetInv, RejectSrid
    PROVE  SetInv'
  <1>1. /\ phase' = "done" /\ answer' = Rejected("MixedOperandSrid", <<>>)
        /\ UNCHANGED <<op, left, right, domain, gathered>> /\ UNCHANGED canonVars
    BY DEF RejectSrid, Reply
  <1>2. CanonInv'
    BY <1>1, UnchangedCanon DEF SetInv
  <1>3. OperandInv' /\ GatherInv'
    BY <1>1 DEF SetInv, OperandInv, GatherInv, InCommonSrid, Common
  <1>4. CallInv'
    BY <1>1 DEF CallInv
  <1>5. AnswerInv'
    BY <1>1 DEF AnswerInv, AnswersCanonical, SridOfResult, RefusesOnlyUnnested, Rejected
  <1> QED
    BY <1>2, <1>3, <1>4, <1>5 DEF SetInv

LEMMA StartGatherStep ==
    ASSUME SetInv, StartGather
    PROVE  SetInv'
  <1>1. /\ phase = "idle" /\ phase' = "gather" /\ CompatibleSrid(left, right)
        /\ domain' = AlphaDomain(left, right)
        /\ UNCHANGED <<op, left, right, gathered, answer>> /\ UNCHANGED canonVars
    BY DEF StartGather
  <1>2. CanonInv'
    BY <1>1, UnchangedCanon DEF SetInv
  <1>3. OperandInv'
    BY <1>1 DEF SetInv, OperandInv
  <1>4. domain' \subseteq Alpha
    <2>1. left \in Operand /\ right \in Operand
      BY DEF SetInv, OperandInv
    <2> QED
      BY <1>1, <2>1, OperandLevel DEF AlphaDomain, ToSet
  <1>5. GatherInv'
    BY <1>1, <1>4 DEF SetInv, GatherInv, InCommonSrid, Common
  <1>6. CallInv'
    BY <1>1 DEF SetInv, CallInv, canonVars
  <1>7. AnswerInv'
    BY <1>1 DEF SetInv, AnswerInv, AnswersCanonical, SridOfResult, RefusesOnlyUnnested
  <1> QED
    BY <1>2, <1>3, <1>5, <1>6, <1>7 DEF SetInv

LEMMA ThresholdIsHighest ==
    ASSUME domain \subseteq Alpha, domain # {}
    PROVE  /\ Threshold \in domain
           /\ \A t \in domain \ {Threshold} : t < Threshold
  <1>1. domain \in SUBSET (0..One) /\ One \in Nat
    BY AlphaAssumption
  <1>2. Threshold \in domain /\ \A t \in domain : t <= Threshold
    BY <1>1, MaxIsGreatest DEF Threshold
  <1> QED
    BY <1>1, <1>2

\* A level of the threshold comes below every gathered one.
LEMMA AppendGathered ==
    ASSUME GatherInv, OperandInv, phase = "gather", domain # {},
           NEW l \in ThresholdLevels(op, left, right, Threshold)
    PROVE  /\ Append(gathered, l) \in Seq(CanonicalLevel)
           /\ StrictlyDescending(Append(gathered, l))
           /\ \A k \in DOMAIN Append(gathered, l), t \in domain \ {Threshold} :
                  Append(gathered, l)[k].alpha > t
           /\ InCommonSrid(Append(gathered, l))
  <1> DEFINE as == Append(gathered, l)
             n == Len(gathered)
  <1>1. /\ Threshold \in Alpha /\ Threshold \in domain
        /\ \A t \in domain \ {Threshold} : t < Threshold
    BY ThresholdIsHighest DEF GatherInv
  <1>2. l \in CanonicalLevel /\ l.alpha = Threshold /\ SridOf(l.geometry) = Common
    BY <1>1, ThresholdLevelType DEF OperandInv, Common
  <1>3. /\ gathered \in Seq(CanonicalLevel) /\ as \in Seq(CanonicalLevel)
        /\ n \in Nat /\ DOMAIN gathered = 1..n /\ DOMAIN as = 1..n + 1
        /\ \A k \in 1..n : as[k] = gathered[k]
        /\ as[n + 1] = l
    BY <1>2 DEF GatherInv
  <1>4. \A k \in 1..n : gathered[k].alpha > Threshold
    BY <1>1, <1>3 DEF GatherInv
  <1>5. gathered \in Seq(Level) /\ as \in Seq(Level)
    BY <1>3, CanonicalLevelIsLevel
  <1>6. \A k \in DOMAIN as : as[k].alpha \in Int
    BY <1>5, LevelAlphaIsInt
  <1>7. \A t \in Alpha : t \in Int
    BY AlphaAssumption
  <1> HIDE DEF as, n
  <1>8. StrictlyDescending(as)
    <2> SUFFICES ASSUME NEW i \in 1..n + 1, NEW j \in 1..n + 1, i < j
                 PROVE  as[i].alpha > as[j].alpha
      BY <1>3 DEF StrictlyDescending
    <2>1. i \in 1..n
      BY <1>3
    <2>2. CASE j = n + 1
      BY <2>1, <2>2, <1>2, <1>3, <1>4
    <2>3. CASE j # n + 1
      <3>1. j \in 1..n
        BY <2>3, <1>3
      <3> QED
        BY <2>1, <3>1, <1>3 DEF GatherInv, StrictlyDescending
    <2> QED
      BY <2>2, <2>3
  <1>9. ASSUME NEW k \in 1..n + 1, NEW t \in domain \ {Threshold}
        PROVE  as[k].alpha > t
    <2>1. t \in Int /\ Threshold \in Int /\ t < Threshold
      BY <1>1, <1>7 DEF GatherInv
    <2>2. CASE k = n + 1
      BY <2>1, <2>2, <1>2, <1>3
    <2>3. CASE k # n + 1
      <3>1. k \in 1..n
        BY <2>3, <1>3
      <3>2. as[k].alpha > Threshold
        BY <3>1, <1>3, <1>4
      <3>3. as[k].alpha \in Int
        BY <1>3, <1>6
      <3>4. \A a, b, c \in Int : a > b /\ c < b => a > c
        OBVIOUS
      <3> QED
        BY <2>1, <3>2, <3>3, <3>4
    <2> QED
      BY <2>2, <2>3
  <1>10. ASSUME NEW k \in 1..n + 1
         PROVE  SridOf(as[k].geometry) = Common
    <2>1. CASE k = n + 1
      BY <2>1, <1>2, <1>3
    <2>2. CASE k # n + 1
      <3>1. k \in 1..n
        BY <2>2, <1>3
      <3> QED
        BY <3>1, <1>3 DEF GatherInv, InCommonSrid
    <2> QED
      BY <2>1, <2>2
  <1>11. /\ as \in Seq(CanonicalLevel)
         /\ \A k \in DOMAIN as, t \in domain \ {Threshold} : as[k].alpha > t
         /\ InCommonSrid(as)
    BY <1>3, <1>9, <1>10 DEF InCommonSrid
  <1> QED
    BY <1>8, <1>11 DEF as

LEMMA GatherLevelStep ==
    ASSUME SetInv, GatherLevel
    PROVE  SetInv'
  <1>1. /\ phase = "gather" /\ domain # {}
        /\ domain' = domain \ {Threshold}
        /\ UNCHANGED <<phase, op, left, right, answer>> /\ UNCHANGED canonVars
        /\ \/ UNCHANGED gathered
           \/ \E l \in ThresholdLevels(op, left, right, Threshold) : gathered' = Append(gathered, l)
    BY DEF GatherLevel
  <1>2. CanonInv'
    BY <1>1, UnchangedCanon DEF SetInv
  <1>3. OperandInv'
    BY <1>1 DEF SetInv, OperandInv
  <1>4. GatherInv'
    <2>1. CASE UNCHANGED gathered
      BY <1>1, <2>1 DEF SetInv, GatherInv, InCommonSrid, Common
    <2>2. CASE \E l \in ThresholdLevels(op, left, right, Threshold) :
                   gathered' = Append(gathered, l)
      <3>1. PICK l \in ThresholdLevels(op, left, right, Threshold) :
                gathered' = Append(gathered, l)
        BY <2>2
      <3>2. /\ gathered' \in Seq(CanonicalLevel)
            /\ StrictlyDescending(gathered')
            /\ \A k \in DOMAIN gathered', t \in domain' : gathered'[k].alpha > t
            /\ InCommonSrid(gathered')
        BY <1>1, <3>1, AppendGathered DEF SetInv
      <3>3. InCommonSrid(gathered)'
        BY <1>1, <3>2 DEF InCommonSrid, Common
      <3> QED
        BY <1>1, <3>2, <3>3 DEF SetInv, GatherInv
    <2> QED
      BY <1>1, <2>1, <2>2
  <1>5. CallInv'
    BY <1>1 DEF SetInv, CallInv, canonVars
  <1>6. AnswerInv'
    BY <1>1 DEF SetInv, AnswerInv, AnswersCanonical, SridOfResult, RefusesOnlyUnnested
  <1> QED
    BY <1>2, <1>3, <1>4, <1>5, <1>6 DEF SetInv

LEMMA GatherFailureStep ==
    ASSUME SetInv, GatherFailure
    PROVE  SetInv'
  <1>1. /\ phase' = "done" /\ answer' = Rejected("Geometry", <<>>)
        /\ UNCHANGED <<op, left, right, domain, gathered>> /\ UNCHANGED canonVars
    BY DEF GatherFailure, Reply
  <1>2. CanonInv'
    BY <1>1, UnchangedCanon DEF SetInv
  <1>3. OperandInv' /\ GatherInv'
    BY <1>1 DEF SetInv, OperandInv, GatherInv, InCommonSrid, Common
  <1>4. CallInv'
    BY <1>1 DEF CallInv
  <1>5. AnswerInv'
    BY <1>1 DEF AnswerInv, AnswersCanonical, SridOfResult, RefusesOnlyUnnested, Rejected
  <1> QED
    BY <1>2, <1>3, <1>4, <1>5 DEF SetInv

LEMMA FinishEmptyStep ==
    ASSUME SetInv, FinishEmpty
    PROVE  SetInv'
  <1>1. /\ phase' = "done" /\ answer' = [kind |-> "Ok", value |-> EmptyValue(Common)]
        /\ UNCHANGED <<op, left, right, domain, gathered>> /\ UNCHANGED canonVars
    BY DEF FinishEmpty, Reply, EmptyResult, Accepted, Common
  <1>2. CanonInv'
    BY <1>1, UnchangedCanon DEF SetInv
  <1>3. OperandInv' /\ GatherInv'
    BY <1>1 DEF SetInv, OperandInv, GatherInv, InCommonSrid, Common
  <1>4. CallInv'
    BY <1>1 DEF CallInv
  <1>5. EmptyValue(Common) \in FuzzyValue /\ Canonical(EmptyValue(Common))
    BY CommonIsSrid, EmptyIsCanonicalValue DEF SetInv
  <1>6. EmptyValue(Common).srid = CommonSrid(left, right)
    BY DEF EmptyValue, Common
  <1>7. AnswerInv'
    BY <1>1, <1>5, <1>6 DEF AnswerInv, AnswersCanonical, SridOfResult, RefusesOnlyUnnested
  <1> QED
    BY <1>2, <1>3, <1>4, <1>7 DEF SetInv

\* A call of canonicalize starts from the locals of a call not made yet.
LEMMA CallKeepsInv ==
    ASSUME CanonInv, NEW input \in Seq(Level), Call(input)
    PROVE  CanonInv'
  <1>1. /\ pc = "idle" /\ pc' = "normalize" /\ raw' = input
        /\ UNCHANGED <<cursor, levels, kept, outcome>>
    BY DEF Call
  <1>2. cursor = 1 /\ levels = <<>> /\ kept = <<>> /\ outcome = Pending
    BY <1>1 DEF CanonInv, NormalizeInv, OutcomeInv
  <1>3. TypeOK'
    BY <1>1 DEF CanonInv, TypeOK
  <1>4. OutcomeInv' /\ NormalizeInv'
    BY <1>1, <1>2 DEF OutcomeInv, NormalizeInv
  <1>5. SortInv' /\ DuplicateInv' /\ SridInv' /\ CollapseInv' /\ NestingInv'
    BY <1>1 DEF SortInv, SortedLoops, DuplicateInv, SridInv, CollapseInv, NestingInv
  <1>6. ResultCanonical' /\ MembershipPreserved'
    BY <1>1, <1>2 DEF ResultCanonical, MembershipPreserved, Pending
  <1> QED
    BY <1>3, <1>4, <1>5, <1>6 DEF CanonInv

LEMMA FinishLevelsStep ==
    ASSUME SetInv, FinishLevels
    PROVE  SetInv'
  <1>1. /\ phase = "gather" /\ phase' = "finish" /\ gathered # <<>>
        /\ pc = "idle" /\ pc' = "normalize" /\ raw' = gathered
        /\ UNCHANGED <<op, left, right, domain, gathered, answer>>
        /\ UNCHANGED <<cursor, levels, kept, outcome>>
    BY DEF FinishLevels, Call
  <1>2. CanonInv /\ OperandInv /\ GatherInv /\ CallInv /\ AnswerInv
    BY DEF SetInv
  <1>3. cursor = 1 /\ levels = <<>> /\ kept = <<>> /\ outcome = Pending
    BY <1>1, <1>2 DEF CanonInv, NormalizeInv, OutcomeInv
  <1>4. gathered \in Seq(Level)
    BY <1>2, CanonicalLevelIsLevel DEF GatherInv
  <1>5. CanonInv'
    BY <1>2, <1>4, CallKeepsInv DEF FinishLevels
  <1>6. OperandInv' /\ GatherInv'
    BY <1>1, <1>2 DEF OperandInv, GatherInv, InCommonSrid, Common
  <1>7. CallInv'
    BY <1>1, <1>3 DEF CallInv, InCommonSrid, Pending
  <1>8. AnswerInv'
    BY <1>1, <1>2 DEF AnswerInv, AnswersCanonical, SridOfResult, RefusesOnlyUnnested
  <1> QED
    BY <1>5, <1>6, <1>7, <1>8 DEF SetInv

LEMMA DeliverStep ==
    ASSUME SetInv, Deliver
    PROVE  SetInv'
  <1>1. /\ phase = "finish" /\ phase' = "done" /\ answer' = outcome /\ pc = "done"
        /\ UNCHANGED <<op, left, right, domain, gathered>> /\ UNCHANGED canonVars
    BY DEF Deliver, Reply
  <1>2. CanonInv'
    BY <1>1, UnchangedCanon DEF SetInv
  <1>3. OperandInv' /\ GatherInv'
    BY <1>1 DEF SetInv, OperandInv, GatherInv, InCommonSrid, Common
  <1>4. CallInv'
    BY <1>1 DEF CallInv
  <1>5. /\ outcome.kind \in {"Pending", "Ok", "Geometry", "NonNestedLevels"}
        /\ outcome.kind = "Ok" => /\ outcome.value.srid = Common
                                  /\ outcome.value \in FuzzyValue
                                  /\ Canonical(outcome.value)
    BY <1>1 DEF SetInv, CallInv, CanonInv, TypeOK, ResultCanonical
  <1>6. AnswerInv'
    BY <1>1, <1>5 DEF AnswerInv, AnswersCanonical, SridOfResult, RefusesOnlyUnnested, Common
  <1> QED
    BY <1>2, <1>3, <1>4, <1>6 DEF SetInv

-----------------------------------------------------------------------------
\* The steps of canonicalize on the gathered levels.

\* Sorting levels of different alphas makes them descend strictly.
LEMMA SortSeparates ==
    ASSUME TypeOK, SortLevels, StrictlyDescending(levels)
    PROVE  StrictlyDescending(levels')
  <1>1. PICK order \in Bijection(DOMAIN levels, DOMAIN levels) :
            /\ \A i, j \in DOMAIN levels :
                   i < j => levels[order[i]].alpha >= levels[order[j]].alpha
            /\ levels' = [i \in DOMAIN levels |-> levels[order[i]]]
    BY DEF SortLevels
  <1>2. levels \in Seq(Level)
    BY CanonicalLevelIsLevel DEF TypeOK
  <1>3. DOMAIN levels \subseteq Int
    BY <1>2
  <1>4. \A i \in DOMAIN levels : order[i] \in DOMAIN levels
    BY BijectionOntoItself
  <1> SUFFICES ASSUME NEW i \in DOMAIN levels, NEW j \in DOMAIN levels, i < j
               PROVE  levels'[i].alpha > levels'[j].alpha
    BY <1>1 DEF StrictlyDescending
  <1>5. order[i] # order[j]
    BY <1>3, BijectionIsInjective
  <1>6. levels[order[i]].alpha \in Int /\ levels[order[j]].alpha \in Int
    BY <1>2, <1>4, LevelAlphaIsInt
  <1>7. order[i] < order[j] \/ order[j] < order[i]
    BY <1>3, <1>4, <1>5
  <1>8. \/ levels[order[i]].alpha > levels[order[j]].alpha
        \/ levels[order[j]].alpha > levels[order[i]].alpha
    BY <1>4, <1>7 DEF StrictlyDescending
  <1>9. levels[order[i]].alpha > levels[order[j]].alpha
    BY <1>1, <1>6, <1>8
  <1> QED
    BY <1>1, <1>9

\* What CallInv says while the operation is in canonicalize.
InCall ==
    /\ raw = gathered /\ raw # <<>> /\ pc # "idle"
    /\ pc = "duplicates" => StrictlyDescending(levels)
    /\ InCommonSrid(levels)
    /\ outcome.kind \in {"Pending", "Ok", "Geometry", "NonNestedLevels"}
    /\ outcome.kind = "Ok" => outcome.value.srid = Common

LEMMA InCallStep ==
    ASSUME CanonInv, GatherInv, InCall, CanonStep, UNCHANGED opVars
    PROVE  InCall'
  <1>1. /\ UNCHANGED <<op, left, right, gathered>>
        /\ Common' = Common
    BY DEF opVars, Common
  <1>2. /\ raw \in Seq(CanonicalLevel) /\ levels \in Seq(CanonicalLevel)
        /\ StrictlyDescending(raw) /\ InCommonSrid(raw) /\ cursor \in Nat \ {0}
    BY DEF CanonInv, TypeOK, GatherInv, InCall
  <1>3. pc \in {"normalize"} => levels \in Seq(CanonicalLevel)
                                /\ Len(levels) = cursor - 1 /\ Len(levels) <= Len(raw)
                                /\ \A k \in DOMAIN levels : levels[k] = NormalizedLevel(raw[k])
    BY <1>2 DEF CanonInv, NormalizeInv
  <1>4. pc = "normalize" => \A k \in DOMAIN levels : levels[k] = raw[k]
    <2> SUFFICES ASSUME pc = "normalize", NEW k \in DOMAIN levels
                 PROVE  levels[k] = raw[k]
      OBVIOUS
    <2>1. k \in DOMAIN raw
      BY <1>2, <1>3
    <2>2. raw[k] \in CanonicalLevel
      BY <1>2, <2>1
    <2> QED
      BY <1>3, <2>2, NormalizedIsItself
  <1>5. pc # "done" => outcome = Pending
    BY DEF CanonInv, OutcomeInv
  <1>6. CASE NormalizeLevel
    <2>1. raw[cursor] \in CanonicalLevel /\ NormalizedLevel(raw[cursor]) = raw[cursor]
          /\ ~IsEmpty(raw[cursor].geometry) /\ cursor \in DOMAIN raw
      BY <1>2, <1>6, NormalizedIsItself DEF NormalizeLevel
    <2>2. /\ levels' = Append(levels, raw[cursor])
          /\ UNCHANGED <<pc, raw, kept, outcome>> /\ pc = "normalize"
      BY <1>6, <2>1 DEF NormalizeLevel
    <2>3. \A k \in DOMAIN levels' : SridOf(levels'[k].geometry) = Common
      <3> SUFFICES ASSUME NEW k \in DOMAIN levels'
                   PROVE  SridOf(levels'[k].geometry) = Common
        OBVIOUS
      <3>1. k \in DOMAIN levels \/ levels'[k] = raw[cursor]
        BY <1>2, <2>2
      <3>2. k \in DOMAIN levels => levels'[k] = levels[k]
        BY <1>2, <2>2
      <3> QED
        BY <3>1, <3>2, <2>1, <1>2 DEF InCall, InCommonSrid
    <2> QED
      BY <1>1, <2>2, <2>3 DEF InCall, InCommonSrid
  <1>7. CASE AcceptEmpty
    <2>1. raw = <<>>
      BY <1>2, <1>3, <1>7 DEF AcceptEmpty
    <2> QED
      BY <2>1 DEF InCall
  <1>8. CASE SortLevels
    <2>1. StrictlyDescending(levels)
      <3>1. \A k \in DOMAIN levels : k \in DOMAIN raw
        BY <1>2, <1>3, <1>8 DEF SortLevels
      <3> QED
        BY <1>2, <1>4, <1>8, <3>1 DEF StrictlyDescending, SortLevels
    <2>2. StrictlyDescending(levels')
      BY <1>8, <2>1, SortSeparates DEF CanonInv
    <2>3. /\ \A j \in DOMAIN levels' : \E k \in DOMAIN raw : levels'[j] = NormalizedLevel(raw[k])
      BY <1>8, SortKeepsLevels DEF CanonInv
    <2>4. \A k \in DOMAIN raw : NormalizedLevel(raw[k]) = raw[k]
      BY <1>2, NormalizedIsItself
    <2>5. \A j \in DOMAIN levels' : SridOf(levels'[j].geometry) = Common
      BY <2>3, <2>4, <1>2 DEF InCommonSrid
    <2>6. pc' = "duplicates" /\ UNCHANGED <<raw, kept, outcome>>
      BY <1>8 DEF SortLevels, Enter
    <2> QED
      BY <1>1, <2>2, <2>5, <2>6 DEF InCall, InCommonSrid
  <1>9. CASE CheckDuplicates
    <2>1. {k \in 1..Len(levels) - 1 : levels[k].alpha = levels[k + 1].alpha} = {}
      <3> SUFFICES ASSUME NEW k \in 1..Len(levels) - 1,
                          levels[k].alpha = levels[k + 1].alpha
                   PROVE  FALSE
        OBVIOUS
      <3>1. k \in DOMAIN levels /\ k + 1 \in DOMAIN levels /\ k < k + 1
        BY <1>2
      <3>2. levels[k].alpha > levels[k + 1].alpha
        BY <3>1, <1>9 DEF CheckDuplicates, InCall, StrictlyDescending
      <3>3. levels[k].alpha \in Int
        BY <3>1, <1>2, CanonicalLevelIsLevel, LevelAlphaIsInt
      <3> QED
        BY <3>2, <3>3
    <2>2. pc' = "srid" /\ UNCHANGED <<raw, levels, kept, outcome>>
      BY <1>9, <2>1 DEF CheckDuplicates, Enter
    <2> QED
      BY <1>1, <2>2 DEF InCall, InCommonSrid
  <1>10. CASE CheckSrid
    <2>1. SameSrid(levels[cursor].geometry, levels[1].geometry)
      <3>1. cursor \in DOMAIN levels /\ 1 \in DOMAIN levels
        BY <1>2, <1>10 DEF CheckSrid
      <3> QED
        BY <3>1 DEF InCall, InCommonSrid, SameSrid
    <2>2. UNCHANGED <<pc, raw, levels, kept, outcome>> /\ pc = "srid"
      BY <1>10, <2>1 DEF CheckSrid
    <2> QED
      BY <1>1, <2>2 DEF InCall, InCommonSrid
  <1>11. CASE StartCollapse \/ CollapseLevel \/ StartNesting
    <2>1. UNCHANGED <<raw, levels, outcome>> /\ pc' \in {"collapse", "nest"}
      BY <1>11 DEF StartCollapse, CollapseLevel, StartNesting, Enter, Advance
    <2> QED
      BY <1>1, <2>1 DEF InCall, InCommonSrid
  <1>12. CASE CheckNesting
    <2>1. /\ UNCHANGED <<raw, levels>> /\ pc' \in {"nest", "done"}
          /\ outcome' = outcome \/ outcome'.kind = "NonNestedLevels"
      BY <1>12 DEF CheckNesting, Advance, Return, Rejected
    <2> QED
      BY <1>1, <2>1 DEF InCall, InCommonSrid
  <1>13. CASE Accept
    <2>1. /\ UNCHANGED <<raw, levels>> /\ pc' = "done"
          /\ outcome'.kind = "Ok" /\ outcome'.value.srid = SridOf(levels[1].geometry)
      BY <1>13 DEF Accept, Return, Accepted
    <2>2. levels # <<>>
      BY <1>13 DEF Accept, CanonInv, SortInv, SortedLoops
    <2>3. 1 \in DOMAIN levels
      BY <1>2, <2>2
    <2> QED
      BY <1>1, <2>1, <2>3 DEF InCall, InCommonSrid
  <1>14. CASE EngineFailure
    <2>1. UNCHANGED <<raw, levels>> /\ pc' = "done" /\ outcome'.kind = "Geometry"
      BY <1>14 DEF EngineFailure, Return, Rejected
    <2> QED
      BY <1>1, <2>1 DEF InCall, InCommonSrid
  <1> QED
    BY <1>6, <1>7, <1>8, <1>9, <1>10, <1>11, <1>12, <1>13, <1>14 DEF CanonStep

LEMMA CanonicalizeStep ==
    ASSUME SetInv, Canonicalize
    PROVE  SetInv'
  <1>1. phase = "finish" /\ CanonStep /\ UNCHANGED opVars
    BY DEF Canonicalize
  <1>2. UNCHANGED <<phase, op, left, right, domain, gathered, answer>>
    BY <1>1 DEF opVars
  <1>3. CanonInv'
    BY <1>1, StepInv DEF SetInv, Next
  <1>4. OperandInv' /\ GatherInv'
    BY <1>2 DEF SetInv, OperandInv, GatherInv, InCommonSrid, Common
  <1>5. InCall
    BY <1>1 DEF SetInv, CallInv, InCall
  <1>6. InCall'
    BY <1>1, <1>5, InCallStep DEF SetInv
  <1>7. CallInv'
    BY <1>1, <1>2, <1>6 DEF CallInv, InCall
  <1>8. AnswerInv'
    BY <1>2 DEF SetInv, AnswerInv, AnswersCanonical, SridOfResult, RefusesOnlyUnnested
  <1> QED
    BY <1>3, <1>4, <1>7, <1>8 DEF SetInv

LEMMA SetStepInv == SetInv /\ [SetNext]_setVars => SetInv'
  <1> SUFFICES ASSUME SetInv, [SetNext]_setVars
               PROVE  SetInv'
    OBVIOUS
  <1>1. CASE UNCHANGED setVars
    <2>1. UNCHANGED <<phase, op, left, right, domain, gathered, answer>> /\ UNCHANGED canonVars
      BY <1>1 DEF setVars, opVars
    <2>2. CanonInv'
      BY <2>1, UnchangedCanon DEF SetInv
    <2>3. OperandInv' /\ GatherInv'
      BY <2>1 DEF SetInv, OperandInv, GatherInv, InCommonSrid, Common
    <2>4. CallInv'
      BY <2>1 DEF SetInv, CallInv, canonVars, InCommonSrid, Common
    <2>5. AnswerInv'
      BY <2>1 DEF SetInv, AnswerInv, AnswersCanonical, SridOfResult, RefusesOnlyUnnested
    <2> QED
      BY <2>2, <2>3, <2>4, <2>5 DEF SetInv
  <1>2. CASE SetStep
    BY <1>2, RejectSridStep, StartGatherStep, GatherLevelStep, GatherFailureStep,
       FinishEmptyStep, FinishLevelsStep, CanonicalizeStep, DeliverStep DEF SetStep
  <1> QED
    BY <1>1, <1>2 DEF SetNext

-----------------------------------------------------------------------------
\* The loop has gathered what each visited threshold contributes.

Visited == AlphaDomain(left, right)

LevelsAt(t) == ThresholdLevels(op, left, right, t)

LoopInv ==
    phase \in {"gather", "finish"} =>
        /\ domain \subseteq Visited
        /\ \A k \in DOMAIN gathered : /\ gathered[k].alpha \in Visited
                                      /\ gathered[k] \in LevelsAt(gathered[k].alpha)
        /\ \A t \in Visited \ domain :
               LevelsAt(t) # {} => \E k \in DOMAIN gathered : gathered[k] \in LevelsAt(t)
        /\ phase = "finish" => domain = {}

LEMMA VisitedAreAlphas ==
    ASSUME OperandInv
    PROVE  Visited \subseteq Alpha
  <1>1. left \in Operand /\ right \in Operand
    BY DEF OperandInv
  <1> QED
    BY <1>1, OperandFacts DEF Visited, AlphaDomain, ToSet

\* A step that leaves the loop's variables alone keeps what is said of them.
LEMMA LoopUnchanged ==
    ASSUME LoopInv, UNCHANGED <<op, left, right, domain, gathered>>,
           phase' \in {"gather", "finish"} => phase' = phase
    PROVE  LoopInv'
  BY DEF LoopInv, LevelsAt, Visited

\* The threshold visited contributes the level appended, or none.
LEMMA GatherLevelLoop ==
    ASSUME SetInv, LoopInv, GatherLevel
    PROVE  LoopInv'
  <1>1. /\ phase = "gather" /\ phase' = "gather" /\ domain # {}
        /\ domain' = domain \ {Threshold}
        /\ UNCHANGED <<op, left, right, answer>>
    BY DEF GatherLevel
  <1>2. /\ domain \subseteq Visited /\ domain \subseteq Alpha /\ gathered \in Seq(CanonicalLevel)
        /\ Threshold \in domain
    BY <1>1, ThresholdIsHighest DEF LoopInv, SetInv, GatherInv
  <1>3. /\ \A k \in DOMAIN gathered : /\ gathered[k].alpha \in Visited
                                     /\ gathered[k] \in LevelsAt(gathered[k].alpha)
        /\ \A t \in Visited \ domain :
               LevelsAt(t) # {} => \E k \in DOMAIN gathered : gathered[k] \in LevelsAt(t)
    BY <1>1 DEF LoopInv
  <1>4. /\ \A k \in DOMAIN gathered' : /\ gathered'[k].alpha \in Visited
                                      /\ gathered'[k] \in LevelsAt(gathered'[k].alpha)
        /\ \A t \in Visited \ domain' :
               LevelsAt(t) # {} => \E k \in DOMAIN gathered' : gathered'[k] \in LevelsAt(t)
    <2>1. CASE LevelsAt(Threshold) = {} /\ UNCHANGED gathered
      BY <1>1, <1>3, <2>1
    <2>2. CASE \E l \in LevelsAt(Threshold) : gathered' = Append(gathered, l)
      <3>1. PICK l \in LevelsAt(Threshold) : gathered' = Append(gathered, l)
        BY <2>2
      <3>2. l \in CanonicalLevel /\ l.alpha = Threshold
        BY <1>1, <1>2, ThresholdLevelType DEF SetInv, OperandInv, LevelsAt
      <3>3. /\ DOMAIN gathered' = DOMAIN gathered \cup {Len(gathered) + 1}
            /\ \A k \in DOMAIN gathered : gathered'[k] = gathered[k]
            /\ gathered'[Len(gathered) + 1] = l
        BY <1>2, <3>1, <3>2
      <3> QED
        BY <1>1, <1>2, <1>3, <3>1, <3>2, <3>3
    <2> QED
      BY <2>1, <2>2 DEF GatherLevel, LevelsAt
  <1> QED
    BY <1>1, <1>2, <1>4 DEF LoopInv, LevelsAt, Visited

LEMMA LoopInitially == SetInit => LoopInv
  BY DEF SetInit, LoopInv

LEMMA LoopStep == SetInv /\ LoopInv /\ [SetNext]_setVars => LoopInv'
  <1> SUFFICES ASSUME SetInv, LoopInv, [SetNext]_setVars
               PROVE  LoopInv'
    OBVIOUS
  <1>1. CASE UNCHANGED setVars
    BY <1>1, LoopUnchanged DEF setVars, opVars
  <1>2. CASE StartGather
    <2>1. /\ phase = "idle" /\ phase' = "gather" /\ domain' = Visited
          /\ UNCHANGED <<op, left, right, gathered>>
      BY <1>2 DEF StartGather, Visited
    <2>2. gathered = <<>>
      BY <2>1 DEF SetInv, GatherInv
    <2> QED
      BY <2>1, <2>2 DEF LoopInv, Visited
  <1>3. CASE FinishLevels
    <2>1. /\ phase = "gather" /\ phase' = "finish" /\ domain = {}
          /\ UNCHANGED <<op, left, right, domain, gathered>>
      BY <1>3 DEF FinishLevels
    <2> QED
      BY <2>1 DEF LoopInv, LevelsAt, Visited
  <1>4. CASE RejectSrid \/ GatherFailure \/ FinishEmpty \/ Canonicalize \/ Deliver
    BY <1>4, LoopUnchanged
    DEF RejectSrid, GatherFailure, FinishEmpty, Canonicalize, Deliver, Reply, opVars
  <1> QED
    BY <1>1, <1>2, <1>3, <1>4, GatherLevelLoop DEF SetNext, SetStep

-----------------------------------------------------------------------------
\* The call computes its function.

\* After the loop, the gathered levels are those the function is computed from.
LEMMA GatheredAll ==
    ASSUME SetInv, LoopInv, phase \in {"gather", "finish"}, domain = {}
    PROVE  SetOperationOutcome(op, left, right)
               = IF gathered = <<>> THEN EmptyResult(left, right) ELSE CanonicalOutcome(gathered)
  <1> DEFINE all == UNION {ThresholdLevels(op, left, right, t) : t \in AlphaDomain(left, right)}
  <1>1. op \in Operations /\ CompatibleSrid(left, right)
    BY DEF SetInv, OperandInv
  <1>2. gathered \in Seq(Level) /\ StrictlyDescending(gathered)
    BY CanonicalLevelIsLevel DEF SetInv, GatherInv
  <1>3. ToSet(gathered) \subseteq all
    BY DEF LoopInv, LevelsAt, Visited, ToSet
  <1>4. ASSUME NEW l \in all
        PROVE  l \in ToSet(gathered)
    <2>1. PICK t \in Visited : l \in LevelsAt(t)
      BY <1>4 DEF LevelsAt, Visited
    <2>2. PICK k \in DOMAIN gathered : gathered[k] \in LevelsAt(t)
      BY <2>1 DEF LoopInv
    <2>3. l = gathered[k]
      BY <1>1, <2>1, <2>2, AtMostOneLevel DEF LevelsAt
    <2> QED
      BY <2>3 DEF ToSet
  <1>5. all = ToSet(gathered)
    BY <1>3, <1>4
  <1>6. HighestFirst(all) = gathered
    BY <1>2, <1>5, HighestFirstIs
  <1> QED
    BY <1>1, <1>6 DEF SetOperationOutcome

ComputesInv == LoopInv /\ PermutedInv /\ AnsweredInv /\ ComputesOutcome

LEMMA ComputesInitially == SetInit => ComputesInv
  <1> SUFFICES ASSUME SetInit
               PROVE  ComputesInv
    OBVIOUS
  <1>1. PermutedInv /\ AnsweredInv
    BY InitContractInv DEF SetInit, ContractInv
  <1>2. ComputesOutcome
    BY DEF SetInit, ComputesOutcome, Pending
  <1> QED
    BY <1>1, <1>2, LoopInitially DEF ComputesInv

\* A call of canonicalize starts it anew, and its steps keep its contract.
LEMMA CanonicalizeAnswers ==
    ASSUME SetInv, PermutedInv, AnsweredInv, [SetNext]_setVars
    PROVE  PermutedInv' /\ AnsweredInv'
  <1>1. CASE FinishLevels
    BY <1>1 DEF FinishLevels, Call, PermutedInv, AnsweredInv, SortedLoops
  <1>2. CASE Canonicalize \/ UNCHANGED canonVars
    <2>1. [Next]_canonVars /\ ContractInv
      BY <1>2 DEF Canonicalize, Next, ContractInv, SetInv
    <2> QED
      BY <2>1, ContractStep
  <1>3. SetStep => FinishLevels \/ Canonicalize \/ UNCHANGED canonVars
    BY DEF SetStep, RejectSrid, StartGather, GatherLevel, GatherFailure, FinishEmpty, Deliver
  <1>4. UNCHANGED setVars => UNCHANGED canonVars
    BY DEF setVars
  <1> QED
    BY <1>1, <1>2, <1>3, <1>4 DEF SetNext

LEMMA ComputesStep == SetInv /\ ComputesInv /\ [SetNext]_setVars => ComputesInv'
  <1> SUFFICES ASSUME SetInv, ComputesInv, [SetNext]_setVars
               PROVE  ComputesInv'
    OBVIOUS
  <1>1. LoopInv' /\ PermutedInv' /\ AnsweredInv'
    BY LoopStep, CanonicalizeAnswers DEF ComputesInv
  <1>2. UNCHANGED <<op, left, right>>
    BY DEF SetNext, SetStep, RejectSrid, StartGather, GatherLevel, GatherFailure, FinishEmpty,
       FinishLevels, Canonicalize, Deliver, setVars, opVars
  <1>3. SUFFICES ComputesOutcome'
    BY <1>1 DEF ComputesInv
  <1>4. CASE UNCHANGED answer
    BY <1>2, <1>4 DEF ComputesInv, ComputesOutcome
  <1>5. CASE RejectSrid
    <2>1. answer' = SetOperationOutcome(op, left, right)
      BY <1>5 DEF RejectSrid, Reply, SetOperationOutcome
    <2> QED
      BY <1>2, <2>1 DEF ComputesOutcome
  <1>6. CASE GatherFailure
    BY <1>6 DEF GatherFailure, Reply, Rejected, ComputesOutcome
  <1>7. CASE FinishEmpty
    <2>1. answer' = SetOperationOutcome(op, left, right)
      BY <1>7, GatheredAll DEF FinishEmpty, Reply, ComputesInv
    <2> QED
      BY <1>2, <2>1 DEF ComputesOutcome
  <1>8. CASE Deliver
    <2>1. phase = "finish" /\ pc = "done" /\ answer' = outcome
      BY <1>8 DEF Deliver, Reply
    <2>2. raw = gathered /\ gathered # <<>> /\ domain = {}
      BY <2>1 DEF SetInv, CallInv, ComputesInv, LoopInv
    <2>3. answer' \in {SetOperationOutcome(op, left, right), Rejected("Geometry", <<>>)}
      BY <2>1, <2>2, GatheredAll DEF ComputesInv, AnsweredInv
    <2> QED
      BY <1>2, <2>3 DEF ComputesOutcome, Rejected
  <1>9. CASE StartGather \/ GatherLevel \/ FinishLevels \/ Canonicalize
    BY <1>4, <1>9 DEF StartGather, GatherLevel, FinishLevels, Canonicalize, opVars
  <1> QED
    BY <1>4, <1>5, <1>6, <1>7, <1>8, <1>9 DEF SetNext, SetStep, setVars, opVars

-----------------------------------------------------------------------------

LEMMA SetInvariant == SetSpec => []SetInv
  BY SetInitInv, SetStepInv, PTL DEF SetSpec

\* Every state of a set operation is well typed: the levels it hands to
\* canonicalize are extents, and so is every geometry it overlays.
THEOREM SetTypeCorrect == SetSpec => []SetTypeOK
  <1> DEFINE OfValues == left \in Values /\ right \in Values
  <1>1. SetInit => OfValues
    BY DEF SetInit
  <1>2. OfValues /\ [SetNext]_setVars => OfValues'
    BY DEF SetNext, SetStep, RejectSrid, StartGather, GatherLevel, GatherFailure, FinishEmpty,
       FinishLevels, Canonicalize, Deliver, setVars, opVars
  <1>3. SetInv /\ OfValues => SetTypeOK
    BY DEF SetInv, CanonInv, OperandInv, GatherInv, AnswerInv, SetTypeOK
  <1> HIDE DEF OfValues
  <1>4. SetSpec => []OfValues
    BY <1>1, <1>2, PTL DEF SetSpec
  <1> QED
    BY SetInvariant, <1>3, <1>4, PTL

\* However inexact the engine's overlays are, an operation answers a canonical
\* value or none.
THEOREM SetOperationsAnswerCanonical == SetSpec => []AnswersCanonical
  <1>1. SetInv => AnswersCanonical
    BY DEF SetInv, AnswerInv
  <1> QED
    BY SetInvariant, <1>1, PTL

\* Of the errors of canonicalize, nesting is the only one an operation on
\* canonical operands can pass on.
THEOREM OnlyNestingIsRefused == SetSpec => []RefusesOnlyUnnested
  <1>1. SetInv => RefusesOnlyUnnested
    BY DEF SetInv, AnswerInv
  <1> QED
    BY SetInvariant, <1>1, PTL

\* The answer is in the SRID of the operands, empty answers included.
THEOREM SridIsCommon == SetSpec => []SridOfResult
  <1>1. SetInv => SridOfResult
    BY DEF SetInv, AnswerInv
  <1> QED
    BY SetInvariant, <1>1, PTL

\* The step-by-step call is the function of its operands that FuzzySets gives, or
\* an engine failure: the running list is the one the function sorts, and the call
\* of canonicalize answers what its contract says of it.
THEOREM OperationsComputeOutcome == SetSpec => []ComputesOutcome
  <1>1. SetSpec => []ComputesInv
    BY SetInvariant, ComputesInitially, ComputesStep, PTL DEF SetSpec
  <1>2. ComputesInv => ComputesOutcome
    BY DEF ComputesInv
  <1> QED
    BY <1>1, <1>2, PTL

LEMMA OverlaysOfOperands == SetInv => OverlaysOneSrid
  <1> SUFFICES ASSUME OperandInv, phase = "gather",
                      NEW l \in ToSet(left.levels), NEW h \in ToSet(right.levels)
               PROVE  SameSrid(l.geometry, h.geometry)
    BY DEF SetInv, OverlaysOneSrid
  <1>1. PICK i \in DOMAIN left.levels, j \in DOMAIN right.levels :
            l = left.levels[i] /\ h = right.levels[j]
    BY DEF ToSet
  <1>2. /\ SridOf(l.geometry) = left.srid /\ left.srid # NoSrid
        /\ SridOf(h.geometry) = right.srid /\ right.srid # NoSrid
    BY <1>1, OperandLevel DEF OperandInv
  <1> QED
    BY <1>2 DEF OperandInv, CompatibleSrid, SameSrid

\* No overlay is computed of geometries in two SRIDs.
THEOREM OverlaysAreOfOneSrid == SetSpec => []OverlaysOneSrid
  BY SetInvariant, OverlaysOfOperands, PTL
=============================================================================
