----------------------------- MODULE SetOperation -----------------------------
(***************************************************************************)
(* Fuzzyregion::union, intersection and difference (fuzzyregion.rs) as a   *)
(* call that runs: one step per alpha of the two operands' domain, then    *)
(* the call of canonicalize, which is the machine of Canonicalization run  *)
(* on the gathered levels.  Every engine call of either part can fail.     *)
(***************************************************************************)
EXTENDS Canonicalization, FuzzySets

CONSTANTS
    Values,   \* the operands, canonical values
    Interior  \* the places off every boundary

ASSUME ValuesAssumption ==
    /\ Values \subseteq FuzzyValue
    /\ \A v \in Values : Canonical(v)
    /\ Interior \subseteq Place

VARIABLES
    phase,     \* idle, gather, finish (inside canonicalize), done
    op,        \* the operation called
    left,      \* self
    right,     \* other
    domain,    \* the alphas still to visit
    gathered,  \* the non-empty threshold levels so far
    answer     \* Pending until the call returns

opVars == <<phase, op, left, right, domain, gathered, answer>>

setVars == <<opVars, canonVars>>

SetInit ==
    /\ CanonInit
    /\ phase = "idle"
    /\ op \in Operations
    /\ left \in Values
    /\ right \in Values
    /\ domain = {}
    /\ gathered = <<>>
    /\ answer = Pending

Reply(result) == answer' = result /\ phase' = "done"

-----------------------------------------------------------------------------

RejectSrid ==
    /\ phase = "idle"
    /\ ~CompatibleSrid(left, right)
    /\ Reply(Rejected("MixedOperandSrid", <<>>))
    /\ UNCHANGED <<op, left, right, domain, gathered, canonVars>>

StartGather ==
    /\ phase = "idle"
    /\ CompatibleSrid(left, right)
    /\ phase' = "gather"
    /\ domain' = AlphaDomain(left, right)
    /\ UNCHANGED <<op, left, right, gathered, answer, canonVars>>

\* The alpha the loop is at.
Threshold == Max(domain)

\* Mutant: the loop ends at the first threshold without a level.
GatherLevelBreaks ==
    /\ phase = "gather"
    /\ domain # {}
    /\ \/ /\ ThresholdLevels(op, left, right, Threshold) = {}
          /\ domain' = {}
          /\ UNCHANGED gathered
       \/ /\ domain' = domain \ {Threshold}
          /\ \E l \in ThresholdLevels(op, left, right, Threshold) : gathered' = Append(gathered, l)
    /\ UNCHANGED <<phase, op, left, right, answer, canonVars>>

\* One iteration: cut both operands, overlay, normalize, keep what has an area.
GatherLevel ==
    /\ phase = "gather"
    /\ domain # {}
    /\ domain' = domain \ {Threshold}
    /\ \/ /\ ThresholdLevels(op, left, right, Threshold) = {}
          /\ UNCHANGED gathered
       \/ \E l \in ThresholdLevels(op, left, right, Threshold) : gathered' = Append(gathered, l)
    /\ UNCHANGED <<phase, op, left, right, answer, canonVars>>

GatherFailure ==
    /\ phase = "gather"
    /\ domain # {}
    /\ ThresholdGeometry(op, left, right, Threshold) # {}
    /\ Reply(Rejected("Geometry", <<>>))
    /\ UNCHANGED <<op, left, right, domain, gathered, canonVars>>

FinishEmpty ==
    /\ phase = "gather"
    /\ domain = {}
    /\ gathered = <<>>
    /\ Reply(EmptyResult(left, right))
    /\ UNCHANGED <<op, left, right, domain, gathered, canonVars>>

FinishLevels ==
    /\ phase = "gather"
    /\ domain = {}
    /\ gathered # <<>>
    /\ Call(gathered)
    /\ phase' = "finish"
    /\ UNCHANGED <<op, left, right, domain, gathered, answer>>

Canonicalize ==
    /\ phase = "finish"
    /\ CanonStep
    /\ UNCHANGED opVars

\* Mutant: an error of canonicalize is not passed on.
DeliverValuesOnly ==
    /\ phase = "finish"
    /\ pc = "done"
    /\ outcome.kind = "Ok"
    /\ Reply(outcome)
    /\ UNCHANGED <<op, left, right, domain, gathered, canonVars>>

Deliver ==
    /\ phase = "finish"
    /\ pc = "done"
    /\ Reply(outcome)
    /\ UNCHANGED <<op, left, right, domain, gathered, canonVars>>

SetStep ==
    \/ RejectSrid
    \/ StartGather
    \/ GatherLevel
    \/ GatherFailure
    \/ FinishEmpty
    \/ FinishLevels
    \/ Canonicalize
    \/ Deliver

SetNext == SetStep \/ (phase = "done" /\ UNCHANGED setVars)

SetSpec == SetInit /\ [][SetNext]_setVars /\ WF_setVars(SetStep)

-----------------------------------------------------------------------------

\* The variables have their types.
SetTypeOK ==
    /\ TypeOK
    /\ phase \in {"idle", "gather", "finish", "done"}
    /\ op \in Operations
    /\ left \in Values /\ right \in Values
    /\ domain \subseteq Alpha
    /\ gathered \in Seq(CanonicalLevel)
    /\ answer.kind = "Ok" => answer.value \in FuzzyValue

\* "Standard set operations remain closed" (fuzzyregion.rs:36): levels gathered
\* from canonical operands never fail canonicalize's own checks.  Operands of
\* two SRIDs and a failing engine are the only reasons for an error.
Closed == answer.kind \in {"Pending", "Ok", "Geometry", "MixedOperandSrid"}

Smaller(a, b) == IF a <= b THEN a ELSE b

\* The alphas the standard difference can give: the largest alpha of the two
\* operands' domain that is at most min(muLeft, 1 - muRight).
LevelsOfDifference(muLeft, muRight) ==
    {t \in AlphaDomain(left, right) : t <= muLeft /\ muRight <= OneMinus(t)}

\* Membership in the result is the operation's membership function of the
\* memberships in the operands, off the boundaries; the union's everywhere.  The
\* difference takes min(muLeft, 1 - muRight) down to an alpha of the operands.
MembershipOfResult ==
    answer.kind = "Ok" =>
        \A p \in Place :
            LET muLeft == MembershipAt(left, p)
                muRight == MembershipAt(right, p)
                mu == MembershipAt(answer.value, p)
            IN CASE op = "union" -> mu = -Smaller(-muLeft, -muRight)
                 [] op = "intersection" ->
                        /\ mu <= Smaller(muLeft, muRight)
                        /\ p \in Interior => mu = Smaller(muLeft, muRight)
                 [] op = "difference" ->
                        /\ mu <= muLeft
                        /\ \A t \in LevelsOfDifference(muLeft, muRight) : t <= mu
                        /\ p \in Interior =>
                               mu \in LevelsOfDifference(muLeft, muRight) \cup {0}

\* The result has the SRID the operands share, empty results included, so that
\* a later operation still rejects an operand of another SRID.
SridOfResult ==
    answer.kind = "Ok" => answer.value.srid = CommonSrid(left, right)

\* No overlay is asked for geometries of two SRIDs.
OverlaysOneSrid ==
    phase = "gather" =>
        \A l \in ToSet(left.levels), h \in ToSet(right.levels) :
            SameSrid(l.geometry, h.geometry)

\* The call computes the function FuzzySets gives for it, or passes on an
\* engine failure.
ComputesOutcome ==
    answer.kind \notin {"Pending", "Geometry"} =>
        answer = SetOperationOutcome(op, left, right)

\* Whatever the engine's overlays cover (they are computed in floating point, so
\* the cut at a lower alpha can come out without a sliver that a higher one has),
\* a result keeps every promise of the doc of Fuzzyregion.
AnswersCanonical == answer.kind = "Ok" => Canonical(answer.value)

\* With such overlays the levels may fail to nest, and the call is refused: of
\* canonicalize's own errors that one only.  Levels without an area, repeated
\* alphas and a second SRID cannot come out of the loop.
RefusesOnlyUnnested ==
    answer.kind \in {"Pending", "Ok", "Geometry", "MixedOperandSrid", "NonNestedLevels"}

\* A call always returns.
Returns == <>(phase = "done")

-----------------------------------------------------------------------------
\* What the repository says of the code and the code does not do.

\* "the standard fuzzy difference min(mu_self, 1 - mu_other)" (fuzzyregion.rs:341-344).
DifferenceIsStandard ==
    answer.kind = "Ok" /\ op = "difference" =>
        \A p \in Interior :
            MembershipAt(answer.value, p) =
                Smaller(MembershipAt(left, p), One - MembershipAt(right, p))
=============================================================================
