------------------------------ MODULE Fuzzyregion ------------------------------
(***************************************************************************)
(* The values of fuzzyregion-core (fuzzyregion.rs, alpha.rs, level.rs) and *)
(* the operations on them that make no decision of their own about errors: *)
(* cuts, membership, the alpha domain of two operands, and what            *)
(* canonicalization answers for a raw list of levels.                      *)
(*                                                                         *)
(* An alpha in (0, 1] is the integer a for a / One, as in Alphas.          *)
(***************************************************************************)
EXTENDS GeometryEngine, Alphas, Sequences, SequencesExt

CONSTANTS
    Alpha,   \* the alphas in use
    NoSrid   \* None for an Option<i32> SRID

ASSUME AlphaAssumption == One \in Nat /\ Alpha \subseteq 1..One

ASSUME NoSridAssumption == NoSrid \notin Srid

-----------------------------------------------------------------------------
\* Levels and values.

Level == [alpha : Alpha, geometry : Geometry]

CanonicalLevel == [alpha : Alpha, geometry : Extent]

FuzzyValue == [srid : Srid \cup {NoSrid}, levels : Seq(Level)]

\* Fuzzyregion::empty
EmptyValue(srid) == [srid |-> srid, levels |-> <<>>]

StrictlyDescending(levels) ==
    \A i, j \in DOMAIN levels : i < j => levels[i].alpha > levels[j].alpha

\* Each level strictly inside every level of a lower alpha.
StrictlyNested(levels) ==
    \A i, j \in DOMAIN levels :
        i < j => /\ Covers(levels[j].geometry, levels[i].geometry)
                 /\ ~TopoEquals(levels[j].geometry, levels[i].geometry)

OneSrid(levels, srid) == \A i \in DOMAIN levels : SridOf(levels[i].geometry) = srid

\* What the doc of Fuzzyregion guarantees of every value.
Canonical(v) ==
    /\ v.levels \in Seq(CanonicalLevel)
    /\ StrictlyDescending(v.levels)
    /\ StrictlyNested(v.levels)
    /\ OneSrid(v.levels, v.srid)

-----------------------------------------------------------------------------
\* Cuts and membership.  A cut is the index of its level, 0 when there is none.
\* A threshold is an f64 that AlphaThreshold accepts.

SupportIndex(v) == Len(v.levels)

CoreIndex(v) == SelectInSeq(v.levels, LAMBDA l : l.alpha = One)

StrictAlphaCut(v, t) ==
    IF IsZero(t) THEN SupportIndex(v)
    ELSE SelectLastInSeq(v.levels, LAMBDA l : FloatLess(t, l.alpha))

AlphaCut(v, t) ==
    IF IsZero(t) THEN SupportIndex(v)
    ELSE SelectLastInSeq(v.levels, LAMBDA l : FloatLeq(t, l.alpha))

\* The alpha of the first level from the top that covers the place, 0 when none.
MembershipAt(v, p) ==
    LET hit == SelectInSeq(v.levels, LAMBDA l : CoversPlace(l.geometry, p))
    IN IF hit = 0 THEN 0 ELSE v.levels[hit].alpha

\* The alphas of both operands; alpha_domain lists them from high to low.
AlphaDomain(v, w) == {l.alpha : l \in ToSet(v.levels) \cup ToSet(w.levels)}

-----------------------------------------------------------------------------
\* Fuzzyregion::canonicalize as a function of the raw levels, for a call in
\* which the engine answers every question.

Accepted(v) == [kind |-> "Ok", value |-> v]
Rejected(kind, alphas) == [kind |-> kind, alphas |-> alphas]

NormalizedLevel(l) == [l EXCEPT !.geometry = Normalize(@)]
NormalizedLevels(raw) == [k \in DOMAIN raw |-> NormalizedLevel(raw[k])]

EmptyAt(raw) == SelectInSeq(NormalizedLevels(raw), LAMBDA l : IsEmpty(l.geometry))

DuplicateAlphas(raw) ==
    {raw[i].alpha : i \in {k \in DOMAIN raw : \E j \in DOMAIN raw \ {k} : raw[j].alpha = raw[k].alpha}}

Highest(levels) == CHOOSE l \in levels : \A h \in levels : l.alpha >= h.alpha
Lowest(levels) == CHOOSE l \in levels : \A h \in levels : l.alpha <= h.alpha
Above(levels, l) == {h \in levels : h.alpha > l.alpha}

\* The levels of a set as a list, the highest alpha first.
HighestFirst(levels) ==
    CHOOSE s \in [1..Cardinality(levels) -> levels] : ToSet(s) = levels /\ StrictlyDescending(s)

\* Levels whose SRID is not that of the highest level.
Foreign(levels) == {l \in levels : ~SameSrid(l.geometry, Highest(levels).geometry)}

\* Levels that fail to contain some level above them.
Unnested(levels) ==
    {l \in levels : \E h \in Above(levels, l) : ~Covers(l.geometry, h.geometry)}

\* The level that stands for the extent of l: the highest with that extent.
Representative(levels, l) ==
    Highest({h \in levels : TopoEquals(h.geometry, l.geometry)})

CanonicalOutcome(raw) ==
    LET levels == ToSet(NormalizedLevels(raw))
        kept == {Representative(levels, l) : l \in levels}
        bad == Highest(Unnested(levels))
    IN CASE EmptyAt(raw) # 0 -> Rejected("EmptyGeometry", <<raw[EmptyAt(raw)].alpha>>)
         [] EmptyAt(raw) = 0 /\ raw = <<>> -> Accepted(EmptyValue(NoSrid))
         [] EmptyAt(raw) = 0 /\ DuplicateAlphas(raw) # {} ->
                Rejected("DuplicateAlpha", <<Max(DuplicateAlphas(raw))>>)
         [] EmptyAt(raw) = 0 /\ raw # <<>> /\ DuplicateAlphas(raw) = {} ->
                IF Foreign(levels) # {}
                THEN Rejected("MixedSrid", <<Highest(Foreign(levels)).alpha>>)
                ELSE IF Unnested(levels) # {}
                THEN Rejected("NonNestedLevels",
                         <<Representative(levels, Lowest(Above(levels, bad))).alpha,
                           bad.alpha>>)
                ELSE Accepted([srid |-> SridOf(Highest(levels).geometry),
                               levels |-> HighestFirst(kept)])
=============================================================================
