------------------------------- MODULE FuzzySets -------------------------------
(***************************************************************************)
(* The standard set operations of fuzzyregion.rs as functions of their     *)
(* operands: the threshold geometry at one alpha, the levels gathered over *)
(* the alpha domain, and the answer when no engine call fails.             *)
(***************************************************************************)
EXTENDS Fuzzyregion

CONSTANT OneMinus(_)  \* 1.0 - alpha in f64

Operations == {"union", "intersection", "difference"}

\* A smaller alpha never has the smaller complement, rounding included.
ASSUME OneMinusAssumption ==
    \A a \in Alpha :
        /\ OneMinus(a) \in 0..One
        /\ \A b \in Alpha : b <= a => OneMinus(b) >= OneMinus(a)

\* Mutant: the guard is left out.
NoSridGuard(v, w) == TRUE

\* Fuzzyregion::ensure_compatible_srid
CompatibleSrid(v, w) == v.srid = NoSrid \/ w.srid = NoSrid \/ v.srid = w.srid

\* self.srid.or(other.srid)
CommonSrid(v, w) == IF v.srid # NoSrid THEN v.srid ELSE w.srid

\* Mutants: the difference without the complement, and with the weak cut.
RightCutUncomplemented(op, w, t) == AlphaCut(w, t)

RightCutWeak(op, w, t) == AlphaCut(w, IF op = "difference" THEN OneMinus(t) ELSE t)

\* The cut of the right operand that threshold t is combined with.
RightCut(op, w, t) ==
    IF op = "difference" THEN StrictAlphaCut(w, OneMinus(t)) ELSE AlphaCut(w, t)

\* Mutant: a level only the right operand has is left out of the union.
ThresholdGeometryLeftOnly(op, v, w, t) ==
    LET i == AlphaCut(v, t)
        j == RightCut(op, w, t)
        g == v.levels[i].geometry
        h == w.levels[j].geometry
    IN CASE i # 0 /\ j # 0 -> {CASE op = "union" -> EngineUnion(g, h)
                                 [] op = "intersection" -> EngineIntersection(g, h)
                                 [] op = "difference" -> EngineDifference(g, h)}
         [] i # 0 /\ j = 0 -> IF op = "intersection" THEN {} ELSE {g}
         [] i = 0 -> {}

\* The threshold geometry at t, as a set: {} for None.
ThresholdGeometry(op, v, w, t) ==
    LET i == AlphaCut(v, t)
        j == RightCut(op, w, t)
        g == v.levels[i].geometry
        h == w.levels[j].geometry
    IN CASE i # 0 /\ j # 0 -> {CASE op = "union" -> EngineUnion(g, h)
                                 [] op = "intersection" -> EngineIntersection(g, h)
                                 [] op = "difference" -> EngineDifference(g, h)}
         [] i # 0 /\ j = 0 -> IF op = "intersection" THEN {} ELSE {g}
         [] i = 0 /\ j # 0 -> IF op = "union" THEN {h} ELSE {}
         [] i = 0 /\ j = 0 -> {}

\* Mutant: the overlay is kept as it comes, lines and points included.
ThresholdLevelsRaw(op, v, w, t) ==
    {[alpha |-> t, geometry |-> g] :
        g \in {x \in ThresholdGeometry(op, v, w, t) : ~IsEmpty(x)}}

\* push_non_empty_level: the levels the threshold t contributes, none or one.
ThresholdLevels(op, v, w, t) ==
    {[alpha |-> t, geometry |-> g] :
        g \in {x \in {Normalize(y) : y \in ThresholdGeometry(op, v, w, t)} : ~IsEmpty(x)}}

\* Mutant: the SRID of the operands is forgotten.
EmptyResultWithoutSrid(v, w) == Accepted(EmptyValue(NoSrid))

\* finish_set_operation's answer for no levels.
EmptyResult(v, w) == Accepted(EmptyValue(CommonSrid(v, w)))

SetOperationOutcome(op, v, w) ==
    LET gathered == HighestFirst(UNION {ThresholdLevels(op, v, w, t) : t \in AlphaDomain(v, w)})
    IN IF ~CompatibleSrid(v, w) THEN Rejected("MixedOperandSrid", <<>>)
       ELSE IF gathered = <<>> THEN EmptyResult(v, w)
       ELSE CanonicalOutcome(gathered)
=============================================================================
