-------------------------------- MODULE Queries --------------------------------
(***************************************************************************)
(* The SQL functions that only read (fuzzyregion-pg/src/api.rs), as what   *)
(* they answer for a row of Extension's table.  Some read the stored       *)
(* payload: srid, levels, min_alpha, max_alpha, num_levels, support, core, *)
(* alpha_cut.  Others canonicalize it first and ask the core: area_at,     *)
(* bbox, membership_at, validate, to_jsonb.  The same question has two     *)
(* implementations then, and the properties are about the two agreeing.    *)
(***************************************************************************)
EXTENDS Extension

CONSTANTS
    EmptyMultipolygon(_), \* PostgisEngine::empty_multipolygon
    QueryThresholds,      \* f64 thresholds given to alpha_cut and area_at
    Points,               \* geometries given to membership_at
    MaxI32                \* the largest i32

\* ST_SRID of a geometry that has none.
UnknownSrid == 0

\* Thresholds are f64 of any kind.
ASSUME QueryArgumentsAssumption ==
    /\ QueryThresholds \subseteq F64
    /\ \A q \in Points : q.valid => q.place \in Place

\* MULTIPOLYGON EMPTY in the SRID asked for.
ASSUME EmptyMultipolygonAssumption ==
    \A srid \in Srid \cup {NoSrid} :
        LET empty == EmptyMultipolygon(srid)
        IN /\ IsEmpty(empty) /\ Area(empty) = 0
           /\ SridOf(empty) = IF srid = NoSrid THEN UnknownSrid ELSE srid

\* The bound behind the expect of fuzzyregion_num_levels: a value of PostgreSQL is
\* at most 1 GB, too little for 2^31 levels.  Here the alphas in use bound them.
ASSUME LevelCountAssumption ==
    IsFiniteSet(Alpha) /\ MaxI32 \in Nat /\ Cardinality(Alpha) <= MaxI32

-----------------------------------------------------------------------------
\* Functions of the stored payload.

\* Fuzzyregion::support_ewkb and core_ewkb of sql_type.rs
SupportEwkb(stored) == Len(stored.levels)

CoreEwkb(stored) == SelectInSeq(stored.levels, LAMBDA l : l.alpha = One)

\* Mutant: a level of exactly the threshold is left out.
AlphaCutEwkbAbove(stored, t) ==
    IF IsZero(t) THEN SupportEwkb(stored)
    ELSE SelectLastInSeq(stored.levels, LAMBDA l : FloatLess(t, l.alpha))

\* Mutant: f64 values are compared by their bits, of which the sign is the highest.
AlphaCutEwkbByBits(stored, t) ==
    LET Bits(x) == IF x < 0 THEN Infinity + 1 - x ELSE x
    IN IF Bits(t) = 0 THEN SupportEwkb(stored)
       ELSE SelectLastInSeq(stored.levels, LAMBDA l : Bits(l.alpha) >= Bits(t))

\* Fuzzyregion::alpha_cut_ewkb of sql_type.rs
AlphaCutEwkb(stored, t) ==
    IF IsZero(t) THEN SupportEwkb(stored)
    ELSE SelectLastInSeq(stored.levels, LAMBDA l : FloatLeq(t, l.alpha))

\* Mutant: the empty geometry has no SRID.
OrEmptyWithoutSrid(geometry, srid) == IF geometry = {} THEN {EmptyMultipolygon(NoSrid)} ELSE geometry

\* projection_or_empty, of a geometry or none.
OrEmpty(geometry, srid) == IF geometry = {} THEN {EmptyMultipolygon(srid)} ELSE geometry

Projection(stored, index) ==
    OrEmpty({stored.levels[k].geometry : k \in {index} \ {0}}, stored.srid)

Support(stored) == Projection(stored, SupportEwkb(stored))

Core(stored) == Projection(stored, CoreEwkb(stored))

\* AlphaThreshold::try_from of an argument, before the value is looked at.
ThresholdOf(x) ==
    IF ThresholdError(x) # "None" THEN Rejected("InvalidThreshold", <<>>) ELSE Accepted(x)

Cut(stored, x) ==
    AndThen(ThresholdOf(x), LAMBDA t : Accepted(Projection(stored, AlphaCutEwkb(stored, t))))

\* NULL for the empty value.
MaxAlpha(v) == IF v.levels = <<>> THEN NullArg ELSE v.levels[1].alpha

MinAlpha(v) == IF v.levels = <<>> THEN NullArg ELSE v.levels[Len(v.levels)].alpha

\* i32::try_from(..).expect(..)
NumLevels(stored) ==
    IF Len(stored.levels) > MaxI32 THEN Rejected("Panic", <<>>) ELSE Accepted(Len(stored.levels))

LevelsJson(stored) ==
    [srid |-> stored.srid, is_empty |-> stored.levels = <<>>,
     num_levels |-> Len(stored.levels), levels |-> stored.levels]

-----------------------------------------------------------------------------
\* Functions of the canonicalized value.

ValidationErrors(stored) ==
    IF ToDomain(stored).kind = "Ok" THEN {} ELSE {ToDomain(stored).kind}

ToJsonb(stored) ==
    AndThen(ToDomain(stored), LAMBDA v :
        Accepted([srid |-> v.srid, is_empty |-> v.levels = <<>>,
                  num_levels |-> Len(v.levels), levels |-> v.levels,
                  min_alpha |-> MinAlpha(v), max_alpha |-> MaxAlpha(v)]))

AreaAt(stored, x) ==
    AndThen(ThresholdOf(x), LAMBDA t :
        AndThen(ToDomain(stored), LAMBDA v :
            Accepted(IF AlphaCut(v, t) = 0 THEN 0 ELSE Area(v.levels[AlphaCut(v, t)].geometry))))

\* Mutant: the box is that of the first level.
BboxOfFirst(stored) ==
    AndThen(ToDomain(stored), LAMBDA v :
        Accepted(OrEmpty({BoundingBox(v.levels[k].geometry) : k \in {1} \cap DOMAIN v.levels},
                         stored.srid)))

\* The box comes from the value, the SRID of the empty one from the payload.
Bbox(stored) ==
    AndThen(ToDomain(stored), LAMBDA v :
        Accepted(OrEmpty({BoundingBox(v.levels[k].geometry) : k \in {SupportIndex(v)} \ {0}},
                         stored.srid)))

\* The point must be a point; then its SRID is compared with the payload's.
MembershipAtPoint(stored, point) ==
    IF ~point.valid THEN Rejected("InvalidPointGeometry", <<>>)
    ELSE IF stored.srid \notin {NoSrid, point.srid} THEN Rejected("PointSridMismatch", <<>>)
    ELSE AndThen(ToDomain(stored), LAMBDA v : Accepted(MembershipAt(v, point.place)))

-----------------------------------------------------------------------------

InProjection(projection, place) ==
    \E g \in projection : ~IsEmpty(g) /\ CoversPlace(g, place)

\* alpha_cut and core read the stored bytes, membership_at the canonicalized
\* value.  They agree: a place is in the cut at t exactly when its membership is
\* at least t (at 0: when it is a member at all), and in the core exactly when it
\* is 1; a place of another SRID is refused whatever the row.
CutsMatchMembership ==
    \A id \in Filled, point \in {q \in Points : q.valid} :
        LET mu == MembershipAtPoint(Stored(id), point)
        IN IF Stored(id).srid \notin {NoSrid, point.srid} THEN mu.kind = "PointSridMismatch"
           ELSE /\ mu.kind = "Ok"
                /\ InProjection(Support(Stored(id)), point.place) <=> mu.value > 0
                /\ InProjection(Core(Stored(id)), point.place) <=> mu.value = One
                /\ \A x \in {y \in QueryThresholds : ThresholdError(y) = "None"} :
                       InProjection(Cut(Stored(id), x).value, point.place)
                           <=> mu.value > 0 /\ mu.value >= Value(x)

\* area_at is the area of the geometry alpha_cut gives, fails where it fails, and
\* falls as the threshold rises.  bbox covers every cut there is.
MeasuresOfCuts ==
    \A id \in Filled, x \in QueryThresholds :
        LET cut == Cut(Stored(id), x)
            area == AreaAt(Stored(id), x)
        IN /\ area.kind = cut.kind
           /\ cut.kind = "Ok" =>
                  \A g \in cut.value :
                      /\ area.value = Area(g)
                      /\ \A h \in Bbox(Stored(id)).value : IsEmpty(g) \/ Covers(h, g)
                      /\ \A y \in QueryThresholds :
                             AreaAt(Stored(id), y).kind = "Ok" /\ FloatLeq(x, y) =>
                                 AreaAt(Stored(id), y).value <= area.value

\* alpha_cut changes exactly at the alphas a row has: two thresholds return one
\* geometry when the same levels reach them (0.0, -0.0 and all up to the lowest
\* alpha, for the support), and otherwise two, as no level of a row repeats the
\* extent of another.  area_at, which searches the value read, follows.
CutsChangeAtAlphas ==
    \A id \in Filled :
        LET v == Stored(id)
            Reaching(t) == {k \in DOMAIN v.levels : FloatLeq(t, v.levels[k].alpha)}
        IN \A x, y \in {q \in QueryThresholds : ThresholdError(q) = "None"} :
               /\ Reaching(x) = Reaching(y) <=> Cut(v, x) = Cut(v, y)
               /\ Reaching(x) = Reaching(y) => AreaAt(v, x) = AreaAt(v, y)

\* Every geometry taken out of a row has the SRID that the row reports, the empty
\* ones included: PostGIS refuses to combine geometries of two SRIDs.
ProjectionsCarrySrid ==
    \A id \in Filled :
        LET srid == IF Stored(id).srid = NoSrid THEN UnknownSrid ELSE Stored(id).srid
            cuts == UNION {Cut(Stored(id), x).value :
                               x \in {y \in QueryThresholds : ThresholdError(y) = "None"}}
        IN \A g \in cuts \cup Support(Stored(id)) \cup Core(Stored(id)) \cup Bbox(Stored(id)).value :
               SridOf(g) = srid

\* What the functions say of a row agrees: fuzzyregion_levels and the alphas and
\* counts, which describe the payload, and validate and to_jsonb, which describe
\* the canonicalized value.  Of an empty value the payload alone has the SRID.
DescriptionsAgree ==
    \A id \in Filled :
        LET payload == LevelsJson(Stored(id))
            value == ToJsonb(Stored(id)).value
        IN /\ ValidationErrors(Stored(id)) = {}
           /\ ToJsonb(Stored(id)).kind = "Ok"
           /\ NumLevels(Stored(id)) = Accepted(value.num_levels)
           /\ payload.levels = value.levels
           /\ payload.is_empty = value.is_empty
           /\ value.max_alpha = MaxAlpha(Stored(id))
           /\ value.min_alpha = MinAlpha(Stored(id))
           /\ value.srid = IF payload.is_empty THEN NoSrid ELSE payload.srid
=============================================================================
