--------------------------- MODULE GeometryEngine ---------------------------
(***************************************************************************)
(* The trait GeometryEngine (fuzzyregion-core/src/engine.rs): everything   *)
(* the fuzzyregion core knows about geometry.  The core is generic in it,  *)
(* so the engine is a parameter here too: an operator constant per trait   *)
(* method, and the part of the method's contract the core relies on as a   *)
(* named assumption.  CellGeometry gives the engine TLC runs with.         *)
(*                                                                         *)
(* A trait method can also return Err(Self::Error); that outcome is not a  *)
(* value of these operators but a step of the machines that call them.     *)
(***************************************************************************)
EXTENDS Integers

CONSTANTS
    Geometry,              \* the associated type Geometry
    Place,                 \* the associated type Point
    Srid,                  \* spatial reference identifiers
    Normalize(_),          \* normalize_multipolygon
    IsEmpty(_),            \* is_empty
    SridOf(_),             \* srid
    TopoEquals(_, _),      \* topologically_equals
    Covers(_, _),          \* contains(container, containee)
    CoversPlace(_, _),     \* contains_point
    EngineUnion(_, _),     \* union
    EngineIntersection(_, _), \* intersection
    EngineDifference(_, _), \* difference
    Area(_),               \* area
    BoundingBox(_)         \* bounding_box

\* A geometry in the backend's canonical multipolygon form, with an area: the
\* only geometries a canonical fuzzyregion holds.
Extent == {g \in Geometry : Normalize(g) = g /\ ~IsEmpty(g)}

\* Extents the engine may be asked to compare: it rejects operands of two SRIDs.
SameSrid(g, h) == SridOf(g) = SridOf(h)

-----------------------------------------------------------------------------

ASSUME NormalizeAssumption ==
    \A g \in Geometry :
        /\ Normalize(g) \in Geometry
        /\ Normalize(Normalize(g)) = Normalize(g)
        /\ SridOf(Normalize(g)) = SridOf(g)
        /\ SridOf(g) \in Srid

ASSUME PredicateAssumption ==
    \A g, h \in Geometry :
        /\ IsEmpty(g) \in BOOLEAN
        /\ TopoEquals(g, h) \in BOOLEAN
        /\ Covers(g, h) \in BOOLEAN

\* "contains" is reflexive, transitive, and topological equality is mutual
\* containment.
ASSUME CoversAssumption ==
    \A g, h \in Extent :
        SameSrid(g, h) =>
            /\ TopoEquals(g, h) <=> Covers(g, h) /\ Covers(h, g)
            /\ g = h => Covers(g, h)
            /\ \A k \in Extent :
                   SameSrid(h, k) /\ Covers(g, h) /\ Covers(h, k) => Covers(g, k)

\* An overlay of geometries in one SRID is a geometry in it.  Nothing is assumed
\* of what the overlay covers: it is computed in floating point.
ASSUME OverlayAssumption ==
    \A g, h \in Extent :
        SameSrid(g, h) =>
            \A overlay \in {EngineUnion(g, h), EngineIntersection(g, h), EngineDifference(g, h)} :
                overlay \in Geometry /\ SameSrid(overlay, g)

\* A container is no smaller; a bounding box covers what its geometry covers.
ASSUME MeasureAssumption ==
    \A g, h \in Extent :
        /\ Area(g) \in Nat
        /\ SameSrid(g, h) /\ Covers(g, h) => Area(h) <= Area(g)
        /\ SameSrid(BoundingBox(g), g)
        /\ SameSrid(g, h) /\ Covers(g, h) => Covers(BoundingBox(g), h)

\* A container covers every point its containee covers.
ASSUME PlaceAssumption ==
    \A g, h \in Extent :
        SameSrid(g, h) /\ Covers(g, h) =>
            \A p \in Place : CoversPlace(h, p) => CoversPlace(g, p)
=============================================================================
