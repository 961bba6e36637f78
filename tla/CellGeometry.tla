----------------------------- MODULE CellGeometry -----------------------------
(***************************************************************************)
(* External: the part of PostGIS that PostgisEngine (fuzzyregion-pg/src/   *)
(* interop.rs) calls through SPI, on a plane cut into finitely many cells. *)
(*                                                                         *)
(* A place is the set of cells whose closure it lies in: {c} is a place    *)
(* inside the cell c, a larger set is a place on the common edge of its    *)
(* cells.  A geometry is an SRID, the cells of its polygonal part, and the *)
(* edges it holds as lines or points of their own, which is what is left   *)
(* where the closures of two operands only touch.                          *)
(***************************************************************************)
EXTENDS Integers, FiniteSets

CONSTANTS
    Cells,       \* the cells of the plane
    CellPlaces,  \* the places, non-empty sets of cells
    CellSrids    \* the SRIDs in use

ASSUME CellPlacesAssumption ==
    /\ Cells \subseteq Int
    /\ CellPlaces \subseteq SUBSET Cells \ {{}}
    /\ \A c \in Cells : {c} \in CellPlaces

Edges == {p \in CellPlaces : Cardinality(p) > 1}

CellGeometries ==
    {[srid |-> s, cells |-> c, lines |-> e] :
        s \in CellSrids, c \in SUBSET Cells, e \in SUBSET Edges}

\* ST_Multi(ST_CollectionExtract(g, 3)): the polygonal part.
CellNormalize(g) == [g EXCEPT !.lines = {}]

\* ST_IsEmpty, ST_SRID.
CellIsEmpty(g) == g.cells = {} /\ g.lines = {}
CellSridOf(g) == g.srid

\* ST_Covers(g, p) of a point: polygons are closed sets.
CellCoversPlace(g, p) == p \cap g.cells # {} \/ p \in g.lines

\* ST_Covers(g, h) and ST_Equals(g, h): inclusion and equality of point sets.
CellCovers(g, h) ==
    /\ h.cells \subseteq g.cells
    /\ \A e \in h.lines : CellCoversPlace(g, e)

CellEquals(g, h) == CellCovers(g, h) /\ CellCovers(h, g)

\* ST_Union, ST_Intersection and ST_Difference of two polygonal geometries.  An
\* intersection keeps the edges both operands touch as lines; a difference is
\* closed, so it leaves none.
CellUnion(g, h) == [g EXCEPT !.cells = @ \cup h.cells]

CellIntersection(g, h) ==
    LET common == g.cells \cap h.cells
    IN [srid |-> g.srid,
        cells |-> common,
        lines |-> {e \in Edges : /\ e \cap common = {}
                                 /\ CellCoversPlace(g, e)
                                 /\ CellCoversPlace(h, e)}]

CellDifference(g, h) == [g EXCEPT !.cells = @ \ h.cells]

\* ST_Area and ST_Envelope: the cells are numbered along a row.
CellArea(g) == Cardinality(g.cells)

CellEnvelope(g) ==
    [g EXCEPT !.cells = {c \in Cells : \E a, b \in g.cells : a <= c /\ c <= b}]

\* ST_SetSRID(MULTIPOLYGON EMPTY, srid); without an SRID a geometry has SRID 0.
CellEmptyMultipolygon(srid) ==
    [srid |-> IF srid \in CellSrids THEN srid ELSE 0, cells |-> {}, lines |-> {}]
=============================================================================
