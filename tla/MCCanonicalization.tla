-------------------------- MODULE MCCanonicalization --------------------------
(***************************************************************************)
(* Canonicalization on a plane of three cells in a row.  The inputs are    *)
(* every list of up to three levels over three alphas and six              *)
(* geometries: a chain of polygons, one polygon in another SRID, and two   *)
(* that hold an edge beside (or instead of) their cells.                   *)
(***************************************************************************)
EXTENDS Canonicalization, CellGeometry

MCPlaces == {{1}, {2}, {3}, {1, 2}, {2, 3}}

Polygonal(srid, cells) == [srid |-> srid, cells |-> cells, lines |-> {}]

RawGeometries ==
    {Polygonal(4326, cells) : cells \in {{2}, {1, 2}, {1, 2, 3}}}
    \cup {Polygonal(3857, {1, 2}),
          [srid |-> 4326, cells |-> {1}, lines |-> {{2, 3}}],
          [srid |-> 4326, cells |-> {}, lines |-> {{1, 2}}]}

RawLevels == [alpha : Alpha, geometry : RawGeometries]

MCInputs == UNION {[1..n -> RawLevels] : n \in 0..3}
=============================================================================
