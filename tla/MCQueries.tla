------------------------------- MODULE MCQueries -------------------------------
(***************************************************************************)
(* Queries of two rows on a plane of three cells in a row, with the alphas *)
(* 1/4, 1/2 and 1 of floats of one significant bit.  The extents include   *)
(* one that its bounding box is larger than.  Thresholds are every f64 the *)
(* model has, points include ones in another SRID and what is no point.    *)
(***************************************************************************)
EXTENDS Queries, CellGeometry, MiniFloat

MCPlaces == {{1}, {2}, {3}, {1, 2}, {2, 3}}

MCAlphas == Floats \ {0}

MCPowers == {2 * One}

Polygonal(srid, cells) == [srid |-> srid, cells |-> cells, lines |-> {}]

Ends == Polygonal(4326, {1, 3})
All == Polygonal(4326, Cells)

MCLevelArgs ==
    {[alphas |-> <<1, a>>, geoms |-> <<All, g>>] : a \in {2, 4}, g \in {Ends, Polygonal(4326, {2})}}
    \cup {[alphas |-> <<2>>, geoms |-> <<g>>] : g \in {Ends, Polygonal(3857, {1, 2})}}

MCLiterals ==
    {EmptyValue(NoSrid), EmptyValue(3857),
     [srid |-> 3857, levels |-> <<[alpha |-> 4, geometry |-> Ends], [alpha |-> 2, geometry |-> Ends]>>]}

MCPoints ==
    [valid : {TRUE}, srid : CellSrids \cup {UnknownSrid}, place : MCPlaces]
    \cup {[valid |-> FALSE, srid |-> 4326, place |-> {1}]}
=============================================================================
