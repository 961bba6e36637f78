------------------------------ MODULE MCExtension ------------------------------
(***************************************************************************)
(* Extension with two rows, on a plane of two cells, with floats of one    *)
(* significant bit: the alphas 1/8, 1/4, 1/2 and 1, of which powers meet   *)
(* and underflow.                                                          *)
(***************************************************************************)
EXTENDS Extension, CellGeometry, MiniFloat

MCPlaces == {{1}, {2}, {1, 2}}

MCAlphas == Floats \ {0}

\* 1.0, which is refused, 2.0, and what is not finite.
MCPowers == {One, 2 * One, Infinity, NaN}

Polygonal(srid, cells) == [srid |-> srid, cells |-> cells, lines |-> {}]

Left == Polygonal(4326, {1})
Both == Polygonal(4326, {1, 2})
Abroad == Polygonal(3857, {1, 2})
LeftAndEdge == [srid |-> 4326, cells |-> {1}, lines |-> {{1, 2}}]
EdgeOnly == [srid |-> 4326, cells |-> {}, lines |-> {{1, 2}}]

\* Arrays that build values, and arrays that fail in each of the ways they can.
MCLevelArgs ==
    {[alphas |-> <<a, b>>, geoms |-> <<g, h>>] :
        a \in {1, 8}, b \in {4, 8}, g \in {LeftAndEdge, Both}, h \in {Both, Abroad}}
    \cup {[alphas |-> <<a>>, geoms |-> <<g>>] :
        a \in {2, 0, NegativeZero, 9, Infinity, NaN, NullArg},
        g \in {Polygonal(4326, {2}), Abroad, EdgeOnly, NullArg, NoBytes}}
    \cup {[alphas |-> <<>>, geoms |-> <<>>],
          [alphas |-> <<>>, geoms |-> NullArg],
          [alphas |-> <<4>>, geoms |-> NullArg],
          [alphas |-> <<NullArg, 0>>, geoms |-> <<NullArg, Both>>]}

MCLiterals ==
    {EmptyValue(srid) : srid \in {NoSrid, 4326, 3857}}
    \cup {[srid |-> srid, levels |-> <<[alpha |-> a, geometry |-> g], [alpha |-> b, geometry |-> Both]>>] :
              srid \in {NoSrid, 3857, 4326}, a \in {4, 8}, b \in {4, 2},
              g \in {LeftAndEdge, Both}}
=============================================================================
