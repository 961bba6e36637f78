------------------------------ MODULE MCSqlCall ------------------------------
(***************************************************************************)
(* SqlCall with two rows on a plane of two cells, alphas 1/4, 1/2 and 1    *)
(* with floats of one significant bit, of which powers meet and underflow. *)
(* A row is absent, empty, in a second SRID, or has one or two levels; the *)
(* arrays and literals fail before, in and after canonicalize, or succeed. *)
(***************************************************************************)
EXTENDS SqlCall, CellGeometry, MiniFloat

MCPlaces == {{1}, {2}, {1, 2}}

MCAlphas == Floats \ {0}

MCPowers == {One, 2 * One}

Polygonal(srid, cells) == [srid |-> srid, cells |-> cells, lines |-> {}]

Both == Polygonal(4326, {1, 2})

OneLevel(alpha, geometry) ==
    [srid |-> geometry.srid, levels |-> <<[alpha |-> alpha, geometry |-> geometry]>>]

TwoLevels(a, g, b, h) ==
    [srid |-> 4326, levels |-> <<[alpha |-> a, geometry |-> g], [alpha |-> b, geometry |-> h]>>]

MCValues ==
    {OneLevel(alpha, Polygonal(4326, cells)) : alpha \in Alpha, cells \in {{1}, {2}, {1, 2}}}
    \cup {TwoLevels(p[1], Polygonal(4326, {c}), p[2], Both) :
              p \in {<<4, 2>>, <<4, 1>>, <<2, 1>>}, c \in Cells}
    \cup {EmptyValue(NoSrid), EmptyValue(3857), OneLevel(2, Polygonal(3857, {2}))}

MCLevelArgs ==
    {[alphas |-> <<1, 4>>, geoms |-> <<Both, Polygonal(4326, {1})>>],
     [alphas |-> <<1, 2>>, geoms |-> <<Both, Polygonal(3857, {1})>>],
     [alphas |-> <<4, 0>>, geoms |-> <<Both, Both>>]}

MCLiterals ==
    {EmptyValue(3857), TwoLevels(4, Both, 2, Polygonal(4326, {2})), TwoLevels(2, Both, 2, Both)}
=============================================================================
