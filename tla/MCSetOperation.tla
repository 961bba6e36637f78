---------------------------- MODULE MCSetOperation ----------------------------
(***************************************************************************)
(* SetOperation on a plane of three cells in a row: every canonical value  *)
(* over three alphas in one SRID, with the empty values and two values in  *)
(* a second SRID.                                                          *)
(***************************************************************************)
EXTENDS SetOperation, CellGeometry, MiniFloat

MCPlaces == {{1}, {2}, {3}, {1, 2}, {2, 3}}

MCInterior == {{c} : c \in Cells}

Polygonal(srid, cells) == [srid |-> srid, cells |-> cells, lines |-> {}]

\* Strictly descending alphas and strictly growing extents, up to three levels.
Extents == {Polygonal(4326, c) : c \in SUBSET Cells \ {{}}}

Chains ==
    UNION {{[k \in 1..n |-> [alpha |-> alphas[k], geometry |-> extents[k]]] :
                alphas \in {a \in [1..n -> Alpha] : \A i, j \in 1..n : i < j => a[i] > a[j]},
                extents \in {g \in [1..n -> Extents] :
                                 \A i, j \in 1..n : i < j => g[i] # g[j] /\ Covers(g[j], g[i])}} :
           n \in 1..3}

MCValues ==
    {[srid |-> 4326, levels |-> chain] : chain \in Chains}
    \cup {EmptyValue(srid) : srid \in {NoSrid, 4326, 3857}}
    \cup {[srid |-> 3857, levels |-> <<[alpha |-> a, geometry |-> Polygonal(3857, {1, 2})]>>] : a \in Alpha}
=============================================================================
