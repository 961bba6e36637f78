--------------------------- MODULE MCInexactOverlay ---------------------------
(***************************************************************************)
(* SetOperation with an engine whose overlays lose parts, and not the same *)
(* ones of a geometry and of a larger one: what an overlay in floating     *)
(* point may do to slivers.                                                *)
(***************************************************************************)
EXTENDS MCSetOperation

Surviving(g) ==
    CASE g.cells = {1, 2} -> [g EXCEPT !.cells = {1}]
      [] g.cells = {1, 2, 3} -> [g EXCEPT !.cells = {3}]
      [] g.cells \notin {{1, 2}, {1, 2, 3}} -> g

LossyUnion(g, h) == Surviving(CellUnion(g, h))
LossyIntersection(g, h) == Surviving(CellIntersection(g, h))
LossyDifference(g, h) == Surviving(CellDifference(g, h))
=============================================================================
