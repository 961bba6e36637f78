---------------------------- MODULE MCExactOverlay ----------------------------
(***************************************************************************)
(* The instance of MCSetOperation with the overlays of CellGeometry, which *)
(* are exact.                                                              *)
(***************************************************************************)
EXTENDS MCSetOperation, ExactOverlays
=============================================================================
