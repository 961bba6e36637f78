----------------------------- MODULE ExactOverlays -----------------------------
(***************************************************************************)
(* SetOperation with an engine whose overlays are exact up to the          *)
(* boundaries of their operands, and which holds regular areas only, so    *)
(* that an area is determined by the places inside the faces.  This is the *)
(* geometry the docs of the set operations argue with; an engine that      *)
(* computes in floating point meets it up to rounding, and MCInexactOverlay*)
(* shows what is left of it when it does not.                              *)
(***************************************************************************)
EXTENDS SetOperation

\* An intersection may cover less on a boundary both operands touch, and a
\* difference is closed, so it may cover the boundary of what was taken away.
ASSUME ExactOverlayAssumption ==
    /\ \A g \in Geometry : IsEmpty(g) => \A p \in Place : ~CoversPlace(g, p)
    /\ \A g \in Extent : \E p \in Interior : CoversPlace(g, p)
    /\ \A g, h \in Extent :
           SameSrid(g, h) =>
               /\ Covers(g, h) <=> \A p \in Interior : CoversPlace(h, p) => CoversPlace(g, p)
               /\ \A p \in Place :
                      LET inG == CoversPlace(g, p)
                          inH == CoversPlace(h, p)
                          inUnion == CoversPlace(Normalize(EngineUnion(g, h)), p)
                          inCommon == CoversPlace(Normalize(EngineIntersection(g, h)), p)
                          inRest == CoversPlace(Normalize(EngineDifference(g, h)), p)
                      IN /\ inUnion <=> inG \/ inH
                         /\ inCommon => inG /\ inH
                         /\ p \in Interior /\ inG /\ inH => inCommon
                         /\ inRest => inG
                         /\ inG /\ ~inH => inRest
                         /\ p \in Interior /\ inRest => ~inH
=============================================================================
