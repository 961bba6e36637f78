----------------------- MODULE CanonicalizationContract -----------------------
(***************************************************************************)
(* What Fuzzyregion::canonicalize promises its callers: one step from the  *)
(* raw levels to the answer.  The answer depends on the levels alone, not  *)
(* on their order (an empty level apart: the first one given is named),    *)
(* and is either the canonical value, the first defect in the order        *)
(* empty, duplicate, SRID, nesting, or the error of an engine call.        *)
(***************************************************************************)
EXTENDS Fuzzyregion

VARIABLES called, raw, outcome

contractVars == <<called, raw, outcome>>

ContractInit ==
    /\ called = FALSE
    /\ raw = <<>>
    /\ outcome = [kind |-> "Pending"]

Ask ==
    /\ ~called
    /\ called' = TRUE
    /\ raw' \in Seq(Level)
    /\ UNCHANGED outcome

Answer ==
    /\ called
    /\ outcome.kind = "Pending"
    /\ outcome' \in {CanonicalOutcome(raw), Rejected("Geometry", <<>>)}
    /\ UNCHANGED <<called, raw>>

ContractSpec ==
    ContractInit /\ [][Ask \/ Answer]_contractVars /\ WF_contractVars(Answer)
=============================================================================
