-------------------------- MODULE MembershipTransforms --------------------------
(***************************************************************************)
(* normalize_membership, concentrate_membership and dilate_membership      *)
(* (fuzzyregion.rs): the same levels with remapped alphas.  The arithmetic *)
(* is f64 arithmetic, so distinct alphas can meet and a small one can      *)
(* reach 0; remap_membership_values panics on an alpha it cannot build.    *)
(***************************************************************************)
EXTENDS Fuzzyregion

CONSTANTS
    Divide(_, _),  \* a / b in f64
    Powf(_, _),    \* a.powf(n), for a whole power n
    Rootf(_, _)    \* a.powf(1.0 / n)

AlphasOf(v) == {l.alpha : l \in ToSet(v.levels)}

\* remap_membership_values: no check but Alpha::try_from's, which must not fail.
Remap(v, image) ==
    IF \E a \in AlphasOf(v) : image[a] \notin 1..One
    THEN Rejected("Panic", <<>>)
    ELSE Accepted([v EXCEPT !.levels = [k \in DOMAIN v.levels |->
                                            [v.levels[k] EXCEPT !.alpha = image[@]]]])

\* normalize_membership
NormalizeMembership(v) ==
    IF v.levels = <<>> \/ v.levels[1].alpha = One THEN Accepted(v)
    ELSE Remap(v, [a \in AlphasOf(v) |-> Divide(a, v.levels[1].alpha)])

\* concentrate_membership and dilate_membership.  A power is an f64; the ones
\* that are raised to are whole multiples of 1.0.
ConcentrateMembership(v, power) ==
    IF PowerError(power) # "None" THEN Rejected("Transform", <<>>)
    ELSE Remap(v, [a \in AlphasOf(v) |-> Powf(a, power \div One)])

DilateMembership(v, power) ==
    IF PowerError(power) # "None" THEN Rejected("Transform", <<>>)
    ELSE Remap(v, [a \in AlphasOf(v) |-> Rootf(a, power \div One)])
=============================================================================
