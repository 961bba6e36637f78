-------------------------------- MODULE Alphas --------------------------------
(***************************************************************************)
(* fuzzyregion-core/src/alpha.rs, and the check of a transform's power:    *)
(* which f64 values become alphas, thresholds and powers, and in which     *)
(* order they come.                                                        *)
(*                                                                         *)
(* An f64 is its place in the order of f64::total_cmp.  k >= 0 is k / One, *)
(* and -1 - k is its negative, so 0 is 0.0 and -1 is -0.0; Infinity and    *)
(* what is beyond it on either side are the infinities and the NaNs.       *)
(***************************************************************************)
EXTENDS Integers

CONSTANTS
    One,      \* 1.0
    Infinity  \* f64::INFINITY

ASSUME FloatRangeAssumption == One \in Nat /\ Infinity \in Nat /\ 0 < One /\ One < Infinity

F64 == -Infinity - 2 .. Infinity + 1

NegativeZero == -1
NaN == Infinity + 1
NegativeInfinity == -1 - Infinity

\* The number an f64 stands for: 0.0 and -0.0 are one number.
Value(x) == IF x < 0 THEN x + 1 ELSE x

IsNan(x) == Value(x) > Infinity \/ Value(x) < -Infinity
IsFinite(x) == -Infinity < Value(x) /\ Value(x) < Infinity

\* x == y, x < y and x <= y of f64, which are FALSE of a NaN.
FloatEq(x, y) == ~IsNan(x) /\ ~IsNan(y) /\ Value(x) = Value(y)
FloatLess(x, y) == ~IsNan(x) /\ ~IsNan(y) /\ Value(x) < Value(y)
FloatLeq(x, y) == ~IsNan(x) /\ ~IsNan(y) /\ Value(x) <= Value(y)

\* Mutant: the range of an alpha is the one of a threshold.
AlphaErrorFromZero(x) ==
    IF ~IsFinite(x) THEN "NotFinite"
    ELSE IF ~(FloatLeq(0, x) /\ FloatLeq(x, One)) THEN "LevelOutOfRange"
    ELSE "None"

\* Alpha::try_from: the error, or "None".
AlphaError(x) ==
    IF ~IsFinite(x) THEN "NotFinite"
    ELSE IF FloatLeq(x, 0) \/ ~FloatLeq(x, One) THEN "LevelOutOfRange"
    ELSE "None"

\* AlphaThreshold::try_from, which keeps the f64 as it is: -0.0 stays -0.0.
ThresholdError(x) ==
    IF ~IsFinite(x) THEN "NotFinite"
    ELSE IF ~(FloatLeq(0, x) /\ FloatLeq(x, One)) THEN "ThresholdOutOfRange"
    ELSE "None"

\* AlphaThreshold::is_zero
IsZero(t) == FloatEq(t, 0)

\* validate_membership_power
PowerError(x) ==
    IF ~IsFinite(x) THEN "NotFinitePower"
    ELSE IF FloatLeq(x, One) THEN "PowerMustBeGreaterThanOne"
    ELSE "None"
=============================================================================
