------------------------------- MODULE MiniFloat -------------------------------
(***************************************************************************)
(* External: the f64 arithmetic that alphas go through, at a precision TLC *)
(* can enumerate.  The integer k stands for k / FloatOne; it is a float    *)
(* when its binary significand has at most Precision bits.  Results round  *)
(* to nearest, ties to even; below half the smallest float they underflow  *)
(* to 0, as f64 results do below half the smallest subnormal.              *)
(***************************************************************************)
EXTENDS Integers, FiniteSetsExt

CONSTANTS
    FloatBits,  \* FloatOne is 2^FloatBits
    Precision   \* bits of a significand

ASSUME FloatAssumption ==
    FloatBits \in Nat \ {0} /\ Precision \in 1..FloatBits

FloatOne == 2 ^ FloatBits

Floats ==
    {k \in 0..FloatOne :
        \E e \in 0..FloatBits : k % (2 ^ e) = 0 /\ k \div (2 ^ e) < 2 ^ Precision}

\* The float nearest to x, for neighbours lo <= x <= hi and the sign of
\* x - (lo + hi) / 2.
Nearest(lo, hi, sign) ==
    CASE lo = hi -> lo
      [] lo # hi /\ sign < 0 -> lo
      [] lo # hi /\ sign > 0 -> hi
      [] lo # hi /\ sign = 0 -> CHOOSE f \in {lo, hi} : f % (2 * (hi - lo)) = 0

\* The float nearest to n / d.
RoundRatio(n, d) ==
    LET lo == Max({f \in Floats : f * d <= n})
        hi == Min({f \in Floats : f * d >= n})
    IN Nearest(lo, hi, 2 * n - (lo + hi) * d)

\* 1.0 - a, as a table
Complements == [a \in 0..FloatOne |-> RoundRatio(FloatOne - a, 1)]

FloatOneMinus(a) == Complements[a]

\* a / b, for a <= b
FloatDivide(a, b) == RoundRatio(a * FloatOne, b)

\* a.powf(n) and a.powf(1.0 / n)
FloatPower(a, n) == RoundRatio(a ^ n, FloatOne ^ (n - 1))

FloatRoot(a, n) ==
    LET x == a * FloatOne ^ (n - 1)
        lo == Max({f \in Floats : f ^ n <= x})
        hi == Min({f \in Floats : f ^ n >= x})
    IN Nearest(lo, hi, 2 ^ n * x - (lo + hi) ^ n)
=============================================================================
