------------------------------- MODULE Decimals -------------------------------
(***************************************************************************)
(* Decimal numerals for TextFormat, after Display and from_str of Rust's   *)
(* f64 and i32: the grid of floats has One = 100 steps to 1, so that two   *)
(* decimals are exact, and an i32 goes from -MaxInt - 1 to MaxInt.         *)
(* Exponents are left out: no text here has an "e" in a number.            *)
(***************************************************************************)
EXTENDS Integers, Sequences, SequencesExt, Alphas

CONSTANT MaxInt  \* the largest i32

ASSUME DecimalsAssumption == One = 100 /\ MaxInt \in Nat

Digits == <<"0", "1", "2", "3", "4", "5", "6", "7", "8", "9">>

\* The last digit of n.
Digit(n) == Digits[(n % 10) + 1]

IsDigits(s) == s # <<>> /\ \A k \in DOMAIN s : s[k] \in ToSet(Digits)

\* The number a sequence of digits stands for.
Numeral(s) ==
    FoldLeft(LAMBDA n, c : 10 * n + SelectInSeq(Digits, LAMBDA d : d = c) - 1, 0, s)

\* The digits of n < 1000 without leading zeros.
Shown(n) ==
    LET all == <<Digit(n \div 100), Digit(n \div 10), Digit(n)>>
    IN CASE n < 10 -> SubSeq(all, 3, 3)
         [] 10 <= n /\ n < 100 -> SubSeq(all, 2, 3)
         [] 100 <= n -> all

Unsigned(s) == IF s # <<>> /\ s[1] \in {"+", "-"} THEN Tail(s) ELSE s
IsNegative(s) == s # <<>> /\ s[1] = "-"

DecimalShowInt(n) == IF n < 0 THEN <<"-">> \o Shown(-n) ELSE Shown(n)

\* A number out of range is an error.
DecimalReadInt(s) ==
    IF ~IsDigits(Unsigned(s)) THEN {}
    ELSE {n \in {IF IsNegative(s) THEN -Numeral(Unsigned(s)) ELSE Numeral(Unsigned(s))} :
              -MaxInt - 1 <= n /\ n <= MaxInt}

\* Display writes no more decimals than it needs.
DecimalShowFloat(x) ==
    CASE x % One = 0 -> Shown(x \div One)
      [] x % One # 0 /\ x % 10 = 0 -> Shown(x \div One) \o <<".", Digit(x \div 10)>>
      [] x % 10 # 0 -> Shown(x \div One) \o <<".", Digit(x \div 10), Digit(x)>>

\* Digits with at most one point among them, before or after it; or a word.
\* Decimals after the second are below the grid.
DecimalMagnitude(s) ==
    LET digits == SelectSeq(s, LAMBDA c : c # ".")
        point == SelectInSeq(s, LAMBDA c : c = ".")
        decimals == IF point = 0 THEN 0 ELSE Len(s) - point
    IN IF s = <<"inf">> THEN {Infinity}
       ELSE IF s = <<"NaN">> THEN {NaN}
       ELSE IF ~IsDigits(digits) \/ Len(s) - Len(digits) > 1 THEN {}
       ELSE {(Numeral(digits) * One) \div (10 ^ decimals)}

DecimalReadFloat(s) ==
    {IF IsNegative(s) THEN -1 - x ELSE x : x \in DecimalMagnitude(Unsigned(s))}
=============================================================================
