------------------------------ MODULE MCStorage ------------------------------
(***************************************************************************)
(* Storage with u32 fields that end at 2.  The payloads written reach past *)
(* the largest count and the largest length.  The bodies read back are     *)
(* every tail of up to five units (seven for two levels) after each header *)
(* that is accepted, and every header that is not.                         *)
(***************************************************************************)
EXTENDS Storage

Ewkbs == UNION {[1..n -> {1}] : n \in 0..MaxU32 + 1} \cup {<<0, 2>>}

ShortLevels == [alpha : AlphaUnits, ewkb : {<<1>>, <<2>>}]

MCPayloads ==
    [srid : {NoSrid, 0, 2},
     levels : {<<>>} \cup {<<[alpha |-> a, ewkb |-> e]>> : a \in AlphaUnits, e \in Ewkbs}
              \cup UNION {[1..n -> ShortLevels] : n \in 2..MaxU32 + 1}]

Headers(size) ==
    {h \in [1..size -> 0..2] :
        /\ size > 1 => h[1] = Magic
        /\ size > 2 => h[2] = Version
        /\ size > 3 => h[3] \in {0, 1}}

MCBodies ==
    UNION {Headers(n) : n \in 0..4}
    \cup {<<Magic, Version, flag, 0, n>> \o tail :
              flag \in {0, 1}, n \in 0..1, tail \in UNION {[1..k -> 0..2] : k \in 0..5}}
    \cup {<<Magic, Version, 1, 0, 2>> \o tail : tail \in UNION {[1..k -> 0..2] : k \in 0..7}}
=============================================================================
