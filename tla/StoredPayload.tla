---------------------------- MODULE StoredPayload ----------------------------
(***************************************************************************)
(* The persisted payload of a fuzzyregion (fuzzyregion-pg/src/storage.rs), *)
(* a record of an optional SRID and levels of an alpha and EWKB bytes, and *)
(* what StoredLevel::new and StoredFuzzyregion::new refuse.  The binary    *)
(* form (Storage) and the text form (TextFormat) are built from it.        *)
(***************************************************************************)
EXTENDS Integers, Sequences, SequencesExt

CONSTANTS
    MaxU32,  \* the largest u32
    NoSrid   \* None for the optional SRID

ASSUME PayloadAssumption == MaxU32 \in Nat /\ NoSrid \notin Int

Failed(error) == [kind |-> error]
Decoded(v) == [kind |-> "Ok", value |-> v]

\* validate_levels
ValidateLevels(v) ==
    LET n == Len(v.levels)
        pair == {k \in 1..n - 1 : v.levels[k].alpha <= v.levels[k + 1].alpha}
    IN IF n > 0 /\ v.srid = NoSrid THEN Failed("MissingSrid")
       ELSE IF n > MaxU32 THEN Failed("TooManyLevels")
       ELSE IF pair = {} THEN Decoded(v)
       ELSE IF v.levels[Min(pair)].alpha = v.levels[Min(pair) + 1].alpha
            THEN Failed("DuplicateAlpha")
            ELSE Failed("LevelsOutOfOrder")

\* Mutant: the length is not checked against the u32 it is written to.
StoredLevelErrorUnbounded(ewkb) == IF ewkb = <<>> THEN "EmptyEwkb" ELSE "None"

\* Mutant: a level without bytes is let through.
StoredLevelErrorEmptyAllowed(ewkb) == IF Len(ewkb) > MaxU32 THEN "EwkbTooLarge" ELSE "None"

\* StoredLevel::new
StoredLevelError(ewkb) ==
    IF ewkb = <<>> THEN "EmptyEwkb"
    ELSE IF Len(ewkb) > MaxU32 THEN "EwkbTooLarge"
    ELSE "None"

\* StoredFuzzyregion::new of levels that StoredLevel::new has built.
NewStored(v) ==
    LET bad == SelectInSeq(v.levels, LAMBDA l : StoredLevelError(l.ewkb) # "None")
    IN IF bad # 0 THEN Failed(StoredLevelError(v.levels[bad].ewkb))
       ELSE ValidateLevels(v)
=============================================================================
