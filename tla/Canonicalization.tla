--------------------------- MODULE Canonicalization ---------------------------
(***************************************************************************)
(* Fuzzyregion::canonicalize (fuzzyregion-core/src/fuzzyregion.rs), one    *)
(* action per iteration of each of its loops, so that an engine call may   *)
(* fail anywhere between the others.  A call gets its raw levels, runs     *)
(* through                                                                 *)
(*     normalize -> sort -> srid -> collapse -> nest                       *)
(* and ends with an outcome: a value, or the error it returns.             *)
(***************************************************************************)
EXTENDS Fuzzyregion

CONSTANT Inputs  \* the raw level lists the function is called with

ASSUME InputsAssumption == Inputs \subseteq Seq(Level)

VARIABLES
    pc,        \* the loop the call is in
    raw,       \* the argument, in the order the caller gave the levels
    cursor,    \* index of the loop's next element
    levels,    \* normalized levels, later sorted
    kept,      \* "collapsed": the levels that survive
    outcome    \* Pending until the call returns

canonVars == <<pc, raw, cursor, levels, kept, outcome>>

Pending == [kind |-> "Pending"]

CanonInit ==
    /\ pc = "idle"
    /\ raw = <<>>
    /\ cursor = 1
    /\ levels = <<>>
    /\ kept = <<>>
    /\ outcome = Pending

-----------------------------------------------------------------------------

Call(input) ==
    /\ pc = "idle"
    /\ raw' = input
    /\ pc' = "normalize"
    /\ UNCHANGED <<cursor, levels, kept, outcome>>

Return(result) ==
    /\ pc' = "done"
    /\ outcome' = result
    /\ UNCHANGED <<raw, cursor, levels, kept>>

Advance == cursor' = cursor + 1

Enter(loop) == pc' = loop /\ cursor' = 1

\* Mutant: the level is checked normalized but kept as it was given.
NormalizeLevelKeepsRaw ==
    /\ pc = "normalize"
    /\ cursor \in DOMAIN raw
    /\ IF IsEmpty(NormalizedLevel(raw[cursor]).geometry)
       THEN Return(Rejected("EmptyGeometry", <<raw[cursor].alpha>>))
       ELSE /\ levels' = Append(levels, raw[cursor])
            /\ Advance
            /\ UNCHANGED <<pc, raw, kept, outcome>>

\* One level normalized; an empty one ends the call.
NormalizeLevel ==
    /\ pc = "normalize"
    /\ cursor \in DOMAIN raw
    /\ LET level == NormalizedLevel(raw[cursor])
       IN IF IsEmpty(level.geometry)
          THEN Return(Rejected("EmptyGeometry", <<level.alpha>>))
          ELSE /\ levels' = Append(levels, level)
               /\ Advance
               /\ UNCHANGED <<pc, raw, kept, outcome>>

AcceptEmpty ==
    /\ pc = "normalize"
    /\ cursor \notin DOMAIN raw
    /\ levels = <<>>
    /\ Return(Accepted(EmptyValue(NoSrid)))

\* levels' is a permutation of levels, highest alpha first.
SortLevels ==
    /\ pc = "normalize"
    /\ cursor \notin DOMAIN raw
    /\ levels # <<>>
    /\ \E order \in Bijection(DOMAIN levels, DOMAIN levels) :
           /\ \A i, j \in DOMAIN levels :
                  i < j => levels[order[i]].alpha >= levels[order[j]].alpha
           /\ levels' = [i \in DOMAIN levels |-> levels[order[i]]]
    /\ Enter("duplicates")
    /\ UNCHANGED <<raw, kept, outcome>>

\* Mutant: the last repeated alpha is named, not the first the scan meets.
CheckDuplicatesNamesLast ==
    /\ pc = "duplicates"
    /\ LET pair == {k \in 1..Len(levels) - 1 : levels[k].alpha = levels[k + 1].alpha}
       IN IF pair # {}
          THEN Return(Rejected("DuplicateAlpha", <<levels[Len(levels)].alpha>>))
          ELSE Enter("srid") /\ UNCHANGED <<raw, levels, kept, outcome>>

\* The scan of adjacent pairs for equal alphas.
CheckDuplicates ==
    /\ pc = "duplicates"
    /\ LET pair == {k \in 1..Len(levels) - 1 : levels[k].alpha = levels[k + 1].alpha}
       IN IF pair # {}
          THEN Return(Rejected("DuplicateAlpha", <<levels[Min(pair)].alpha>>))
          ELSE Enter("srid") /\ UNCHANGED <<raw, levels, kept, outcome>>

\* levels[1] gives the SRID the others must have.
CheckSrid ==
    /\ pc = "srid"
    /\ cursor \in DOMAIN levels
    /\ IF SameSrid(levels[cursor].geometry, levels[1].geometry)
       THEN Advance /\ UNCHANGED <<pc, raw, levels, kept, outcome>>
       ELSE Return(Rejected("MixedSrid", <<levels[cursor].alpha>>))

\* Mutant: the loop stops one level early.
StartCollapseEarly ==
    /\ pc = "srid"
    /\ cursor + 1 \notin DOMAIN levels
    /\ Enter("collapse")
    /\ UNCHANGED <<raw, levels, kept, outcome>>

StartCollapse ==
    /\ pc = "srid"
    /\ cursor \notin DOMAIN levels
    /\ Enter("collapse")
    /\ UNCHANGED <<raw, levels, kept, outcome>>

\* Mutant: of two levels with one extent the lower alpha is kept.
CollapseLevelKeepsLower ==
    /\ pc = "collapse"
    /\ cursor \in DOMAIN levels
    /\ kept' = IF kept # <<>> /\ TopoEquals(Last(kept).geometry, levels[cursor].geometry)
               THEN [kept EXCEPT ![Len(kept)] = levels[cursor]]
               ELSE Append(kept, levels[cursor])
    /\ Advance
    /\ UNCHANGED <<pc, raw, levels, outcome>>

\* Mutant: a level is dropped when it contains the last kept one.
CollapseLevelOnContains ==
    /\ pc = "collapse"
    /\ cursor \in DOMAIN levels
    /\ kept' = IF kept # <<>> /\ Covers(levels[cursor].geometry, Last(kept).geometry)
               THEN kept
               ELSE Append(kept, levels[cursor])
    /\ Advance
    /\ UNCHANGED <<pc, raw, levels, outcome>>

\* A level with the extent of the last kept one is dropped.
CollapseLevel ==
    /\ pc = "collapse"
    /\ cursor \in DOMAIN levels
    /\ kept' = IF kept # <<>> /\ TopoEquals(Last(kept).geometry, levels[cursor].geometry)
               THEN kept
               ELSE Append(kept, levels[cursor])
    /\ Advance
    /\ UNCHANGED <<pc, raw, levels, outcome>>

StartNesting ==
    /\ pc = "collapse"
    /\ cursor \notin DOMAIN levels
    /\ Enter("nest")
    /\ UNCHANGED <<raw, levels, kept, outcome>>

\* Mutant: the arguments of contains are swapped.
CheckNestingSwapped ==
    /\ pc = "nest"
    /\ cursor + 1 \in DOMAIN kept
    /\ IF Covers(kept[cursor].geometry, kept[cursor + 1].geometry)
       THEN Advance /\ UNCHANGED <<pc, raw, levels, kept, outcome>>
       ELSE Return(Rejected("NonNestedLevels", <<kept[cursor].alpha, kept[cursor + 1].alpha>>))

CheckNesting ==
    /\ pc = "nest"
    /\ cursor + 1 \in DOMAIN kept
    /\ IF Covers(kept[cursor + 1].geometry, kept[cursor].geometry)
       THEN Advance /\ UNCHANGED <<pc, raw, levels, kept, outcome>>
       ELSE Return(Rejected("NonNestedLevels", <<kept[cursor].alpha, kept[cursor + 1].alpha>>))

Accept ==
    /\ pc = "nest"
    /\ cursor + 1 \notin DOMAIN kept
    /\ Return(Accepted([srid |-> SridOf(levels[1].geometry), levels |-> kept]))

\* Any engine call can fail; its error is passed on with "?".
EngineCallDue ==
    \/ pc = "normalize" /\ cursor \in DOMAIN raw
    \/ pc = "srid" /\ cursor \in DOMAIN levels
    \/ pc = "collapse" /\ cursor \in DOMAIN levels /\ kept # <<>>
    \/ pc = "nest" /\ cursor + 1 \in DOMAIN kept

EngineFailure == EngineCallDue /\ Return(Rejected("Geometry", <<>>))

CanonStep ==
    \/ NormalizeLevel
    \/ AcceptEmpty
    \/ SortLevels
    \/ CheckDuplicates
    \/ CheckSrid
    \/ StartCollapse
    \/ CollapseLevel
    \/ StartNesting
    \/ CheckNesting
    \/ Accept
    \/ EngineFailure

Next ==
    \/ \E input \in Inputs : Call(input)
    \/ CanonStep
    \/ pc = "done" /\ UNCHANGED canonVars

Spec == CanonInit /\ [][Next]_canonVars /\ WF_canonVars(CanonStep)

-----------------------------------------------------------------------------

\* The variables have their types; the working lists hold normalized levels only.
TypeOK ==
    /\ pc \in {"idle", "normalize", "duplicates", "srid", "collapse", "nest", "done"}
    /\ raw \in Seq(Level)
    /\ cursor \in Nat \ {0}
    /\ levels \in Seq(CanonicalLevel)
    /\ kept \in Seq(CanonicalLevel)
    /\ outcome.kind = "Ok" => outcome.value \in FuzzyValue

\* Whatever list it was called with, a value the function returns keeps every
\* promise of the doc of Fuzzyregion (fuzzyregion.rs:34-43).  The code compares
\* neighbours only; the promise is about every pair of levels.
ResultCanonical == outcome.kind = "Ok" => Canonical(outcome.value)

\* Sorting and dropping levels never changes what the value says of a place:
\* its membership is the highest alpha of a given level that covers it.
MembershipPreserved ==
    outcome.kind = "Ok" =>
        \A p \in Place :
            LET covering == {k \in DOMAIN raw : CoversPlace(Normalize(raw[k].geometry), p)}
                mu == MembershipAt(outcome.value, p)
            IN /\ \A k \in covering : raw[k].alpha <= mu
               /\ covering # {} => \E k \in covering : raw[k].alpha = mu
               /\ covering = {} => mu = 0

\* A list that is canonical already comes back as it was given.  Every read of a
\* stored value relies on it (decode_stored_fuzzyregion, interop.rs:380-398).
CanonicalUnchanged ==
    /\ pc = "done"
    /\ outcome.kind # "Geometry"
    /\ raw # <<>>
    /\ Canonical([srid |-> SridOf(raw[1].geometry), levels |-> raw])
    => outcome = Accepted([srid |-> SridOf(raw[1].geometry), levels |-> raw])

\* The engine is never asked to compare geometries of two SRIDs, which PostGIS
\* answers with an error of its own instead of MixedSrid.
ComparesOneSrid ==
    pc \in {"collapse", "nest"} =>
        \A i, j \in DOMAIN levels : SameSrid(levels[i].geometry, levels[j].geometry)

\* The function implements its contract: it always answers, with the value or
\* the error the raw levels call for, whatever order its loops look in.
Contract == INSTANCE CanonicalizationContract WITH called <- pc # "idle"

ImplementsContract == Contract!ContractSpec
=============================================================================
