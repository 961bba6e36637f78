------------------------------- MODULE Extension -------------------------------
(***************************************************************************)
(* The fuzzyregion type as SQL sees it (fuzzyregion-pg/src/api.rs,         *)
(* sql_type.rs, and the two conversions of interop.rs): a table of stored  *)
(* values and the statements that compute new ones from them.              *)
(*                                                                         *)
(* A stored value has the shape of a FuzzyValue; its geometries are the    *)
(* EWKB of the geometries.  Reading a row for an operation canonicalizes   *)
(* it again (to_domain), writing the result validates it (from_domain).  A *)
(* statement that fails, for any reason, leaves the table as it was.       *)
(***************************************************************************)
EXTENDS FuzzySets, MembershipTransforms

CONSTANTS
    RowId,        \* the rows of the table
    LevelArgs,    \* pairs of SQL arrays given to fuzzyregion_from_geoms or from_ewkb
    Literals,     \* type input: [srid, levels] as parse_text reads it
    Powers,       \* powers given to concentrate and dilate
    NullArg,      \* SQL NULL
    NoBytes       \* an empty bytea for a geometry

\* SQL arguments are arrays with NULLs, and f64 of any kind; the ones that pass as
\* an alpha are alphas in use.  A literal is what parse_text has read.
ASSUME ArgumentsAssumption ==
    /\ \A arg \in LevelArgs :
           /\ arg.alphas \in Seq(F64 \cup {NullArg})
           /\ arg.geoms = NullArg \/ arg.geoms \in Seq(Geometry \cup {NullArg, NoBytes})
           /\ \A x \in ToSet(arg.alphas) \ {NullArg} : AlphaError(x) = "None" => x \in Alpha
    /\ \A literal \in Literals :
           /\ literal.srid \in Srid \cup {NoSrid}
           /\ literal.levels \in Seq(Level)

\* The alphas in use are closed under the arithmetic of the transforms, where it
\* gives an alpha at all.
ASSUME ArithmeticAssumption ==
    \A a \in Alpha :
        /\ \A b \in Alpha : a <= b /\ Divide(a, b) \in 1..One => Divide(a, b) \in Alpha
        /\ \A power \in {p \in Powers : PowerError(p) = "None"} :
               /\ Powf(a, power \div One) \in 1..One => Powf(a, power \div One) \in Alpha
               /\ Rootf(a, power \div One) \in 1..One => Rootf(a, power \div One) \in Alpha

\* f64 division is correctly rounded, and powf errs by less than one unit in the
\* last place: neither carries an alpha past itself in the wrong direction.
ASSUME RoundingAssumption ==
    \A a \in Alpha :
        /\ Divide(a, a) = One
        /\ \A b \in Alpha : a <= b => Divide(a, b) >= a
        /\ \A power \in {p \in Powers : PowerError(p) = "None"} :
               /\ Powf(a, power \div One) <= a
               /\ Rootf(a, power \div One) >= a

VARIABLES
    rows,   \* row id -> stored value, NoRow before the first insert
    call,   \* the name of the last statement
    ended   \* how it ended: Ok, or the kind of its error

extVars == <<rows, call, ended>>

NoRow == <<>>
Row(v) == <<v>>

FunctionNames == Operations \cup {"from_geoms", "input", "normalize", "concentrate", "dilate"}

ExtInit ==
    /\ rows = [id \in RowId |-> NoRow]
    /\ call = "none"
    /\ ended = "Ok"

Filled == {id \in RowId : rows[id] # NoRow}

-----------------------------------------------------------------------------
\* Conversions between stored and domain values.

\* Mutant: the order of the alphas is not validated.
NewStoredUnordered(v) ==
    IF v.levels # <<>> /\ v.srid = NoSrid THEN Rejected("Storage", <<>>) ELSE Accepted(v)

\* StoredFuzzyregion::new, via validate_levels.
NewStored(v) ==
    LET pair == {k \in 1..Len(v.levels) - 1 : v.levels[k].alpha <= v.levels[k + 1].alpha}
    IN IF v.levels # <<>> /\ v.srid = NoSrid THEN Rejected("Storage", <<>>)
       ELSE IF pair # {} THEN Rejected("Storage", <<v.levels[Min(pair)].alpha>>)
       ELSE Accepted(v)

\* Mutant: an empty value keeps the SRID of the payload.
ToDomainWithSrid(stored) ==
    IF stored.levels = <<>> THEN Accepted(stored) ELSE CanonicalOutcome(stored.levels)

\* What to_domain makes of canonicalize's answer: an engine error is passed on,
\* any other one means that the stored levels were not canonical.
AsRead(outcome) ==
    IF outcome.kind \in {"Ok", "Geometry"} THEN outcome ELSE Rejected("CorruptStoredValue", <<>>)

\* Fuzzyregion::to_domain: the SRID comes from the geometries, not the payload.
ToDomain(stored) == AsRead(CanonicalOutcome(stored.levels))

\* Fuzzyregion::from_domain
FromDomain(v) == NewStored(v)

\* "?" on a Result.
AndThen(r, Op(_)) == IF r.kind = "Ok" THEN Op(r.value) ELSE r

-----------------------------------------------------------------------------
\* The functions, as what they answer for stored arguments.

\* Mutant: the range of an alpha is not checked.
ArgumentErrorAnyAlpha(arg) ==
    IF arg.alpha = NullArg THEN "NullAlphaElement"
    ELSE IF arg.geometry = NullArg THEN "NullGeometryElement"
    ELSE IF arg.geometry = NoBytes THEN "EmptyGeometryBytes"
    ELSE "None"

\* fuzzyregion_from_ewkb: the first array element that cannot be used decides.
ArgumentError(arg) ==
    IF arg.alpha = NullArg THEN "NullAlphaElement"
    ELSE IF AlphaError(arg.alpha) # "None" THEN "InvalidAlpha"
    ELSE IF arg.geometry = NullArg THEN "NullGeometryElement"
    ELSE IF arg.geometry = NoBytes THEN "EmptyGeometryBytes"
    ELSE "None"

\* The level list two arrays stand for.  The SQL wrapper unnests the geometries,
\* so that NULL for the whole array acts as an empty one.
LevelsOfArrays(arg) ==
    LET geoms == IF arg.geoms = NullArg THEN <<>> ELSE arg.geoms
        args == [k \in DOMAIN arg.alphas |-> [alpha |-> arg.alphas[k], geometry |-> geoms[k]]]
        bad == SelectInSeq(args, LAMBDA a : ArgumentError(a) # "None")
    IN IF Len(arg.alphas) # Len(geoms) THEN Rejected("MismatchedLevelCount", <<>>)
       ELSE IF bad # 0 THEN Rejected(ArgumentError(args[bad]), <<>>)
       ELSE Accepted(args)

FromGeoms(arg) == AndThen(AndThen(LevelsOfArrays(arg), CanonicalOutcome), FromDomain)

\* Mutant: a literal is stored without being canonicalized.
InputAsGiven(literal) == NewStored(literal)

\* The type's input function.
Input(literal) == AndThen(AndThen(NewStored(literal), ToDomain), FromDomain)

\* Mutant: the output function writes no SRID.
RestoredWithoutSrid(stored) == Input([stored EXCEPT !.srid = NoSrid])

\* The type's output function and then its input function, which is how a value
\* goes through a dump, a COPY in text format, or a cast to text and back.
Restored(stored) == Input(stored)

\* fuzzyregion_union, fuzzyregion_intersection, fuzzyregion_difference
SetFunction(op, a, b) ==
    AndThen(ToDomain(a), LAMBDA v :
    AndThen(ToDomain(b), LAMBDA w :
    AndThen(SetOperationOutcome(op, v, w), FromDomain)))

Remapped(name, v, power) ==
    CASE name = "normalize" -> NormalizeMembership(v)
      [] name = "concentrate" -> ConcentrateMembership(v, power)
      [] name = "dilate" -> DilateMembership(v, power)

\* The domain value a transform computes, before it is encoded.
Transformed(name, stored, power) ==
    AndThen(ToDomain(stored), LAMBDA v : Remapped(name, v, power))

Transform(name, stored, power) == AndThen(Transformed(name, stored, power), FromDomain)

-----------------------------------------------------------------------------
\* Statements.  INSERT ... SELECT f(...) writes the row into; an error, the
\* engine's own included, aborts the statement.

Run(name, into, answer) ==
    /\ call' = name
    /\ ended' = answer.kind
    /\ rows' = IF answer.kind = "Ok" THEN [rows EXCEPT ![into] = Row(answer.value)] ELSE rows

InsertGeoms(into) ==
    \E arg \in LevelArgs : Run("from_geoms", into, FromGeoms(arg))

InsertLiteral(into) ==
    \E literal \in Literals : Run("input", into, Input(literal))

SelectSetFunction(op, a, b, into) ==
    Run(op, into, SetFunction(op, rows[a][1], rows[b][1]))

SelectNormalize(a, into) ==
    Run("normalize", into, Transform("normalize", rows[a][1], 0))

SelectConcentrate(a, into) ==
    \E power \in Powers : Run("concentrate", into, Transform("concentrate", rows[a][1], power))

SelectDilate(a, into) ==
    \E power \in Powers : Run("dilate", into, Transform("dilate", rows[a][1], power))

\* PostGIS fails, or the statement is cancelled, in any query of the call.
Abort(name) == call' = name /\ ended' = "Geometry" /\ UNCHANGED rows

\* Every row dumped as text and read back; one row that fails fails the restore.
DumpRestore ==
    LET answers == [id \in Filled |-> Restored(rows[id][1])]
        failed == \E id \in Filled : answers[id].kind # "Ok"
    IN /\ Filled # {}
       /\ call' = "restore"
       /\ ended' = IF failed THEN "Restore" ELSE "Ok"
       /\ rows' = IF failed THEN rows
                  ELSE [id \in RowId |-> IF id \in Filled THEN Row(answers[id].value) ELSE NoRow]

ExtNext ==
    \/ \E name \in FunctionNames : Abort(name)
    \/ \E into \in RowId : InsertGeoms(into)
    \/ \E into \in RowId : InsertLiteral(into)
    \/ \E op \in Operations, a, b \in Filled, into \in RowId : SelectSetFunction(op, a, b, into)
    \/ \E a \in Filled, into \in RowId : SelectNormalize(a, into)
    \/ \E a \in Filled, into \in RowId : SelectConcentrate(a, into)
    \/ \E a \in Filled, into \in RowId : SelectDilate(a, into)
    \/ DumpRestore

ExtSpec == ExtInit /\ [][ExtNext]_extVars

-----------------------------------------------------------------------------

Stored(id) == rows[id][1]

NonEmpty == {id \in Filled : Stored(id).levels # <<>>}

\* The table holds values of the type, and the last call was one of its functions.
ExtTypeOK ==
    /\ DOMAIN rows = RowId
    /\ \A id \in Filled : Stored(id) \in FuzzyValue
    /\ call \in FunctionNames \cup {"none", "restore"}

\* However the calls follow one another, every stored value keeps the promises of
\* the canonical form: nothing a transform or an operation computes gets past the
\* checks on the way back to storage, although a transform itself makes none.
RowsCanonical == \A id \in Filled : Canonical(Stored(id))

\* A stored value can be read back, and every function computes on the levels it
\* was stored with.  Reading canonicalizes, so it could fail or change them.
RowsReadBack ==
    \A id \in Filled :
        LET domain == ToDomain(Stored(id))
        IN /\ domain.kind = "Ok"
           /\ domain.value.levels = Stored(id).levels
           /\ id \in NonEmpty => domain.value = Stored(id)

\* A transform that succeeds keeps the extents and the strict order of their
\* memberships: alphas that meet in rounding make the call fail.  Normalizing
\* reaches 1, concentrating never raises a membership, dilating never lowers it.
TransformsKeepOrder ==
    \A id \in NonEmpty, power \in Powers, name \in {"normalize", "concentrate", "dilate"} :
        LET before == Stored(id).levels
            answer == Transform(name, Stored(id), power)
            after == answer.value.levels
        IN answer.kind = "Ok" =>
            /\ Len(after) = Len(before)
            /\ StrictlyDescending(after)
            /\ \A k \in DOMAIN before :
                   /\ after[k].geometry = before[k].geometry
                   /\ name = "concentrate" => after[k].alpha <= before[k].alpha
                   /\ name # "concentrate" => after[k].alpha >= before[k].alpha
            /\ name = "normalize" => after[1].alpha = One

\* Two values with the same levels, up to how a geometry is written down.
SameFuzzySet(v, w) ==
    /\ v.srid = w.srid
    /\ Len(v.levels) = Len(w.levels)
    /\ \A k \in DOMAIN v.levels :
           /\ v.levels[k].alpha = w.levels[k].alpha
           /\ TopoEquals(v.levels[k].geometry, w.levels[k].geometry)

\* The set functions obey the laws of a lattice level by level, however the rows
\* came about: the order of the arguments does not matter, and a level that one
\* function adds or cuts away the other one removes or restores, with its alpha.
LatticeLaws ==
    \A a, b \in NonEmpty :
        Stored(a).srid = Stored(b).srid =>
            LET Join(x, y) == SetFunction("union", x, y).value
                Meet(x, y) == SetFunction("intersection", x, y).value
                v == Stored(a)
                w == Stored(b)
            IN /\ SameFuzzySet(Join(v, w), Join(w, v))
               /\ SameFuzzySet(Meet(v, w), Meet(w, v))
               /\ SameFuzzySet(Join(v, Meet(v, w)), v)
               /\ SameFuzzySet(Meet(v, Join(v, w)), v)

\* A set function answers in the SRID of its non-empty operands.  The SRID of an
\* empty operand plays no part: to_domain does not see it.
SridFromLevels ==
    \A a, b \in Filled, op \in Operations :
        LET answer == SetFunction(op, Stored(a), Stored(b))
            srids == {Stored(id).srid : id \in {a, b} \cap NonEmpty}
        IN IF Cardinality(srids) = 2 THEN answer.kind = "MixedOperandSrid"
           ELSE /\ answer.kind = "Ok"
                /\ srids # {} => answer.value.srid \in srids
                /\ srids = {} => answer.value = EmptyValue(NoSrid)

\* A dump and a restore keep the levels of every row, and every row that has any.
RestoreKeepsLevels ==
    [][call' = "restore" =>
          /\ ended' = "Ok"
          /\ \A id \in Filled :
                 /\ rows'[id][1].levels = Stored(id).levels
                 /\ id \in NonEmpty => rows'[id] = rows[id]]_extVars

\* The message "unexpected canonicalization failure while decoding fuzzyregion"
\* (sql_type.rs:68) is an answer to a literal only: no sequence of statements
\* stores a value that a later one cannot decode.
OnlyLiteralsAreCorrupt ==
    [][ended' = "CorruptStoredValue" => call' = "input"]_extVars

-----------------------------------------------------------------------------
\* What the repository says of the code and the code does not do.

\* "This syntax is lossless" (sql_type.rs:11): text output followed by input
\* gives the value back.
TextLossless == \A id \in Filled : Restored(Stored(id)) = Accepted(Stored(id))

\* "membership remapping must preserve alpha validity" (fuzzyregion.rs:452).
RemapPreservesValidity ==
    \A id \in Filled, power \in Powers :
        /\ Transformed("concentrate", Stored(id), power).kind # "Panic"
        /\ Transformed("dilate", Stored(id), power).kind # "Panic"

\* "levels are guaranteed to be ... unique by alpha" (fuzzyregion.rs:36-40), of
\* the domain value dilate_membership returns.
DilatedUniqueByAlpha ==
    \A id \in Filled, power \in Powers :
        LET answer == Transformed("dilate", Stored(id), power)
        IN answer.kind = "Ok" => StrictlyDescending(answer.value.levels)
=============================================================================
