------------------------------- MODULE SqlCall -------------------------------
(***************************************************************************)
(* A SQL statement as the run of Rust calls it is: the functions of        *)
(* fuzzyregion-pg/src/api.rs that compute a value, and the input function  *)
(* of sql_type.rs.  A statement canonicalizes the levels of each argument, *)
(* which is the machine of Canonicalization; a set function then runs the  *)
(* machine of SetOperation on the values read; the answer goes through     *)
(* from_domain into the table.  Each of the queries that PostGIS is asked  *)
(* on the way can fail, be cancelled, or return NULL.                      *)
(*                                                                         *)
(* Extension has the same statements in one step; this module is shown to  *)
(* implement it.  A behaviour is one statement on any table of canonical   *)
(* values; each statement starts from the same locals (SqlTypeOK).         *)
(***************************************************************************)
EXTENDS SetOperation, Extension

VARIABLES
    running,  \* the statement that runs: its name, the row it writes, its power
    todo,     \* the level lists it has still to canonicalize
    read      \* the domain values it has canonicalized

stmtVars == <<running, todo, read>>
sqlVars == <<stmtVars, extVars, setVars>>

NoStatement == [name |-> "none"]

\* The locals of canonicalize and of a set operation, before a call of theirs.
NoCall ==
    /\ CanonInit
    /\ phase = "none"
    /\ op = "none"
    /\ left = EmptyValue(NoSrid)
    /\ right = EmptyValue(NoSrid)
    /\ domain = {}
    /\ gathered = <<>>
    /\ answer = Pending

DropLocals ==
    /\ pc' = "idle" /\ raw' = <<>> /\ cursor' = 1
    /\ levels' = <<>> /\ kept' = <<>> /\ outcome' = Pending
    /\ phase' = "none" /\ op' = "none"
    /\ left' = EmptyValue(NoSrid) /\ right' = EmptyValue(NoSrid)
    /\ domain' = {} /\ gathered' = <<>> /\ answer' = Pending

SqlInit ==
    /\ rows \in [RowId -> {NoRow} \cup {Row(v) : v \in Values}]
    /\ call = "none" /\ ended = "Ok"
    /\ NoCall
    /\ running = NoStatement
    /\ todo = <<>>
    /\ read = <<>>

-----------------------------------------------------------------------------

\* A statement starts with arguments that passed its checks, or fails at once.
Begin(name, power, into, arguments) ==
    /\ running = NoStatement /\ call = "none"
    /\ IF arguments.kind = "Ok"
       THEN /\ running' = [name |-> name, into |-> into, power |-> power]
            /\ todo' = arguments.value
            /\ UNCHANGED extVars
       ELSE /\ Run(name, into, arguments)
            /\ UNCHANGED <<running, todo>>
    /\ UNCHANGED <<read, setVars>>

LevelsOf(ids) == Accepted([k \in DOMAIN ids |-> Stored(ids[k]).levels])

BeginStatement(into) ==
    \/ \E arg \in LevelArgs :
           Begin("from_geoms", One, into, AndThen(LevelsOfArrays(arg), LAMBDA l : Accepted(<<l>>)))
    \/ \E literal \in Literals :
           Begin("input", One, into, AndThen(NewStored(literal), LAMBDA v : Accepted(<<v.levels>>)))
    \/ \E a, b \in Filled, name \in Operations : Begin(name, One, into, LevelsOf(<<a, b>>))
    \/ \E a \in Filled : Begin("normalize", One, into, LevelsOf(<<a>>))
    \/ \E a \in Filled, power \in Powers, name \in {"concentrate", "dilate"} :
           Begin(name, power, into, LevelsOf(<<a>>))

\* The statement ends, whatever it still had to do; its locals are dropped.
End(result) ==
    /\ Run(running.name, running.into, result)
    /\ running' = NoStatement
    /\ todo' = <<>>
    /\ read' = <<>>
    /\ DropLocals

ReadArgument ==
    /\ todo # <<>>
    /\ Call(Head(todo))
    /\ todo' = Tail(todo)
    /\ UNCHANGED <<running, read, extVars, opVars>>

ReadStep ==
    /\ phase = "none"
    /\ CanonStep
    /\ UNCHANGED <<stmtVars, extVars, opVars>>

\* Mutant: an operand that cannot be read counts as empty.
FinishReadLenient ==
    /\ phase = "none" /\ pc = "done"
    /\ read' = Append(read, IF outcome.kind = "Ok" THEN outcome.value ELSE EmptyValue(NoSrid))
    /\ DropLocals
    /\ UNCHANGED <<running, todo, extVars>>

\* Mutant: canonicalize checks the levels, and they are used as they were given.
FinishReadAsGiven ==
    /\ phase = "none" /\ pc = "done"
    /\ IF outcome.kind = "Ok"
       THEN /\ read' = Append(read, [outcome.value EXCEPT !.levels = raw])
            /\ DropLocals
            /\ UNCHANGED <<running, todo, extVars>>
       ELSE End(IF running.name = "from_geoms" THEN outcome ELSE AsRead(outcome))

\* "?" on to_domain, and on from_levels in fuzzyregion_from_ewkb.
FinishRead ==
    /\ phase = "none" /\ pc = "done"
    /\ IF outcome.kind = "Ok"
       THEN /\ read' = Append(read, outcome.value)
            /\ DropLocals
            /\ UNCHANGED <<running, todo, extVars>>
       ELSE End(IF running.name = "from_geoms" THEN outcome ELSE AsRead(outcome))

AllRead == todo = <<>> /\ pc = "idle" /\ read # <<>>

StartOperation ==
    /\ AllRead /\ phase = "none" /\ running.name \in Operations
    /\ phase' = "idle"
    /\ op' = running.name
    /\ left' = read[1]
    /\ right' = read[2]
    /\ UNCHANGED <<stmtVars, extVars, domain, gathered, answer, canonVars>>

OperationStep ==
    /\ phase \notin {"none", "done"}
    /\ SetStep
    /\ UNCHANGED <<stmtVars, extVars>>

\* Mutant: the statement waits for a value, and an error of the core is none.
FinishOperationValuesOnly ==
    /\ phase = "done" /\ answer.kind = "Ok"
    /\ End(AndThen(answer, FromDomain))

FinishOperation ==
    /\ phase = "done"
    /\ End(AndThen(answer, FromDomain))

FinishOther ==
    /\ AllRead /\ phase = "none" /\ running.name \notin Operations
    /\ End(AndThen(IF running.name \in {"from_geoms", "input"} THEN Accepted(read[1])
                   ELSE Remapped(running.name, read[1], running.power),
                   FromDomain))

SqlStep ==
    \/ ReadArgument
    \/ ReadStep
    \/ FinishRead
    \/ StartOperation
    \/ OperationStep
    \/ FinishOperation
    \/ FinishOther

SqlNext ==
    \/ SqlStep
    \/ \E into \in RowId : BeginStatement(into)
    \/ call # "none" /\ UNCHANGED sqlVars

SqlSpec == SqlInit /\ [][SqlNext]_sqlVars /\ WF_sqlVars(SqlStep)

-----------------------------------------------------------------------------

\* The table has its type, and what a statement has read of its arguments is
\* canonical, in whatever order and however redundant they were given.  Between
\* statements the machines are at their start, so that a run of one statement on
\* every table stands for all sequences of statements.
SqlTypeOK ==
    /\ ExtTypeOK
    /\ Len(read) + Len(todo) <= 2
    /\ running = NoStatement => todo = <<>> /\ read = <<>> /\ NoCall
    /\ \A k \in DOMAIN read : Canonical(read[k])

\* However PostGIS fails in the middle of it, a statement has the effect of one of
\* Extension's steps, or of a failed one: nothing partly computed reaches the
\* table, and no local of one canonicalization is left for the next.
ImplementsStatements == [][ExtNext]_extVars

\* PostGIS is never asked about geometries of two SRIDs, although to_domain drops
\* the SRID of an empty operand before the operation compares the SRIDs.
EngineSeesOneSrid == ComparesOneSrid /\ OverlaysOneSrid

\* Every statement ends.
StatementReturns == running # NoStatement ~> running = NoStatement
=============================================================================
