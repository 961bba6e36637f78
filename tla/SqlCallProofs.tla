----------------------------- MODULE SqlCallProofs -----------------------------
(***************************************************************************)
(* Theorems about SqlCall: whatever statements follow one another on a     *)
(* table of any size, and wherever PostGIS fails in them, the rows stay    *)
(* canonical and PostGIS is asked about geometries of one SRID only.       *)
(*                                                                         *)
(* A statement runs the machines that SetOperationProofs is about; their   *)
(* invariants are parts of SqlInv.                                         *)
(* ProgressInv adds where the statement is in its list of arguments and    *)
(* what it has made of those behind it, which makes each statement one     *)
(* step of Extension: the refinement, and with it what was shown there.    *)
(***************************************************************************)
EXTENDS SqlCall, SetOperationProofs, ExtensionProofs

-----------------------------------------------------------------------------
\* The invariant.

\* The arguments of a statement, and the one it is reading.
Arity == IF running.name \in Operations THEN 2 ELSE 1
Reading == IF phase = "none" /\ pc # "idle" THEN 1 ELSE 0

Statement ==
    /\ running.name \in FunctionNames
    /\ running.into \in RowId
    /\ running.name \in {"concentrate", "dilate"} => running.power \in Powers
    /\ Len(read) + Len(todo) + Reading = Arity

NoOperation ==
    /\ op = "none" /\ left = EmptyValue(NoSrid) /\ right = EmptyValue(NoSrid)
    /\ domain = {} /\ gathered = <<>> /\ answer = Pending

StatementInv ==
    /\ todo \in Seq(Seq(Level))
    /\ read \in Seq(Operand)
    /\ running = NoStatement => todo = <<>> /\ read = <<>> /\ NoCall
    /\ running # NoStatement => Statement

OperationInv ==
    /\ phase = "none" => NoOperation
    /\ phase # "none" => /\ SetInv
                         /\ todo = <<>>
                         /\ running.name \in Operations

SqlInv == CanonInv /\ TableInv /\ StatementInv /\ OperationInv

LEMMA SqlInitInv == SqlInit => SqlInv
  <1> SUFFICES ASSUME SqlInit
               PROVE  SqlInv
    OBVIOUS
  <1>1. CanonInv
    BY InitInv DEF SqlInit, NoCall
  <1>2. TableInv
    BY ValuesAreOperands DEF SqlInit, TableInv
  <1>3. StatementInv
    BY DEF SqlInit, StatementInv
  <1>4. OperationInv
    BY DEF SqlInit, NoCall, OperationInv, NoOperation
  <1> QED
    BY <1>1, <1>2, <1>3, <1>4 DEF SqlInv

-----------------------------------------------------------------------------
\* The start of a statement.

\* What the level lists of a statement's arguments are.
GivenBy(name, lists) ==
    /\ name = "from_geoms" => \E arg \in LevelArgs : LevelsOfArrays(arg) = Accepted(lists[1])
    /\ name = "input" => \E literal \in Literals : /\ NewStored(literal) = Accepted(literal)
                                                   /\ lists[1] = literal.levels
    /\ name \in Operations => \E a, b \in Filled : /\ lists[1] = Stored(a).levels
                                                   /\ lists[2] = Stored(b).levels
    /\ name \in Transforms => \E a \in Filled : lists[1] = Stored(a).levels

\* A statement begins: with lists of its arguments, or with what it fails with.
Begins(name, power, into, arguments) ==
    /\ name \in FunctionNames
    /\ name \in {"concentrate", "dilate"} => power \in Powers
    /\ arguments.kind = "Ok" =>
           /\ arguments.value \in Seq(Seq(Level))
           /\ Len(arguments.value) = IF name \in Operations THEN 2 ELSE 1
           /\ GivenBy(name, arguments.value)
    /\ arguments.kind # "Ok" =>
           \/ name = "from_geoms" /\ \E arg \in LevelArgs : arguments = FromGeoms(arg)
           \/ name = "input" /\ \E literal \in Literals : arguments = Input(literal)
    /\ Begin(name, power, into, arguments)

LEMMA FunctionIsSequence ==
    ASSUME NEW S, NEW n \in Nat, NEW s \in [1..n -> S]
    PROVE  s \in Seq(S) /\ Len(s) = n
  OBVIOUS

LEMMA NamesDiffer ==
    /\ {"from_geoms", "input"} \cup Operations \cup Transforms = FunctionNames
    /\ Operations \cap Transforms = {}
    /\ {"from_geoms", "input"} \cap (Operations \cup Transforms) = {}
    /\ {"normalize", "concentrate", "dilate"} = Transforms
  BY DEF FunctionNames, Operations, Transforms

\* The statements on rows.
LEMMA BeginsOnRows ==
    ASSUME TableInv, NEW a \in Filled, NEW b \in Filled, NEW ids \in {<<a>>, <<a, b>>},
           NEW name, NEW power, NEW into,
           \/ name \in Operations /\ ids = <<a, b>>
           \/ name \in Transforms /\ ids = <<a>>,
           name \in {"concentrate", "dilate"} => power \in Powers,
           Begin(name, power, into, LevelsOf(ids))
    PROVE  Begins(name, power, into, LevelsOf(ids))
  <1>1. PICK n \in {1, 2} : DOMAIN ids = 1..n /\ (n = 1 => ids = <<a>>) /\ (n = 2 => ids = <<a, b>>)
    OBVIOUS
  <1>2. /\ ids[1] = a /\ (n = 2 => ids[2] = b)
        /\ \A k \in 1..n : ids[k] \in Filled
    BY <1>1
  <1>3. /\ LevelsOf(ids).kind = "Ok"
        /\ LevelsOf(ids).value = [k \in 1..n |-> Stored(ids[k]).levels]
    BY <1>1 DEF LevelsOf, Accepted
  <1>4. \A k \in 1..n : Stored(ids[k]).levels \in Seq(Level)
    BY <1>2, StoredIsOperand, OperandIsValue
  <1>5. LevelsOf(ids).value \in Seq(Seq(Level)) /\ Len(LevelsOf(ids).value) = n
    <2>1. LevelsOf(ids).value \in [1..n -> Seq(Level)]
      BY <1>3, <1>4
    <2>2. \A s \in [1..n -> Seq(Level)] : s \in Seq(Seq(Level)) /\ Len(s) = n
      BY <1>1, FunctionIsSequence
    <2> QED
      BY <2>1, <2>2
  <1>6. /\ LevelsOf(ids).value[1] = Stored(a).levels
        /\ n = 2 => LevelsOf(ids).value[2] = Stored(b).levels
    BY <1>1, <1>2, <1>3
  <1>7. /\ name \in FunctionNames \ {"from_geoms", "input"}
        /\ name \in Operations => n = 2
        /\ name \in Transforms => n = 1 /\ name \notin Operations
    BY <1>1, NamesDiffer
  <1>8. GivenBy(name, LevelsOf(ids).value)
    BY <1>6, <1>7 DEF GivenBy
  <1>9. LevelsOf(ids).kind = "Ok"
    BY <1>3
  <1> HIDE <1>3
  <1> QED
    BY <1>5, <1>7, <1>8, <1>9, NamesDiffer DEF Begins

LEMMA StatementBegins ==
    ASSUME TableInv, NEW into \in RowId, BeginStatement(into)
    PROVE  \E name, power, arguments : Begins(name, power, into, arguments)
  <1>1. \A l \in Seq(Level) : <<l>> \in Seq(Seq(Level)) /\ Len(<<l>>) = 1 /\ <<l>>[1] = l
    OBVIOUS
  <1>2. CASE \E arg \in LevelArgs :
                 Begin("from_geoms", One, into,
                       AndThen(LevelsOfArrays(arg), LAMBDA l : Accepted(<<l>>)))
    <2>1. PICK arg \in LevelArgs :
              Begin("from_geoms", One, into,
                    AndThen(LevelsOfArrays(arg), LAMBDA l : Accepted(<<l>>)))
      BY <1>2
    <2> DEFINE arguments == AndThen(LevelsOfArrays(arg), LAMBDA l : Accepted(<<l>>))
    <2>2. arguments.kind = "Ok" =>
              /\ LevelsOfArrays(arg).kind = "Ok"
              /\ arguments.value = <<LevelsOfArrays(arg).value>>
      BY DEF AndThen, Accepted
    <2>3. arguments.kind = "Ok" => /\ arguments.value \in Seq(Seq(Level))
                                   /\ Len(arguments.value) = 1
                                   /\ LevelsOfArrays(arg) = Accepted(arguments.value[1])
      BY <1>1, <2>2, ArraysGiveLevels
    <2>4. arguments.kind # "Ok" => arguments = FromGeoms(arg)
      BY DEF AndThen, FromGeoms, Accepted
    <2> HIDE DEF arguments
    <2>5. Begin("from_geoms", One, into, arguments)
      BY <2>1 DEF arguments
    <2>6. Begins("from_geoms", One, into, arguments)
      BY <2>3, <2>4, <2>5, NamesDiffer DEF Begins, GivenBy
    <2> QED
      BY <2>6
  <1>3. CASE \E literal \in Literals :
                 Begin("input", One, into,
                       AndThen(NewStored(literal), LAMBDA v : Accepted(<<v.levels>>)))
    <2>1. PICK literal \in Literals :
              Begin("input", One, into,
                    AndThen(NewStored(literal), LAMBDA v : Accepted(<<v.levels>>)))
      BY <1>3
    <2> DEFINE arguments == AndThen(NewStored(literal), LAMBDA v : Accepted(<<v.levels>>))
    <2>2. arguments.kind = "Ok" =>
              /\ NewStored(literal) = Accepted(literal)
              /\ arguments.value = <<literal.levels>>
      <3>1. NewStored(literal).kind = "Ok" => NewStored(literal) = Accepted(literal)
        BY DEF NewStored, Rejected
      <3> QED
        BY <3>1 DEF AndThen, Accepted
    <2>3. literal.levels \in Seq(Level)
      BY ArgumentsAssumption
    <2>4. arguments.kind # "Ok" => arguments = Input(literal)
      BY DEF AndThen, Input, Accepted
    <2> HIDE DEF arguments
    <2>5. Begin("input", One, into, arguments)
      BY <2>1 DEF arguments
    <2>6. Begins("input", One, into, arguments)
      BY <1>1, <2>2, <2>3, <2>4, <2>5, NamesDiffer DEF Begins, GivenBy
    <2> QED
      BY <2>6
  <1>4. CASE \E a, b \in Filled, name \in Operations :
                 Begin(name, One, into, LevelsOf(<<a, b>>))
    <2>1. PICK a, b \in Filled, name \in Operations : Begin(name, One, into, LevelsOf(<<a, b>>))
      BY <1>4
    <2>2. name \notin {"concentrate", "dilate"}
      BY DEF Operations
    <2>3. Begins(name, One, into, LevelsOf(<<a, b>>))
      BY <2>1, <2>2, BeginsOnRows
    <2> QED
      BY <2>3
  <1>5. CASE \E a \in Filled : Begin("normalize", One, into, LevelsOf(<<a>>))
    <2>1. PICK a \in Filled : Begin("normalize", One, into, LevelsOf(<<a>>))
      BY <1>5
    <2>2. Begins("normalize", One, into, LevelsOf(<<a>>))
      BY <2>1, BeginsOnRows, NamesDiffer
    <2> QED
      BY <2>2
  <1>6. CASE \E a \in Filled, power \in Powers, name \in {"concentrate", "dilate"} :
                  Begin(name, power, into, LevelsOf(<<a>>))
    <2>1. PICK a \in Filled, power \in Powers, name \in {"concentrate", "dilate"} :
              Begin(name, power, into, LevelsOf(<<a>>))
      BY <1>6
    <2>2. Begins(name, power, into, LevelsOf(<<a>>))
      BY <2>1, BeginsOnRows, NamesDiffer
    <2> QED
      BY <2>2
  <1> QED
    BY <1>2, <1>3, <1>4, <1>5, <1>6 DEF BeginStatement

LEMMA BeginStep ==
    ASSUME SqlInv, NEW name, NEW power, NEW into \in RowId, NEW arguments,
           Begins(name, power, into, arguments)
    PROVE  SqlInv'
  <1>1. /\ name \in FunctionNames /\ Begin(name, power, into, arguments)
        /\ name \in {"concentrate", "dilate"} => power \in Powers
        /\ arguments.kind = "Ok" =>
               /\ arguments.value \in Seq(Seq(Level))
               /\ Len(arguments.value) = IF name \in Operations THEN 2 ELSE 1
    BY DEF Begins
  <1>2. running = NoStatement /\ read = <<>> /\ NoCall
    BY <1>1 DEF Begin, SqlInv, StatementInv
  <1>3. UNCHANGED <<phase, op, left, right, domain, gathered, answer>> /\ UNCHANGED canonVars
    BY <1>1 DEF Begin, setVars, opVars
  <1>4. CanonInv'
    BY <1>3, UnchangedCanon DEF SqlInv
  <1>5. phase = "none" /\ pc = "idle"
    BY <1>2 DEF NoCall, CanonInit
  <1>6. OperationInv'
    BY <1>3, <1>5 DEF SqlInv, OperationInv, NoOperation
  <1>7. CASE arguments.kind = "Ok"
    <2>1. /\ running' = [name |-> name, into |-> into, power |-> power]
          /\ todo' = arguments.value /\ read' = <<>> /\ UNCHANGED extVars
      BY <1>1, <1>2, <1>7 DEF Begin
    <2>2. TableInv'
      BY <2>1, UnchangedTable DEF SqlInv
    <2>3. running'.name = name /\ running'.into = into /\ running'.power = power
      BY <2>1
    <2>4. name # "none"
      BY <1>1 DEF FunctionNames, Operations
    <2>5. running' # NoStatement
      BY <2>3, <2>4 DEF NoStatement
    <2>6. Reading' = 0
      BY <1>3, <1>5 DEF Reading, canonVars
    <2>7. Arity' = Len(todo') /\ Len(todo') \in Nat
      BY <1>1, <1>7, <2>1, <2>3 DEF Arity
    <2>8. Statement'
      BY <1>1, <2>1, <2>3, <2>6, <2>7 DEF Statement
    <2>9. StatementInv'
      BY <1>1, <1>7, <2>1, <2>5, <2>8 DEF StatementInv
    <2> QED
      BY <1>4, <1>6, <2>2, <2>9 DEF SqlInv
  <1>8. CASE arguments.kind # "Ok"
    <2>1. Run(name, into, arguments) /\ UNCHANGED <<running, todo, read>>
      BY <1>1, <1>8 DEF Begin
    <2>2. TableInv'
      BY <1>1, <1>8, <2>1, RunKeepsTable DEF SqlInv
    <2>3. NoCall'
      BY <1>2, <1>3 DEF NoCall, CanonInit, canonVars
    <2>4. StatementInv'
      BY <1>2, <2>1, <2>3 DEF SqlInv, StatementInv
    <2> QED
      BY <1>4, <1>6, <2>2, <2>4 DEF SqlInv
  <1> QED
    BY <1>7, <1>8

LEMMA BeginStatementStep ==
    ASSUME SqlInv, NEW into \in RowId, BeginStatement(into)
    PROVE  SqlInv'
  BY StatementBegins, BeginStep DEF SqlInv

-----------------------------------------------------------------------------
\* The arguments are read.

LEMMA DropLocalsGivesNoCall ==
    ASSUME DropLocals
    PROVE  /\ NoCall' /\ NoOperation' /\ CanonInv'
           /\ phase' = "none" /\ pc' = "idle"
  <1>1. NoCall' /\ NoOperation' /\ phase' = "none" /\ pc' = "idle"
    BY DEF DropLocals, NoCall, NoOperation, CanonInit
  <1>2. CanonInit'
    BY <1>1 DEF NoCall
  <1>3. CanonInv'
    BY <1>2, InitInv, PTL
  <1> QED
    BY <1>1, <1>3

\* A running statement is one whose arguments are there or on the way.
LEMMA RunningStatement ==
    ASSUME SqlInv, todo # <<>> \/ read # <<>> \/ phase # "none" \/ pc # "idle"
    PROVE  running # NoStatement /\ Statement
  BY DEF SqlInv, StatementInv, NoCall, CanonInit

LEMMA ReadArgumentStep ==
    ASSUME SqlInv, ReadArgument
    PROVE  SqlInv'
  <1>1. /\ todo # <<>> /\ pc = "idle" /\ pc' = "normalize"
        /\ todo' = Tail(todo) /\ UNCHANGED <<running, read>> /\ UNCHANGED extVars
        /\ UNCHANGED <<phase, op, left, right, domain, gathered, answer>>
    BY DEF ReadArgument, Call, opVars
  <1>2. /\ todo \in Seq(Seq(Level)) /\ read \in Seq(Operand)
        /\ running # NoStatement /\ Statement
    BY <1>1, RunningStatement DEF SqlInv, StatementInv
  <1>3. /\ Head(todo) \in Seq(Level) /\ Tail(todo) \in Seq(Seq(Level))
        /\ Len(Tail(todo)) = Len(todo) - 1 /\ Len(todo) \in Nat /\ Len(read) \in Nat
    <2> DEFINE S == Seq(Level)
    <2> HIDE DEF S
    <2>1. todo \in Seq(S)
      BY <1>2 DEF S
    <2>2. /\ Head(todo) \in S /\ Tail(todo) \in Seq(S)
          /\ Len(Tail(todo)) = Len(todo) - 1 /\ Len(todo) \in Nat
      BY <1>1, <2>1
    <2> QED
      BY <1>2, <2>2 DEF S
  <1>4. CanonInv'
    BY <1>3, CallKeepsInv DEF SqlInv, ReadArgument
  <1>5. TableInv'
    BY <1>1, UnchangedTable DEF SqlInv
  <1>6. phase = "none"
    BY <1>1 DEF SqlInv, OperationInv
  <1>7. OperationInv'
    BY <1>1, <1>6 DEF SqlInv, OperationInv, NoOperation
  <1>8. Reading = 0 /\ Reading' = 1 /\ Arity' = Arity
    BY <1>1, <1>6 DEF Reading, Arity
  <1>9. Statement'
    BY <1>1, <1>2, <1>3, <1>8 DEF Statement
  <1>10. StatementInv'
    BY <1>1, <1>2, <1>3, <1>9 DEF StatementInv
  <1> QED
    BY <1>4, <1>5, <1>7, <1>10 DEF SqlInv

LEMMA CanonStepBusy ==
    ASSUME CanonInv, CanonStep
    PROVE  pc # "idle" /\ pc' # "idle" /\ CanonInv'
  <1>1. CanonInv'
    BY StepInv DEF Next
  <1>2. pc # "idle" /\ pc' # "idle"
    BY DEF CanonStep, NormalizeLevel, AcceptEmpty, SortLevels, CheckDuplicates, CheckSrid,
       StartCollapse, CollapseLevel, StartNesting, CheckNesting, Accept, EngineFailure,
       EngineCallDue, Enter, Advance, Return
  <1> QED
    BY <1>1, <1>2

LEMMA ReadStepStep ==
    ASSUME SqlInv, ReadStep
    PROVE  SqlInv'
  <1>1. /\ phase = "none" /\ UNCHANGED <<running, todo, read>> /\ UNCHANGED extVars
        /\ UNCHANGED <<phase, op, left, right, domain, gathered, answer>>
    BY DEF ReadStep, stmtVars, opVars
  <1>2. pc # "idle" /\ pc' # "idle" /\ CanonInv'
    BY CanonStepBusy DEF SqlInv, ReadStep
  <1>3. TableInv'
    BY <1>1, UnchangedTable DEF SqlInv
  <1>4. OperationInv'
    BY <1>1 DEF SqlInv, OperationInv, NoOperation
  <1>5. running # NoStatement /\ Statement
    BY <1>2, RunningStatement
  <1>6. Reading' = Reading /\ Arity' = Arity
    BY <1>1, <1>2 DEF Reading, Arity
  <1>7. Statement'
    BY <1>1, <1>5, <1>6 DEF Statement
  <1>8. StatementInv'
    BY <1>1, <1>5, <1>7 DEF SqlInv, StatementInv
  <1> QED
    BY <1>2, <1>3, <1>4, <1>8 DEF SqlInv

\* However a statement ends, with an operand to write or an error.
LEMMA EndStep ==
    ASSUME SqlInv, running # NoStatement, NEW result, End(result),
           result.kind = "Ok" => result.value \in Operand
    PROVE  SqlInv'
  <1>1. /\ Run(running.name, running.into, result)
        /\ running' = NoStatement /\ todo' = <<>> /\ read' = <<>> /\ DropLocals
    BY DEF End
  <1>2. NoCall' /\ NoOperation' /\ CanonInv' /\ phase' = "none"
    BY <1>1, DropLocalsGivesNoCall
  <1>3. running.name \in FunctionNames /\ running.into \in RowId
    BY DEF SqlInv, StatementInv, Statement
  <1>4. TableInv'
    BY <1>1, <1>3, RunKeepsTable DEF SqlInv
  <1>5. StatementInv'
    BY <1>1, <1>2 DEF StatementInv
  <1>6. OperationInv'
    BY <1>2 DEF OperationInv
  <1> QED
    BY <1>2, <1>4, <1>5, <1>6 DEF SqlInv

LEMMA FinishReadStep ==
    ASSUME SqlInv, FinishRead
    PROVE  SqlInv'
  <1>1. phase = "none" /\ pc = "done"
    BY DEF FinishRead
  <1>2. running # NoStatement /\ Statement
    BY <1>1, RunningStatement
  <1>3. CASE outcome.kind = "Ok"
    <2>1. /\ read' = Append(read, outcome.value) /\ DropLocals
          /\ UNCHANGED <<running, todo>> /\ UNCHANGED extVars
      BY <1>3 DEF FinishRead
    <2>2. outcome.value \in Operand
      BY <1>3 DEF SqlInv, CanonInv, TypeOK, ResultCanonical, Operand
    <2>3. NoOperation' /\ CanonInv' /\ phase' = "none" /\ pc' = "idle"
      BY <2>1, DropLocalsGivesNoCall
    <2>4. TableInv'
      BY <2>1, UnchangedTable DEF SqlInv
    <2>5. read \in Seq(Operand) /\ todo \in Seq(Seq(Level))
      BY DEF SqlInv, StatementInv
    <2>6. read' \in Seq(Operand) /\ Len(read') = Len(read) + 1 /\ Len(read) \in Nat
      BY <2>1, <2>2, <2>5
    <2>7. Reading = 1 /\ Reading' = 0 /\ Arity' = Arity
      BY <1>1, <2>1, <2>3 DEF Reading, Arity
    <2>8. Len(todo) \in Nat
      BY <2>5
    <2>9. Statement'
      BY <1>2, <2>1, <2>6, <2>7, <2>8 DEF Statement
    <2>10. StatementInv'
      BY <1>2, <2>1, <2>5, <2>6, <2>9 DEF StatementInv
    <2>11. OperationInv'
      BY <2>3 DEF OperationInv
    <2> QED
      BY <2>3, <2>4, <2>10, <2>11 DEF SqlInv
  <1>4. CASE outcome.kind # "Ok"
    <2> DEFINE result == IF running.name = "from_geoms" THEN outcome ELSE AsRead(outcome)
    <2>1. End(result)
      BY <1>4 DEF FinishRead
    <2>2. result.kind # "Ok"
      BY <1>4 DEF AsRead, Rejected
    <2> HIDE DEF result
    <2> QED
      BY <1>2, <2>1, <2>2, EndStep
  <1> QED
    BY <1>3, <1>4

-----------------------------------------------------------------------------
\* The operation, and the answer.

LEMMA AllReadCount ==
    ASSUME SqlInv, AllRead, phase = "none"
    PROVE  /\ running # NoStatement /\ Statement
           /\ read \in Seq(Operand) /\ Len(read) = Arity
  <1>1. read # <<>> /\ todo = <<>> /\ pc = "idle"
    BY DEF AllRead
  <1>2. running # NoStatement /\ Statement
    BY <1>1, RunningStatement
  <1>3. read \in Seq(Operand) /\ Reading = 0
    BY <1>1 DEF SqlInv, StatementInv, Reading
  <1> QED
    BY <1>1, <1>2, <1>3 DEF Statement

LEMMA StartOperationStep ==
    ASSUME SqlInv, StartOperation
    PROVE  SqlInv'
  <1>1. /\ AllRead /\ phase = "none" /\ phase' = "idle" /\ running.name \in Operations
        /\ op' = running.name /\ left' = read[1] /\ right' = read[2]
        /\ UNCHANGED <<running, todo, read>> /\ UNCHANGED extVars
        /\ UNCHANGED <<domain, gathered, answer>> /\ UNCHANGED canonVars
    BY DEF StartOperation, stmtVars
  <1>2. /\ running # NoStatement /\ Statement
        /\ read \in Seq(Operand) /\ Len(read) = 2
    BY <1>1, AllReadCount DEF Arity
  <1>3. read[1] \in Operand /\ read[2] \in Operand
    BY <1>2
  <1>4. CanonInv'
    BY <1>1, UnchangedCanon DEF SqlInv
  <1>5. domain = {} /\ gathered = <<>> /\ answer = Pending
    BY <1>1 DEF SqlInv, OperationInv, NoOperation
  <1>6. todo = <<>> /\ pc = "idle" /\ pc' = "idle"
    BY <1>1 DEF AllRead, canonVars
  <1>7. OperandInv'
    BY <1>1, <1>3, <1>5 DEF OperandInv
  <1>8. GatherInv'
    BY <1>1, <1>5 DEF GatherInv, StrictlyDescending, InCommonSrid
  <1>9. CallInv'
    BY <1>1, <1>6 DEF CallInv
  <1>10. AnswerInv'
    BY <1>1, <1>5 DEF AnswerInv, AnswersCanonical, SridOfResult, RefusesOnlyUnnested, Pending
  <1>11. OperationInv'
    BY <1>1, <1>4, <1>6, <1>7, <1>8, <1>9, <1>10 DEF OperationInv, SetInv
  <1>12. TableInv'
    BY <1>1, UnchangedTable DEF SqlInv
  <1>13. Reading' = Reading /\ Arity' = Arity
    BY <1>1, <1>6 DEF Reading, Arity
  <1>14. StatementInv'
    BY <1>1, <1>2, <1>13 DEF SqlInv, StatementInv, Statement
  <1> QED
    BY <1>4, <1>11, <1>12, <1>14 DEF SqlInv

LEMMA OperationStepStep ==
    ASSUME SqlInv, OperationStep
    PROVE  SqlInv'
  <1>1. /\ phase # "none" /\ SetStep
        /\ UNCHANGED <<running, todo, read>> /\ UNCHANGED extVars
    BY DEF OperationStep, stmtVars
  <1>2. SetInv /\ todo = <<>> /\ running.name \in Operations
    BY <1>1 DEF SqlInv, OperationInv
  <1>3. SetInv'
    BY <1>1, <1>2, SetStepInv DEF SetNext
  <1>4. CanonInv' /\ phase' # "none"
    BY <1>3 DEF SetInv, OperandInv
  <1>5. OperationInv'
    BY <1>1, <1>2, <1>3, <1>4 DEF OperationInv
  <1>6. TableInv'
    BY <1>1, UnchangedTable DEF SqlInv
  <1>7. running # NoStatement /\ Statement
    BY <1>1, RunningStatement
  <1>8. Reading = 0 /\ Reading' = 0 /\ Arity' = Arity
    BY <1>1, <1>4 DEF Reading, Arity
  <1>9. StatementInv'
    BY <1>1, <1>7, <1>8 DEF SqlInv, StatementInv, Statement
  <1> QED
    BY <1>4, <1>5, <1>6, <1>9 DEF SqlInv

LEMMA FinishOperationStep ==
    ASSUME SqlInv, FinishOperation
    PROVE  SqlInv'
  <1>1. phase = "done" /\ End(AndThen(answer, FromDomain))
    BY DEF FinishOperation
  <1>2. SetInv
    BY <1>1 DEF SqlInv, OperationInv
  <1>3. answer.kind = "Ok" => answer.value \in Operand
    BY <1>2 DEF SetInv, AnswerInv, AnswersCanonical, Operand
  <1>4. running # NoStatement
    BY <1>1, RunningStatement
  <1> DEFINE result == AndThen(answer, FromDomain)
  <1>5. result.kind = "Ok" => result.value \in Operand
    BY <1>3, EncodedIsItself
  <1> HIDE DEF result
  <1>6. End(result)
    BY <1>1 DEF result
  <1> QED
    BY <1>4, <1>5, <1>6, EndStep

LEMMA FinishOtherStep ==
    ASSUME SqlInv, FinishOther
    PROVE  SqlInv'
  <1> DEFINE computed == IF running.name \in {"from_geoms", "input"} THEN Accepted(read[1])
                         ELSE Remapped(running.name, read[1], running.power)
             result == AndThen(computed, FromDomain)
  <1>1. AllRead /\ phase = "none" /\ running.name \notin Operations /\ End(result)
    BY DEF FinishOther
  <1>2. /\ running # NoStatement /\ Statement
        /\ read \in Seq(Operand) /\ Len(read) = 1
    BY <1>1, AllReadCount DEF Arity
  <1>3. read[1] \in Operand
    BY <1>2
  <1>4. CASE running.name \in {"from_geoms", "input"}
    <2>1. computed = Accepted(read[1])
      BY <1>4
    <2> HIDE DEF computed
    <2>2. result.kind = "Ok" => result.value \in Operand
      BY <1>3, <2>1, EncodedIsItself DEF Accepted
    <2> HIDE DEF result
    <2> QED
      BY <1>1, <1>2, <2>2, EndStep
  <1>5. CASE running.name \notin {"from_geoms", "input"}
    <2>1. computed = Remapped(running.name, read[1], running.power)
      BY <1>5
    <2>2. running.name \in Transforms
      BY <1>1, <1>2, <1>5 DEF Statement, FunctionNames, Transforms
    <2>3. running.name # "normalize" => running.power \in Powers
      BY <1>2, <2>2 DEF Statement, Transforms
    <2> HIDE DEF computed
    <2>4. result.kind = "Ok" => result.value \in Operand
      BY <1>3, <2>1, <2>2, <2>3, TransformedIsOperand
    <2> HIDE DEF result
    <2> QED
      BY <1>1, <1>2, <2>4, EndStep
  <1> QED
    BY <1>4, <1>5

LEMMA SqlStepInv == SqlInv /\ [SqlNext]_sqlVars => SqlInv'
  <1> SUFFICES ASSUME SqlInv, [SqlNext]_sqlVars
               PROVE  SqlInv'
    OBVIOUS
  <1>1. CASE UNCHANGED sqlVars
    <2>1. /\ UNCHANGED <<running, todo, read>> /\ UNCHANGED extVars
          /\ UNCHANGED setVars /\ UNCHANGED canonVars
          /\ UNCHANGED <<phase, op, left, right, domain, gathered, answer>>
      BY <1>1 DEF sqlVars, stmtVars, setVars, opVars
    <2>2. CanonInv' /\ TableInv'
      BY <2>1, UnchangedCanon, UnchangedTable DEF SqlInv
    <2>3. phase # "none" => SetInv'
      BY <2>1, SetStepInv DEF SqlInv, OperationInv
    <2>4. OperationInv'
      BY <2>1, <2>3 DEF SqlInv, OperationInv, NoOperation
    <2>5. StatementInv'
      BY <2>1 DEF SqlInv, StatementInv, Statement, Reading, Arity, NoCall, CanonInit, canonVars
    <2> QED
      BY <2>2, <2>4, <2>5 DEF SqlInv
  <1>2. CASE SqlStep
    BY <1>2, ReadArgumentStep, ReadStepStep, FinishReadStep, StartOperationStep,
       OperationStepStep, FinishOperationStep, FinishOtherStep DEF SqlStep
  <1>3. CASE \E into \in RowId : BeginStatement(into)
    BY <1>3, BeginStatementStep
  <1> QED
    BY <1>1, <1>2, <1>3 DEF SqlNext

-----------------------------------------------------------------------------
\* The machines of a statement compute what its functions say.

MachinesInv ==
    /\ PermutedInv /\ AnsweredInv
    /\ phase # "none" => /\ ComputesInv
                         /\ op = running.name /\ left = read[1] /\ right = read[2]
    /\ phase = "done" => answer.kind # "Pending"

LEMMA MachinesInitially == SqlInit => MachinesInv
  <1> SUFFICES ASSUME SqlInit
               PROVE  MachinesInv
    OBVIOUS
  <1>1. PermutedInv /\ AnsweredInv
    BY InitContractInv DEF SqlInit, NoCall, ContractInv
  <1> QED
    BY <1>1 DEF SqlInit, NoCall, MachinesInv

LEMMA DropLocalsMachines ==
    ASSUME DropLocals
    PROVE  MachinesInv'
  <1>1. pc' = "idle" /\ phase' = "none"
    BY DEF DropLocals
  <1> QED
    BY <1>1 DEF MachinesInv, PermutedInv, AnsweredInv, SortedLoops

\* A step that leaves the machines alone, outside a set operation.
LEMMA MachinesUnchanged ==
    ASSUME MachinesInv, phase = "none", UNCHANGED <<phase, canonVars>>
    PROVE  MachinesInv'
  BY DEF MachinesInv, PermutedInv, AnsweredInv, canonVars

LEMMA ReadMachines ==
    ASSUME SqlInv, MachinesInv, ReadArgument \/ ReadStep
    PROVE  MachinesInv'
  <1>1. phase = "none" /\ phase' = "none"
    BY DEF ReadArgument, ReadStep, Call, opVars, SqlInv, OperationInv, SetInv, OperandInv, CallInv
  <1>2. CASE ReadArgument
    <2>1. pc' = "normalize"
      BY <1>2 DEF ReadArgument, Call
    <2> QED
      BY <1>1, <2>1 DEF MachinesInv, PermutedInv, AnsweredInv, SortedLoops
  <1>3. CASE ReadStep
    <2>1. ContractInv /\ [Next]_canonVars
      BY <1>3 DEF ReadStep, ContractInv, SqlInv, MachinesInv, Next
    <2>2. PermutedInv' /\ AnsweredInv'
      BY <2>1, ContractStep
    <2> QED
      BY <1>1, <2>2 DEF MachinesInv
  <1> QED
    BY <1>2, <1>3

LEMMA StartMachines ==
    ASSUME SqlInv, MachinesInv, StartOperation
    PROVE  MachinesInv'
  <1>1. /\ phase = "none" /\ phase' = "idle" /\ op' = running.name
        /\ left' = read[1] /\ right' = read[2] /\ answer' = Pending
        /\ UNCHANGED <<running, read>> /\ UNCHANGED canonVars
    BY DEF StartOperation, stmtVars, SqlInv, OperationInv, NoOperation
  <1>2. PermutedInv' /\ AnsweredInv'
    BY <1>1 DEF MachinesInv, PermutedInv, AnsweredInv, canonVars
  <1>3. ComputesInv'
    BY <1>1, <1>2 DEF ComputesInv, LoopInv, ComputesOutcome, Pending
  <1> QED
    BY <1>1, <1>2, <1>3 DEF MachinesInv

LEMMA OperationMachines ==
    ASSUME SqlInv, MachinesInv, OperationStep
    PROVE  MachinesInv'
  <1>1. /\ phase \notin {"none", "done"} /\ SetStep /\ UNCHANGED <<running, read>>
    BY DEF OperationStep, stmtVars
  <1>2. SetInv /\ SetInv' /\ ComputesInv
    BY <1>1, SetStepInv DEF SqlInv, OperationInv, MachinesInv, SetNext
  <1>3. ComputesInv'
    BY <1>1, <1>2, ComputesStep DEF SetNext
  <1>4. UNCHANGED <<op, left, right>>
    BY <1>1 DEF SetStep, RejectSrid, StartGather, GatherLevel, GatherFailure, FinishEmpty,
       FinishLevels, Canonicalize, Deliver, opVars
  <1>5. ASSUME phase' = "done"
        PROVE  answer'.kind # "Pending"
    <2>1. CASE Deliver
      <3>1. pc = "done" /\ answer' = outcome /\ raw \in Seq(Level)
        BY <1>2, <2>1 DEF Deliver, Reply, SetInv, CanonInv, TypeOK
      <3>2. outcome \in {CanonicalOutcome(raw), Rejected("Geometry", <<>>)}
        BY <3>1 DEF MachinesInv, AnsweredInv
      <3> QED
        BY <3>1, <3>2, OutcomeKinds DEF Rejected
    <2>2. CASE RejectSrid \/ GatherFailure \/ FinishEmpty
      BY <2>2 DEF RejectSrid, GatherFailure, FinishEmpty, Reply, Rejected, EmptyResult, Accepted
    <2>3. SetStep => Deliver \/ RejectSrid \/ GatherFailure \/ FinishEmpty \/ phase' # "done"
      BY <1>1 DEF SetStep, StartGather, GatherLevel, FinishLevels, Canonicalize, opVars
    <2> QED
      BY <1>1, <1>5, <2>1, <2>2, <2>3
  <1> QED
    BY <1>1, <1>3, <1>4, <1>5 DEF MachinesInv, ComputesInv

LEMMA MachinesStep ==
    ASSUME SqlInv, MachinesInv, [SqlNext]_sqlVars
    PROVE  MachinesInv'
  <1>1. CASE UNCHANGED sqlVars
    BY <1>1 DEF MachinesInv, PermutedInv, AnsweredInv, ComputesInv, ComputesOutcome, LoopInv,
       LevelsAt, Visited, sqlVars, setVars, opVars, canonVars, stmtVars
  <1>2. CASE \E into \in RowId : BeginStatement(into)
    <2>1. UNCHANGED setVars /\ running = NoStatement
      BY <1>2 DEF BeginStatement, Begin
    <2>2. phase = "none"
      BY <2>1 DEF SqlInv, StatementInv, NoCall
    <2> QED
      BY <2>1, <2>2, MachinesUnchanged DEF setVars, opVars
  <1>3. CASE FinishRead \/ FinishOperation \/ FinishOther
    BY <1>3, DropLocalsMachines DEF FinishRead, FinishOperation, FinishOther, End
  <1> QED
    BY <1>1, <1>2, <1>3, ReadMachines, StartMachines, OperationMachines DEF SqlNext, SqlStep

-----------------------------------------------------------------------------
\* How far a statement has come with the level lists of its arguments.

\* Those read have given the values read; one may be in canonicalize; the others
\* are still to do.
Progress(lists) ==
    /\ \A k \in DOMAIN read : CanonicalOutcome(lists[k]) = Accepted(read[k])
    /\ Reading = 1 => raw = lists[Len(read) + 1]
    /\ \A k \in DOMAIN todo : todo[k] = lists[Len(read) + Reading + k]

ProgressInv ==
    running # NoStatement => \E lists : GivenBy(running.name, lists) /\ Progress(lists)

LEMMA GivenUnchanged ==
    ASSUME UNCHANGED <<running, rows>>, NEW lists, GivenBy(running.name, lists)
    PROVE  GivenBy(running.name, lists)'
  BY DEF GivenBy, Filled, Stored

LEMMA BeginProgress ==
    ASSUME SqlInv, NEW name, NEW power, NEW into, NEW arguments,
           Begins(name, power, into, arguments)
    PROVE  ProgressInv'
  <1>1. Begin(name, power, into, arguments) /\ running = NoStatement /\ read = <<>> /\ NoCall
    BY DEF Begins, Begin, SqlInv, StatementInv
  <1>2. CASE arguments.kind # "Ok"
    BY <1>1, <1>2 DEF Begin, ProgressInv
  <1>3. CASE arguments.kind = "Ok"
    <2> DEFINE lists == arguments.value
    <2>1. /\ running' = [name |-> name, into |-> into, power |-> power]
          /\ todo' = lists /\ read' = <<>> /\ rows' = rows
      BY <1>1, <1>3 DEF Begin, extVars
    <2>2. Reading' = 0
      BY <1>1 DEF Begin, setVars, opVars, canonVars, Reading, NoCall, CanonInit
    <2>3. running'.name = name /\ lists \in Seq(Seq(Level)) /\ GivenBy(name, lists)
      BY <1>3, <2>1 DEF Begins
    <2> HIDE DEF lists
    <2>4. GivenBy(running.name, lists)'
      BY <2>1, <2>3 DEF GivenBy, Filled, Stored
    <2>5. Len(read') = 0 /\ DOMAIN read' = {}
      BY <2>1
    <2>6. \A k \in DOMAIN todo' : Len(read') + Reading' + k = k
      BY <2>1, <2>2, <2>3, <2>5
    <2>7. Progress(lists)'
      BY <2>1, <2>2, <2>5, <2>6 DEF Progress
    <2> QED
      BY <2>4, <2>7 DEF ProgressInv
  <1> QED
    BY <1>2, <1>3

LEMMA ReadArgumentProgress ==
    ASSUME SqlInv, ProgressInv, ReadArgument
    PROVE  ProgressInv'
  <1>1. /\ todo # <<>> /\ pc = "idle" /\ pc' = "normalize" /\ raw' = Head(todo)
        /\ todo' = Tail(todo) /\ UNCHANGED <<running, read>> /\ rows' = rows
        /\ UNCHANGED <<phase, op, left, right, domain, gathered, answer>>
    BY DEF ReadArgument, Call, opVars, extVars
  <1>2. /\ running # NoStatement /\ phase = "none"
        /\ todo \in Seq(Seq(Level)) /\ read \in Seq(Operand)
    BY <1>1, RunningStatement DEF SqlInv, StatementInv, OperationInv
  <1>3. Reading = 0 /\ Reading' = 1
    BY <1>1, <1>2 DEF Reading
  <1>4. PICK lists : GivenBy(running.name, lists) /\ Progress(lists)
    BY <1>2 DEF ProgressInv
  <1>5. GivenBy(running.name, lists)'
    BY <1>1, <1>4, GivenUnchanged
  <1>6. /\ 1 \in DOMAIN todo /\ Head(todo) = todo[1]
        /\ \A k \in DOMAIN Tail(todo) : /\ k \in Int /\ k + 1 \in DOMAIN todo
                                        /\ Tail(todo)[k] = todo[k + 1]
    <2> DEFINE S == Seq(Level)
    <2> HIDE DEF S
    <2>1. todo \in Seq(S)
      BY <1>2 DEF S
    <2> QED
      BY <1>1, <2>1
  <1>7. Len(read) \in Int /\ Len(read') = Len(read)
    BY <1>1, <1>2
  <1>8. /\ \A k \in DOMAIN read : CanonicalOutcome(lists[k]) = Accepted(read[k])
        /\ \A k \in DOMAIN todo : todo[k] = lists[Len(read) + 0 + k]
    BY <1>3, <1>4 DEF Progress
  <1>9. raw' = lists[Len(read) + 1]
    <2>1. todo[1] = lists[Len(read) + 0 + 1]
      BY <1>6, <1>8
    <2>2. Len(read) + 0 + 1 = Len(read) + 1
      BY <1>7
    <2> QED
      BY <1>1, <1>6, <2>1, <2>2
  <1>10. \A k \in DOMAIN todo' : todo'[k] = lists[Len(read') + Reading' + k]
    <2> SUFFICES ASSUME NEW k \in DOMAIN todo'
                 PROVE  todo'[k] = lists[Len(read') + Reading' + k]
      OBVIOUS
    <2>1. k \in Int /\ k + 1 \in DOMAIN todo /\ todo'[k] = todo[k + 1]
      BY <1>1, <1>6
    <2>2. todo[k + 1] = lists[Len(read) + 0 + (k + 1)]
      BY <1>8, <2>1
    <2>3. Len(read) + 0 + (k + 1) = Len(read') + Reading' + k
      BY <1>3, <1>7, <2>1
    <2> QED
      BY <2>1, <2>2, <2>3
  <1>11. Progress(lists)'
    BY <1>1, <1>7, <1>8, <1>9, <1>10 DEF Progress
  <1> QED
    BY <1>5, <1>11 DEF ProgressInv

\* A step that reads nothing, with a list in canonicalize or without.
LEMMA SameProgress ==
    ASSUME ProgressInv, UNCHANGED <<running, todo, read, rows>>, Reading' = Reading,
           Reading = 1 => raw' = raw
    PROVE  ProgressInv'
  <1> SUFFICES ASSUME running # NoStatement
               PROVE  ProgressInv'
    BY DEF ProgressInv
  <1>1. PICK lists : GivenBy(running.name, lists) /\ Progress(lists)
    BY DEF ProgressInv
  <1>2. GivenBy(running.name, lists)'
    BY <1>1, GivenUnchanged
  <1>3. Progress(lists)'
    BY <1>1 DEF Progress
  <1> QED
    BY <1>2, <1>3 DEF ProgressInv

LEMMA ReadStepProgress ==
    ASSUME SqlInv, ProgressInv, ReadStep
    PROVE  ProgressInv'
  <1>1. phase = "none" /\ phase' = "none" /\ UNCHANGED <<running, todo, read, rows>>
    BY DEF ReadStep, stmtVars, opVars, extVars
  <1>2. pc # "idle" /\ pc' # "idle"
    BY CanonStepBusy DEF SqlInv, ReadStep
  <1>3. raw' = raw
    BY DEF ReadStep, CanonStep, NormalizeLevel, AcceptEmpty, SortLevels, CheckDuplicates,
       CheckSrid, StartCollapse, CollapseLevel, StartNesting, CheckNesting, Accept,
       EngineFailure, Enter, Advance, Return
  <1>4. Reading' = Reading
    BY <1>1, <1>2 DEF Reading
  <1> QED
    BY <1>1, <1>3, <1>4, SameProgress

\* What a call of canonicalize has answered with a value.
LEMMA AnsweredValue ==
    ASSUME SqlInv, MachinesInv, pc = "done", outcome.kind = "Ok"
    PROVE  CanonicalOutcome(raw) = Accepted(outcome.value)
  <1>1. raw \in Seq(Level) /\ outcome \in {CanonicalOutcome(raw), Rejected("Geometry", <<>>)}
    BY DEF SqlInv, CanonInv, TypeOK, MachinesInv, AnsweredInv
  <1>2. outcome = CanonicalOutcome(raw)
    BY <1>1 DEF Rejected
  <1> QED
    BY <1>1, <1>2, OutcomeKinds

LEMMA FinishReadProgress ==
    ASSUME SqlInv, MachinesInv, ProgressInv, FinishRead
    PROVE  ProgressInv'
  <1>1. phase = "none" /\ pc = "done" /\ Reading = 1
    BY DEF FinishRead, Reading
  <1>2. CASE outcome.kind # "Ok"
    BY <1>2 DEF FinishRead, End, ProgressInv
  <1>3. CASE outcome.kind = "Ok"
    <2>1. /\ read' = Append(read, outcome.value) /\ DropLocals
          /\ UNCHANGED <<running, todo, rows>>
      BY <1>3 DEF FinishRead, extVars
    <2>2. Reading' = 0
      BY <2>1 DEF DropLocals, Reading
    <2>3. /\ running # NoStatement
          /\ read \in Seq(Operand) /\ todo \in Seq(Seq(Level)) /\ outcome.value \in Operand
      BY <1>1, <1>3, RunningStatement
      DEF SqlInv, StatementInv, CanonInv, TypeOK, ResultCanonical, Operand
    <2>4. PICK lists : GivenBy(running.name, lists) /\ Progress(lists)
      BY <2>3 DEF ProgressInv
    <2>5. GivenBy(running.name, lists)'
      BY <2>1, <2>4, GivenUnchanged
    <2>6. /\ Len(read) \in Int /\ Len(read') = Len(read) + 1
          /\ DOMAIN read' = DOMAIN read \cup {Len(read) + 1}
          /\ \A k \in DOMAIN read : read'[k] = read[k]
          /\ read'[Len(read) + 1] = outcome.value
      BY <2>1, <2>3
    <2>7. /\ \A k \in DOMAIN read : CanonicalOutcome(lists[k]) = Accepted(read[k])
          /\ raw = lists[Len(read) + 1]
          /\ \A k \in DOMAIN todo : todo[k] = lists[Len(read) + 1 + k]
      BY <1>1, <2>4 DEF Progress
    <2>8. CanonicalOutcome(lists[Len(read) + 1]) = Accepted(outcome.value)
      BY <1>1, <1>3, <2>7, AnsweredValue
    <2>9. \A k \in DOMAIN read' : CanonicalOutcome(lists[k]) = Accepted(read'[k])
      BY <2>6, <2>7, <2>8
    <2>10. \A k \in DOMAIN todo' : todo'[k] = lists[Len(read') + Reading' + k]
      <3>1. \A k \in DOMAIN todo : Len(read) + 1 + k = Len(read') + Reading' + k
        BY <2>2, <2>3, <2>6
      <3> QED
        BY <2>1, <2>7, <3>1
    <2>11. Progress(lists)'
      BY <2>2, <2>9, <2>10 DEF Progress
    <2> QED
      BY <2>5, <2>11 DEF ProgressInv
  <1> QED
    BY <1>2, <1>3

LEMMA OperationProgress ==
    ASSUME SqlInv, SqlInv', ProgressInv, StartOperation \/ OperationStep
    PROVE  ProgressInv'
  <1>1. UNCHANGED <<running, todo, read, rows>>
    BY DEF StartOperation, OperationStep, stmtVars, extVars
  <1>2. Reading = 0 /\ Reading' = 0
    <2>1. CASE StartOperation
      BY <2>1 DEF StartOperation, AllRead, Reading
    <2>2. CASE OperationStep
      BY <2>2 DEF OperationStep, SqlInv, OperationInv, SetInv, OperandInv, Reading, SetStep,
         RejectSrid, StartGather, GatherLevel, GatherFailure, FinishEmpty, FinishLevels,
         Canonicalize, Deliver, Reply, opVars
    <2> QED
      BY <2>1, <2>2
  <1> QED
    BY <1>1, <1>2, SameProgress

LEMMA ProgressStep ==
    ASSUME SqlInv, MachinesInv, ProgressInv, [SqlNext]_sqlVars
    PROVE  ProgressInv'
  <1>1. SqlInv'
    BY SqlStepInv
  <1>2. CASE UNCHANGED sqlVars
    BY <1>2, SameProgress DEF sqlVars, setVars, opVars, canonVars, stmtVars, extVars, Reading
  <1>3. CASE \E into \in RowId : BeginStatement(into)
    BY <1>3, StatementBegins, BeginProgress DEF SqlInv
  <1>4. CASE FinishOperation \/ FinishOther
    BY <1>4 DEF FinishOperation, FinishOther, End, ProgressInv
  <1> QED
    BY <1>1, <1>2, <1>3, <1>4, ReadArgumentProgress, ReadStepProgress, FinishReadProgress,
       OperationProgress DEF SqlNext, SqlStep

-----------------------------------------------------------------------------
\* Each step of a statement is a step of Extension, or changes nothing Extension sees.

LEMMA AbortRefines ==
    ASSUME NEW name \in FunctionNames, NEW into, NEW result, result.kind = "Geometry",
           Run(name, into, result)
    PROVE  ExtNext
  <1>1. Abort(name)
    BY DEF Run, Abort
  <1> QED
    BY <1>1 DEF ExtNext

\* A statement that fails at once.
LEMMA BeginRefines ==
    ASSUME NEW name, NEW power, NEW into \in RowId, NEW arguments,
           Begins(name, power, into, arguments)
    PROVE  ExtNext \/ UNCHANGED extVars
  <1>1. Begin(name, power, into, arguments)
    BY DEF Begins
  <1>2. CASE arguments.kind = "Ok"
    BY <1>1, <1>2 DEF Begin
  <1>3. CASE arguments.kind # "Ok"
    <2>1. Run(name, into, arguments)
      BY <1>1, <1>3 DEF Begin
    <2>2. CASE name = "from_geoms" /\ \E arg \in LevelArgs : arguments = FromGeoms(arg)
      BY <2>1, <2>2 DEF InsertGeoms, ExtNext
    <2>3. CASE name = "input" /\ \E literal \in Literals : arguments = Input(literal)
      BY <2>1, <2>3 DEF InsertLiteral, ExtNext
    <2> QED
      BY <1>3, <2>2, <2>3 DEF Begins
  <1> QED
    BY <1>2, <1>3

\* The value read of a row.
LEMMA RowRead ==
    ASSUME TableInv, NEW a \in Filled, NEW list, list = Stored(a).levels
    PROVE  /\ Stored(a) \in Operand
           /\ CanonicalOutcome(list) = Accepted(Read(Stored(a)))
           /\ \A v : CanonicalOutcome(list) = Accepted(v) => v = Read(Stored(a))
  <1>1. Stored(a) \in Operand
    BY StoredIsOperand
  <1>2. CanonicalOutcome(list) = Accepted(Read(Stored(a)))
    BY <1>1, OutcomeIsRead
  <1>3. \A v, w : Accepted(v) = Accepted(w) => v = w
    BY DEF Accepted
  <1> QED
    BY <1>1, <1>2, <1>3

LEMMA FinishOtherRefines ==
    ASSUME SqlInv, ProgressInv, FinishOther
    PROVE  ExtNext
  <1> DEFINE computed == IF running.name \in {"from_geoms", "input"} THEN Accepted(read[1])
                         ELSE Remapped(running.name, read[1], running.power)
             result == AndThen(computed, FromDomain)
             into == running.into
  <1>1. /\ AllRead /\ phase = "none" /\ running.name \notin Operations
        /\ Run(running.name, into, result)
    BY DEF FinishOther, End
  <1>2. /\ running # NoStatement /\ Statement
        /\ read \in Seq(Operand) /\ Len(read) = 1
    BY <1>1, AllReadCount DEF Arity
  <1>3. PICK lists : GivenBy(running.name, lists) /\ Progress(lists)
    BY <1>2 DEF ProgressInv
  <1>4. CanonicalOutcome(lists[1]) = Accepted(read[1])
    BY <1>2, <1>3 DEF Progress
  <1>5. into \in RowId /\ TableInv
    BY <1>2 DEF Statement, SqlInv
  <1>6. CASE running.name = "from_geoms"
    <2>1. PICK arg \in LevelArgs : LevelsOfArrays(arg) = Accepted(lists[1])
      BY <1>3, <1>6 DEF GivenBy
    <2>2. FromGeoms(arg) = AndThen(Accepted(read[1]), FromDomain)
      BY <1>4, <2>1 DEF FromGeoms, AndThen, Accepted
    <2>3. result = FromGeoms(arg)
      BY <1>6, <2>2
    <2> HIDE DEF result, into
    <2>4. InsertGeoms(into)
      BY <1>1, <1>6, <2>3 DEF InsertGeoms
    <2> QED
      BY <1>5, <2>4 DEF ExtNext
  <1>7. CASE running.name = "input"
    <2>1. PICK literal \in Literals : /\ NewStored(literal) = Accepted(literal)
                                      /\ lists[1] = literal.levels
      BY <1>3, <1>7 DEF GivenBy
    <2>2. ToDomain(literal) = Accepted(read[1])
      BY <1>4, <2>1 DEF ToDomain, AsRead, Accepted
    <2>3. Input(literal) = AndThen(Accepted(read[1]), FromDomain)
      BY <2>1, <2>2 DEF Input, AndThen, Accepted
    <2>4. result = Input(literal)
      BY <1>7, <2>3
    <2> HIDE DEF result, into
    <2>5. InsertLiteral(into)
      BY <1>1, <1>7, <2>4 DEF InsertLiteral
    <2> QED
      BY <1>5, <2>5 DEF ExtNext
  <1>8. CASE running.name \in Transforms
    <2>1. PICK a \in Filled : lists[1] = Stored(a).levels
      BY <1>3, <1>8 DEF GivenBy
    <2>2. Stored(a) \in Operand /\ read[1] = Read(Stored(a))
      BY <1>4, <1>5, <2>1, RowRead
    <2>3. running.name \notin {"from_geoms", "input"}
      BY <1>8, NamesDiffer
    <2>4. result = Transform(running.name, Stored(a), running.power)
      BY <2>2, <2>3, TransformIs
    <2> HIDE DEF result, into
    <2>5. Run(running.name, into, Transform(running.name, rows[a][1], running.power))
      BY <1>1, <2>4 DEF Stored
    <2>6. CASE running.name = "normalize"
      <3>1. \A power : Remapped("normalize", Read(Stored(a)), power)
                          = NormalizeMembership(Read(Stored(a)))
        BY DEF Remapped
      <3>2. \A power : Transform("normalize", Stored(a), power)
                          = AndThen(NormalizeMembership(Read(Stored(a))), FromDomain)
        BY <2>2, <3>1, TransformIs
      <3>3. SelectNormalize(a, into)
        BY <2>5, <2>6, <3>2 DEF SelectNormalize, Stored
      <3> QED
        BY <1>5, <3>3 DEF ExtNext
    <2>7. CASE running.name = "concentrate"
      <3>1. SelectConcentrate(a, into)
        BY <1>2, <2>5, <2>7 DEF SelectConcentrate, Statement
      <3> QED
        BY <1>5, <3>1 DEF ExtNext
    <2>8. CASE running.name = "dilate"
      <3>1. SelectDilate(a, into)
        BY <1>2, <2>5, <2>8 DEF SelectDilate, Statement
      <3> QED
        BY <1>5, <3>1 DEF ExtNext
    <2> QED
      BY <1>8, <2>6, <2>7, <2>8 DEF Transforms
  <1> QED
    BY <1>1, <1>2, <1>6, <1>7, <1>8, NamesDiffer DEF Statement

LEMMA FinishOperationRefines ==
    ASSUME SqlInv, MachinesInv, ProgressInv, FinishOperation
    PROVE  ExtNext
  <1> DEFINE result == AndThen(answer, FromDomain)
  <1>1. phase = "done" /\ Run(running.name, running.into, result)
    BY DEF FinishOperation, End
  <1>2. /\ running # NoStatement /\ Statement /\ todo = <<>>
        /\ running.name \in Operations /\ SetInv /\ TableInv /\ read \in Seq(Operand)
    BY <1>1, RunningStatement DEF SqlInv, StatementInv, OperationInv
  <1>3. running.name \in FunctionNames /\ running.into \in RowId
    BY <1>2 DEF Statement
  <1>4. /\ answer.kind # "Pending" /\ ComputesOutcome
        /\ op = running.name /\ left = read[1] /\ right = read[2]
    BY <1>1 DEF MachinesInv, ComputesInv
  <1>5. CASE answer.kind = "Geometry"
    <2>1. result.kind = "Geometry"
      BY <1>5 DEF AndThen
    <2> HIDE DEF result
    <2> QED
      BY <1>1, <1>3, <2>1, AbortRefines
  <1>6. CASE answer.kind # "Geometry"
    <2>1. answer = SetOperationOutcome(running.name, read[1], read[2])
      BY <1>4, <1>6 DEF ComputesOutcome
    <2>2. Len(read) = 2
      BY <1>1, <1>2 DEF Statement, Arity, Reading
    <2>3. PICK lists : GivenBy(running.name, lists) /\ Progress(lists)
      BY <1>2 DEF ProgressInv
    <2>4. /\ CanonicalOutcome(lists[1]) = Accepted(read[1])
          /\ CanonicalOutcome(lists[2]) = Accepted(read[2])
      BY <1>2, <2>2, <2>3 DEF Progress
    <2>5. PICK a, b \in Filled : lists[1] = Stored(a).levels /\ lists[2] = Stored(b).levels
      BY <1>2, <2>3 DEF GivenBy
    <2>6. /\ Stored(a) \in Operand /\ read[1] = Read(Stored(a))
          /\ Stored(b) \in Operand /\ read[2] = Read(Stored(b))
      BY <1>2, <2>4, <2>5, RowRead
    <2>7. result = SetFunction(running.name, Stored(a), Stored(b))
      BY <2>1, <2>6, SetFunctionIs
    <2> HIDE DEF result
    <2>8. SelectSetFunction(running.name, a, b, running.into)
      BY <1>1, <2>7 DEF SelectSetFunction, Stored
    <2> QED
      BY <1>2, <1>3, <2>8 DEF ExtNext
  <1> QED
    BY <1>5, <1>6

\* Where an argument cannot be read: it came with the statement, or PostGIS failed.
LEMMA FinishReadRefines ==
    ASSUME SqlInv, MachinesInv, ProgressInv, FinishRead
    PROVE  ExtNext \/ UNCHANGED extVars
  <1> DEFINE result == IF running.name = "from_geoms" THEN outcome ELSE AsRead(outcome)
             into == running.into
  <1>1. phase = "none" /\ pc = "done" /\ Reading = 1
    BY DEF FinishRead, Reading
  <1>2. CASE outcome.kind = "Ok"
    BY <1>2 DEF FinishRead
  <1>3. CASE outcome.kind = "Geometry"
    <2>1. Run(running.name, into, result) /\ result.kind = "Geometry"
      BY <1>3 DEF FinishRead, End, AsRead
    <2>2. running.name \in FunctionNames
      BY <1>1, RunningStatement DEF Statement
    <2> HIDE DEF result
    <2> QED
      BY <2>1, <2>2, AbortRefines
  <1>4. CASE outcome.kind \notin {"Ok", "Geometry"}
    <2>1. /\ Run(running.name, into, result) /\ TableInv
          /\ running # NoStatement /\ Statement /\ read \in Seq(Operand) /\ todo \in Seq(Seq(Level))
      BY <1>1, <1>4, RunningStatement DEF FinishRead, End, SqlInv, StatementInv
    <2>2. outcome = CanonicalOutcome(raw)
      BY <1>1, <1>4 DEF MachinesInv, AnsweredInv, Rejected
    <2>3. PICK lists : GivenBy(running.name, lists) /\ Progress(lists)
      BY <2>1 DEF ProgressInv
    <2>4. /\ Len(read) \in {0, 1}
          /\ running.name \notin Operations => Len(read) = 0
          /\ outcome = CanonicalOutcome(lists[Len(read) + 1])
      <3>1. Len(read) \in Nat /\ Len(todo) \in Nat
        BY <2>1
      <3>2. /\ Len(read) + Len(todo) + 1 \in {1, 2}
            /\ running.name \notin Operations => Len(read) + Len(todo) + 1 = 1
        BY <1>1, <2>1 DEF Statement, Arity
      <3>3. raw = lists[Len(read) + 1]
        BY <1>1, <2>3 DEF Progress
      <3>4. outcome = CanonicalOutcome(lists[Len(read) + 1])
        BY <2>2, <3>3
      <3>5. /\ Len(read) \in {0, 1}
            /\ Len(read) + Len(todo) + 1 = 1 => Len(read) = 0
        <4>1. \A m, n \in Nat : m + n + 1 \in {1, 2} =>
                  m \in {0, 1} /\ (m + n + 1 = 1 => m = 0)
          OBVIOUS
        <4> QED
          BY <3>1, <3>2, <4>1
      <3> QED
        BY <3>2, <3>4, <3>5
    <2>5. into \in RowId
      BY <2>1 DEF Statement
    <2>6. ASSUME NEW a \in Filled
          PROVE  lists[Len(read) + 1] # Stored(a).levels
      <3>1. ASSUME lists[Len(read) + 1] = Stored(a).levels
            PROVE  FALSE
        <4>1. outcome = Accepted(Read(Stored(a)))
          BY <2>1, <2>4, <3>1, RowRead
        <4> QED
          BY <1>4, <4>1 DEF Accepted
      <3> QED
        BY <3>1
    <2>7. CASE running.name = "from_geoms"
      <3>1. PICK arg \in LevelArgs : LevelsOfArrays(arg) = Accepted(lists[1])
        BY <2>3, <2>7 DEF GivenBy
      <3>2. outcome = CanonicalOutcome(lists[1])
        BY <2>4, <2>7, NamesDiffer
      <3>3. FromGeoms(arg) = outcome
        BY <1>4, <3>1, <3>2 DEF FromGeoms, AndThen, Accepted
      <3>4. InsertGeoms(into)
        BY <2>1, <2>7, <3>3 DEF InsertGeoms
      <3> QED
        BY <2>5, <3>4 DEF ExtNext
    <2>8. CASE running.name = "input"
      <3>1. PICK literal \in Literals : /\ NewStored(literal) = Accepted(literal)
                                        /\ lists[1] = literal.levels
        BY <2>3, <2>8 DEF GivenBy
      <3>2. ToDomain(literal) = result
        BY <2>4, <2>8, <3>1, NamesDiffer DEF ToDomain
      <3>3. result.kind # "Ok"
        BY <1>4, <2>8 DEF AsRead, Rejected
      <3> HIDE DEF result, into
      <3>4. Input(literal) = result
        BY <3>1, <3>2, <3>3 DEF Input, AndThen, Accepted
      <3>5. InsertLiteral(into)
        BY <2>1, <2>8, <3>4 DEF InsertLiteral
      <3> QED
        BY <2>5, <3>5 DEF ExtNext
    <2>9. CASE running.name \in Operations
      <3>1. PICK a, b \in Filled : lists[1] = Stored(a).levels /\ lists[2] = Stored(b).levels
        BY <2>3, <2>9 DEF GivenBy
      <3>2. CASE Len(read) = 0
        BY <2>6, <3>1, <3>2
      <3>3. CASE Len(read) = 1
        BY <2>6, <3>1, <3>3
      <3> QED
        BY <2>4, <3>2, <3>3
    <2>10. CASE running.name \in Transforms
      <3>1. PICK a \in Filled : lists[1] = Stored(a).levels
        BY <2>3, <2>10 DEF GivenBy
      <3>2. lists[Len(read) + 1] = Stored(a).levels
        BY <2>4, <2>10, <3>1, NamesDiffer
      <3> QED
        BY <2>6, <3>2
    <2> QED
      BY <2>1, <2>7, <2>8, <2>9, <2>10, NamesDiffer DEF Statement
  <1> QED
    BY <1>2, <1>3, <1>4

LEMMA StatementRefines ==
    ASSUME SqlInv, MachinesInv, ProgressInv, [SqlNext]_sqlVars
    PROVE  [ExtNext]_extVars
  <1>1. CASE UNCHANGED sqlVars
    BY <1>1 DEF sqlVars
  <1>2. CASE \E into \in RowId : BeginStatement(into)
    BY <1>2, StatementBegins, BeginRefines DEF SqlInv
  <1>3. CASE ReadArgument \/ ReadStep \/ StartOperation \/ OperationStep
    BY <1>3 DEF ReadArgument, ReadStep, StartOperation, OperationStep
  <1> QED
    BY <1>1, <1>2, <1>3, FinishReadRefines, FinishOperationRefines, FinishOtherRefines
    DEF SqlNext, SqlStep

-----------------------------------------------------------------------------

LEMMA SqlInvariant == SqlSpec => []SqlInv
  BY SqlInitInv, SqlStepInv, PTL DEF SqlSpec

\* No local of a statement outlives it, and what it has read of its arguments is
\* canonical: the next statement starts like the first.
THEOREM SqlTypeCorrect == SqlSpec => []SqlTypeOK
  <1>1. SqlInv => SqlTypeOK
    <2> SUFFICES ASSUME SqlInv
                 PROVE  SqlTypeOK
      OBVIOUS
    <2>1. CanonInv /\ TableInv /\ StatementInv /\ OperationInv
      BY DEF SqlInv
    <2>2. ExtTypeOK
      BY <2>1, StoredIsOperand, OperandIsValue DEF ExtTypeOK, TableInv
    <2>3. /\ Len(read) \in Nat /\ Len(todo) \in Nat
          /\ \A k \in DOMAIN read : read[k] \in Operand
      <3>1. todo \in Seq(Seq(Level)) /\ read \in Seq(Operand)
        BY <2>1 DEF StatementInv
      <3> QED
        BY <3>1
    <2>4. Len(read) + Len(todo) <= 2
      <3>1. CASE running = NoStatement
        BY <2>1, <3>1 DEF StatementInv
      <3>2. CASE running # NoStatement
        BY <2>1, <2>3, <3>2 DEF StatementInv, Statement, Reading, Arity
      <3> QED
        BY <3>1, <3>2
    <2>5. \A k \in DOMAIN read : Canonical(read[k])
      BY <2>3, OperandIsValue
    <2> QED
      BY <2>1, <2>2, <2>4, <2>5 DEF SqlTypeOK, StatementInv
  <1> QED
    BY SqlInvariant, <1>1, PTL

\* However many statements follow one another, and wherever the engine fails in
\* them, every stored value is canonical: a set function because its call of
\* canonicalize makes it so, a transform because from_domain checks the alphas
\* and the extents are those of the value it has read.
THEOREM StatementsKeepRowsCanonical == SqlSpec => []RowsCanonical
  <1>1. SqlInv => RowsCanonical
    BY StoredIsOperand, OperandIsValue DEF SqlInv, RowsCanonical
  <1> QED
    BY SqlInvariant, <1>1, PTL

\* In no call that a statement makes is PostGIS given geometries of two SRIDs.
THEOREM StatementsAskOfOneSrid == SqlSpec => []EngineSeesOneSrid
  <1>1. SqlInv => ComparesOneSrid
    BY OneSridAfterLoop DEF SqlInv, CanonInv, ComparesOneSrid
  <1>2. SqlInv => OverlaysOneSrid
    <2> SUFFICES ASSUME SqlInv, phase = "gather"
                 PROVE  OverlaysOneSrid
      BY DEF OverlaysOneSrid
    <2>1. SetInv
      BY DEF SqlInv, OperationInv
    <2> QED
      BY <2>1, OverlaysOfOperands
  <1>3. SqlInv => EngineSeesOneSrid
    BY <1>1, <1>2 DEF EngineSeesOneSrid
  <1> QED
    BY SqlInvariant, <1>3, PTL

LEMMA ProgressInvariant == SqlSpec => [](SqlInv /\ MachinesInv /\ ProgressInv)
  <1>1. SqlInit => SqlInv /\ MachinesInv /\ ProgressInv
    BY SqlInitInv, MachinesInitially DEF SqlInit, ProgressInv
  <1>2. SqlInv /\ MachinesInv /\ ProgressInv /\ [SqlNext]_sqlVars
            => (SqlInv /\ MachinesInv /\ ProgressInv)'
    BY SqlStepInv, MachinesStep, ProgressStep
  <1> QED
    BY <1>1, <1>2, PTL DEF SqlSpec

\* A statement that makes any number of calls of canonicalize and of a set operation,
\* each made of engine calls that can fail, has the effect of one step of Extension:
\* the lists it has read, is reading and has still to read are those of its
\* arguments, and each machine answers what its function says of them.
THEOREM StatementsAreAtomic == SqlSpec => ImplementsStatements
  <1>1. SqlInv /\ MachinesInv /\ ProgressInv /\ [SqlNext]_sqlVars => [ExtNext]_extVars
    BY StatementRefines
  <1> QED
    BY ProgressInvariant, <1>1, PTL DEF SqlSpec, ImplementsStatements

\* No statement stores a value that a later one cannot decode: a statement is a step
\* of Extension, and what such a step reads of the table is canonical.
THEOREM StoredValuesAreReadable == SqlSpec => OnlyLiteralsAreCorrupt
  <1>1. SqlInv /\ [ExtNext]_extVars
            => [ended' = "CorruptStoredValue" => call' = "input"]_extVars
    BY OnlyInputFindsCorrupt DEF SqlInv
  <1>2. SqlSpec => [][ExtNext]_extVars
    BY StatementsAreAtomic DEF ImplementsStatements
  <1> QED
    BY SqlInvariant, <1>1, <1>2, PTL DEF OnlyLiteralsAreCorrupt
=============================================================================
