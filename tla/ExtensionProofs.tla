----------------------------- MODULE ExtensionProofs -----------------------------
(***************************************************************************)
(* Theorems about Extension, for every engine, table, set of alphas and    *)
(* argument: whatever statements follow one another, each row holds a      *)
(* canonical value.  Everything else follows from that one invariant: a    *)
(* canonical value is read as it was written, so functions of stored       *)
(* values are functions of domain values, and no step can damage a row.    *)
(***************************************************************************)
EXTENDS Extension, FuzzyregionProofs

Transforms == {"normalize", "concentrate", "dilate"}

-----------------------------------------------------------------------------
\* What from_domain lets through.

\* Neighbours that descend make every two levels descend.
LEMMA NeighboursDescend ==
    ASSUME NEW s \in Seq(Level), \A k \in 1..Len(s) - 1 : s[k].alpha > s[k + 1].alpha
    PROVE  StrictlyDescending(s)
  <1> SUFFICES ASSUME NEW i \in DOMAIN s, NEW j \in DOMAIN s, i < j,
                      ~(s[i].alpha > s[j].alpha)
               PROVE  FALSE
    BY DEF StrictlyDescending
  <1> DEFINE bad == {m \in DOMAIN s : i < m /\ ~(s[i].alpha > s[m].alpha)}
  <1>1. Len(s) \in Nat /\ DOMAIN s = 1..Len(s) /\ bad \in SUBSET Nat /\ bad # {}
    OBVIOUS
  <1>2. Min(bad) \in bad /\ \A k \in bad : Min(bad) <= k
    <2> HIDE DEF bad
    <2> QED
      BY <1>1, MinIsLeast
  <1>3. PICK m \in bad : \A k \in bad : m <= k
    BY <1>2
  <1>4. m \in DOMAIN s /\ m - 1 \in DOMAIN s /\ m - 1 \in 1..Len(s) - 1 /\ i <= m - 1
    BY <1>1, <1>3
  <1>5. s[m - 1].alpha > s[m].alpha
    BY <1>1, <1>4
  <1>6. s[i].alpha \in Int /\ s[m].alpha \in Int /\ s[m - 1].alpha \in Int
    BY <1>4, LevelAlphaIsInt
  <1>7. CASE i = m - 1
    BY <1>3, <1>5, <1>7
  <1>8. CASE i # m - 1
    <2>1. m - 1 \notin bad
      BY <1>1, <1>3, <1>4
    <2>2. s[i].alpha > s[m - 1].alpha
      BY <1>1, <1>4, <1>8, <2>1
    <2> QED
      BY <1>3, <1>5, <1>6, <2>2
  <1> QED
    BY <1>7, <1>8

LEMMA StoredDescends ==
    ASSUME NEW v, v.levels \in Seq(Level), NewStored(v).kind = "Ok"
    PROVE  NewStored(v) = Accepted(v) /\ StrictlyDescending(v.levels)
  <1> DEFINE pair == {k \in 1..Len(v.levels) - 1 : v.levels[k].alpha <= v.levels[k + 1].alpha}
  <1>1. NewStored(v) = Accepted(v) /\ pair = {}
    BY DEF NewStored, Rejected
  <1>2. ASSUME NEW k \in 1..Len(v.levels) - 1
        PROVE  v.levels[k].alpha > v.levels[k + 1].alpha
    <2>1. k \in DOMAIN v.levels /\ k + 1 \in DOMAIN v.levels
      OBVIOUS
    <2>2. v.levels[k].alpha \in Int /\ v.levels[k + 1].alpha \in Int
      BY <2>1, LevelAlphaIsInt
    <2> QED
      BY <1>1, <2>2
  <1> QED
    BY <1>1, <1>2, NeighboursDescend

\* from_domain changes no value it accepts.
LEMMA EncodedIsItself ==
    ASSUME NEW r, r.kind = "Ok" => r.value \in Operand,
           AndThen(r, FromDomain).kind = "Ok"
    PROVE  AndThen(r, FromDomain).value \in Operand
  <1>1. r.kind = "Ok" /\ NewStored(r.value).kind = "Ok"
    BY DEF AndThen, FromDomain
  <1>2. NewStored(r.value) = Accepted(r.value)
    BY <1>1 DEF NewStored, Rejected
  <1> QED
    BY <1>1, <1>2 DEF AndThen, FromDomain, Accepted

\* It lets every canonical value through.
LEMMA OperandIsEncoded ==
    ASSUME NEW v \in Operand
    PROVE  NewStored(v) = Accepted(v)
  <1> DEFINE pair == {k \in 1..Len(v.levels) - 1 : v.levels[k].alpha <= v.levels[k + 1].alpha}
  <1>1. ~(v.levels # <<>> /\ v.srid = NoSrid)
    <2>1. v.levels # <<>> => 1 \in DOMAIN v.levels
      BY OperandFacts
    <2> QED
      BY <2>1, OperandLevel
  <1>2. ASSUME NEW k \in 1..Len(v.levels) - 1
        PROVE  ~(v.levels[k].alpha <= v.levels[k + 1].alpha)
    <2>1. k \in DOMAIN v.levels /\ k + 1 \in DOMAIN v.levels /\ k < k + 1
      BY OperandFacts
    <2>2. v.levels[k].alpha > v.levels[k + 1].alpha
      BY <2>1, OperandFacts DEF StrictlyDescending
    <2>3. v.levels[k].alpha \in Int /\ v.levels[k + 1].alpha \in Int
      BY <2>1, OperandFacts
    <2> QED
      BY <2>2, <2>3
  <1>3. pair = {}
    BY <1>2
  <1> QED
    BY <1>1, <1>3 DEF NewStored

-----------------------------------------------------------------------------
\* What to_domain reads.

\* A stored value as the core sees it: an empty one has lost its SRID.
Read(v) == IF v.levels = <<>> THEN EmptyValue(NoSrid) ELSE v

LEMMA ReadIsOperand ==
    ASSUME NEW v \in Operand
    PROVE  Read(v) \in Operand /\ Read(v).levels = v.levels
  BY EmptyIsCanonicalValue DEF Read, Operand, EmptyValue

LEMMA OutcomeIsRead ==
    ASSUME NEW v \in Operand
    PROVE  CanonicalOutcome(v.levels) = Accepted(Read(v))
  BY OperandIsAccepted DEF Read

LEMMA StoredIsRead ==
    ASSUME NEW v \in Operand
    PROVE  ToDomain(v) = Accepted(Read(v))
  BY OutcomeIsRead DEF ToDomain, AsRead, Accepted

LEMMA RestoredIs ==
    ASSUME NEW v \in Operand
    PROVE  Restored(v) = Accepted(Read(v))
  <1>1. /\ NewStored(v) = Accepted(v) /\ ToDomain(v) = Accepted(Read(v))
        /\ NewStored(Read(v)) = Accepted(Read(v))
    BY OperandIsEncoded, StoredIsRead, ReadIsOperand
  <1> QED
    BY <1>1 DEF Restored, Input, AndThen, FromDomain, Accepted

\* A set function of stored values is the operation on the values read.
LEMMA SetFunctionIs ==
    ASSUME NEW v \in Operand, NEW w \in Operand, NEW o
    PROVE  SetFunction(o, v, w) = AndThen(SetOperationOutcome(o, Read(v), Read(w)), FromDomain)
  <1>1. ToDomain(v) = Accepted(Read(v)) /\ ToDomain(w) = Accepted(Read(w))
    BY StoredIsRead
  <1> QED
    BY <1>1 DEF SetFunction, AndThen, Accepted

LEMMA TransformIs ==
    ASSUME NEW v \in Operand, NEW name, NEW power
    PROVE  Transform(name, v, power) = AndThen(Remapped(name, Read(v), power), FromDomain)
  <1>1. ToDomain(v) = Accepted(Read(v))
    BY StoredIsRead
  <1> QED
    BY <1>1 DEF Transform, Transformed, AndThen, Accepted

-----------------------------------------------------------------------------
\* A remapped value, which nothing has canonicalized, is canonical if from_domain
\* accepts it: the extents are those of the value, and the alphas descend.

LEMMA RemapKeepsCanonical ==
    ASSUME NEW v \in Operand, NEW image,
           \A a \in AlphasOf(v) : image[a] \in 1..One => image[a] \in Alpha,
           AndThen(Remap(v, image), FromDomain).kind = "Ok"
    PROVE  AndThen(Remap(v, image), FromDomain).value \in Operand
  <1> DEFINE after == [k \in DOMAIN v.levels |-> [v.levels[k] EXCEPT !.alpha = image[@]]]
             w == [v EXCEPT !.levels = after]
  <1>1. /\ \A a \in AlphasOf(v) : image[a] \in 1..One
        /\ Remap(v, image) = Accepted(w)
    BY DEF Remap, AndThen, Rejected
  <1>2. NewStored(w).kind = "Ok" /\ AndThen(Remap(v, image), FromDomain) = NewStored(w)
    BY <1>1 DEF AndThen, FromDomain, Accepted
  <1>3. /\ v \in FuzzyValue /\ v.levels \in Seq(CanonicalLevel)
        /\ StrictlyNested(v.levels) /\ OneSrid(v.levels, v.srid)
    BY DEF Operand, Canonical
  <1>4. /\ w.levels = after /\ w.srid = v.srid /\ v.srid \in Srid \cup {NoSrid}
        /\ w \in [srid : Srid \cup {NoSrid}, levels : {after}]
    <2> HIDE DEF after
    <2> QED
      BY <1>3 DEF FuzzyValue
  <1>5. \A k \in DOMAIN v.levels : /\ after[k] = [v.levels[k] EXCEPT !.alpha = image[@]]
                                   /\ v.levels[k] \in CanonicalLevel
                                   /\ v.levels[k].alpha \in AlphasOf(v)
    BY <1>3 DEF AlphasOf, ToSet
  <1>6. \A k \in DOMAIN v.levels : /\ after[k] \in CanonicalLevel
                                   /\ after[k].geometry = v.levels[k].geometry
    BY <1>1, <1>5 DEF CanonicalLevel
  <1>7. DOMAIN after = DOMAIN v.levels /\ after \in Seq(CanonicalLevel)
    <2>1. PICK n \in Nat : DOMAIN v.levels = 1..n
      BY <1>3
    <2>2. DOMAIN after = 1..n
      BY <2>1
    <2>3. after \in [1..n -> CanonicalLevel]
      <3>1. after = [k \in 1..n |-> after[k]]
        BY <2>1
      <3> HIDE DEF after
      <3> QED
        BY <1>6, <2>1, <3>1
    <2> QED
      BY <2>1, <2>2, <2>3
  <1> HIDE DEF after, w
  <1>8. after \in Seq(Level)
    BY <1>7, CanonicalLevelIsLevel
  <1>9. NewStored(w) = Accepted(w) /\ StrictlyDescending(after)
    BY <1>2, <1>4, <1>8, StoredDescends
  <1>10. StrictlyNested(after) /\ OneSrid(after, v.srid)
    BY <1>3, <1>6, <1>7 DEF StrictlyNested, OneSrid
  <1>11. w \in Operand
    BY <1>4, <1>7, <1>8, <1>9, <1>10 DEF Operand, FuzzyValue, Canonical
  <1> QED
    BY <1>2, <1>9, <1>11 DEF Accepted

LEMMA AlphasInUse ==
    ASSUME NEW v \in Operand
    PROVE  /\ AlphasOf(v) \subseteq Alpha
           /\ v.levels # <<>> => /\ v.levels[1].alpha \in Alpha
                                 /\ \A a \in AlphasOf(v) : a <= v.levels[1].alpha
  <1>1. v.levels \in Seq(CanonicalLevel) /\ StrictlyDescending(v.levels)
    BY DEF Operand, Canonical
  <1>2. \A k \in DOMAIN v.levels : v.levels[k].alpha \in Alpha
    BY OperandLevel
  <1>3. ASSUME v.levels # <<>>
        PROVE  /\ 1 \in DOMAIN v.levels
               /\ \A k \in DOMAIN v.levels : v.levels[k].alpha <= v.levels[1].alpha
    <2>1. 1 \in DOMAIN v.levels /\ \A k \in DOMAIN v.levels : k \in Nat /\ (k = 1 \/ 1 < k)
      BY <1>1, <1>3
    <2>2. \A a \in Alpha : a \in Int
      BY AlphaAssumption
    <2>3. \A k \in DOMAIN v.levels : v.levels[k].alpha \in Int
      BY <1>2, <2>2
    <2>4. \A k \in DOMAIN v.levels : k = 1 \/ v.levels[1].alpha > v.levels[k].alpha
      BY <1>1, <2>1 DEF StrictlyDescending
    <2> QED
      BY <2>1, <2>3, <2>4
  <1> QED
    BY <1>2, <1>3 DEF AlphasOf, ToSet

LEMMA TransformedIsOperand ==
    ASSUME NEW v \in Operand, NEW name \in Transforms, NEW power,
           name # "normalize" => power \in Powers,
           AndThen(Remapped(name, v, power), FromDomain).kind = "Ok"
    PROVE  AndThen(Remapped(name, v, power), FromDomain).value \in Operand
  <1>1. CASE name = "normalize"
    <2>1. Remapped(name, v, power) = NormalizeMembership(v)
      BY <1>1 DEF Remapped
    <2>2. CASE v.levels = <<>> \/ v.levels[1].alpha = One
      <3>1. Remapped(name, v, power) = Accepted(v)
        BY <2>1, <2>2 DEF NormalizeMembership
      <3> QED
        BY <3>1, EncodedIsItself DEF Accepted
    <2>3. CASE ~(v.levels = <<>> \/ v.levels[1].alpha = One)
      <3> DEFINE image == [a \in AlphasOf(v) |-> Divide(a, v.levels[1].alpha)]
      <3>1. Remapped(name, v, power) = Remap(v, image)
        BY <2>1, <2>3 DEF NormalizeMembership
      <3>2. \A a \in AlphasOf(v) : image[a] \in 1..One => image[a] \in Alpha
        BY <2>3, AlphasInUse, ArithmeticAssumption
      <3> HIDE DEF image
      <3> QED
        BY <3>1, <3>2, RemapKeepsCanonical
    <2> QED
      BY <2>2, <2>3
  <1>2. CASE name = "concentrate"
    <2>1. Remapped(name, v, power) = ConcentrateMembership(v, power)
      BY <1>2 DEF Remapped
    <2> DEFINE image == [a \in AlphasOf(v) |-> Powf(a, power \div One)]
    <2>2. PowerError(power) = "None" /\ Remapped(name, v, power) = Remap(v, image)
      BY <2>1 DEF ConcentrateMembership, AndThen, Rejected
    <2>3. \A a \in AlphasOf(v) : image[a] \in 1..One => image[a] \in Alpha
      BY <1>2, <2>2, AlphasInUse, ArithmeticAssumption
    <2> HIDE DEF image
    <2> QED
      BY <2>2, <2>3, RemapKeepsCanonical
  <1>3. CASE name = "dilate"
    <2>1. Remapped(name, v, power) = DilateMembership(v, power)
      BY <1>3 DEF Remapped
    <2> DEFINE image == [a \in AlphasOf(v) |-> Rootf(a, power \div One)]
    <2>2. PowerError(power) = "None" /\ Remapped(name, v, power) = Remap(v, image)
      BY <2>1 DEF DilateMembership, AndThen, Rejected
    <2>3. \A a \in AlphasOf(v) : image[a] \in 1..One => image[a] \in Alpha
      BY <1>3, <2>2, AlphasInUse, ArithmeticAssumption
    <2> HIDE DEF image
    <2> QED
      BY <2>2, <2>3, RemapKeepsCanonical
  <1> QED
    BY <1>1, <1>2, <1>3 DEF Transforms

-----------------------------------------------------------------------------
\* What the functions answer with is canonical.

\* Arrays that pass the checks of fuzzyregion_from_ewkb are a list of levels.
LEMMA ArraysGiveLevels ==
    ASSUME NEW arg \in LevelArgs, LevelsOfArrays(arg).kind = "Ok"
    PROVE  /\ LevelsOfArrays(arg).value \in Seq(Level)
           /\ LevelsOfArrays(arg) = Accepted(LevelsOfArrays(arg).value)
  <1> DEFINE geoms == IF arg.geoms = NullArg THEN <<>> ELSE arg.geoms
             args == [k \in DOMAIN arg.alphas |-> [alpha |-> arg.alphas[k], geometry |-> geoms[k]]]
             bad == SelectInSeq(args, LAMBDA a : ArgumentError(a) # "None")
             hits == {k \in 1..Len(args) : ArgumentError(args[k]) # "None"}
  <1>1. /\ Len(arg.alphas) = Len(geoms) /\ bad = 0
        /\ LevelsOfArrays(arg) = Accepted(args)
    <2>1. LevelsOfArrays(arg) =
              IF Len(arg.alphas) # Len(geoms) THEN Rejected("MismatchedLevelCount", <<>>)
              ELSE IF bad # 0 THEN Rejected(ArgumentError(args[bad]), <<>>)
              ELSE Accepted(args)
      BY Zenon DEF LevelsOfArrays
    <2>2. ArgumentError(args[bad]) # "Ok"
      BY DEF ArgumentError
    <2> HIDE DEF args, bad
    <2> QED
      BY <2>1, <2>2 DEF Rejected
  <1>2. bad = IF hits # {} THEN Min(hits) ELSE 0
    BY Zenon DEF SelectInSeq
  <1>3. /\ arg.alphas \in Seq(F64 \cup {NullArg})
        /\ geoms \in Seq(Geometry \cup {NullArg, NoBytes})
        /\ \A x \in ToSet(arg.alphas) \ {NullArg} : AlphaError(x) = "None" => x \in Alpha
    BY ArgumentsAssumption
  <1> HIDE DEF geoms
  <1>4. PICK n \in Nat : DOMAIN arg.alphas = 1..n /\ DOMAIN geoms = 1..n /\ Len(args) = n
    BY <1>1, <1>3
  <1>5. hits = {}
    <2>1. hits \in SUBSET Nat /\ \A k \in hits : k # 0
      BY <1>4
    <2> HIDE DEF hits, bad
    <2>2. hits # {} => Min(hits) \in hits
      BY <2>1, MinIsLeast
    <2> QED
      BY <1>1, <1>2, <2>1, <2>2
  <1>6. ASSUME NEW k \in 1..n
        PROVE  args[k] \in Level
    <2>1. /\ args[k] = [alpha |-> arg.alphas[k], geometry |-> geoms[k]]
          /\ ArgumentError(args[k]) = "None"
      BY <1>4, <1>5, <1>6
    <2>2. /\ arg.alphas[k] # NullArg /\ AlphaError(arg.alphas[k]) = "None"
          /\ geoms[k] \notin {NullArg, NoBytes}
      BY <2>1 DEF ArgumentError
    <2>3. arg.alphas[k] \in Alpha
      BY <1>3, <1>4, <2>2 DEF ToSet
    <2>4. geoms[k] \in Geometry
      BY <1>3, <1>4, <2>2
    <2> QED
      BY <2>1, <2>3, <2>4 DEF Level
  <1>7. args \in [1..n -> Level]
    <2>1. args = [k \in 1..n |-> args[k]]
      BY <1>4
    <2> HIDE DEF args
    <2> QED
      BY <1>6, <2>1
  <1> HIDE DEF args
  <1> QED
    BY <1>1, <1>7 DEF Accepted

LEMMA FromGeomsIsOperand ==
    ASSUME NEW arg \in LevelArgs, FromGeoms(arg).kind = "Ok"
    PROVE  FromGeoms(arg).value \in Operand
  <1> DEFINE given == LevelsOfArrays(arg)
             domain == AndThen(given, CanonicalOutcome)
  <1>1. FromGeoms(arg) = AndThen(domain, FromDomain)
    BY DEF FromGeoms
  <1>2. given.kind = "Ok" => given.value \in Seq(Level)
    BY ArraysGiveLevels
  <1> HIDE DEF given
  <1>3. domain.kind = "Ok" => domain.value \in Operand
    BY <1>2, AcceptedIsOperand DEF AndThen
  <1> HIDE DEF domain
  <1> QED
    BY <1>1, <1>3, EncodedIsItself

LEMMA ReadLevelsIsOperand ==
    ASSUME NEW v, v.levels \in Seq(Level), ToDomain(v).kind = "Ok"
    PROVE  ToDomain(v).value \in Operand
  <1>1. CanonicalOutcome(v.levels).kind = "Ok" /\ ToDomain(v) = CanonicalOutcome(v.levels)
    BY DEF ToDomain, AsRead, Rejected
  <1> QED
    BY <1>1, AcceptedIsOperand

LEMMA InputIsOperand ==
    ASSUME NEW v, v.levels \in Seq(Level), Input(v).kind = "Ok"
    PROVE  Input(v).value \in Operand
  <1> DEFINE given == NewStored(v)
             domain == AndThen(given, ToDomain)
  <1>1. Input(v) = AndThen(domain, FromDomain)
    BY DEF Input
  <1>2. given.kind = "Ok" => given.value = v
    BY DEF NewStored, Accepted, Rejected
  <1> HIDE DEF given
  <1>3. domain.kind = "Ok" => domain.value \in Operand
    BY <1>2, ReadLevelsIsOperand DEF AndThen
  <1> HIDE DEF domain
  <1> QED
    BY <1>1, <1>3, EncodedIsItself

LEMMA SetFunctionIsOperand ==
    ASSUME NEW v \in Operand, NEW w \in Operand, NEW o \in Operations,
           SetFunction(o, v, w).kind = "Ok"
    PROVE  SetFunction(o, v, w).value \in Operand
  <1> DEFINE result == SetOperationOutcome(o, Read(v), Read(w))
  <1>1. SetFunction(o, v, w) = AndThen(result, FromDomain)
    BY SetFunctionIs
  <1>2. result.kind = "Ok" => result.value \in Operand
    BY ReadIsOperand, SetOutcomeIsOperand
  <1> HIDE DEF result
  <1> QED
    BY <1>1, <1>2, EncodedIsItself

LEMMA TransformIsOperand ==
    ASSUME NEW v \in Operand, NEW name \in Transforms, NEW power,
           name # "normalize" => power \in Powers,
           Transform(name, v, power).kind = "Ok"
    PROVE  Transform(name, v, power).value \in Operand
  BY TransformIs, ReadIsOperand, TransformedIsOperand

-----------------------------------------------------------------------------
\* The invariant: every row holds a canonical value.

TableInv ==
    /\ rows \in [RowId -> {NoRow} \cup {Row(v) : v \in Operand}]
    /\ call \in FunctionNames \cup {"none", "restore"}

LEMMA OperandIsValue ==
    ASSUME NEW v \in Operand
    PROVE  v \in FuzzyValue /\ v.levels \in Seq(Level) /\ Canonical(v)
  BY DEF Operand, FuzzyValue

LEMMA StoredIsOperand ==
    ASSUME TableInv, NEW id \in Filled
    PROVE  id \in RowId /\ Stored(id) \in Operand
  <1>1. id \in RowId /\ rows[id] # NoRow
    BY DEF Filled
  <1>2. PICK v \in Operand : rows[id] = Row(v)
    BY <1>1 DEF TableInv
  <1> QED
    BY <1>1, <1>2 DEF Stored, Row

LEMMA UnchangedTable ==
    ASSUME TableInv, UNCHANGED extVars
    PROVE  TableInv'
  BY DEF TableInv, extVars

\* A statement writes what it computed, or nothing.
LEMMA RunKeepsTable ==
    ASSUME TableInv, NEW name \in FunctionNames, NEW into \in RowId, NEW result,
           Run(name, into, result), result.kind = "Ok" => result.value \in Operand
    PROVE  TableInv'
  <1>1. /\ call' = name
        /\ rows' = IF result.kind = "Ok" THEN [rows EXCEPT ![into] = Row(result.value)] ELSE rows
    BY DEF Run
  <1>2. result.kind = "Ok" => Row(result.value) \in {Row(v) : v \in Operand}
    OBVIOUS
  <1> QED
    BY <1>1, <1>2 DEF TableInv

LEMMA ExtInitInv == ExtInit => TableInv
  BY DEF ExtInit, TableInv

LEMMA RestoreKeepsTable ==
    ASSUME TableInv, DumpRestore
    PROVE  TableInv'
  <1> DEFINE answers == [id \in Filled |-> Restored(rows[id][1])]
             failed == \E id \in Filled : answers[id].kind # "Ok"
  <1>1. /\ call' = "restore"
        /\ rows' = IF failed THEN rows
                   ELSE [id \in RowId |-> IF id \in Filled THEN Row(answers[id].value) ELSE NoRow]
    BY DEF DumpRestore
  <1>2. ASSUME NEW id \in Filled
        PROVE  answers[id].value \in Operand
    <2>1. answers[id] = Restored(Stored(id))
      BY DEF Stored
    <2>2. answers[id] = Accepted(Read(Stored(id))) /\ Read(Stored(id)) \in Operand
      BY <2>1, StoredIsOperand, RestoredIs, ReadIsOperand
    <2> QED
      BY <2>2 DEF Accepted
  <1> HIDE DEF answers, failed
  <1>3. \A id \in Filled : Row(answers[id].value) \in {Row(v) : v \in Operand}
    BY <1>2
  <1> QED
    BY <1>1, <1>3 DEF TableInv

LEMMA ExtNextInv ==
    ASSUME TableInv, [ExtNext]_extVars
    PROVE  TableInv'
  <1>1. /\ Operations \subseteq FunctionNames /\ Transforms \subseteq FunctionNames
        /\ {"from_geoms", "input"} \subseteq FunctionNames
    BY DEF FunctionNames, Transforms
  <1>2. CASE UNCHANGED extVars
    BY <1>2, UnchangedTable
  <1>3. CASE \E name \in FunctionNames : Abort(name)
    BY <1>3 DEF Abort, TableInv
  <1>4. CASE \E into \in RowId : InsertGeoms(into)
    <2>1. PICK into \in RowId, arg \in LevelArgs : Run("from_geoms", into, FromGeoms(arg))
      BY <1>4 DEF InsertGeoms
    <2> QED
      BY <1>1, <2>1, FromGeomsIsOperand, RunKeepsTable
  <1>5. CASE \E into \in RowId : InsertLiteral(into)
    <2>1. PICK into \in RowId, literal \in Literals : Run("input", into, Input(literal))
      BY <1>5 DEF InsertLiteral
    <2>2. literal.levels \in Seq(Level)
      BY ArgumentsAssumption
    <2> QED
      BY <1>1, <2>1, <2>2, InputIsOperand, RunKeepsTable
  <1>6. CASE \E o \in Operations, a, b \in Filled, into \in RowId : SelectSetFunction(o, a, b, into)
    <2>1. PICK o \in Operations, a \in Filled, b \in Filled, into \in RowId :
              Run(o, into, SetFunction(o, Stored(a), Stored(b)))
      BY <1>6 DEF SelectSetFunction, Stored
    <2>2. Stored(a) \in Operand /\ Stored(b) \in Operand
      BY StoredIsOperand
    <2> QED
      BY <1>1, <2>1, <2>2, SetFunctionIsOperand, RunKeepsTable
  <1>7. ASSUME NEW name \in Transforms, NEW a \in Filled, NEW into \in RowId, NEW power,
               name # "normalize" => power \in Powers,
               Run(name, into, Transform(name, Stored(a), power))
        PROVE  TableInv'
    <2>1. Stored(a) \in Operand
      BY StoredIsOperand
    <2>2. Transform(name, Stored(a), power).kind = "Ok"
              => Transform(name, Stored(a), power).value \in Operand
      BY <1>7, <2>1, TransformIsOperand
    <2> QED
      BY <1>1, <1>7, <2>2, RunKeepsTable
  <1>8. CASE \E a \in Filled, into \in RowId : SelectNormalize(a, into)
    <2>1. PICK a \in Filled, into \in RowId : Run("normalize", into, Transform("normalize", Stored(a), 0))
      BY <1>8 DEF SelectNormalize, Stored
    <2> QED
      BY <1>7, <2>1 DEF Transforms
  <1>9. CASE \E a \in Filled, into \in RowId : SelectConcentrate(a, into)
    <2>1. PICK a \in Filled, into \in RowId, power \in Powers :
              Run("concentrate", into, Transform("concentrate", Stored(a), power))
      BY <1>9 DEF SelectConcentrate, Stored
    <2> QED
      BY <1>7, <2>1 DEF Transforms
  <1>10. CASE \E a \in Filled, into \in RowId : SelectDilate(a, into)
    <2>1. PICK a \in Filled, into \in RowId, power \in Powers :
              Run("dilate", into, Transform("dilate", Stored(a), power))
      BY <1>10 DEF SelectDilate, Stored
    <2> QED
      BY <1>7, <2>1 DEF Transforms
  <1>11. CASE DumpRestore
    BY <1>11, RestoreKeepsTable
  <1> QED
    BY <1>2, <1>3, <1>4, <1>5, <1>6, <1>8, <1>9, <1>10, <1>11 DEF ExtNext

-----------------------------------------------------------------------------
\* What a transform does to the levels.

\* from_domain accepts a remapped value as it is: every extent stays, every alpha is
\* the image of the one it had.
LEMMA RemapAnswer ==
    ASSUME NEW v \in Operand, NEW image, AndThen(Remap(v, image), FromDomain).kind = "Ok"
    PROVE  LET after == AndThen(Remap(v, image), FromDomain).value.levels
           IN /\ DOMAIN after = DOMAIN v.levels
              /\ \A k \in DOMAIN v.levels : after[k] = [v.levels[k] EXCEPT !.alpha = image[@]]
  <1> DEFINE after == [k \in DOMAIN v.levels |-> [v.levels[k] EXCEPT !.alpha = image[@]]]
             w == [v EXCEPT !.levels = after]
  <1>1. Remap(v, image) = Accepted(w)
    BY DEF Remap, AndThen, Rejected
  <1>2. NewStored(w).kind = "Ok" /\ AndThen(Remap(v, image), FromDomain) = NewStored(w)
    BY <1>1 DEF AndThen, FromDomain, Accepted
  <1>3. AndThen(Remap(v, image), FromDomain).value = w
    <2> HIDE DEF w
    <2>1. NewStored(w) = Accepted(w)
      BY <1>2 DEF NewStored, Rejected
    <2> QED
      BY <1>2, <2>1 DEF Accepted
  <1>4. w.levels = after
    <2> HIDE DEF after
    <2> QED
      BY DEF Operand, FuzzyValue
  <1> QED
    BY <1>3, <1>4

\* The image under which a transform takes the alphas.
Image(name, v, power) ==
    [a \in AlphasOf(v) |->
        CASE name = "normalize" -> Divide(a, v.levels[1].alpha)
          [] name = "concentrate" -> Powf(a, power \div One)
          [] name = "dilate" -> Rootf(a, power \div One)]

\* Where a transform succeeds, it remaps the alphas, or had nothing to do.
LEMMA TransformRemaps ==
    ASSUME NEW v \in Operand, NEW name \in Transforms, NEW power,
           name # "normalize" => power \in Powers,
           v.levels # <<>>, Transform(name, v, power).kind = "Ok"
    PROVE  /\ name # "normalize" => PowerError(power) = "None"
           /\ \/ /\ name = "normalize" /\ v.levels[1].alpha = One
                 /\ Transform(name, v, power).value = v
              \/ /\ name = "normalize" => v.levels[1].alpha # One
                 /\ Transform(name, v, power) = AndThen(Remap(v, Image(name, v, power)), FromDomain)
  <1>1. Transform(name, v, power) = AndThen(Remapped(name, v, power), FromDomain)
    BY TransformIs DEF Read
  <1>2. CASE name = "normalize"
    <2>1. Remapped(name, v, power) = NormalizeMembership(v)
      BY <1>2 DEF Remapped
    <2>2. CASE v.levels[1].alpha = One
      <3>1. Transform(name, v, power) = NewStored(v)
        BY <1>1, <2>1, <2>2 DEF NormalizeMembership, AndThen, FromDomain, Accepted
      <3> QED
        BY <1>2, <2>2, <3>1, OperandIsEncoded DEF Accepted
    <2>3. CASE v.levels[1].alpha # One
      <3>1. Image(name, v, power) = [a \in AlphasOf(v) |-> Divide(a, v.levels[1].alpha)]
        BY <1>2 DEF Image
      <3> QED
        BY <1>1, <1>2, <2>1, <2>3, <3>1 DEF NormalizeMembership
    <2> QED
      BY <2>2, <2>3
  <1>3. CASE name = "concentrate"
    <2>1. Remapped(name, v, power) = ConcentrateMembership(v, power)
      BY <1>3 DEF Remapped
    <2>2. PowerError(power) = "None"
      BY <1>1, <2>1 DEF ConcentrateMembership, AndThen, Rejected
    <2>3. Image(name, v, power) = [a \in AlphasOf(v) |-> Powf(a, power \div One)]
      BY <1>3 DEF Image
    <2> QED
      BY <1>1, <1>3, <2>1, <2>2, <2>3 DEF ConcentrateMembership
  <1>4. CASE name = "dilate"
    <2>1. Remapped(name, v, power) = DilateMembership(v, power)
      BY <1>4 DEF Remapped
    <2>2. PowerError(power) = "None"
      BY <1>1, <2>1 DEF DilateMembership, AndThen, Rejected
    <2>3. Image(name, v, power) = [a \in AlphasOf(v) |-> Rootf(a, power \div One)]
      BY <1>4 DEF Image
    <2> QED
      BY <1>1, <1>4, <2>1, <2>2, <2>3 DEF DilateMembership
  <1> QED
    BY <1>2, <1>3, <1>4 DEF Transforms

\* What the image of an alpha is to the alpha.
LEMMA ImageRounds ==
    ASSUME NEW v \in Operand, v.levels # <<>>, NEW name \in Transforms, NEW power,
           name # "normalize" => power \in Powers /\ PowerError(power) = "None",
           NEW a \in AlphasOf(v)
    PROVE  /\ name = "concentrate" => Image(name, v, power)[a] <= a
           /\ name # "concentrate" => Image(name, v, power)[a] >= a
           /\ name = "normalize" /\ a = v.levels[1].alpha => Image(name, v, power)[a] = One
  <1>1. a \in Alpha /\ v.levels[1].alpha \in Alpha /\ a <= v.levels[1].alpha
    BY AlphasInUse
  <1>2. CASE name = "normalize"
    <2>1. Image(name, v, power)[a] = Divide(a, v.levels[1].alpha)
      BY <1>2 DEF Image
    <2> QED
      BY <1>1, <1>2, <2>1, RoundingAssumption
  <1>3. CASE name = "concentrate"
    <2>1. Image(name, v, power)[a] = Powf(a, power \div One)
      BY <1>3 DEF Image
    <2> QED
      BY <1>1, <1>3, <2>1, RoundingAssumption
  <1>4. CASE name = "dilate"
    <2>1. Image(name, v, power)[a] = Rootf(a, power \div One)
      BY <1>4 DEF Image
    <2> QED
      BY <1>1, <1>4, <2>1, RoundingAssumption
  <1> QED
    BY <1>2, <1>3, <1>4 DEF Transforms

LEMMA TransformKeepsOrder ==
    ASSUME NEW v \in Operand, v.levels # <<>>, NEW name \in Transforms, NEW power \in Powers,
           Transform(name, v, power).kind = "Ok"
    PROVE  LET before == v.levels
               after == Transform(name, v, power).value.levels
           IN /\ Len(after) = Len(before)
              /\ StrictlyDescending(after)
              /\ \A k \in DOMAIN before :
                     /\ after[k].geometry = before[k].geometry
                     /\ name = "concentrate" => after[k].alpha <= before[k].alpha
                     /\ name # "concentrate" => after[k].alpha >= before[k].alpha
              /\ name = "normalize" => after[1].alpha = One
  <1> DEFINE after == Transform(name, v, power).value.levels
  <1>1. Transform(name, v, power).value \in Operand
    BY TransformIsOperand
  <1>2. StrictlyDescending(after) /\ after \in Seq(CanonicalLevel) /\ v.levels \in Seq(CanonicalLevel)
    BY <1>1 DEF Operand, Canonical
  <1>3. 1 \in DOMAIN v.levels /\ \A k \in DOMAIN v.levels : v.levels[k].alpha \in AlphasOf(v)
    BY <1>2 DEF AlphasOf, ToSet
  <1>4. \A k \in DOMAIN v.levels : v.levels[k] \in CanonicalLevel
    BY DEF Operand, Canonical
  <1>5. CASE name = "normalize" /\ v.levels[1].alpha = One /\ Transform(name, v, power).value = v
    <2>1. \A k \in DOMAIN v.levels : v.levels[k].alpha \in Int
      BY <1>2, OperandFacts
    <2> QED
      BY <1>2, <1>5, <2>1
  <1>6. CASE /\ name # "normalize" => PowerError(power) = "None"
             /\ Transform(name, v, power) = AndThen(Remap(v, Image(name, v, power)), FromDomain)
    <2> DEFINE image == Image(name, v, power)
    <2>1. /\ DOMAIN after = DOMAIN v.levels
          /\ \A k \in DOMAIN v.levels : after[k] = [v.levels[k] EXCEPT !.alpha = image[@]]
      BY <1>6, RemapAnswer
    <2>2. Len(after) = Len(v.levels)
      BY <1>2, <2>1
    <2>3. \A k \in DOMAIN v.levels :
              /\ name = "concentrate" => image[v.levels[k].alpha] <= v.levels[k].alpha
              /\ name # "concentrate" => image[v.levels[k].alpha] >= v.levels[k].alpha
              /\ name = "normalize" /\ k = 1 => image[v.levels[k].alpha] = One
      BY <1>3, <1>6, ImageRounds
    <2> HIDE DEF image, after
    <2>4. \A k \in DOMAIN v.levels : /\ after[k].geometry = v.levels[k].geometry
                                     /\ after[k].alpha = image[v.levels[k].alpha]
      BY <1>4, <2>1 DEF CanonicalLevel
    <2>5. /\ StrictlyDescending(after)
          /\ \A k \in DOMAIN v.levels :
                 /\ name = "concentrate" => after[k].alpha <= v.levels[k].alpha
                 /\ name # "concentrate" => after[k].alpha >= v.levels[k].alpha
          /\ name = "normalize" => after[1].alpha = One
      BY <1>2, <1>3, <2>3, <2>4
    <2> QED
      BY <2>2, <2>4, <2>5 DEF after
  <1> QED
    BY <1>5, <1>6, TransformRemaps

LEMMA TableInvariant == ExtSpec => []TableInv
  BY ExtInitInv, ExtNextInv, PTL DEF ExtSpec

-----------------------------------------------------------------------------
\* The theorems.

\* Only values of the type are ever in the table.
THEOREM TableTypeCorrect == ExtSpec => []ExtTypeOK
  <1>1. TableInv => ExtTypeOK
    BY StoredIsOperand, OperandIsValue DEF ExtTypeOK, TableInv
  <1> QED
    BY TableInvariant, <1>1, PTL

\* However the statements follow one another, every row is canonical.
THEOREM TableStaysCanonical == ExtSpec => []RowsCanonical
  <1>1. TableInv => RowsCanonical
    BY StoredIsOperand, OperandIsValue DEF RowsCanonical
  <1> QED
    BY TableInvariant, <1>1, PTL

\* Whatever is stored can be read, and is read with the levels it was stored with:
\* canonicalizing a canonical list changes nothing.
THEOREM StoredValuesReadBack == ExtSpec => []RowsReadBack
  <1>1. TableInv => RowsReadBack
    <2> SUFFICES ASSUME TableInv, NEW id \in Filled
                 PROVE  LET domain == ToDomain(Stored(id))
                        IN /\ domain.kind = "Ok"
                           /\ domain.value.levels = Stored(id).levels
                           /\ id \in NonEmpty => domain.value = Stored(id)
      BY DEF RowsReadBack
    <2>1. Stored(id) \in Operand
      BY StoredIsOperand
    <2>2. /\ ToDomain(Stored(id)) = Accepted(Read(Stored(id)))
          /\ Read(Stored(id)).levels = Stored(id).levels
      BY <2>1, StoredIsRead, ReadIsOperand
    <2>3. id \in NonEmpty => Read(Stored(id)) = Stored(id)
      BY DEF NonEmpty, Read
    <2> QED
      BY <2>2, <2>3 DEF Accepted
  <1> QED
    BY TableInvariant, <1>1, PTL

\* A transform that succeeds keeps every extent and the strict order of the
\* memberships, in whichever direction it moves them.
THEOREM TransformsKeepTheOrder == ExtSpec => []TransformsKeepOrder
  <1>1. TableInv => TransformsKeepOrder
    <2> SUFFICES ASSUME TableInv
                 PROVE  TransformsKeepOrder
      OBVIOUS
    <2>1. \A id \in NonEmpty : Stored(id) \in Operand /\ Stored(id).levels # <<>>
      BY StoredIsOperand DEF NonEmpty
    <2> QED
      BY <2>1, TransformKeepsOrder DEF TransformsKeepOrder, Transforms
  <1> QED
    BY TableInvariant, <1>1, PTL

\* A dump and a restore succeed and keep the levels of every row.
LEMMA RestoreStep ==
    ASSUME TableInv, [ExtNext]_extVars, rows' # rows \/ call' # call \/ ended' # ended,
           call' = "restore"
    PROVE  /\ ended' = "Ok"
           /\ \A id \in Filled : rows'[id] = Row(Read(Stored(id)))
  <1>1. DumpRestore
    BY DEF ExtNext, extVars, Abort, InsertGeoms, InsertLiteral, SelectSetFunction,
       SelectNormalize, SelectConcentrate, SelectDilate, Run, FunctionNames, Operations
  <1> DEFINE answers == [id \in Filled |-> Restored(rows[id][1])]
             failed == \E id \in Filled : answers[id].kind # "Ok"
  <1>2. /\ ended' = IF failed THEN "Restore" ELSE "Ok"
        /\ rows' = IF failed THEN rows
                   ELSE [id \in RowId |-> IF id \in Filled THEN Row(answers[id].value) ELSE NoRow]
    BY <1>1 DEF DumpRestore
  <1>3. \A id \in Filled : id \in RowId /\ answers[id] = Accepted(Read(Stored(id)))
    BY StoredIsOperand, RestoredIs DEF Stored
  <1> HIDE DEF answers
  <1>4. ASSUME NEW id \in Filled
        PROVE  answers[id].kind = "Ok" /\ answers[id].value = Read(Stored(id))
    <2>1. answers[id] = Accepted(Read(Stored(id)))
      BY <1>3
    <2> QED
      BY <2>1 DEF Accepted
  <1>5. ~failed
    BY <1>4
  <1>6. \A id \in Filled : rows'[id] = Row(answers[id].value)
    BY <1>2, <1>3, <1>5
  <1> QED
    BY <1>2, <1>4, <1>5, <1>6

\* How the statements can end.
LEMMA EncodedKind ==
    ASSUME NEW r
    PROVE  AndThen(r, FromDomain).kind \in {r.kind, "Ok", "Storage"}
  BY DEF AndThen, FromDomain, NewStored, Accepted, Rejected

LEMMA GeomsKind ==
    ASSUME NEW arg \in LevelArgs
    PROVE  FromGeoms(arg).kind # "CorruptStoredValue"
  <1> DEFINE given == LevelsOfArrays(arg)
             domain == AndThen(given, CanonicalOutcome)
  <1>1. FromGeoms(arg) = AndThen(domain, FromDomain)
    BY DEF FromGeoms
  <1>2. given.kind # "Ok" => given.kind # "CorruptStoredValue"
    <2> DEFINE geoms == IF arg.geoms = NullArg THEN <<>> ELSE arg.geoms
               args == [k \in DOMAIN arg.alphas |-> [alpha |-> arg.alphas[k], geometry |-> geoms[k]]]
               bad == SelectInSeq(args, LAMBDA a : ArgumentError(a) # "None")
    <2>1. given = IF Len(arg.alphas) # Len(geoms) THEN Rejected("MismatchedLevelCount", <<>>)
                  ELSE IF bad # 0 THEN Rejected(ArgumentError(args[bad]), <<>>)
                  ELSE Accepted(args)
      BY Zenon DEF LevelsOfArrays
    <2>2. ArgumentError(args[bad]) # "CorruptStoredValue"
      BY DEF ArgumentError
    <2> HIDE DEF given, args, bad, geoms
    <2> QED
      BY <2>1, <2>2 DEF Rejected, Accepted
  <1>3. given.kind = "Ok" => CanonicalOutcome(given.value).kind # "CorruptStoredValue"
    BY ArraysGiveLevels, OutcomeKinds
  <1> HIDE DEF given
  <1>4. domain.kind # "CorruptStoredValue"
    BY <1>2, <1>3 DEF AndThen
  <1> HIDE DEF domain
  <1> QED
    BY <1>1, <1>4, EncodedKind

LEMMA SetFunctionKind ==
    ASSUME NEW v \in Operand, NEW w \in Operand, NEW o \in Operations
    PROVE  SetFunction(o, v, w).kind # "CorruptStoredValue"
  <1> DEFINE l == Read(v)
             r == Read(w)
             result == SetOperationOutcome(o, l, r)
  <1>1. SetFunction(o, v, w) = AndThen(result, FromDomain)
    BY SetFunctionIs
  <1>2. l \in Operand /\ r \in Operand
    BY ReadIsOperand
  <1> HIDE DEF l, r
  <1>3. result.kind # "CorruptStoredValue"
    <2> DEFINE gathered == HighestFirst(GatheredLevels(o, l, r))
    <2>1. result = IF ~CompatibleSrid(l, r) THEN Rejected("MixedOperandSrid", <<>>)
                   ELSE IF gathered = <<>> THEN EmptyResult(l, r)
                   ELSE CanonicalOutcome(gathered)
      BY DEF SetOperationOutcome, GatheredLevels
    <2>2. CASE CompatibleSrid(l, r) /\ gathered # <<>>
      <3>1. gathered \in Seq(Level)
        BY <1>2, <2>2, GatheredSort, CanonicalLevelIsLevel
      <3> QED
        BY <2>1, <2>2, <3>1, OutcomeKinds
    <2>3. CASE ~CompatibleSrid(l, r) \/ gathered = <<>>
      BY <2>1, <2>3 DEF Rejected, EmptyResult, Accepted
    <2> QED
      BY <2>2, <2>3
  <1> HIDE DEF result
  <1> QED
    BY <1>1, <1>3, EncodedKind

LEMMA TransformKind ==
    ASSUME NEW v \in Operand, NEW name \in Transforms, NEW power
    PROVE  Transform(name, v, power).kind # "CorruptStoredValue"
  <1>1. Transform(name, v, power) = AndThen(Remapped(name, Read(v), power), FromDomain)
    BY TransformIs
  <1>2. \A w, image : Remap(w, image).kind \in {"Ok", "Panic"}
    BY DEF Remap, Accepted, Rejected
  <1>3. Remapped(name, Read(v), power).kind \in {"Ok", "Panic", "Transform"}
    BY <1>2 DEF Remapped, NormalizeMembership, ConcentrateMembership, DilateMembership, Accepted,
       Rejected, Transforms
  <1> QED
    BY <1>1, <1>3, EncodedKind

\* Of what a statement reads of the table, it can decode everything.
LEMMA OnlyInputFindsCorrupt ==
    ASSUME TableInv, ExtNext, ended' = "CorruptStoredValue"
    PROVE  call' = "input"
  <1>1. ASSUME NEW name, NEW into, NEW result, Run(name, into, result)
        PROVE  result.kind = "CorruptStoredValue" /\ call' = name
    BY <1>1 DEF Run
  <1>2. \A id \in Filled : Stored(id) \in Operand
    BY StoredIsOperand
  <1>3. CASE \E into \in RowId : InsertGeoms(into)
    BY <1>1, <1>3, GeomsKind DEF InsertGeoms
  <1>4. CASE \E into \in RowId : InsertLiteral(into)
    BY <1>1, <1>4 DEF InsertLiteral
  <1>5. CASE \E o \in Operations, a, b \in Filled, into \in RowId : SelectSetFunction(o, a, b, into)
    BY <1>1, <1>2, <1>5, SetFunctionKind DEF SelectSetFunction, Stored
  <1>6. CASE \E a \in Filled, into \in RowId : SelectNormalize(a, into)
    BY <1>1, <1>2, <1>6, TransformKind DEF SelectNormalize, Stored, Transforms
  <1>7. CASE \E a \in Filled, into \in RowId : SelectConcentrate(a, into)
    BY <1>1, <1>2, <1>7, TransformKind DEF SelectConcentrate, Stored, Transforms
  <1>8. CASE \E a \in Filled, into \in RowId : SelectDilate(a, into)
    BY <1>1, <1>2, <1>8, TransformKind DEF SelectDilate, Stored, Transforms
  <1>9. CASE \/ \E name \in FunctionNames : Abort(name)
             \/ DumpRestore
    BY <1>9 DEF Abort, DumpRestore
  <1> QED
    BY <1>3, <1>4, <1>5, <1>6, <1>7, <1>8, <1>9 DEF ExtNext

\* A restore of the whole table never fails and keeps every level, however the
\* rows came about: what a row is dumped as is read back as that row.
THEOREM RestoresKeepLevels == ExtSpec => RestoreKeepsLevels
  <1>1. TableInv /\ [ExtNext]_extVars =>
            [call' = "restore" =>
                /\ ended' = "Ok"
                /\ \A id \in Filled :
                       /\ rows'[id][1].levels = Stored(id).levels
                       /\ id \in NonEmpty => rows'[id] = rows[id]]_extVars
    <2> SUFFICES ASSUME TableInv, [ExtNext]_extVars, UNCHANGED extVars => FALSE, call' = "restore",
                        NEW id \in Filled
                 PROVE  /\ ended' = "Ok"
                        /\ rows'[id][1].levels = Stored(id).levels
                        /\ id \in NonEmpty => rows'[id] = rows[id]
      BY RestoreStep DEF extVars
    <2>1. ended' = "Ok" /\ rows'[id] = Row(Read(Stored(id)))
      BY RestoreStep DEF extVars
    <2>2. Stored(id) \in Operand /\ Read(Stored(id)).levels = Stored(id).levels
      BY StoredIsOperand, ReadIsOperand
    <2>3. rows[id] = Row(Stored(id))
      BY DEF Filled, TableInv, Stored, Row
    <2>4. id \in NonEmpty => Read(Stored(id)) = Stored(id)
      BY DEF NonEmpty, Read
    <2> QED
      BY <2>1, <2>2, <2>3, <2>4 DEF Row
  <1> QED
    BY TableInvariant, <1>1, PTL DEF ExtSpec, RestoreKeepsLevels

=============================================================================
