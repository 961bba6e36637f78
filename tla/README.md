# A TLA+ model of fuzzyregion

fuzzyregion is a PostgreSQL extension for *fuzzy regions*: areas whose
membership is a number in [0, 1], stored as a list of crisp multipolygons
("levels"), one per membership value alpha, each strictly inside those of lower
alphas. The crate `fuzzyregion-core` holds the domain model, generic in a
geometry engine; the crate `fuzzyregion-pg` supplies PostGIS as the engine, a
binary storage format, the SQL type and its functions.

Paths below are relative to `src/crates/`.

## Inventory

| Component | State | Operations | What makes it correct |
|---|---|---|---|
| Geometry engine, `fuzzyregion-core/src/engine.rs` | none | normalize, is_empty, srid, topologically_equals, contains, contains_point, union, intersection, difference, area, bounding_box | a contract the core relies on: normalizing is idempotent, coverage is a preorder whose equivalence is topological equality |
| Alphas, `alpha.rs` | none | validated f64 in (0, 1], thresholds in [0, 1] | the range check; the total order |
| Values, `fuzzyregion.rs`, `level.rs` | an SRID and a list of levels | support, core, alpha_cut, strict_alpha_cut, membership_at | cuts and membership say the same of every place |
| Canonicalization, `fuzzyregion.rs:52-137` | four loops over the levels of one call | canonicalize, from_levels | the result keeps every promise of the type, means what the input meant, and depends on no order |
| Set operations, `fuzzyregion.rs:289-440` | a loop over the alphas of both operands | union, intersection, difference | closed, with the membership functions of fuzzy set theory |
| Transforms, `fuzzyregion.rs:258-287, 442-474` | none | normalize, concentrate, dilate | extents unchanged, order of alphas kept |
| Storage, `fuzzyregion-pg/src/storage.rs` | a reader over bytes | new, encode_body, decode_body | written and read back unchanged; nothing else accepted |
| PostGIS adapter, `interop.rs` | none | the engine in SQL, stored to domain and back | reading canonicalizes; conversions lose nothing |
| Text form, `sql_type.rs:106-164` | a parser over a text | to_text, parse_text | written and read back unchanged; a text is read as a whole or refused |
| SQL functions that compute a value, `sql_type.rs`, `api.rs` | the rows of a user's tables, the locals of the statement that runs | input, output, from_geoms, set functions, transforms | rows stay canonical and readable whatever statements run and wherever they fail |
| SQL functions that read, `api.rs`, `sql_type.rs:71-104` | none | support, core, alpha_cut, area_at, bbox, membership_at, levels, alphas and counts, validate, to_jsonb | those that read the payload and those that read the canonicalized value agree |

How they interact. A SQL call decodes its arguments from bytes (`decode_body`),
turns each into a domain value by canonicalizing it again (`to_domain`), runs the
core operation, which asks the engine and calls `canonicalize` at its end, and
encodes the result (`from_domain`, which validates the order of the levels). The
projections (support, core, alpha_cut) read the stored payload directly instead.
Every question to the engine is a SQL query through SPI and can fail; the error
is passed up with `?` and PostgreSQL aborts the statement.

What is hard here. Nothing runs concurrently: a call is sequential, and its only
shared state is the table, changed a statement at a time. The hard parts are
others: a call that fails between two engine calls; promises about every pair of
levels kept by comparing neighbours only; loops whose order decides which error a
caller sees; the f64 arithmetic of alphas (complements that round, powers that
underflow or meet); a stored value that is re-canonicalized at each use, while
other functions read it raw; SRIDs that live both in the payload and in the
geometries; fixed-width fields at their limits. They are listed line by line as
`hazards` in `PROJECT.json`.

## The modules

Each module EXTENDS those indented above it and named beside it.

    GeometryEngine, Alphas
      Fuzzyregion
        Canonicalization          INSTANCE CanonicalizationContract
        FuzzySets
          FuzzyregionProofs
          SetOperation            (+ Canonicalization)
            SetOperationProofs    (+ FuzzyregionProofs; of Canonicalization too)
            ExactOverlays
            ClosureProofs         (SetOperationProofs, ExactOverlays, ExtensionProofs)
        MembershipTransforms
        Extension                 (FuzzySets, MembershipTransforms)
          ExtensionProofs         (+ FuzzyregionProofs)
          Queries
            QueriesProofs         (+ ExtensionProofs)
          SqlCall                 (Extension, SetOperation)
            SqlCallProofs         (+ SetOperationProofs, ExtensionProofs)
    StoredPayload
      Storage
        StorageProofs
      TextFormat                  (+ Alphas)
        TextFormatProofs
    CellGeometry, MiniFloat, Decimals: the engine, the arithmetic and the
                                  numerals TLC runs with

* **GeometryEngine** is the trait: constant operators, and the part of their
  contract the core needs as named assumptions. It is a parameter of the model as
  it is of the code, so the proofs hold for every engine that meets it.
* **CellGeometry** is the PostGIS engine on a plane of finitely many cells. A
  geometry is an SRID, a set of cells (its polygons) and a set of edges (the lines
  and points an overlay can leave). A place is the set of cells whose closure it
  is in, so places on common boundaries exist and closed polygons cover them.
  TLC checks that it meets GeometryEngine's assumptions.
* **MiniFloat** is f64 rounding at a precision TLC can enumerate: round to
  nearest, ties to even, underflow to 0. 1 - alpha, quotients, powers and roots
  of alphas are computed exactly and then rounded.
* **Alphas** is `alpha.rs`: which f64 values pass as an alpha, a threshold or a
  power. An f64 is its place in the order of `total_cmp`, so that NaN, the
  infinities and -0.0 are integers like the others; a/One is the integer a.
* **Fuzzyregion** has values, cuts, membership, the alpha domain, and
  `CanonicalOutcome`, what canonicalize answers for a raw list as a function of
  the *set* of its levels, written without loops. A cut is the index of a
  level, 0 for `None`.
* **Canonicalization** is `canonicalize` as a machine, one action per loop
  iteration: `NormalizeLevel`, `SortLevels`, `CheckDuplicates`, `CheckSrid`,
  `CollapseLevel`, `CheckNesting`, `Accept`, and `EngineFailure`, enabled
  wherever an engine call is due. `pc` is the loop the call is in, `levels` and
  `kept` are the code's `levels` and `collapsed`.
* **CanonicalizationContract** is what callers may rely on: one step from the raw
  levels to `CanonicalOutcome(raw)` or an engine error. `ImplementsContract`
  states that the machine implements it.
* **FuzzySets** gives the three set operations as functions; **SetOperation** runs
  them a threshold at a time and then runs the machine of Canonicalization on the
  gathered levels: `Canonicalize` is `CanonStep`, so engine failures happen inside.
* **ExactOverlays** adds the assumption that overlays are exact off the boundaries
  of their operands, which GeometryEngine does not make, to SetOperation. It is
  what the docs of the set operations argue with. **MCInexactOverlay** is the
  opposite: overlays that lose parts.
* **MembershipTransforms** has normalize, concentrate and dilate. A remapped
  alpha that is no alpha is the outcome "Panic", as in the code.
* **StoredPayload** is `StoredFuzzyregion::new` with its checks, in the order the
  code makes them. **Storage** is the codec. A body is a sequence of units, one per
  fixed-width field and one per EWKB byte, all integers: a decoder out of step
  reads any unit as any field. `field` is what decode_body reads next, `offset`
  is the reader's.
* **TextFormat** is the text syntax: `to_text`, and `parse_text` as a call that
  reads the envelope, then an entry per step, then builds the value. A text is a
  sequence of tokens, single characters but for the fixed parts and words. How
  numbers are written and read (`Display` and `from_str` of f64 and i32) is a
  parameter with assumptions; **Decimals** is the one TLC runs with.
* **Extension** is SQL with each statement in one step: a table, and statements
  that insert literals or `from_geoms` values, select set functions and
  transforms of rows into rows, and dump and restore the table as text. A failing
  statement leaves the table alone.
* **SqlCall** is the same statements as the runs of Rust calls they are. A
  statement canonicalizes each argument with the machine of Canonicalization
  (`ReadArgument`, `ReadStep`, `FinishRead`), runs the machine of SetOperation on
  the values read (`StartOperation`, `OperationStep`, `FinishOperation`) or
  computes a transform (`FinishOther`), and stores the answer. Every engine call
  inside can fail, which aborts the statement. `ImplementsStatements` states that
  it implements the next-state relation of Extension.
* **Queries** is what the reading functions answer for a row of Extension's table.

Definitions that end in a mutation of another one (`CheckNestingSwapped`,
`RightCutWeak`, ...) are marked "Mutant". No specification uses them; each is a
plausible bug that the property named beside it in `PROJECT.json` catches.

## What the runs check

| Run | Bounds | Result |
|---|---|---|
| canonicalization | 3 cells, every list of up to 3 of 18 levels (3 alphas, 6 geometries: a chain of polygons, another SRID, a polygon with a dangling edge, an edge alone) | passes, 59 511 states |
| set_operation | every pair of canonical values over 3 alphas and 3 cells (69 values with the empty ones and a second SRID), 3 operations; alphas 1/16, 6/16, 1 with 2-bit floats | passes, 379 961 states |
| inexact_overlay | as set_operation, with 2 alphas and overlays that lose a part of an extent, not the same of a larger one | passes, 53 134 states |
| storage | u32 fields end at 2; payloads of up to 3 levels and EWKBs of up to 3 bytes; all bodies of up to 12 units after a valid header start | passes, 46 276 states |
| extension | 2 rows, 2 cells, alphas 1/8, 1/4, 1/2, 1 with 1-bit floats, arguments with NULL, empty bytes, NaN and out-of-range numbers | passes, 13 296 states |
| queries | 2 rows, 3 cells in a row, alphas 1/4, 1/2, 1; thresholds and points of every kind; an i32 ends at 3 | passes, 6 688 states |
| sql_call | a statement on every table of 2 rows (absent, empty, a second SRID, one or two levels on 2 cells), alphas 1/4, 1/2, 1 with 1-bit floats; an engine failure at every call | passes, 517 682 states |
| text_format | payloads of up to two levels, floats in steps of 0.01, an i32 from -51 to 50; every text one edit away from one of three texts with 0, 1 and 3 levels, two edits from the shorter ones | passes, 56 905 states |
| difference_doc, text_lossless, remap_validity, dilated_unique | as the run of the same module | violated: see Findings |

**canonicalization.** `ResultCanonical`: every promise of the doc of
`Fuzzyregion`, for every pair of levels. `MembershipPreserved`: the result means
what the raw levels meant. `CanonicalUnchanged`: a canonical list comes back as
it is, on which every read of a stored value depends. `ComparesOneSrid`: no
predicate sees two SRIDs. `ImplementsContract`: order-free, with the documented
precedence of errors, and always answering. Three levels are the least at which
a level lies between two others (so that transitivity matters), two levels can
collapse under or over a third, and a defect of one kind can hide another.

**set_operation.** `Closed`: the levels gathered never fail canonicalize.
`MembershipOfResult`: maximum for the union, minimum for the intersection, and
for the difference min(a, 1 - b) lowered to an alpha of the operands; exact off
the boundaries, and on them never above what the operands allow. The alpha 1/16
has a complement that rounds to 1, and 6/16 one that is a tie, so rounding does
happen. `SridOfResult`: the SRID is kept.
`ComputesOutcome`: the call answers what FuzzySets says or an engine error. The
run also evaluates the assumption of ExactOverlays for CellGeometry.

**inexact_overlay.** Overlays compute with f64 coordinates, so the overlay of
two lower cuts need not contain that of two higher ones. `AnswersCanonical`: what
is answered is canonical even so. `RefusesOnlyUnnested`: the one new outcome is
`NonNestedLevels`. `Returns`: a call ends, whatever it meets. `Closed` and
`MembershipOfResult` do not hold here, which is what they need exact overlays for.

**storage.** `RoundTrip` with counts and lengths on both sides of the limit;
`AcceptsOnlyEncodings`: a body that decodes is *the* encoding of its value, so
there is one body per value; `DecodeReturns` on every body. `LevelsFitBody`: a
value that was read has three units of body per level, which is why the `expect`
of `fuzzyregion_num_levels` cannot fail for a 1 GB datum. `ReservesForItsLevels`:
for a body written here `Vec::with_capacity` reserves no more than it holds.

**extension.** `RowsReadBack`: no sequence of statements, restores included, stores
a value that canonicalize would refuse or change when it is read.
`TransformsKeepOrder`. `LatticeLaws`: union and intersection commute and absorb
each other level by level, however the rows came about: same alphas, and extents
that are topologically equal (PostGIS may write one polygon in several ways, so
not the same bytes). `SridFromLevels` pins what happens to the SRID of an empty operand.
`RestoreKeepsLevels`: dump and restore never fail and keep every level. One-bit
floats make alphas meet (dilating 1/2 by 2 gives 0.707, rounded to 1/2 or 1) and
underflow (1/8 squared) within four values; power 1 is the refused argument.

**queries.** `CutsMatchMembership`: the projections, which read the payload, agree
with membership_at, which reads the canonicalized value, at every place and every
threshold. `MeasuresOfCuts`: area_at measures the geometry alpha_cut gives, fails
where it fails, and falls as the threshold rises; bbox covers every cut.
`CutsChangeAtAlphas`: alpha_cut changes exactly at the alphas of the row. The
threshold is the f64 that was given, -0.0 included, through both readers up to
their `is_zero`, `==` and `>=`; so the zero branch must agree with the search, and
a comparison of bits is found. Comparing with `total_cmp` instead would be right
here, as no alpha lies between the two zeros. `ProjectionsCarrySrid`: empty
projections too. `DescriptionsAgree`: levels, alphas and counts (of the payload)
and validate and to_jsonb (of the value).

**sql_call.** `ImplementsStatements`: however an engine call fails in the middle,
a statement has the effect of one of Extension's or none; the atomic statements
the other runs use are right. `SqlTypeOK`: what a statement has read of its
arguments is canonical, in whatever order and however redundant they were given.
It also says that the machines are at their start between statements, which is
how the variables stand for the locals of a call: a run of one statement on every
table stands for all sequences of statements.
`EngineSeesOneSrid`: `to_domain` drops the SRID of an empty operand before the
core compares SRIDs, and still PostGIS never sees two. `RowsCanonical`: what is
stored is canonical. `OnlyLiteralsAreCorrupt`: so the message about a corrupt
stored value is an answer to a literal only.
`StatementReturns`: every statement ends.

**text_format.** `TextRoundTrip`: what to_text writes is read back as the payload
it was written for. `ReadsWholeText`: a text that is accepted is, piece by piece,
what to_text writes for the value, but for outer white space, the case of hex
digits and the spelling of numbers; the parser splits at commas without a grammar
and could skip an empty entry. `ParsedValueIsStorable`: NaN, infinities, signs and
-0 are accepted by `f64::from_str` and do not get into a value.

Two bounds that matter: a list has at most three levels in the runs, and a plane
three cells. The proofs remove both, and the limits on texts and bodies. Overlays
are exact in the runs other than inexact_overlay.

## Fairness and termination

A call is one sequential computation: `WF(CanonStep)`, `WF(SetStep)`,
`WF(DecodeStep)` and `WF(SqlStep)` say only that the caller keeps executing it. Loop bodies call
nothing that waits, so nothing stronger is assumed and nothing is assumed about
the caller: `Call`, `Write`, `Read` and the beginning of a SQL statement are not
fair. A statement inside PostgreSQL can be cancelled; that is an engine failure
here, since a cancelled query fails the call that made it. A
finished call stutters, which is the explicit last disjunct of each next-state
relation; deadlock is checked everywhere.

## What is proved

The theorems hold for every engine that meets GeometryEngine's assumptions, every
set of alphas, every set of inputs and lists and tables of any size.

**Values.** `FuzzyregionProofs` has no theorem of its own but the lemmas the others
keep needing: what `Min`, the selections and the cuts return, that reading a
place off the levels gives the highest alpha that covers it, that a finite set of
levels with alphas of their own has exactly one list from high to low
(`HighestFirst` is a CHOOSE; existence by growing the list, uniqueness by the least
index at which two lists differ), and which of its cases `CanonicalOutcome` takes.

**Canonicalize.** `SetOperationProofs`, first part:

* `TypeCorrect`: `Spec => []TypeOK`;
* `CanonicalResult`: `Spec => []ResultCanonical`;
* `MembershipIsPreserved`: `Spec => []MembershipPreserved`;
* `OneSridCompared`: `Spec => []ComparesOneSrid`;
* `CanonicalizeMeetsContract`: the machine implements the safety part of
  CanonicalizationContract;
* `CanonicalStaysUnchanged`: `Spec => []CanonicalUnchanged`.

None of these is inductive by itself: the result is built by four loops, and what
each leaves behind has to be carried to `Accept`. `CanonInv` says, loop by loop:
`levels` are the normalized first levels of `raw` (`NormalizeInv`); after the
sort the same levels in order (`SortInv`), which needs that a bijection of the
indices loses none; strictly in order once no neighbours are equal
(`DuplicateInv`); of one SRID up to the cursor (`SridInv`); the kept levels
*stand for* the first n levels (`StandsFor`): each of these has a kept level with
its extent and at least its alpha, each kept level is one of them, and neighbours
differ (`CollapseInv`); every level covers all those above it, up to the cursor
(`NestingInv`), by transitivity of coverage. At `Accept` strictness for all
pairs follows from strictness for neighbours: were two distant levels equal, all
between them would be equal too (`NestingIsStrict`). Membership is the highest
alpha among the levels that cover a place (`MembershipIsHighest`), for the raw
levels and the kept ones alike, and `StandsFor` carries it across.

The contract names errors by the *set* of the levels, the loops by the index they
stop at. The step from one to the other: the first defect of a loop that goes
down the sorted list is the highest; a duplicate of the raw list is one of the
sorted list; the kept level at which the nesting loop stops is the highest given
level that fails to contain one above it, and its neighbour stands for the lowest
of those above. `CanonicalUnchanged` follows, since `CanonicalOutcome` of a canonical list is
that list.

**Set operations.** `SetOperationProofs`, second part, still for every engine and
whatever its overlays cover:

* `SetTypeCorrect`: `SetSpec => []SetTypeOK`;
* `SetOperationsAnswerCanonical`: `SetSpec => []AnswersCanonical`;
* `OnlyNestingIsRefused`: `SetSpec => []RefusesOnlyUnnested`;
* `SridIsCommon`: `SetSpec => []SridOfResult`;
* `OperationsComputeOutcome`: `SetSpec => []ComputesOutcome`;
* `OverlaysAreOfOneSrid`: `SetSpec => []OverlaysOneSrid`.

The invariant `SetInv` is `CanonInv` of the machine inside, with `OperandInv` (the
operands are canonical and, once the loop runs, of compatible SRIDs), `GatherInv`
(the loop goes down through its alphas, so what it has gathered is strictly
descending and above all it has still to visit), `CallInv` (the levels of the
call are the gathered ones, so they are non-empty, of distinct alphas and of one
SRID, and the checks for these cannot fail) and `AnswerInv`. `LoopInv` adds that
the loop has gathered what each alpha it has visited contributes and nothing else;
with the contract of canonicalize this is `ComputesOutcome`.

**Closure.** `ClosureProofs`, for engines of exact overlays
(`ExactOverlayAssumption`):

* `SetOperationsAreClosed`: `SetSpec => []Closed`;
* `ResultMembership`: `SetSpec => []MembershipOfResult`;
* `SetFunctionsKeepSrid`: `ExtSpec => []SridFromLevels`;
* `LatticeLawsHold`: `ExtSpec => []LatticeLaws`.

A cut at t covers a place when the membership there is at least t (`CutCovers`),
so the level gathered at t covers the places where the operation's function
reaches t (`ThresholdCovers`). A lower threshold is reached where a higher one is,
`OneMinus` being antitone, so its level is the larger (`LowerIsLarger`): nesting
cannot be refused (`NestingHolds`). With `LoopInv` and `MembershipPreserved` of
canonicalize this gives the membership of the answer (`HighestReached`,
`AnswerMembership`). On boundaries an intersection can cover less and a
difference more, which is why the two have inequalities there. The same facts
about the function `SetOperationOutcome` are `OutcomeIsAccepted` and
`OutcomeReaches`. For the lattice laws, each level of a canonical value is the
highest one at some place off the boundaries (`LevelIsReached`, from strict
nesting), so two values with equal memberships have the same alphas, and then the
same extents (`MembershipDetermines`); the laws are those of maximum and minimum.

**The table.** `ExtensionProofs`, for every engine and whatever its overlays cover:

* `TableTypeCorrect`: `ExtSpec => []ExtTypeOK`;
* `TableStaysCanonical`: `ExtSpec => []RowsCanonical`;
* `StoredValuesReadBack`: `ExtSpec => []RowsReadBack`;
* `TransformsKeepTheOrder`: `ExtSpec => []TransformsKeepOrder`;
* `RestoresKeepLevels`: `ExtSpec => RestoreKeepsLevels`.

`TableInv`, every row absent or a canonical value, is inductive once each function
is known to answer one: literals and arrays because canonicalize accepted them,
set operations likewise, transforms because `NewStored` compares neighbours
(`NeighboursDescend`) and the extents are those of a canonical value. A canonical
row is read as it was written (`StoredIsRead`), so a function of stored values is
one of domain values, and the rest are facts about one canonical value.

**Queries.** `QueriesProofs`, from `TableInv` alone:

* `CutsAgreeWithMembership`: `ExtSpec => []CutsMatchMembership`;
* `MeasuresFollowCuts`: `ExtSpec => []MeasuresOfCuts`;
* `CutsChangeAtStoredAlphas`: `ExtSpec => []CutsChangeAtAlphas`;
* `ProjectionsKeepSrid`: `ExtSpec => []ProjectionsCarrySrid`;
* `DescriptionsAlwaysAgree`: `ExtSpec => []DescriptionsAgree`.

Each is a lemma about one canonical value read two ways (`CutsFollowMembership`,
`Measures`, `CutsDiffer`, `ProjectionSrid`, `Descriptions`). A threshold cuts where
its number does (`CutIsByNumber`), and the levels that reach it are those up to its
cut (`ReachingIs`), so two cuts are one index exactly when the same levels reach
them, and two indices are two geometries because nesting is strict
(`ProjectionsDiffer`). A lower threshold cuts at a later
level, which covers the earlier ones; that area grows with coverage and that a
bounding box covers what its geometry covers is assumed of the engine.

**Statements.** `SqlCallProofs`, for every engine and whatever its overlays cover:

* `SqlTypeCorrect`: `SqlSpec => []SqlTypeOK`;
* `StatementsKeepRowsCanonical`: `SqlSpec => []RowsCanonical`;
* `StatementsAskOfOneSrid`: `SqlSpec => []EngineSeesOneSrid`;
* `StatementsAreAtomic`: `SqlSpec => ImplementsStatements`, the refinement;
* `StoredValuesAreReadable`: `SqlSpec => OnlyLiteralsAreCorrupt`.

`SqlInv` is `CanonInv`, what the table holds, what the statement has read and has
still to read, and, while a set operation runs, the invariant of
SetOperationProofs without its initial state: its lemmas are about any canonical
operands. `ProgressInv` says which argument the running canonicalize reads, what
became of those before it, and what a running set operation is to answer; with the
contract of canonicalize and `ComputesOutcome` the last step of a statement is then
a step of Extension and every other one a stutter. `StoredValuesAreReadable` is a
property of Extension's steps carried over by the refinement.

**Storage.** `StorageProofs`, for bodies of any length and fields of any width:

* `StorageTypeCorrect`: `StorageSpec => []StorageTypeOK`, the reader stays in its
  slice on every body;
* `LevelsAreInTheBody`: `StorageSpec => []LevelsFitBody`;
* `BodiesAreEncodings`: `StorageSpec => []AcceptsOnlyEncodings`;
* `PayloadsRoundTrip`: `StorageSpec => []RoundTrip`;
* `ReservationsFit`: `StorageSpec => []ReservesForItsLevels`.

Three invariants, each on top of the one before: `StorageInv` (the fields read so
far, and three units at least per level), `TakenInv` (the units before `offset`
are what encode_body writes for what has been read; at the end that is the whole
body) and `WrittenInv` (of a body written from a payload, what has been read is
that payload's, so the next field is there and accepted). encode_body flattens a
list of levels, which is a recursion; the few facts needed of it (`FlattenIs`,
`EncodedNext`) are shown without induction, by the least prefix at which a
flattening and a sum of prefixes would differ.

**Text.** `TextFormatProofs`, for every set of payloads and of given texts, texts of
any length and values of any number of levels and bytes:

* `TextReadInOrder`: `TextSpec => []ParseInv`, the inductive invariant;
* `ParsedIsStorable`: `TextSpec => []ParsedValueIsStorable`;
* `TextRoundTrips`: `TextSpec => []TextRoundTrip`;
* `WholeTextIsRead`: `TextSpec => []ReadsWholeText`.

`ParseInv` says that the entries of the envelope are the levels read so far and
those still to read, in order (`Progress`), that each entry behind the cursor reads
as its level, that an answer is the value built of them, and that a written text is
not refused. Most of the work is below it: what the splits give. `Join`, `Pieces`
and `EncodeHex` flatten lists, so their lemmas say first how a result grows when
a token or an entry follows (`FlattenAppend`, `PiecesSeparator`, `PiecesGrow`,
`JoinAppend`), and then that splitting undoes joining and joining splitting
(`SplitJoin`, `JoinSplit`), likewise for hex (`HexRoundTrip`, `HexSpelling`). Induction along
a text is a set of texts that holds the empty one and is closed under one more
token (`SequenceInduction`). An accepted envelope is all of the trimmed text
(`EnvelopeWraps`), whichever text it is, and of a written text it is the one that
was written (`EnvelopeOfWrap`): an SRID has no marker in it. For `WholeTextIsRead` the
accepted text and the one written for the value are compared from left to right:
texts that are alike stay alike when a separator and two spellings of one thing
follow (`AlikeMore`). That the parts of a given text are numbers without
separators is `TextsAssumption`, which needs to know that every part the parser
reads lies between two separators of the text (`NumberIsPart`, `EntryInWrap`).

Assumed, each evaluated by TLC for the instance a run uses: of the engine,
`NormalizeAssumption`, `PredicateAssumption`, `CoversAssumption`,
`PlaceAssumption`, `OverlayAssumption` (an overlay stays in the SRID of its
operands), `MeasureAssumption` (areas grow with coverage, a bounding box covers
what its geometry covers), `EmptyMultipolygonAssumption` and, for ClosureProofs
only, `ExactOverlayAssumption`; of the arithmetic `AlphaAssumption`, `FloatRangeAssumption`,
`OneMinusAssumption`, `ArithmeticAssumption` and `RoundingAssumption` (a quotient,
power or root is not rounded past the alpha it moves away from); of the parameters
`NoSridAssumption`, `InputsAssumption`, `ValuesAssumption`, `ArgumentsAssumption`,
`QueryArgumentsAssumption`, `PayloadAssumption`, `StorageAssumption`,
`TokenAssumption` (the tokens the format uses are tokens), `NumeralAssumption` (a number
is written without separators and read back as itself, as `Display` and `from_str`
of Rust do it; "null" is no number), `TextsAssumption` (between two separators of a
given text `from_str` reads one number at most, and none from a part with a
separator in it), and `LevelCountAssumption` (the levels of a value fit an i32, as those of a datum of
1 GB do). Real PostGIS predicates meet what is assumed of the engine for valid
geometries up to the precision of coordinates; the overlays meet
`ExactOverlayAssumption` up to rounding only, and inexact_overlay and
SetOperationProofs say what is left without it.

Only model-checked: the liveness properties `Returns`, `DecodeReturns`,
`StatementReturns` and the answering part of `ImplementsContract`, which are out of
the prover's reach; and that `Decimals`, `CellGeometry` and `MiniFloat` meet what is
assumed of numerals, engines and arithmetic, for the instances the runs use. Every
invariant a passing run checks is a theorem.

## Findings

1. `difference` is documented as min(mu_self, 1 - mu_other)
   (`fuzzyregion.rs:343`), but results have levels at the operands' alphas only:
   1.0 minus 0.25 is 0.25 (run difference_doc).
2. The text syntax is documented as lossless (`sql_type.rs:11`), but an empty value
   loses its SRID through text output and input (run text_lossless).
3. The `expect` at `fuzzyregion.rs:452` fails when a power underflows to 0 (run
   remap_validity).
4. A transform can return a domain value with one alpha twice, against the
   guarantee of the type (`fuzzyregion.rs:36-40`); the SQL layer then refuses it
   (run dilated_unique).

## Not modelled

* JSON syntax, EWKT text, error texts and `Display` (`error.rs`, `lib.rs`): JSON
  exports are records here, errors are their kinds.
* SPI and PostgreSQL: a query answers or fails. EWKB is bytes in Storage and
  TextFormat, a geometry elsewhere.
* Numerals with exponents and with more decimals than the grid has; input that is
  not UTF-8, where the parser could split inside a character.
* Powers that are not whole numbers: the arithmetic of MiniFloat is exact before
  it rounds, which a real power is not.
* Memory, beyond what `ReservesForItsLevels` says: for a corrupt body
  `storage.rs:334` reserves what the header asks for.
* pgrx glue, demo data, scripts and containers: no behaviour of the program.

## Plan

Done: canonicalization, set operations with exact and inexact overlays, storage,
text, the SQL functions atomic and call by call, and the theorems above. What
could be added:

1. transforms with real powers, from an assumption about their rounding error in
   place of exact arithmetic;
2. numerals with exponents, for texts as other programs write them.
