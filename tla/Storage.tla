-------------------------------- MODULE Storage --------------------------------
(***************************************************************************)
(* The binary payload of a stored fuzzyregion (fuzzyregion-pg/src/         *)
(* storage.rs): encode_body, and decode_body with its BodyReader, one      *)
(* action per field it reads.                                              *)
(*                                                                         *)
(* A body is a sequence of units.  Every fixed-width field takes one unit, *)
(* an EWKB byte takes one; units are unsigned, so a reader that is out of  *)
(* step takes any unit for any field, as the real one does with bytes.     *)
(* Counts and lengths are unsigned fields of MaxU32 + 1 values.            *)
(***************************************************************************)
EXTENDS StoredPayload

CONSTANTS
    AlphaUnits,  \* units that decode to an alpha in (0, 1]
    Magic, Version, \* STORAGE_MAGIC, StorageVersion::V1
    Payloads,    \* [srid, levels] records given to StoredFuzzyregion::new
    Bodies       \* bodies read back without having been written here

ASSUME StorageAssumption ==
    /\ AlphaUnits \subseteq Nat
    /\ Magic \in Nat
    /\ Version \in Nat
    /\ Payloads \subseteq [srid : Nat \cup {NoSrid}, levels : Seq([alpha : AlphaUnits, ewkb : Seq(Nat)])]
    /\ Bodies \subseteq Seq(Nat)

-----------------------------------------------------------------------------
\* Writing.

\* "as u32"
AsU32(n) == n % (MaxU32 + 1)

\* Mutant: the length of the EWKB is not written.
EncodeLevelUnprefixed(l) == <<l.alpha>> \o l.ewkb

EncodeLevel(l) == <<l.alpha, AsU32(Len(l.ewkb))>> \o l.ewkb

EncodeBody(v) ==
    <<Magic, Version, IF v.srid = NoSrid THEN 0 ELSE 1, 0, AsU32(Len(v.levels))>>
    \o (IF v.srid = NoSrid THEN <<>> ELSE <<v.srid>>)
    \o FlattenSeq([k \in DOMAIN v.levels |-> EncodeLevel(v.levels[k])])

-----------------------------------------------------------------------------
\* Reading.

VARIABLES
    written,  \* the payload the body was encoded from, <<>> for any other body
    body,     \* the units to decode
    field,    \* the field decode_body reads next
    offset,   \* BodyReader.offset
    hasSrid,  \* FLAG_HAS_SRID of the header
    count,    \* level_count
    srid,     \* the SRID read
    got,      \* "levels", the levels read so far
    result    \* Pending until decode_body returns

readVars == <<offset, hasSrid, count, srid, got>>
storageVars == <<written, body, field, readVars, result>>

Unread == [kind |-> "Pending"]

StorageInit ==
    /\ written = <<>>
    /\ body = <<>>
    /\ field = "none"
    /\ offset = 0
    /\ hasSrid = FALSE
    /\ count = 0
    /\ srid = NoSrid
    /\ got = <<>>
    /\ result = Unread

Finish(r) == result' = r /\ field' = "none"

\* into_datum of a payload that could be built, then from_polymorphic_datum.
Write(v) ==
    /\ field = "none" /\ result = Unread
    /\ IF NewStored(v).kind = "Ok"
       THEN /\ written' = <<v>>
            /\ body' = EncodeBody(v)
            /\ field' = "magic"
            /\ UNCHANGED <<readVars, result>>
       ELSE /\ Finish(NewStored(v))
            /\ UNCHANGED <<written, body, readVars>>

Read(units) ==
    /\ field = "none" /\ result = Unread
    /\ body' = units
    /\ field' = "magic"
    /\ UNCHANGED <<written, readVars, result>>

Unit == body[offset + 1]

\* Mutant: a length field that reaches past the end is not noticed.
TruncatedFieldsOnly ==
    /\ field \notin {"none", "ewkb", "end"}
    /\ offset + 1 > Len(body)
    /\ Finish(Failed("Truncated"))
    /\ UNCHANGED <<written, body, readVars>>

Truncated ==
    /\ field \notin {"none", "end"}
    /\ offset + (IF field = "ewkb" THEN got[Len(got)].len ELSE 1) > Len(body)
    /\ Finish(Failed("Truncated"))
    /\ UNCHANGED <<written, body, readVars>>

\* The unit read is accepted, or decode_body returns the error.
ReadUnit(name, ok, error, next) ==
    /\ field = name
    /\ offset < Len(body)
    /\ offset' = offset + 1
    /\ IF ok THEN field' = next /\ UNCHANGED result ELSE Finish(Failed(error))
    /\ UNCHANGED <<written, body>>

\* Mutant: one level more than the header counts.
LevelOrEndInclusive(read, levels) == IF levels <= read THEN "alpha" ELSE "end"

\* The next level, or the end of the body when all are read.
LevelOrEnd(read, levels) == IF levels < read THEN "alpha" ELSE "end"

ReadMagic ==
    /\ ReadUnit("magic", Unit = Magic, "InvalidMagic", "version")
    /\ UNCHANGED <<hasSrid, count, srid, got>>

ReadVersion ==
    /\ ReadUnit("version", Unit = Version, "UnsupportedVersion", "flags")
    /\ UNCHANGED <<hasSrid, count, srid, got>>

ReadFlags ==
    /\ ReadUnit("flags", Unit \in {0, 1}, "UnsupportedFlags", "reserved")
    /\ hasSrid' = (Unit = 1)
    /\ UNCHANGED <<count, srid, got>>

ReadReserved ==
    /\ ReadUnit("reserved", Unit = 0, "NonZeroReservedHeader", "count")
    /\ UNCHANGED <<hasSrid, count, srid, got>>

ReadCount ==
    /\ ReadUnit("count", TRUE, "", IF hasSrid THEN "srid" ELSE LevelOrEnd(Unit, 0))
    /\ count' = Unit
    /\ UNCHANGED <<hasSrid, srid, got>>

ReadSrid ==
    /\ ReadUnit("srid", TRUE, "", LevelOrEnd(count, 0))
    /\ srid' = Unit
    /\ UNCHANGED <<hasSrid, count, got>>

ReadAlpha ==
    /\ ReadUnit("alpha", Unit \in AlphaUnits, "InvalidAlpha", "len")
    /\ got' = Append(got, [alpha |-> Unit, len |-> 0, ewkb |-> <<>>])
    /\ UNCHANGED <<hasSrid, count, srid>>

ReadLen ==
    /\ ReadUnit("len", TRUE, "", "ewkb")
    /\ got' = [got EXCEPT ![Len(got)].len = Unit]
    /\ UNCHANGED <<hasSrid, count, srid>>

\* read_vec and StoredLevel::new
ReadEwkb ==
    /\ field = "ewkb"
    /\ LET len == got[Len(got)].len
           ewkb == SubSeq(body, offset + 1, offset + len)
       IN /\ offset + len <= Len(body)
          /\ offset' = offset + len
          /\ got' = [got EXCEPT ![Len(got)].ewkb = ewkb]
          /\ IF StoredLevelError(ewkb) = "None"
             THEN field' = LevelOrEnd(count, Len(got)) /\ UNCHANGED result
             ELSE Finish(Failed(StoredLevelError(ewkb)))
    /\ UNCHANGED <<written, body, hasSrid, count, srid>>

ReadPayload ==
    [srid |-> srid,
     levels |-> [k \in DOMAIN got |-> [alpha |-> got[k].alpha, ewkb |-> got[k].ewkb]]]

\* Mutant: trailing bytes are ignored.
EndOfBodyLenient ==
    /\ field = "end"
    /\ Finish(ValidateLevels(ReadPayload))
    /\ UNCHANGED <<written, body, readVars>>

\* Trailing bytes are an error; then with_version validates the levels.
EndOfBody ==
    /\ field = "end"
    /\ Finish(IF offset # Len(body) THEN Failed("TrailingBytes") ELSE ValidateLevels(ReadPayload))
    /\ UNCHANGED <<written, body, readVars>>

DecodeStep ==
    \/ Truncated
    \/ ReadMagic
    \/ ReadVersion
    \/ ReadFlags
    \/ ReadReserved
    \/ ReadCount
    \/ ReadSrid
    \/ ReadAlpha
    \/ ReadLen
    \/ ReadEwkb
    \/ EndOfBody

StorageNext ==
    \/ \E v \in Payloads : Write(v)
    \/ \E units \in Bodies : Read(units)
    \/ DecodeStep
    \/ result # Unread /\ UNCHANGED storageVars

StorageSpec == StorageInit /\ [][StorageNext]_storageVars /\ WF_storageVars(DecodeStep)

-----------------------------------------------------------------------------

\* The variables have their types, and the reader stays inside the body.
StorageTypeOK ==
    /\ field \in {"none", "magic", "version", "flags", "reserved", "count", "srid",
                  "alpha", "len", "ewkb", "end"}
    /\ body \in Seq(Nat)
    /\ offset \in 0..Len(body)
    /\ count \in Nat
    /\ Len(got) <= count

\* A payload that could be built is read back as it was: no field of the body is
\* cut short or read for another, at the limits of the u32 fields too.
RoundTrip ==
    written # <<>> /\ result # Unread => result = Decoded(written[1])

\* decode_body accepts no body but the encoding of the value it returns: nothing
\* it skipped, ignored or read twice, so one value has one body.
AcceptsOnlyEncodings ==
    result.kind = "Ok" =>
        /\ NewStored(result.value).kind = "Ok"
        /\ EncodeBody(result.value) = body

\* A level takes three units of a body at least (13 bytes), and a body with levels
\* a header of six (16 bytes).  A datum has at most 1 GB, so a value that was read
\* has far fewer than 2^31 levels: what the expect of fuzzyregion_num_levels
\* (api.rs:101) rests on, where the format admits 2^32 - 1.
LevelsFitBody ==
    result.kind = "Ok" /\ result.value.levels # <<>> =>
        3 * Len(result.value.levels) + 6 <= Len(body)

\* Vec::with_capacity(level_count) reserves what the header asks for, before a
\* level is read: for a body that was written here, never more than it holds.
ReservesForItsLevels ==
    written # <<>> /\ count # 0 => 3 * count + 6 <= Len(body)

\* Whatever the body, decode_body returns.
DecodeReturns == field = "magic" ~> result # Unread
=============================================================================
