------------------------------ MODULE TextFormat ------------------------------
(***************************************************************************)
(* The text form of a stored fuzzyregion (fuzzyregion-pg/src/sql_type.rs): *)
(* to_text, and parse_text as a call that reads the envelope, then one     *)
(* entry per step, then builds the value.                                  *)
(*                                                                         *)
(* A text is a sequence of tokens: the prefix, the marker and the words    *)
(* that numbers can contain are tokens, anything else is a character.  The *)
(* two hex errors, odd length and bad digit, are one error here.           *)
(***************************************************************************)
EXTENDS StoredPayload, Alphas

CONSTANTS
    Token,                        \* the tokens of texts
    ShowFloat(_), ReadFloat(_),   \* Display and from_str of f64
    ShowInt(_), ReadInt(_),       \* Display and from_str of i32
    I32,                          \* the values of i32
    Payloads,                     \* [srid, levels] records
    Texts                         \* texts to_text has not written

\* TEXT_PREFIX and TEXT_LEVELS_MARKER
Prefix == "v1;srid="
LevelsMarker == ";levels=["

Comma == ","
Colon == ":"
Bracket == "]"
Null == "null"
Space == " "

\* The tokens between the parts of a text.
Separators == {Prefix, LevelsMarker, Comma, Colon, Bracket}

Text == Seq(Token)

\* A text without separators.
Clean == Seq(Token \ Separators)

HexLower == <<"0", "1", "2", "3", "4", "5", "6", "7", "8", "9", "a", "b", "c", "d", "e", "f">>
HexUpper == <<"0", "1", "2", "3", "4", "5", "6", "7", "8", "9", "A", "B", "C", "D", "E", "F">>

ASSUME TokenAssumption ==
    Separators \cup {Space, Null} \cup ToSet(HexLower) \cup ToSet(HexUpper) \subseteq Token

\* What Display writes of a number is no word and holds no separator, and
\* from_str reads it as that number.
ASSUME NumeralAssumption ==
    /\ I32 \subseteq Int
    /\ ReadInt(<<Null>>) = {}
    /\ \A n \in I32 : ShowInt(n) \in Clean /\ ReadInt(ShowInt(n)) = {n}
    /\ \A x \in 1..One : ShowFloat(x) \in Clean /\ ReadFloat(ShowFloat(x)) = {x}

\* Between two separators of a text from_str reads at most one number, and then no
\* separator.
ASSUME TextsAssumption ==
    /\ Payloads \subseteq [srid : I32 \cup {NoSrid},
                           levels : Seq([alpha : 1..One, ewkb : Seq(0..255)])]
    /\ Texts \subseteq Text
    /\ \A t \in Texts : \A i, j \in {k \in DOMAIN t : t[k] \in Separators} :
           LET part == SubSeq(t, i + 1, j - 1)
           IN /\ \A n \in ReadInt(part) : n \in I32 /\ ReadInt(part) = {n} /\ part \in Clean
              /\ \A x \in ReadFloat(part) : x \in F64 /\ ReadFloat(part) = {x} /\ part \in Clean

-----------------------------------------------------------------------------
\* Writing.

\* encode_hex
EncodeHex(bytes) ==
    FlattenSeq([k \in DOMAIN bytes |-> <<HexLower[(bytes[k] \div 16) + 1], HexLower[(bytes[k] % 16) + 1]>>])

\* Mutant: there is a comma after every level, the last one included.
JoinTrailing(entries) == FlattenSeq([k \in DOMAIN entries |-> entries[k] \o <<Comma>>])

\* join(",")
Join(entries) ==
    FlattenSeq([k \in DOMAIN entries |-> IF k = 1 THEN entries[k] ELSE <<Comma>> \o entries[k]])

\* Fuzzyregion::to_text
ToText(v) ==
    <<Prefix>> \o (IF v.srid = NoSrid THEN <<Null>> ELSE ShowInt(v.srid)) \o <<LevelsMarker>>
    \o Join([k \in DOMAIN v.levels |->
                 ShowFloat(v.levels[k].alpha) \o <<Colon>> \o EncodeHex(v.levels[k].ewkb)])
    \o <<Bracket>>

-----------------------------------------------------------------------------
\* Reading.  What a function may not find is a set of at most one result.

\* str::trim
Trimmed(s) ==
    LET ink == {k \in DOMAIN s : s[k] # Space}
    IN IF ink = {} THEN <<>> ELSE SubSeq(s, Min(ink), Max(ink))

\* The places of the tokens in separators, from the first to the last.
Places(s, separators) ==
    FlattenSeq([k \in DOMAIN s |-> IF s[k] \in separators THEN <<k>> ELSE <<>>])

\* The pieces of s between the tokens in separators.
Pieces(s, separators) ==
    LET ends == Append(Places(s, separators), Len(s) + 1)
    IN [i \in DOMAIN ends |-> SubSeq(s, IF i = 1 THEN 1 ELSE ends[i - 1] + 1, ends[i] - 1)]

\* The prefix, the first marker after it, and the bracket that ends the text.
Envelope(s) ==
    LET t == Trimmed(s)
        marker == SelectInSeq(t, LAMBDA c : c = LevelsMarker)
    IN IF t = <<>> \/ marker = 0 THEN {}
       ELSE IF Head(t) # Prefix \/ Last(t) # Bracket THEN {}
       ELSE {[srid |-> SubSeq(t, 2, marker - 1), levels |-> SubSeq(t, marker + 1, Len(t) - 1)]}

ReadSrid(s) == IF s = <<Null>> THEN {NoSrid} ELSE ReadInt(s)

\* Mutant: empty entries are skipped, so a comma may end the list.
EntriesLenient(s) == SelectSeq(Pieces(s, {Comma}), LAMBDA entry : entry # <<>>)

\* split(','), of a list that is not empty.
Entries(s) == IF s = <<>> THEN <<>> ELSE Pieces(s, {Comma})

\* decode_nibble
DecodeNibble(c) == {n \in 0..15 : c \in {HexLower[n + 1], HexUpper[n + 1]}}

\* Mutant: a digit without its pair is left over.
DecodeHexPairs(s) ==
    IF \E k \in DOMAIN s : DecodeNibble(s[k]) = {} THEN {}
    ELSE {[k \in 1..Len(s) \div 2 |->
              16 * Max(DecodeNibble(s[2 * k - 1])) + Max(DecodeNibble(s[2 * k]))]}

\* decode_hex
DecodeHex(s) ==
    IF Len(s) % 2 # 0 \/ \E k \in DOMAIN s : DecodeNibble(s[k]) = {} THEN {}
    ELSE {[k \in 1..Len(s) \div 2 |->
              16 * Max(DecodeNibble(s[2 * k - 1])) + Max(DecodeNibble(s[2 * k]))]}

Only(S) == CHOOSE x \in S : TRUE

\* One entry: split at its first colon, the alpha before the bytes.
ReadEntry(entry) ==
    LET colon == SelectInSeq(entry, LAMBDA c : c = Colon)
        alpha == ReadFloat(SubSeq(entry, 1, colon - 1))
        ewkb == DecodeHex(SubSeq(entry, colon + 1, Len(entry)))
    IN IF colon = 0 THEN Failed("InvalidLevelEntry")
       ELSE IF alpha = {} THEN Failed("InvalidAlpha")
       ELSE IF AlphaError(Only(alpha)) # "None" THEN Failed(AlphaError(Only(alpha)))
       ELSE IF ewkb = {} THEN Failed("InvalidHex")
       ELSE IF StoredLevelError(Only(ewkb)) # "None" THEN Failed(StoredLevelError(Only(ewkb)))
       ELSE Decoded([alpha |-> Only(alpha), ewkb |-> Only(ewkb)])

VARIABLES
    source,   \* <<the payload>> that to_text wrote, <<>> for any other text
    text,     \* the argument
    field,    \* what parse_text does next
    srid,     \* the SRID read
    entries,  \* what the split has still to give
    levels,   \* the levels read
    result    \* Pending until parse_text returns

textVars == <<source, text, field, srid, entries, levels, result>>

TextInit ==
    /\ \/ /\ source \in {<<v>> : v \in {w \in Payloads : NewStored(w).kind = "Ok"}}
          /\ text = ToText(source[1])
       \/ /\ source = <<>>
          /\ text \in Texts
    /\ field = "envelope"
    /\ srid = NoSrid
    /\ entries = <<>> /\ levels = <<>>
    /\ result = [kind |-> "Pending"]

Reply(answer) == result' = answer /\ field' = "done"

ReadEnvelope ==
    /\ field = "envelope"
    /\ \/ /\ Envelope(text) = {}
          /\ Reply(Failed("InvalidEnvelope"))
          /\ UNCHANGED <<srid, entries>>
       \/ \E envelope \in Envelope(text) :
              \/ /\ ReadSrid(envelope.srid) = {}
                 /\ Reply(Failed("InvalidSrid"))
                 /\ UNCHANGED <<srid, entries>>
              \/ /\ srid' \in ReadSrid(envelope.srid)
                 /\ entries' = Entries(envelope.levels)
                 /\ field' = "entries"
                 /\ UNCHANGED result
    /\ UNCHANGED <<source, text, levels>>

\* Mutant: an entry that cannot be read is passed over.
ReadLevelLenient ==
    /\ field = "entries"
    /\ entries # <<>>
    /\ entries' = Tail(entries)
    /\ levels' = LET level == ReadEntry(Head(entries))
                 IN IF level.kind = "Ok" THEN Append(levels, level.value) ELSE levels
    /\ UNCHANGED <<source, text, field, srid, result>>

ReadLevel ==
    /\ field = "entries"
    /\ entries # <<>>
    /\ LET level == ReadEntry(Head(entries))
       IN IF level.kind = "Ok"
          THEN /\ levels' = Append(levels, level.value)
               /\ entries' = Tail(entries)
               /\ UNCHANGED <<field, result>>
          ELSE /\ Reply(level)
               /\ UNCHANGED <<levels, entries>>
    /\ UNCHANGED <<source, text, srid>>

EndOfText ==
    /\ field = "entries"
    /\ entries = <<>>
    /\ Reply(NewStored([srid |-> srid, levels |-> levels]))
    /\ UNCHANGED <<source, text, srid, entries, levels>>

ParseStep == ReadEnvelope \/ ReadLevel \/ EndOfText

TextNext == ParseStep \/ (field = "done" /\ UNCHANGED textVars)

TextSpec == TextInit /\ [][TextNext]_textVars

-----------------------------------------------------------------------------

\* A value that parse_text answers can be stored, and its canonicalization is
\* asked about proper levels only: falling alphas in (0, 1] however they were
\* spelled, bytes for each that a u32 can count, an SRID if there are any.
ParsedValueIsStorable ==
    result.kind = "Ok" =>
        LET v == result.value
        IN /\ v.levels # <<>> => v.srid # NoSrid
           /\ \A l \in ToSet(v.levels) : l.alpha \in 1..One /\ Len(l.ewkb) \in 1..MaxU32
           /\ \A j, k \in DOMAIN v.levels : j < k => v.levels[k].alpha < v.levels[j].alpha

\* The payload to_text writes is the payload parse_text reads, for every value
\* that can be stored.
TextRoundTrip ==
    source # <<>> /\ field = "done" => result = Decoded(source[1])

\* The separators of a text, in order.
Skeleton(s) == [i \in DOMAIN Places(s, Separators) |-> s[Places(s, Separators)[i]]]

\* Two ways to write a number, or the same digits in two cases.
SameSpelling(p, q) ==
    \/ p = q
    \/ ReadInt(p) = ReadInt(q) /\ ReadInt(p) # {}
    \/ ReadFloat(p) = ReadFloat(q) /\ ReadFloat(p) # {}
    \/ /\ Len(p) = Len(q)
       /\ \A k \in DOMAIN p : DecodeNibble(p[k]) = DecodeNibble(q[k]) /\ DecodeNibble(p[k]) # {}

\* parse_text reads all of a text or refuses it: an accepted text is piece by
\* piece what to_text writes for its value, but for the white space around it,
\* the case of hex digits and the spelling of numbers.
ReadsWholeText ==
    result.kind = "Ok" =>
        LET given == Trimmed(text)
            shown == ToText(result.value)
        IN /\ Skeleton(given) = Skeleton(shown)
           /\ \A k \in DOMAIN Pieces(shown, Separators) :
                  SameSpelling(Pieces(given, Separators)[k], Pieces(shown, Separators)[k])
=============================================================================
