----------------------------- MODULE MCTextFormat -----------------------------
(***************************************************************************)
(* TextFormat on payloads of up to two levels and on every text one or two *)
(* tokens away from a text of theirs: inserted, replaced, or left out.     *)
(***************************************************************************)
EXTENDS TextFormat, Decimals

MCToken == STRING

\* The tokens that are inserted.
MCTokens ==
    {Prefix, LevelsMarker, Space, Null, Bracket, Comma, Colon, ".", "-", "+", "0", "1", "5", "a", "A", "g",
     "NaN", "inf"}

MCI32 == -MaxInt - 1 .. MaxInt

MCSrids == {NoSrid, 1, -5, 50, -51}

MCBytes == {<<>>, <<26>>, <<0, 161>>, <<16, 1, 170, 90>>}

MCLevels == [alpha : {100, 51, 50, 5}, ewkb : MCBytes]

MCPayloads ==
    [srid : MCSrids, levels : {<<>>} \cup {<<l>> : l \in MCLevels} \cup {<<l, m>> : l, m \in MCLevels}]

\* The texts that are edited.
Edited ==
    {ToText([srid |-> NoSrid, levels |-> <<>>]),
     ToText([srid |-> -5, levels |-> <<[alpha |-> 50, ewkb |-> <<26>>]>>]),
     ToText([srid |-> 50, levels |-> <<[alpha |-> 100, ewkb |-> <<26>>],
                                       [alpha |-> 51, ewkb |-> <<0, 161>>],
                                       [alpha |-> 5, ewkb |-> <<170>>]>>])}

Edits(s, tokens) ==
    {InsertAt(s, k, c) : k \in 1..Len(s) + 1, c \in tokens}
    \cup {[s EXCEPT ![k] = c] : k \in 1..Len(s), c \in tokens}
    \cup {RemoveAt(s, k) : k \in 1..Len(s)}

\* The second edit, of the shorter texts only, puts a comma or a digit somewhere, or
\* drops a token.
MCTexts ==
    LET once == [s \in Edited |-> Edits(s, MCTokens)]
    IN UNION {once[s] : s \in Edited}
       \cup UNION {UNION {Edits(t, {Comma, "1"}) : t \in once[s]} :
                   s \in {u \in Edited : Len(u) < 12}}
=============================================================================
