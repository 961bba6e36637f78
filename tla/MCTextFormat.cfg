SPECIFICATION TextSpec
CONSTANTS
    One = 100
    Infinity = 1000000000
    MaxU32 = 3
    NoSrid = NoSrid
    MaxInt = 50
    Token <- MCToken
    ShowFloat <- DecimalShowFloat
    ReadFloat <- DecimalReadFloat
    ShowInt <- DecimalShowInt
    ReadInt <- DecimalReadInt
    I32 <- MCI32
    Payloads <- MCPayloads
    Texts <- MCTexts
INVARIANTS
    ParsedValueIsStorable
    TextRoundTrip
    ReadsWholeText
