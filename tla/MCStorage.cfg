SPECIFICATION StorageSpec
CONSTANTS
    AlphaUnits = {1, 2}
    Magic = 2
    Version = 1
    MaxU32 = 2
    NoSrid = NoSrid
    Payloads <- MCPayloads
    Bodies <- MCBodies
INVARIANTS
    StorageTypeOK
    RoundTrip
    AcceptsOnlyEncodings
    LevelsFitBody
    ReservesForItsLevels
PROPERTY
    DecodeReturns
