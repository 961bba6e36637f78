SPECIFICATION ExtSpec
CONSTANTS
    Cells = {1, 2}
    CellPlaces <- MCPlaces
    CellSrids = {4326, 3857}
    Geometry <- CellGeometries
    Place <- MCPlaces
    Srid = {4326, 3857}
    NoSrid = NoSrid
    Normalize <- CellNormalize
    IsEmpty <- CellIsEmpty
    SridOf <- CellSridOf
    TopoEquals <- CellEquals
    Covers <- CellCovers
    CoversPlace <- CellCoversPlace
    EngineUnion <- CellUnion
    EngineIntersection <- CellIntersection
    EngineDifference <- CellDifference
    Area <- CellArea
    BoundingBox <- CellEnvelope
    One = 8
    Infinity = 24
    Alpha <- MCAlphas
    FloatBits = 3
    Precision = 1
    OneMinus <- FloatOneMinus
    Divide <- FloatDivide
    Powf <- FloatPower
    Rootf <- FloatRoot
    RowId = {1, 2}
    LevelArgs <- MCLevelArgs
    Literals <- MCLiterals
    Powers <- MCPowers
    NullArg = NullArg
    NoBytes = NoBytes
INVARIANT DilatedUniqueByAlpha
