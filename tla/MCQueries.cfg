SPECIFICATION ExtSpec
CONSTANTS
    Cells = {1, 2, 3}
    CellPlaces <- MCPlaces
    CellSrids = {4326, 3857}
    Geometry <- CellGeometries
    Place <- MCPlaces
    Srid = {4326, 3857}
    NoSrid = NoSrid
    Normalize <- CellNormalize
    IsEmpty <- CellIsEmpty
    SridOf <- CellSridOf
    TopoEquals <- CellEquals
    Covers <- CellCovers
    CoversPlace <- CellCoversPlace
    EngineUnion <- CellUnion
    EngineIntersection <- CellIntersection
    EngineDifference <- CellDifference
    Area <- CellArea
    BoundingBox <- CellEnvelope
    One = 4
    Infinity = 8
    Alpha <- MCAlphas
    FloatBits = 2
    Precision = 1
    OneMinus <- FloatOneMinus
    Divide <- FloatDivide
    Powf <- FloatPower
    Rootf <- FloatRoot
    RowId = {1, 2}
    LevelArgs <- MCLevelArgs
    Literals <- MCLiterals
    Powers <- MCPowers
    NullArg = NullArg
    NoBytes = NoBytes
    EmptyMultipolygon <- CellEmptyMultipolygon
    QueryThresholds <- F64
    Points <- MCPoints
    MaxI32 = 3
INVARIANTS
    CutsMatchMembership
    MeasuresOfCuts
    CutsChangeAtAlphas
    ProjectionsCarrySrid
    DescriptionsAgree
