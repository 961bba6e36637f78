SPECIFICATION SetSpec
CONSTANTS
    Cells = {1, 2, 3}
    CellPlaces <- MCPlaces
    CellSrids = {4326, 3857}
    Geometry <- CellGeometries
    Place <- MCPlaces
    Srid = {4326, 3857}
    NoSrid = NoSrid
    Normalize <- CellNormalize
    IsEmpty <- CellIsEmpty
    SridOf <- CellSridOf
    TopoEquals <- CellEquals
    Covers <- CellCovers
    CoversPlace <- CellCoversPlace
    EngineUnion <- CellUnion
    EngineIntersection <- CellIntersection
    EngineDifference <- CellDifference
    Area <- CellArea
    BoundingBox <- CellEnvelope
    One = 16
    Infinity = 48
    Alpha = {4, 16}
    FloatBits = 4
    Precision = 2
    OneMinus <- FloatOneMinus
    Inputs = {}
    Values <- MCValues
    Interior <- MCInterior
INVARIANT DifferenceIsStandard
