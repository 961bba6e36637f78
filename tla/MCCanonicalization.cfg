SPECIFICATION Spec
CONSTANTS
    Cells = {1, 2, 3}
    CellPlaces <- MCPlaces
    CellSrids = {4326, 3857}
    Geometry <- CellGeometries
    Place <- MCPlaces
    Srid = {4326, 3857}
    NoSrid = NoSrid
    Normalize <- CellNormalize
    IsEmpty <- CellIsEmpty
    SridOf <- CellSridOf
    TopoEquals <- CellEquals
    Covers <- CellCovers
    CoversPlace <- CellCoversPlace
    EngineUnion <- CellUnion
    EngineIntersection <- CellIntersection
    EngineDifference <- CellDifference
    Area <- CellArea
    BoundingBox <- CellEnvelope
    One = 3
    Infinity = 4
    Alpha = {1, 2, 3}
    Inputs <- MCInputs
INVARIANTS
    TypeOK
    ResultCanonical
    MembershipPreserved
    CanonicalUnchanged
    ComparesOneSrid
PROPERTY
    ImplementsContract
