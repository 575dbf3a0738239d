SPECIFICATION Spec
CONSTANTS
    c1 = c1
    c2 = c2
    Clients = {c1, c2}
    PushBound <- MCPushBound
    EpochBound = 2
    Slices <- MCSlices
    Size <- MCSize
    MaxBytes = 3
    Documents <- MCDocuments
    Refused <- MCRefused
    BootDocument <- Flat
    Keys = {"operator", "other"}
    OperatorKey = "operator"
    Pushes <- MCPushes
    Robots = {r1, r2}
    Places <- MCPlaces
    Present <- MCPresent
    Overlap <- MCOverlap
SYMMETRY Symmetry
INVARIANTS
    PushTypeOK
    BufferedWasSent
    ToldIsApplied
    ConflictsPredateTheMap
PROPERTIES
    NothingStaleRuns
    ReplacesWholeMaps
