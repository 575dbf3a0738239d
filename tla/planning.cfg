SPECIFICATION Spec
CONSTANTS
    Zones <- MCZones
    Nodes <- MCNodes
    Edges <- MCEdges
    NoZone = NoZone
    Nil = Nil
    NoIndex = NoIndex
    NoAnswer = NoAnswer
    MaxZoneDepth = 64
    Scenarios <- MCScenarios
CHECK_DEADLOCK FALSE
INVARIANTS
    ServedIsAWorkspace
    BlockedIsBlocked
    ServedKeysApply
    PlanIsCheapestLegal
    DiagnosisNamesTheCut
