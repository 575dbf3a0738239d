SPECIFICATION FairServerSpec
CONSTANTS
    hall = hall
    bay = bay
    dock = dock
    lane = lane
    aisle = aisle
    r1 = r1
    r2 = r2
    NoZone = NoZone
    Zones <- MCZones
    Nodes <- MCNodes
    Edges <- MCEdges
    Robots <- MCRobots
    World <- FlatSite
    GroundSets <- HallGrounds
    LeaseIds = {}
    ForeignClaims = {}
    Leads = {}
    Lengths = {2}
    Reevaluate = TRUE
    Alive = 1
    BackSteps = {}
    Forever = 99
    IdCeiling = 9
    MaxMint = 3
    MaxTick = 4
CHECK_DEADLOCK FALSE
INVARIANTS
    ServerTypeOK
    ExclusiveNow
    ReclaimIsGranted
    HoldersAreRegistered
PROPERTIES
    KeptWhileAlive
    SilentRobotsAreFreed
    TimedClaimsEnd
