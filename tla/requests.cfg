SPECIFICATION Spec
CONSTANTS
    hall = hall
    bay = bay
    dock = dock
    lane = lane
    aisle = aisle
    r1 = r1
    r2 = r2
    r3 = r3
    NoZone = NoZone
    Zones <- MCZones
    Nodes <- MCNodes
    Edges <- MCEdges
    Robots <- MCRobots
    World <- LayeredSite
    GroundSets <- AllGround
    LeaseIds = {}
    ForeignClaims = {}
    Leads = {0, 1}
    Lengths = {1}
    Reevaluate = TRUE
    Forever = 99
    IdCeiling = 9
    MaxMint = 3
    MaxTick = 1
SYMMETRY RobotSymmetry
CHECK_DEADLOCK FALSE
INVARIANTS
    ExclusiveSafety
    ZoneReservation
    ZoneCapacity
    EdgeCapacity
    OneEntryPerGround
PROPERTIES
    ReleaseLetsGo
