SPECIFICATION SkewedSpec
CONSTANTS
    hall = hall
    bay = bay
    dock = dock
    lane = lane
    aisle = aisle
    r1 = r1
    r2 = r2
    NoZone = NoZone
    Zones <- MCZones
    Nodes <- MCNodes
    Edges <- MCEdges
    Robots <- MCRobots
    World <- FlatSite
    GroundSets <- DockGround
    LeaseIds = {}
    ForeignClaims = {}
    Leads = {}
    Lengths = {1}
    Reevaluate = TRUE
    Alive = 1
    BackSteps = {2}
    Forever = 99
    IdCeiling = 9
    MaxMint = 3
    MaxTick = 3
SYMMETRY RobotSymmetry
CHECK_DEADLOCK FALSE
INVARIANT
    ExclusiveNow
