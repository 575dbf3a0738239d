SPECIFICATION Spec
CONSTANTS
    hall = hall
    bay = bay
    dock = dock
    lane = lane
    aisle = aisle
    r1 = r1
    r2 = r2
    r3 = r3
    NoZone = NoZone
    Zones <- MCZones
    Nodes <- MCNodes
    Edges <- MCEdges
    Robots <- TwoRobots
    World <- LayeredSite
    GroundSets <- DockGround
    LeaseIds = {11}
    ForeignClaims = {}
    Leads = {0, 1}
    Lengths = {1}
    Reevaluate = FALSE
    Forever = 99
    IdCeiling = 9
    MaxMint = 3
    MaxTick = 2
SYMMETRY TwoRobotSymmetry
CHECK_DEADLOCK FALSE
INVARIANT
    ExclusiveSafety
