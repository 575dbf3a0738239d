SPECIFICATION SchedSpec
CONSTANTS
    yard = yard
    bay = bay
    gate = gate
    mid = mid
    dock = dock
    e1 = e1
    e2 = e2
    r1 = r1
    r2 = r2
    NoZone = NoZone
    Zones <- MCZones
    Nodes <- MCNodes
    Edges <- MCEdges
    Robots <- MCRobots
    World <- DockSite
    GroundSets <- OtherGround
    LeaseIds = {11}
    ForeignClaims = {}
    Leads = {0}
    Lengths = {1}
    Reevaluate = FALSE
    Forever = 99
    IdCeiling = 9
    MaxMint = 2
    MaxTick = 1
    Steered <- OneRobot
    AskedModes = {"exclusive"}
    Plans <- TwoPlans
    NoPlan = NoPlan
    Unknown = Unknown
    None = None
    NoWaiting <- YardOnly
    Horizon = 2
    TicksPerCost = 2
    Graces = {0}
    Extensions = {1}
    MaxEnd = 1
CHECK_DEADLOCK FALSE
PROPERTY
    StrayedStaysReported
