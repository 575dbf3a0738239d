SPECIFICATION Spec
CONSTANTS
    u1 = u1
    u2 = u2
    Clients <- MCClients
    Raw <- MCRaw
    Own <- MCOwn
    Uuids = {u1, u2}
    IntegerIds = {1}
    Base = 2
    MintBound = 2
    MaxRobots = 2
    MaxFailures = 2
    Cooldown = 1
    ChallengeTtl = 0
    TokenTtl = 1
    Silence = 0
    Setups <- MCSetups
    StopBound = 2
INVARIANTS
    IdentityTypeOK
    LedgerAndRegistryAgree
    TokensDieWithRegistration
    RightKeyIsAccepted
    AcknowledgedSurvivesShutdown
PROPERTIES
    RestartsWhereItSaved
