CONSTANTS
    Policies <- MCPolicies
    Jitter = 1
    MinDelay = 3
    ReenableDelay = 2
    FromLastSuccess = TRUE
    RandomBackoff = FALSE
    StartEnabled = FALSE
    Timeout = 2
    RandomReenable = TRUE
    RetryCap = 3
    Cap = 8
    Targets = {"a", "b", "c"}
    MaxTargets = 3
    Cooldown = 2
    Aos = 2
    Thresholds = {0, 3, 5}
    Step = 1
    Renewed = {0, 1, 2}
    MaxAge = 7
    Ids = {1, 2}
    Hosts = {"h1", "h2"}
    NumAlt = 1
    MaxLines = 6
    Tables = {"t", "u"}
    Names = {"a", "b"}
    Ints = {"i1", "i2"}
    Files <- MCFiles
    Wide = 16
    Keys = {1, 2, 3, 4, 5}
    Values = {5, 15}
    Home <- MCHome
    Slots = 8
    Lanes = 2
    Bucket = 4
    Capacity = 4
    Base = 2
    Sizes = {1, 2, 3}
    MaxLength = 3
SPECIFICATION PartsSpec
INVARIANTS
    TypesOK
    WaitingHasCall
    ContactIsUsed
    FlowsAreServed
    TablesAnswer
PROPERTIES
    SpacedOut
    RateIsLimited
    PollingGoesOn
CHECK_DEADLOCK FALSE
