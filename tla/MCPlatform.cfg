CONSTANTS
    Sinks = {1, 2, 3, 4}
    MaxFds = 3
    MaxVector = 4
    Conns = {1, 2, 3}
    MaxLimit = 2
    TcpSize = 2
    MaxConnections = 3
    UdpSize = 2
    Groups = {"g", "h"}
    Handlers = {"h1", "h2"}
    MaxFunctions = 2
    MaxIds = 3
    Urls = {"a", "b"}
    FileSize = 4
    Rewind = 2
    Wrap = 3
    MaxRetries = 2
    Truncates = FALSE
    MaxAlignment = 8
    MaxOffset = 15
    Tokens = {"t1", "t2", "t3"}
    MaxTokenIds = 5
    MaxDefault = 4
    MaxBuilders = 2
    AutoReEnable = TRUE
    BuilderPaths <- MCBuilderPaths
    Shards = {"static", "dynamic"}
    MaxMade = 4
    Static = {"limit"}
    MaxBatch = 2
SPECIFICATION PartsSpec
INVARIANTS
    TypesOK
    ListsAreExact
    LinksComeBackClean
    DownloadsEndWell
    SlateIsWhole
    RightsAreKept
PROPERTIES
    SlotsAreCalledOnce
    BatchIsAllOrNothing
CHECK_DEADLOCK FALSE
