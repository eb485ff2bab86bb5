SPECIFICATION Spec
CONSTANTS
    Paths <- MCPaths
    Shards = {"static", "dynamic"}
    MaxMade = 4
INVARIANT MaskedIsOutOfReach
CHECK_DEADLOCK FALSE
