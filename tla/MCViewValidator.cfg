SPECIFICATION Spec
CONSTANTS
    Paths <- MCPaths
    Shards = {"static", "dynamic"}
    MaxMade = 4
INVARIANT WritesAreValidated
CHECK_DEADLOCK FALSE
