CONSTANTS
    Policies <- MCPolicies
    Jitter = 1
    MinDelay = 3
    ReenableDelay = 2
    FromLastSuccess = FALSE
    RandomBackoff = FALSE
    StartEnabled = TRUE
    Timeout = 2
    RandomReenable = TRUE
    RetryCap = 3
    Cap = 8
SPECIFICATION Spec
PROPERTIES
    NeverViolatesRateLimit
