CONSTANTS
    NumStates = 3
    Timeout = timeout
    go = go
    abort = abort
    Command = {timeout, go, abort}
    NoCommand = noop
    ExternalCommand = {go, abort}
    TaskCommand = {}
    Period = 2
    Durations = {0, 2, 4}
    ForcedDurations = {0, 2}
    MaxAge = 6
    MaxTime = 4
    Never = 9
    SearchedStates = 4
    Settable = TRUE
    Graphs <- MCGraphs
SPECIFICATION PartsSpec
INVARIANTS
    TypeOK
    DispatchAssertions
    TasksFollowTheState
    AsyncIsCalledInTime
    CycleSearchIsExact
PROPERTIES
    AcceptedIsCarriedOut
    UnforcedMachine
    SettableLetsCommandsIn
