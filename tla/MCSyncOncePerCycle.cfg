CONSTANTS
    NumStates = 3
    Timeout = timeout
    go = go
    abort = abort
    Command = {timeout, go, abort}
    NoCommand = noop
    ExternalCommand = {go, abort}
    TaskCommand = {go, abort}
    Period = 2
    Durations = {0, 2, 4}
    MaxAge = 6
    Settable = FALSE
    Graphs <- MCGraphs
SPECIFICATION Spec
INVARIANT TasksCalledOncePerCycle
