CONSTANTS
    Callback = {c1, c2, c3}
    Thread = {t1, t2}
    Main = main
    LastCommand = 2
    MaxRestarts = 1
    LockThread = {l1, l2, l3}
    MaxReaders = 2
    Behind = 1
    MaxPrio = 2
SPECIFICATION PartsSpec
INVARIANTS
    TypesOK
    NoLostWakeup
    CommandsKeepOrder
    MutualExclusion
PROPERTIES
    RunsInOrder
    EveryCallbackRuns
    QueueIsDrained
    LockIsNotLeft
CHECK_DEADLOCK FALSE
