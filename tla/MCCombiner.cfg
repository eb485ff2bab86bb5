\* Three sources, both modes; records of two elements with two values each
\* (minimum and maximum commute with thresholds, so two values decide a median).
CONSTANTS
    NumSources = 3
    Element = {e1, e2}
    Value = {1, 2}
    Freshness = {1}
    SeqDefault <- MCSeqDefault
    AnySequence = 99
    StaleThreshold = 2
SYMMETRY MCSymmetry
SPECIFICATION HistorySpec
INVARIANT TypeOK
PROPERTIES
    OutputTracesToConnected
    OneFaultIsBounded
    OnlyConnectedDecide
