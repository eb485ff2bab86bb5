CONSTANTS
    NumSources = 3
    Element = {e1}
    Value = {0, 1}
    Freshness = {1, 2}
    SeqDefault <- MCSeqDefault
    AnySequence = 99
    StaleThreshold = 1
    Downselect = FALSE
    Reading <- MCReading
    InitialRecord <- MCInitialRecord
    ControlState = {0, 1}
    InitialControl = 0
    Law <- MCLaw
    Hotsync = TRUE
    SinglePeerHotsync = FALSE
    NoOffer = NoOffer
    NoMessage = NoMessage
SPECIFICATION FairSpec
INVARIANTS
    TypeOK
    StringsAgree
PROPERTIES
    OneLossIsHarmless
    RejoinsEventually
