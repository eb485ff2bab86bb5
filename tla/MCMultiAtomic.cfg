SPECIFICATION Spec
CONSTANTS
    Elements <- MCElements
    Type <- MCType
    Static = {}
    Rejected <- MCRejected
    Commands <- MCCommands
    MaxBatch = 3
PROPERTY BatchIsAtomic
