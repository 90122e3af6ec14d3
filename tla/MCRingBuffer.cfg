CONSTANTS
    Capacity = 3
    MaxBlock = 4
    MaxSamples = 12
SPECIFICATION Spec
CHECK_DEADLOCK TRUE
INVARIANTS
    TypeOK
    ReadableIsNewest
    NoReplay
PROPERTY ImplementsStream
