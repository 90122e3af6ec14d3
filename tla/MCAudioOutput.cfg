CONSTANTS
    QueueSize = 2
    Answers = 1
    MaxChunks = 3
SPECIFICATION FairSpec
CHECK_DEADLOCK FALSE
INVARIANTS
    TypeOK
    InOrder
    MarksMatchDrains
    AllIsSaid
PROPERTY CallsReturn
