CONSTANTS
    QueueSize = 2
    Answers = 2
    MaxChunks = 1
SPECIFICATION FairSpec
CHECK_DEADLOCK FALSE
PROPERTY CallsReturnAfterSourceFailed
