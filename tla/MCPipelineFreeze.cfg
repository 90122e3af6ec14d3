CONSTANTS
    QueueSize = 3
    MaxSentences = 4
SPECIFICATION FairSpec
CHECK_DEADLOCK FALSE
PROPERTY NeverFreezes
