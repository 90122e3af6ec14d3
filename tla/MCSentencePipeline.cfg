CONSTANTS
    QueueSize = 3
    MaxSentences = 6
SPECIFICATION FairSpec
CHECK_DEADLOCK FALSE
INVARIANTS
    TypeOK
    NoSentenceLost
    NoOrphanProducer
PROPERTIES
    UninterruptedEnds
    ImplementsAnswer
