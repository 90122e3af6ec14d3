CONSTANTS
    MaxTurns = 1
    MaxSentences = 1
    HasSpeakerEngine = TRUE
    HasFiller = TRUE
    HasBackchannel = TRUE
    MaxPrompts = 1
    Blocks = 1
    MaxPending = 1
    HoldoffTicks = 1
SPECIFICATION FairSpec
CHECK_DEADLOCK FALSE
INVARIANTS
    GateClosedWhileResponding
PROPERTY TurnEnds
