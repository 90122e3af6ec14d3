CONSTANTS
    MaxTurns = 1
    MaxSentences = 1
    HasSpeakerEngine = FALSE
    HasFiller = FALSE
    HasBackchannel = FALSE
    MaxPrompts = 0
    Blocks = 3
    MaxPending = 3
    HoldoffTicks = 2
SPECIFICATION Spec
CHECK_DEADLOCK FALSE
INVARIANT GateClosedWhileAudible
