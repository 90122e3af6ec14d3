CONSTANTS
    MaxTurns = 1
    MaxSentences = 1
    HasSpeakerEngine = FALSE
    HasFiller = FALSE
    HasBackchannel = FALSE
    MaxPrompts = 0
    Blocks = 0
    MaxPending = 0
    HoldoffTicks = 0
SPECIFICATION Spec
CHECK_DEADLOCK FALSE
INVARIANT BargeInClassifiedByItsWords
