CONSTANTS
    MaxTurns = 2
    MaxSentences = 2
    HasSpeakerEngine = FALSE
    HasFiller = FALSE
    HasBackchannel = FALSE
    MaxPrompts = 0
    Blocks = 0
    MaxPending = 0
    HoldoffTicks = 0
SPECIFICATION Spec
CHECK_DEADLOCK FALSE
INVARIANTS
    TypeOK
    FaithfulSpeech
    CompleteAnswers
    InterruptHitsItsTurn
