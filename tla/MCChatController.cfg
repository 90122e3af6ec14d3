CONSTANTS
    MaxConvs = 2
    MaxGens = 2
    MaxChunks = 1
    MaxActions = 4
SPECIFICATION ChatSpec
CHECK_DEADLOCK FALSE
INVARIANTS
    TypeOK
    AnsweredOnce
    OneVoice
    AnswersStayHome
    LockedMeansStreaming
    QuestionFirst
    HistoryIsConversation
    SidebarSettles
    TotalsSettle
PROPERTIES
    InputUnlocks
    CommittedStays
