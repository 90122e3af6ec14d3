CONSTANTS
    Events <- MCEvents
    Tasks = {t1, t2}
    Passwords = {right, wrong}
    MaxCalls = 4
    MaxCrashes = 1
SPECIFICATION FairSpec
CHECK_DEADLOCK FALSE
INVARIANTS
    TypeOK
    SecretsStayReadable
    NothingLeftUncommitted
    LogMatchesStore
    DeletionsAreLogged
    LogVerifies
    BadTagsAreExcused
PROPERTIES
    LocksItself
    StoredForGood
