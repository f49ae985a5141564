SPECIFICATION FairSpec
CONSTANTS
    QueueLimit = 1
    PendingLimit = 1
    MaxSessions = 3
    LastRefusal = 2
    MaxRevision <- MCMaxRevision
INVARIANTS
    BackupsAccounted
    StoreClosesLast
    ShowsTheMatch
PROPERTIES
    StartsOnShown
    WindowAnswers
CHECK_DEADLOCK FALSE
