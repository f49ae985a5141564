SPECIFICATION FairJobs
CONSTANTS
    PendingLimit = 2
    ItemLimit = 2
    MaxJobs = 6
INVARIANTS
    UnfinishedListed
PROPERTIES
    QueueMoves
