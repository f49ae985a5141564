SPECIFICATION FairSpec
CONSTANTS
    Conns = {c1, c2}
    Sessions = {s1, s2}
    MsgIds = {m1}
    Verdicts = {OK}
    None = None
    MaxRounds = 1
    MaxRevision = 2
INVARIANTS
    WaitingHasTimer
    LiveContestant
    OneOpenSession
PROPERTIES
    TimedRoundEnds
CHECK_DEADLOCK FALSE
