SPECIFICATION FairSpec
CONSTANTS
    Conns = {c1, c2}
    Keys = {k1}
    MsgIds = {m1}
    Contents = {v, w}
    None = None
    MaxClients = 2
    ErrorLimit = 2
    MaxRows = 2
INVARIANTS
    LiveOwner
    CurrentIsOwn
    FatalCutsOff
    ClosedIsQuiet
PROPERTIES
    FatalFreezes
    KeepsLog
    PlaceIsReturned
    StopEnds
CHECK_DEADLOCK FALSE
