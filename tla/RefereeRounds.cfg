SPECIFICATION Spec
CONSTANTS
    Conns = {c1, c2}
    Sessions = {s1}
    MsgIds = {m1, m2}
    Verdicts = {OK, NG}
    None = None
    MaxRounds = 2
    MaxRevision = 2
SYMMETRY Symmetry
INVARIANTS
    ActiveIsWaiting
    ReceiptsMatch
PROPERTIES
    KeepsLedger
CHECK_DEADLOCK FALSE
