SPECIFICATION Spec
CONSTANTS
    RequestIds = {q1, q2}
    SessionIds = {s1, s2}
    Controls = {"new_session", "target", "start_round", "cancel_round", "end_session"}
    None = None
    ReceiptLimit = 1
    MaxEpoch = 1
    MaxRounds = 2
    MaxRevision = 2
    MaxRequests = 2
SYMMETRY Symmetry
INVARIANTS
    PageIsCurrent
CHECK_DEADLOCK FALSE
