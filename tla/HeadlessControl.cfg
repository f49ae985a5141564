SPECIFICATION Spec
CONSTANTS
    RequestIds = {q1, q2}
    SessionIds = {s1, s2}
    Controls = {"new_session", "target", "start_round", "cancel_round", "end_session", "start_listener", "stop_listener", "branding"}
    None = None
    ReceiptLimit = 1
    MaxEpoch = 2
    MaxRounds = 1
    MaxRevision = 2
    MaxRequests = 2
SYMMETRY Symmetry
INVARIANTS
    KnowsTheRounds
PROPERTIES
    ExecutesOnce
CHECK_DEADLOCK FALSE
