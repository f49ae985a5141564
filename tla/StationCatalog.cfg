SPECIFICATION Spec
CONSTANTS
    Stations = {1, 2}
    BoxIds = {LEGACY, A}
    LEGACY = LEGACY
    A = A
    x = x
    y = y
    Barcodes = {x, y}
    Blank = Blank
    NoBox = NoBox
    NULL = NULL
    RequestIds = {q1, q2}
    MsgIds = {m1}
    Lists <- SomeLists
    MaxRevision = 3
    MaxRequests = 2
    MaxResults = 2
SYMMETRY Symmetry
INVARIANTS
    TargetWasChosen
    HistoryNeverRejudged
    NoLostUpdate
    AnswersAgree
    AckedIsRecorded
CHECK_DEADLOCK FALSE
