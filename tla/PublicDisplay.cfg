SPECIFICATION DisplaySpec
CONSTANTS
    MaxAge = 5
    Abort = 4
    Fetches = 2
INVARIANTS
    LiveIsRecent
PROPERTIES
    NeverGoesBack
