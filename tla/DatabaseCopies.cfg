SPECIFICATION Spec
CONSTANTS
    d1 = d1
    d2 = d2
    r1 = r1
    r2 = r2
    Dirs <- MCDirs
    Restores <- MCRestores
    None = None
    Torn = Torn
    Damaged = Damaged
    SERVER = SERVER
    MaxFolders = 2
    MaxWrites = 2
SYMMETRY Symmetry
INVARIANTS
    CompleteIsTrue
    UpgradeKeepsOriginal
PROPERTIES
    NeverReplaced
    RestoresTheOriginal
CHECK_DEADLOCK FALSE
