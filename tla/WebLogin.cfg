SPECIFICATION Spec
CONSTANTS
    Addresses = {a1, a2, a3}
    Browsers = {b1}
    Window = 3
    Delay = 1
    GlobalLimit = 3
    LocalLimit = 1
    MapLimit = 2
    SessionLimit = 2
    Lifetime = 2
    MaxLogins = 3
SYMMETRY Symmetry
INVARIANTS
    TriesAreLimited
    LoginsHold
