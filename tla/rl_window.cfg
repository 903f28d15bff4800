SPECIFICATION Spec
CONSTANTS
    Calls = {c1, c2, c3, c4}
    Limit = 2
    Window = 3
    FailOpen = TRUE
    RedisErrors = TRUE
    MaxTime = 5
SYMMETRY Symmetry
INVARIANTS
    TypeOK
    WithinLimit
    SlidingWindow
    RollbackComplete
    RejectionHasCause
