SPECIFICATION Spec
CONSTANTS
    k1 = k1
    k2 = k2
    NoLimit = NoLimit
    Omitted = Omitted
    Keys = {k1, k2}
    Existing = {k1, k2}
    Requests = {r1, r2, r3}
    Calls = {}
    Limit <- MCLimit
    GlobalLimit = 3
    MaxTokens = 2
    Asks = {1, 3}
    MaxPrompt = 0
    Terms = {}
    Never = Never
    NoKey = NoKey
    CLI = CLI
    DefaultDays = 1
    MaxDays = 1
    MaxTime = 1
    Faults = {"persist", "disconnect", "odd", "crash"}
SYMMETRY Symmetry
INVARIANT TypeOK
INVARIANT KeyOvershootBounded
INVARIANT GlobalOvershootBounded
INVARIANT ReachedIsFinal
INVARIANT LedgerExact
