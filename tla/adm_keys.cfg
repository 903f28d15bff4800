SPECIFICATION Spec
CONSTANTS
    k1 = k1
    k2 = k2
    NoLimit = NoLimit
    Omitted = Omitted
    Keys = {k1, k2}
    Existing = {k1}
    Requests = {r1}
    Calls = {a1, a2, a3}
    Limit <- MCLimit
    GlobalLimit = NoLimit
    MaxTokens = 1
    Asks = {1}
    MaxPrompt = 0
    Terms <- MCTerms
    Never = Never
    NoKey = NoKey
    CLI = CLI
    DefaultDays = 1
    MaxDays = 1
    MaxTime = 2
    Faults = {"crash"}
SYMMETRY Symmetry
INVARIANT DeadKeysAreRejected
INVARIANT AuditMatchesKeys
