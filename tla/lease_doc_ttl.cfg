SPECIFICATION Spec
CONSTANTS
    None = None
    Callers = {c1, c2}
    Chain = 2
    Timeout <- MCTimeout
    Rest <- MCRest
    Grace = 1
    SocketTimeout = 1
    WaitTimeout = 2
    PollInterval = 1
    Second = 2
    Waits = 2
    MaxTime = 10
SYMMETRY Symmetry
INVARIANTS
    LockOutlivesCall
