SPECIFICATION FairTenants
CONSTANTS
    r1 = r1
    r2 = r2
    p1 = p1
    None = None
    Unreadable = Unreadable
    Requests = {r1, r2, r3}
    Replicas = {p1, p2}
    Tenants = {"t1", "t2"}
    Bodies = {"direct", "unknown"}
    Candidates <- MCCandidates
    Faults = {"upstream", "slow", "crash", "odd"}
INVARIANTS
    AnswersOwnRequest
    LocksNotLeaked
PROPERTIES
    EventuallyAnswered
