SPECIFICATION Spec
CONSTANTS
    r1 = r1
    r2 = r2
    p1 = p1
    None = None
    Unreadable = Unreadable
    Requests = {r1, r2, r3}
    Replicas = {p1, p2}
    Tenants = {"t1"}
    Bodies = {"hello"}
    Candidates <- MCCandidates
    Faults = {"upstream", "odd", "slow", "redis", "crash", "expiry", "poison"}
SYMMETRY Symmetry
INVARIANTS
    TypeOK
    InflightIsLive
    FollowersAreWoken
    CallerHoldsLock
    
PROPERTIES
    OnlyOwnerLeaves
    
