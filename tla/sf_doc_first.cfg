SPECIFICATION Spec
CONSTANTS
    r1 = r1
    r2 = r2
    p1 = p1
    None = None
    Unreadable = Unreadable
    Requests = {r1, r2}
    Replicas = {p1}
    Tenants = {"t1"}
    Bodies = {"hello"}
    Candidates <- MCCandidates
    Faults = {}
SYMMETRY Symmetry
INVARIANTS
    OnlyTheFirstCalls
