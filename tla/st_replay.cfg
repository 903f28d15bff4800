SPECIFICATION FairSpec
CONSTANTS
    s1 = s1
    s2 = s2
    Streams = {s1, s2}
    Catalogue <- MCCatalogue
    Settings <- MCMixed
    Model = "m"
    MaxPieces = 2
    InputTokens = 3
    Faults = {"upstream", "disconnect", "redis", "evict"}
    None = None
    Unreadable = Unreadable
INVARIANT ReplayFaithful
INVARIANT BilledAsReported
PROPERTY EventuallyEnds
