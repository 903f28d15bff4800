SPECIFICATION Spec
CONSTANTS
    s1 = s1
    s2 = s2
    Streams = {s1, s2}
    Catalogue <- MCCatalogue
    Settings <- OpenAIOnly
    Model = "m"
    MaxPieces = 1
    InputTokens = 3
    Faults = {"event"}
    None = None
    Unreadable = Unreadable
SYMMETRY Symmetry
INVARIANT ReplayedIsComplete
