SPECIFICATION Spec
CONSTANTS
    s1 = s1
    s2 = s2
    Streams = {s1, s2}
    Catalogue <- MCCatalogue
    Settings <- MCSettings
    Model = "m"
    MaxPieces = 1
    InputTokens = 3
    Faults = {"upstream", "cut", "event", "odd", "disconnect", "redis"}
    None = None
    Unreadable = Unreadable
SYMMETRY Symmetry
INVARIANT TypeOK
INVARIANT LoggedOnce
INVARIANT OneSource
INVARIANT RejectedIffUnroutable
INVARIANT CatalogueAgrees
