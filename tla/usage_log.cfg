SPECIFICATION Spec
CONSTANTS
    Unfiltered = Unfiltered
    None = None
    Requests = {r1, r2, r3}
    Keys = {k1, k2}
    Models = {"gpt", ""}
    Price <- MCPrice
    Counts <- MCCounts
    Filters <- MCFilters
    MaxTracked = 1
    Limit = 1
    GlobalLimited = TRUE
SYMMETRY Symmetry
CONSTRAINT PagerIgnoresCosts
INVARIANTS
    TypeOK
    PagesCoverLog
    ErrorLabelsBounded
    ReportConsistent
PROPERTIES
    SpendShrinksOnlyUnclamped
