SPECIFICATION Spec

CONSTANTS
    Sites <- BothSites
    Offers = 3
    Thin <- NoneThin
    PageSize = 1
    MaxPages = 2
    LateLinks = TRUE
    MaxCuts = 0

INVARIANTS
    TypeOK
    GapHasCause
