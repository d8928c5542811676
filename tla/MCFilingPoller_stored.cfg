SPECIFICATION FairSpec

CONSTANTS
    Sites <- BothSites
    Offers = 3
    Thin <- FirstIsThin
    PageSize = 1
    MaxPages = 2
    LateLinks = FALSE
    MaxCuts = 1

INVARIANT
    FileBeforeRow

PROPERTIES
    DocumentsKept
    EventuallyStored
