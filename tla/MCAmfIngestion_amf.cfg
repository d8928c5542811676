SPECIFICATION FairSpec

CONSTANTS
    Offers = 2
    Numberless <- Second
    Bare <- Second
    PriceIn <- Inside
    PageSize = 1
    JobCap = 2
    ScriptCap = 2
    Feed <- LinkedAndNot
    MaxFaults = 1
    MaxPolls = 3

INVARIANTS
    TypeOK
    CopiesBounded

PROPERTIES
    PricesStaySettled
    EventuallyPriced
