SPECIFICATION FairSpec

CONSTANTS
    consob = consob  bafin = bafin  listing = listing  one = one  nobody = nobody
    Tasks <- MCTasks
    NoTask = nobody
    Limiters <- MCLimiters
    LimiterOf <- MCLimiterOf
    Listing <- MCListing
    Bafin <- MCBafin
    Interval = 1
    Jitter = 1
    MaxRetries = 1
    BaseDelay = 1
    MaxDelay = 1
    Budget = 2
    Costs <- MCCosts
    MaxCost = 2
    MaxFaults = 1

INVARIANTS
    TypeOK
    BillBounded

PROPERTIES
    GrantsPaced
    CallsEnd
