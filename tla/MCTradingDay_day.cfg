SPECIFICATION Spec

CONSTANTS
    d1 = d1
    d2 = d2
    nobody = nobody
    Deals <- MCDeals
    NameOf <- OwnFiles
    NoDeal = nobody
    NetLiqs <- MCNetLiqs
    Capital = 50
    LimitPct = 2
    HoursPerDay = 3
    Nine = 2
    Winter = 1
    Summer = 2
    Spring = 3
    MaxClock = 3
    MaxRows = 1
    MaxRuns = 1
    MaxFaults = 1

INVARIANTS
    TypeOK
    LossStops
    IndexAgrees
    SleepsTillNine
    NothingHeldAfterwards
