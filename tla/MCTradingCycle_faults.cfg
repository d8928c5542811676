\* Crashes and failed commits at every step.
CONSTANTS
    d1 = d1  d2 = d2  a1 = a1  a2 = a2  b1 = b1  NoTrade = NoTrade
    Deals <- MCDeals
    TradeIds <- MCTradeIds
    DealOf <- MCDealOf
    OrderIds <- MCOrderIds
    MaxPositions = 2
    RampUpRequired = 1
    Cooldown = 1
    CanFail = TRUE
    MaxRuns = 2
    MaxClock = 1
    MaxRows = 2
SPECIFICATION Spec
INVARIANTS TypeOK RampUpGate OneOrderPerCycle CooldownHolds StopLetsOneThrough
    RowsBackedByBroker BooksMatchBroker OrphanOnlyAfterLoss RepeatOnlyAfterLoss
PROPERTY LifecycleSpec
SYMMETRY SameDealIds
