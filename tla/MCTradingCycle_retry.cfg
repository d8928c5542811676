\* A commit fails after the legs were placed, and the request is submitted again.
CONSTANTS
    d1 = d1  d2 = d2  a1 = a1  a2 = a2  b1 = b1  NoTrade = NoTrade
    Deals <- MCDeals
    TradeIds <- MCTradeIds
    DealOf <- MCDealOf
    OrderIds <- MCOrderIds
    MaxPositions = 1
    RampUpRequired = 1
    Cooldown = 1
    CanFail = TRUE
    MaxRuns = 2
    MaxClock = 1
    MaxRows = 2
SPECIFICATION Spec
INVARIANT RequestExecutesOnce
