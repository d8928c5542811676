SPECIFICATION Spec

CONSTANTS
    Prices <- MCPrices
    Probabilities <- MCProbabilities
    NetLiqs <- MCNetLiqs
    CapitalFloor = 50000
    CapitalCap = 1000000

INVARIANTS
    TypeOK
    FinePricesBuild
    OrderWithinCap
    SizeIsMonotone

\* A candidate is skipped, placed or refused, and that is all.
CHECK_DEADLOCK FALSE
