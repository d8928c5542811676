SPECIFICATION Spec

CONSTANTS
    Deals = {1, 2, 3, 4, 5}
    Jur <- MCJur
    Target <- MCTarget
    Announced <- MCAnnounced
    Opas = {5}
    Unnamed = {}
    Fresh = {1, 2, 3}
    HomeVenue = {2}
    SmallCaps = {3}
    Parsers = {1, 2}
    Reads <- MCReads
    Legs <- MCLegs
    Legacy <- MCLegacy
    Closes <- MCCloses
    MaxRuns = 3
    MaxFaults = 1

INVARIANTS
    TypeOK
    ScoresFollowPrices

PROPERTIES
    SettledStays

\* Every script has run as often as the bound allows.
CHECK_DEADLOCK FALSE
