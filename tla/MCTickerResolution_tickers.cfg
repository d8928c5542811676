SPECIFICATION Spec

CONSTANTS
    Deals = {1, 2}
    Jur <- MCJur
    Isin <- MCIsin
    Stored = {}
    Labelled = {}
    Candidates = {1, 2}
    Fresh = {1}
    Country <- MCCountry
    Listings <- MCListings
    Mapped <- MCMapped
    Closes <- MCCloses
    Offers <- MCOffers
    MaxRuns = 3
    MaxFaults = 1

INVARIANTS
    TypeOK
    GateHolds

PROPERTIES
    EventuallyResolved

\* Everything may be resolved, labelled and up to date.
CHECK_DEADLOCK FALSE
