SPECIFICATION Spec

CONSTANTS
    Deals = {1, 2}
    Jur <- MCJur
    Isin <- MCIsin
    Stored = {2}
    Labelled = {}
    Candidates = {1, 2}
    Fresh = {1}
    Country <- MCCountry
    Listings <- MCListings
    Mapped <- MCMapped
    Closes <- MCCloses
    Offers <- MCOffers
    MaxRuns = 3
    MaxFaults = 0

PROPERTIES
    OutcomeKept

CHECK_DEADLOCK FALSE
