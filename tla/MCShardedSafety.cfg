SPECIFICATION Spec
CONSTANTS
    NShards = 2
    TotalCap = 4
    Strategy = "Backoff"
    VisitBudget = 2
    DrainLimits = {0, 1, 3, 5}
    MaxOffers = 3
    CallbackPanics = TRUE
INVARIANTS TypeOK DisconnectedMeansDrained NothingOverlooked DrainBounded
PROPERTIES ImplementsChannels ImplementsRings
