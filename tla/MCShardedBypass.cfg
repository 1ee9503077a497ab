SPECIFICATION Spec
CONSTANTS
    NShards = 2
    TotalCap = 2
    Strategy = "Backoff"
    VisitBudget = 2
    DrainLimits = {1}
    MaxOffers = 4
    CallbackPanics = FALSE
INVARIANT BoundedBypass
