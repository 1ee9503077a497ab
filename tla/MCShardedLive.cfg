SPECIFICATION FairSpec
CONSTANTS
    NShards = 2
    TotalCap = 2
    Strategy = "Backoff"
    VisitBudget = 1
    DrainLimits = {}
    MaxOffers = 4
    CallbackPanics = FALSE
INVARIANT BoundedBypass
PROPERTY RecvCompletes
