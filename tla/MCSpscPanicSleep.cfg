SPECIFICATION FairSpec
CONSTANTS
    Cap = 1
    Strategies = {"Park"}
    DrainLimits = {2}
    MaxOffers = 2
    CallbackPanics = TRUE
PROPERTIES
    PanickedDrainWakesLater
