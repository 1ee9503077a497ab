SPECIFICATION FairSpec
CONSTANTS
    Cap = 2
    Strategies = {"BusySpin", "Park"}
    DrainLimits = {1, 3}
    MaxOffers = 4
    CallbackPanics = FALSE
INVARIANTS
    NoMutualSleep
    ProducerNeverMissesWake
PROPERTIES
    RecvCompletes
    SendCompletes
