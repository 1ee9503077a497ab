SPECIFICATION Spec
CONSTANTS
    Cap = 2
    Strategies = {"BusySpin", "Park"}
    DrainLimits = {0, 1, 3}
    MaxOffers = 6
    CallbackPanics = TRUE
INVARIANTS
    NoDataRace
    Fifo
    ExactlyOnce
    DisconnectedMeansDrained
    ConsumerNeverMissesWake
PROPERTIES
    CachesDecideTruly
    ImplementsChannel
    ImplementsRing
