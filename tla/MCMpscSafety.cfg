SPECIFICATION Spec
CONSTANTS
    Senders = {"s1", "s2"}
    First = "s1"
    Cap = 2
    Strategies = {"BusySpin", "Park"}
    DrainLimits = {3}
    MaxOffers = 3
    CallbackPanics = TRUE
INVARIANTS
    HolesHaveWriters
    NoDataRace
    Fifo
    ExactlyOnce
    DisconnectedMeansDrained
    ConsumerNeverMissesWake
PROPERTIES
    CachesDecideTruly
    ImplementsChannel
