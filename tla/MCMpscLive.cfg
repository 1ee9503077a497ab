SPECIFICATION FairSpec
CONSTANTS
    Senders = {"s1", "s2"}
    First = "s1"
    Cap = 1
    Strategies = {"Park"}
    DrainLimits = {2}
    MaxOffers = 2
    CallbackPanics = FALSE
INVARIANTS
    NoMutualSleep
    ProducersNeverMissWake
PROPERTIES
    RecvCompletes
    SendCompletes
