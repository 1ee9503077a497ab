SPECIFICATION Spec
CONSTANTS
    Cap = 1
    Strategies = {"BusySpin"}
    DrainLimits = {1}
    MaxOffers = 1
    CallbackPanics = FALSE
PROPERTIES
    PublishOnlyToLiveReceiver
