SPECIFICATION FairSpec
CONSTANTS
    Strategies = {"BusySpin", "Backoff", "BackoffYield"}
    MaxStep = 36
    Grain = 40
INVARIANTS DelayBounded DelayProportional
PROPERTIES LadderOnlyClimbs ReadyCallReturns
