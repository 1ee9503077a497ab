SPECIFICATION FairSpec
CONSTANTS
    Senders = {"p1", "p2", "p3"}
    Cap = 1
    MaxClaims = 2
INVARIANT NobodyLeftParked
PROPERTY WaitersGoOn
