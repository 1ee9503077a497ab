SPECIFICATION FairSpec
CONSTANTS
    Senders = {"p1", "p2"}
    MaxClaims = 4
INVARIANT NoLostWake
PROPERTY RecvAnswers
