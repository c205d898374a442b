SPECIFICATION FairSpec
CONSTANTS
    e1 = e1
    e2 = e2
    Events = {e1, e2}
    Concurrency = 2
    MaxSends = 2
    Deadlined = {e1, e2}
    Behaviours = {"ackAgain", "drain"}
INVARIANT AckMatchesSend
INVARIANT AckNotLost
PROPERTY RefinesFairWindow
PROPERTY DrainBounded
