SPECIFICATION Spec
CONSTANTS
    e1 = e1
    e2 = e2
    Events = {e1, e2}
    Concurrency = 2
    MaxSends = 1
    Deadlined = {e1, e2}
    Behaviours = {"stray", "refuse", "cancel", "ackAgain", "drain", "close", "break", "signal"}
INVARIANT NoCreditLeak
INVARIANT NoSendOnClosedChannel
INVARIANT CancelReaches
INVARIANT ClosedWithEverythingAnswered
PROPERTY RefinesWindow
SYMMETRY Symmetry
CHECK_DEADLOCK FALSE
