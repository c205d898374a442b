CONSTANTS
    Callers = {"h1", "h2"}
    Builds <- MCBuilds
    TokenLifetime = 3
    TokenMargin = 1
    SetupTime = 1
    RetryFor = 4
    FirstBackoff = 1
    BackoffLimit = 2
    MaxTime = 5
    MaxFaults = 1
SPECIFICATION Spec
INVARIANT NoNilHandleServed
INVARIANT ReachedAsRecorded
INVARIANT TokensFresh
INVARIANT ReleasedIsClosed
INVARIANT CutOnlyWhenSpent
PROPERTY ShutdownEnds
CHECK_DEADLOCK FALSE
