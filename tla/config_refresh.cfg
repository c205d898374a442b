SPECIFICATION FairSpec
CONSTANTS
    r1 = r1
    r2 = r2
    Readers = {r1, r2}
    Deployments <- MCDeployments
    Calls <- MCCalls
    DefaultRefresh = 2
    Latency = 1
    MaxRotations = 1
INVARIANT ServedFresh
INVARIANT AnsweredByTheStoreMeant
PROPERTY ReadingIsWhole
PROPERTY LoadsReturn
