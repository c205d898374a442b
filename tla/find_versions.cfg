CONSTANTS
    NKeys = 2
    Home = "here"
    Buckets = {"here", "there"}
    Regions = {"east", "west"}
    OwnRegion = "east"
    NoRegion = "none"
    RegionOf <- Apart
    Writers = {h1}
    Walkers = {w1}
    Lengths = {2}
    Attributes <- Plain
    Starts = {0, 1, 2}
    Spans = {0, 1}
    RefLists <- Lists
    MaxDeletes = 2
    MaxKeysPerPage = 2
    Limits = {2}
    Busy = {"here"}
    Builds <- VersionedBuild
    MaxWrites = 3
    MaxFaults = 1
SPECIFICATION Spec
INVARIANT EveryVersionListed
CHECK_DEADLOCK FALSE
