CONSTANTS
    Apps = {"orders"}
    Handlers = {h1, h2}
    AppOf <- AllOfOrders
    Batchers = {h1}
    NNames = 2
    NoTag = NoTag
    UserTag = UserTag
    Shards = {"s1", "s2"}
    Placement <- OnShards
    Deployments <- ThreeDeployments
    SetModes <- SomeModes
    TxVerbs = {"set", "rename"}
    MaxWrites = 2
    BatchNames <- SomeNames
    MaxFaults = 1
SPECIFICATION Spec
INVARIANT ClaimHeld
INVARIANT NoCrossShardCommand
INVARIANT BatchWhole
INVARIANT WalkComplete
INVARIANT ClaimSeen
CHECK_DEADLOCK FALSE
