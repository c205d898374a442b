CONSTANTS
    NKeys = 2
    PartitionOf <- OnePartition
    Handlers = {h1, h2}
    Partitions = {"p", "q"}
    ChunkSize = 1
    MaxUpdates = 2
    MaxAtomicOps = 2
    Conds <- SomeConditions
    MaxWrites = 2
    MaxFaults = 1
    Impls = {"dynamodb", "memory"}
SPECIFICATION Spec
SYMMETRY HandlerSymmetry
INVARIANT NoLostUpdate
INVARIANT RefusedNotApplied
INVARIANT BatchAccounted
INVARIANT StableListedOnce
CHECK_DEADLOCK FALSE
