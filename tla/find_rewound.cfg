CONSTANTS
    NKeys = 1
    PartitionOf <- OnePartition
    Handlers = {h1, h2, h3}
    Partitions = {"p"}
    ChunkSize = 1
    MaxUpdates = 1
    MaxAtomicOps = 1
    Conds <- NoConditions
    MaxWrites = 3
    MaxFaults = 1
    Impls = {"dynamodb"}
SPECIFICATION Spec
INVARIANT RevisionsProtect
CHECK_DEADLOCK FALSE
