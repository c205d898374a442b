CONSTANTS
    Senders = {"s1", "s2"}
    Batches <- BatchesOf
    Singles <- Alone
    MaxBatchEntries = 2
    Backends <- AllBackends
    MaxRetries = 2
    MaxFaults = 2
    MaxResets = 1
SPECIFICATION Spec
INVARIANT EveryEntryAccounted
INVARIANT AnswersMatched
INVARIANT AcceptedInOrder
CHECK_DEADLOCK FALSE
