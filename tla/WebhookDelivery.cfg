SPECIFICATION Spec
CONSTANTS
    Shared = {"s1", "s2"}
    Own = {}
    Deferred = {"d"}
    MaxRetries = 1
    MaxMissing = 1
    Retried = {"s1"}
    Switched = {"d"}
    Killing = TRUE
    Lagging = TRUE
INVARIANTS TypeOK PayloadAtHand NoOrphans PendingHasTask AcceptedRemoved
PROPERTIES RemovedForReason
CHECK_DEADLOCK FALSE
