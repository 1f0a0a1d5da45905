SPECIFICATION Spec
CONSTANTS
    Posters = {p1, p2}
    Batches <- SmallBatches
    EventQueueSize = 1
    kMaxSizePendingWriteEventsQueue = 2
    kWakelockTimeout = 1
    MaxPosts = 2
    MaxInits = 2
    MaxNow = 2
INVARIANTS
    QuietUntilReset
CHECK_DEADLOCK FALSE
