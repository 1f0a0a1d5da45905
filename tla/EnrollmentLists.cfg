SPECIFICATION Spec
CONSTANTS
    Users = {"owner", "guest"}
    Fids = {1, 2}
    Stored <- SmallStored
    Removals <- SmallRemovals
    WORKER_QUEUE_SIZE = 2
    MaxSessions = 2
    MaxCalls = 3
CHECK_DEADLOCK FALSE
INVARIANTS
    TypeOK
    ToldExactly
PROPERTY
    EnumerationAnswered
