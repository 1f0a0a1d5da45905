SPECIFICATION Spec
CONSTANTS
    MaxSessions = 1
    MaxCalls = 2
    MaxMessages = 2
    MaxNow = 4
    Timers <- OneTimer
    ClientOps <- Ops
    VendorMessages <- Messages
    WORKER_QUEUE_SIZE = 1
    LOCKOUT_TIMED_THRESHOLD = 1
    LOCKOUT_PERMANENT_THRESHOLD = 2
    LOCKOUT_TIMED_DURATION = 1
INVARIANTS
    TypeOK
    LockedOutDisarmed
CHECK_DEADLOCK FALSE
