SPECIFICATION SerialSpec
CONSTANTS
    MaxSessions = 1
    MaxCalls = 3
    MaxMessages = 4
    MaxNow = 5
    Timers <- TwoTimers
    ClientOps <- LockoutOps
    VendorMessages <- LockoutMessages
    WORKER_QUEUE_SIZE = 2
    LOCKOUT_TIMED_THRESHOLD = 1
    LOCKOUT_PERMANENT_THRESHOLD = 2
    LOCKOUT_TIMED_DURATION = 1
INVARIANTS
    PermanentSticks
    StartedIffOneTimer
    FrameworkInformed
CHECK_DEADLOCK FALSE
