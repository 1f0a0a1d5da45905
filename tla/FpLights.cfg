SPECIFICATION FairSpec
CONSTANTS
    MaxSessions = 2
    MaxCalls = 4
    MaxMessages = 1
    MaxNow = 2
    Timers <- OneTimer
    ClientOps <- LightOps
    VendorMessages <- LightMessages
    WORKER_QUEUE_SIZE = 2
    LOCKOUT_TIMED_THRESHOLD = 1
    LOCKOUT_PERMANENT_THRESHOLD = 2
    LOCKOUT_TIMED_DURATION = 1
INVARIANTS
    NeverLitUnattended
PROPERTIES
    ClosingDarkens
CHECK_DEADLOCK FALSE
