SPECIFICATION Spec
CONSTANTS
    MaxSessions = 1
    MaxCalls = 2
    MaxMessages = 1
    MaxNow = 2
    Timers <- OneTimer
    ClientOps <- LightOps
    VendorMessages <- LightMessages
    WORKER_QUEUE_SIZE = 2
    LOCKOUT_TIMED_THRESHOLD = 1
    LOCKOUT_PERMANENT_THRESHOLD = 2
    LOCKOUT_TIMED_DURATION = 1
INVARIANTS
    CallbacksOffBinder
CHECK_DEADLOCK FALSE
