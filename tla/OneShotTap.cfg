SPECIFICATION FairSpec
CONSTANTS
    HasGesture = TRUE
    ReadsFail = FALSE
    MaxActivations = 3
    MaxModeChanges = 2
    MaxPosts = 4
INVARIANTS
    TypeOK
    OneEventPerActivation
    PollInterruptible
    NeverSleepsEnabled
PROPERTIES
    TouchReported
    DestructionEnds
CHECK_DEADLOCK FALSE
