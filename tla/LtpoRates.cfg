SPECIFICATION Spec
CONSTANTS
    kBoostHold = 2
    TargetHz = {0, 1, 11, 30, 120, 121}
    MaxNow = 6
    MaxDeaths = 1
    WritesFail = TRUE
INVARIANTS
    TypeOK
    CacheCoherent
    NeverTooSlow
PROPERTIES
    SmoothDuringHold
