SPECIFICATION FairSpec
CONSTANTS
    RAPID_PERFORM_WINDOW_MS = 2
    RAPID_PERFORM_DRAIN_AFTER = 2
    Durations = {1}
    MaxCalls = 4
    MaxNow = 5
INVARIANTS
    TypeOK
    BurstNeverPilesUp
PROPERTIES
    FirstTapsPlay
    AcceptedCompletes
CHECK_DEADLOCK FALSE
