SPECIFICATION FairSpec
CONSTANTS
    Callers = {p1, p2}
    Kinds = {"mapped", "unmapped", "unmeasured"}
    ConsecutiveLimit = 2
    MinVolume = 4
    MaxAttempts = 2
    MaxVolume = 5
    MaxOutages = 3
    MaxCancels = 1
CHECK_DEADLOCK FALSE
INVARIANT OneProbeAtATime
PROPERTIES TripsOnFreshEvidence Recovers
