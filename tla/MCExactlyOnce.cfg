SPECIFICATION Spec
CONSTANTS
    Topics <- MixedTopics
    Consumers = {"c1"}
    Crews <- OnePod
    MaxAttempts = 3
    MaxFaults = 1
    HourLength = 2
    NoStart = NoStart
CHECK_DEADLOCK FALSE
INVARIANT AppliedOrDeadLettered
