SPECIFICATION FairSpec
CONSTANTS
    Topics <- AllTopics
    Consumers = {"c1", "c2"}
    Crews <- MCCrews
    MaxAttempts = 3
    MaxFaults = 3
    HourLength = 2
    NoStart = NoStart
CHECK_DEADLOCK FALSE
INVARIANTS ReportsCountOnce DurationsAreOfBreaks
PROPERTIES ActsAsMemoryStore DrainedUnlessStopped
