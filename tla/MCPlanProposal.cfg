SPECIFICATION Spec
CONSTANTS
    Partitions = {0}
    TaskTopics <- AllTopics
    Events <- AllEvents
    Route <- OnePartition
    TaskTypes = {"PICK"}
    NoIdle = NoIdle
    MaxLog = 3
    MaxExpired = 1
    MaxUpsets = 2
    Requests <- AllRequests
    Measured = {3, 90}
    Threshold = 0
    MaxRequests = 1
    Unavailable = Unavailable
CHECK_DEADLOCK FALSE
INVARIANTS EachTaskCountsOnce HeadsCoverTheCharge TrimIsBounded ProposalsRestOnTasks
