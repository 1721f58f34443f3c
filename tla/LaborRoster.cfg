\* One associate, two handlers, four requests: any two of the six use cases
\* interleaved step by step, after and before any other two.
SPECIFICATION FairSpec
CONSTANTS
    Associates = {a1}
    Paths = {p1}
    Handlers = {h1, h2}
    MaxHoursPerShift = 1
    MaxTime = 2
    MaxRequests = 4
    NoRow = NoRow
    NoInterval = NoInterval
    NoPath = NoPath
    NoCall = NoCall
    NoOne = NoOne
CHECK_DEADLOCK FALSE
INVARIANTS TypeOK VersionNamesTheValue OutboxReplaysToShift IntervalsInOrder
PROPERTIES ShiftIsAtomic HistoryGrowsByClosing HoursFollowHistory EveryRequestIsAnswered
