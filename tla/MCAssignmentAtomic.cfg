SPECIFICATION Spec
CONSTANTS
    Associates = {a1}
    Paths = {p1, p2}
    Handlers = {h1, h2}
    MaxHoursPerShift = 1
    MaxTime = 1
    MaxRequests = 4
    NoRow = NoRow
    NoInterval = NoInterval
    NoPath = NoPath
    NoCall = NoCall
    NoOne = NoOne
CHECK_DEADLOCK FALSE
PROPERTY AssignmentIsAtomic
