SPECIFICATION McpSpec
CONSTANTS
    Associates = {a1}
    Paths = {p1}
    MaxHoursPerShift = 2
    MaxTime = 1
    NoRow = NoRow
    NoInterval = NoInterval
    Handlers = {h1, h2}
    McpHandlers = {h2}
    MaxRequests = 2
    NoPath = NoPath
    NoCall = NoCall
    NoOne = NoOne
CHECK_DEADLOCK FALSE
PROPERTY ChangesCarryTheirEvents
