SPECIFICATION Spec
CONSTANTS
    Associates = {a1, a2}
    Paths = {"pick", "pack", "typo"}
    Declared = {"pick", "pack"}
    Plans <- MCPlans
    Handlers = {h1}
    MaxRequests = 2
    MaxChanges = 4
    NoPath = NoPath
    NoPlan = NoPlan
CHECK_DEADLOCK FALSE
INVARIANTS GapsWereTrue ListsBlurByMoves EventsMatchTheAnswer
