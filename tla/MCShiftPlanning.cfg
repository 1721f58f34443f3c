SPECIFICATION FairSpec
CONSTANTS
    Catalogue <- MCCatalogue
    Requests <- AllBodies
    MaxStations = 1
    MaxHoursPerShift = 2
    Handlers = {h1, h2}
    MaxRequests = 3
    NoOne = NoOne
    NoBody = NoBody
CHECK_DEADLOCK FALSE
INVARIANTS PlanIsWellFormed EventsCarryCommittedLines
PROPERTIES CommitReplacesWhatItSaw EveryCommitIsAnswered
