SPECIFICATION FairSpec
CONSTANTS
    Aggregates <- ShiftRows
    Lockless <- PlanCommits
    Keys = {"a1", "b1/s1"}
    KeysOf <- FirstOf
    Relays = {r1, r2}
    Deployments = {{r1}, {r1, r2}}
    BatchSize = 2
    MaxRows = 3
    MaxFaults = 2
CHECK_DEADLOCK FALSE
INVARIANTS TypeOK NothingLostNothingInvented ClaimsAreExclusive FirstDeliveriesInOrder SettledOnTheLatest
PROPERTY EveryRowIsPublished
