SPECIFICATION FairLifecycleSpec
CONSTANTS
    Requests = {r1, r2}
    Retries = 5
    Delay = 1
    ResetPeriod = 10
CHECK_DEADLOCK FALSE
INVARIANTS SurvivesTheReset RelayOutlivesRequests
PROPERTIES BootEnds SignalEndsTheProcess
