SPECIFICATION FairSpec
CONSTANTS
    WorkerIds = {w1, w2, w3}
    NoWorker = NoWorker
    MaxGeneration = 3
    MaxRevision = 3
INVARIANT RouteReachesWriter
PROPERTIES GrantsIncrease ReleaseAfterExit LostLeaseStops
CHECK_DEADLOCK FALSE
