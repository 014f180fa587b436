SPECIFICATION Spec
CONSTANTS
    WorkerIds = {w1, w2, w3}
    NoWorker = NoWorker
    MaxGeneration = 3
    MaxRevision = 3
PROPERTIES LeaseNeverRegresses
CHECK_DEADLOCK FALSE
