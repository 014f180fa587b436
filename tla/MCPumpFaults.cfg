SPECIFICATION FairSpec
CONSTANTS
    Actions = {a1, a2}
    NoAction = NoAction
    Scheduled = {a2}
    Deadlined = {a1}
    IsChild = TRUE
    SessionFaults = TRUE
    MaxCrashes = 2
INVARIANTS CompletedMeansHandedOver NoBlindRerun
 
