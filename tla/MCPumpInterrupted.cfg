SPECIFICATION FairSpec
CONSTANTS
    Actions = {a1, a2}
    NoAction = NoAction
    Scheduled = {}
    Deadlined = {}
    IsChild = FALSE
    SessionFaults = FALSE
    MaxCrashes = 1
PROPERTIES TakenUpResolves
