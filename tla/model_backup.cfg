SPECIFICATION Spec
CONSTANTS
    NumArtifacts = 2
    Uploads = {2}
    Enablers = {}
    Disablers = {}
    MaxFaults = 1
    MaxUndoFaults = 0
    MaxLoadFaults = 0
    MaxCrashes = 0
PROPERTY FailureRollsBack
CHECK_DEADLOCK FALSE
