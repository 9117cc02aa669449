SPECIFICATION FairSpec
CONSTANTS
    NumArtifacts = 2
    Uploads = {2, 3}
    Enablers = {}
    Disablers = {}
    MaxFaults = 1
    MaxUndoFaults = 1
    MaxLoadFaults = 0
    MaxCrashes = 1
PROPERTY MoveFailureRollsBack
PROPERTY CatchesUp
CHECK_DEADLOCK FALSE
