SPECIFICATION Spec
CONSTANTS
    NumArtifacts = 1
    Uploads = {2, 3}
    Enablers = {e}
    Disablers = {d}
    MaxFaults = 1
    MaxUndoFaults = 0
    MaxLoadFaults = 1
    MaxCrashes = 1
INVARIANT TypeOK
INVARIANT ServedIsAudited
INVARIANT ModelSurvives
CHECK_DEADLOCK FALSE
