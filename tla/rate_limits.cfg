SPECIFICATION FairSpec
CONSTANTS
    NumRates = 2
    NumKeys = 2
    Values = {1, 3}
    Default <- MCDefault
    Factors <- Halve
    TTLs = {1}
    Admins = {adm}
    MaxTime = 1
    MaxFaults = 1
    MaxUndoFaults = 1
    MaxCrashes = 1
INVARIANT TypeOK
INVARIANT AgreesWhenQuiet
INVARIANT NeverRaised
PROPERTY EventuallyRestored
CHECK_DEADLOCK FALSE
