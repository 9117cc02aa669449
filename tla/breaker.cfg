SPECIFICATION FairSpec
CONSTANTS
    Swappers = {w, h}
    Threshold = 2
    Window = 2
    Cooldown = 2
    MaxTime = 6
    MaxSwaps = 2
INVARIANT TypeOK
INVARIANT DisabledWhileOpen
INVARIANT NoStuckTrial
PROPERTY OpensOnFailures
 
CHECK_DEADLOCK FALSE
