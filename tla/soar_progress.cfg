SPECIFICATION FairSpec
CONSTANTS
    IPs = {a}
    Handlers = {h1, h2}
    Unblockers = {}
    Admins = {}
    Reloaders = {r}
    Cap = 2
    TTLs = {1, 2}
    MaxRetries = 1
    MaxBlocks = 2
    MaxTime = 2
    MaxPending = 2
    MaxDbFaults = 1
    MaxDpFaults = 1
    MaxCrashes = 1
INVARIANT NoOrphanBlock
PROPERTY ExpiredEventuallyUnblocked
 
CHECK_DEADLOCK FALSE
