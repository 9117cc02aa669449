SPECIFICATION Spec
CONSTANTS
    IPs = {a}
    Handlers = {h1}
    Unblockers = {u}
    Admins = {adm}
    Reloaders = {}
    Cap = 2
    TTLs = {1}
    MaxRetries = 1
    MaxBlocks = 2
    MaxTime = 1
    MaxPending = 1
    MaxDbFaults = 1
    MaxDpFaults = 0
    MaxCrashes = 1
INVARIANT TypeOK
PROPERTY OverlapKeepsAcl
 
SYMMETRY Symmetry
CHECK_DEADLOCK FALSE
