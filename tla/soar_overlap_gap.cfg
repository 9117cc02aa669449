SPECIFICATION Spec
CONSTANTS
    IPs = {a, b}
    Handlers = {h1, h2}
    Unblockers = {}
    Admins = {}
    Reloaders = {}
    Cap = 2
    TTLs = {1, 2}
    MaxRetries = 1
    MaxBlocks = 3
    MaxTime = 2
    MaxPending = 2
    MaxDbFaults = 0
    MaxDpFaults = 0
    MaxCrashes = 0
INVARIANT ActiveBlockEnforced
SYMMETRY Symmetry
CHECK_DEADLOCK FALSE
