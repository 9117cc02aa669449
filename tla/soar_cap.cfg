SPECIFICATION Spec
CONSTANTS
    IPs = {a}
    Handlers = {h1, h2, h3}
    Unblockers = {}
    Admins = {adm}
    Reloaders = {}
    Cap = 2
    TTLs = {1}
    MaxRetries = 1
    MaxBlocks = 3
    MaxTime = 2
    MaxPending = 2
    MaxDbFaults = 1
    MaxDpFaults = 1
    MaxCrashes = 0
INVARIANT ManualAclKept
INVARIANT CountFollowsBlocks
INVARIANT MaxConcurrentBlocks
SYMMETRY Symmetry
CHECK_DEADLOCK FALSE
