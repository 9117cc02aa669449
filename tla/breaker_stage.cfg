SPECIFICATION Spec
CONSTANTS
    Swappers = {}
    Threshold = 1
    Window = 2
    Cooldown = 2
    MaxTime = 6
    MaxSwaps = 0
INVARIANT FailureOpens
CHECK_DEADLOCK FALSE
