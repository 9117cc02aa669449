SPECIFICATION FairSpec
CONSTANTS
  Handlers = {h1, h2}
  Editors = {e1, e2}
  Inputs <- MCInputs
  DefaultPlaybook <- MCDefault
  Events <- MCEvents
  Canonical <- MCCanonical
  AddrBits = 2
  Capacity = 2
  DefaultExpiry = 1
  FallbackCooldown = 1
  DefaultWindow = 1
  DefaultMinConf = 1
  MaxDeque = 2
  MaxKeys = 1
  Retention = 1
  Budgets <- MCBudgets
  MaxTime = 2
INVARIANTS TypeOK CacheFollowsDb 
PROPERTIES CooldownHolds FrequencyExact EventsAreHandled
CHECK_DEADLOCK FALSE
