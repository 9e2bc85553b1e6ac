SPECIFICATION Spec
CONSTANTS
  c1 = c1
  c2 = c2
  w1 = w1
  w2 = w2
  t1 = t1
  none = none
  Clients <- OneClient
  Workers <- TwoWorkers
  Threads <- OneThread
  NoThread = none
  Strategies = {"enqueue"}
  CancelActions = {}
  Hooks = {FALSE}
  Outcomes <- Usual
  CronRuns = FALSE
  Faults <- NoFaults
  KeyExpiry = FALSE
  MaxRuns = 2
  MaxRequests = 0
  MaxWakes = 1
  MaxCrashes = 0
  MaxRequeues = 0
INVARIANT PerThreadSingleConcurrency
CHECK_DEADLOCK FALSE
