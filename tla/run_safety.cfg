SPECIFICATION Spec
CONSTANTS
  c1 = c1
  c2 = c2
  w1 = w1
  w2 = w2
  t1 = t1
  none = none
  Clients <- TwoClients
  Workers <- TwoWorkers
  Threads <- OneThread
  NoThread = none
  Strategies <- AllStrategies
  CancelActions <- AllActions
  Hooks = {TRUE}
  Outcomes <- ReplyPending
  CronRuns = FALSE
  Faults <- NoFaults
  KeyExpiry = TRUE
  MaxRuns = 2
  MaxRequests = 1
  MaxWakes = 0
  MaxCrashes = 0
  MaxRequeues = 1
INVARIANTS
  TypeOK
  AtMostOnceExecution
SYMMETRY Symmetric
CHECK_DEADLOCK FALSE
