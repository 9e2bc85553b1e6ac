SPECIFICATION Spec
CONSTANTS
  c1 = c1
  c2 = c2
  w1 = w1
  w2 = w2
  t1 = t1
  none = none
  Clients <- OneClient
  Workers <- TwoWorkers
  Threads <- OneThread
  NoThread = none
  Strategies = {"interrupt", "rollback"}
  CancelActions = {"rollback"}
  Hooks = {TRUE}
  Outcomes <- ReplyActive
  CronRuns = TRUE
  Faults = {"store"}
  KeyExpiry = FALSE
  MaxRuns = 2
  MaxRequests = 1
  MaxWakes = 0
  MaxCrashes = 1
  MaxRequeues = 1
INVARIANTS
  OneDeliveryPerRun
  DeliveryMeansFinished
  RunningHasWorker
  ReferencesResolve
PROPERTY ImplementsRunSpec
SYMMETRY Symmetric
CHECK_DEADLOCK FALSE
