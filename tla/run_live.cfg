SPECIFICATION FairSpec
CONSTANTS
  c1 = c1
  c2 = c2
  w1 = w1
  w2 = w2
  t1 = t1
  none = none
  Clients <- OneClient
  Workers <- OneWorker
  Threads <- OneThread
  NoThread = none
  Strategies = {"rollback"}
  CancelActions <- AllActions
  Hooks = {TRUE}
  Outcomes = {"success"}
  CronRuns = FALSE
  Faults = {"store", "key", "hook"}
  KeyExpiry = FALSE
  MaxRuns = 2
  MaxRequests = 1
  MaxWakes = 1
  MaxCrashes = 1
  MaxRequeues = 0
PROPERTIES
  PendingIsTaken
  WebhookIsRecorded
  CancelIsHonoured
CHECK_DEADLOCK FALSE
