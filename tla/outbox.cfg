SPECIFICATION FairSpec
CONSTANTS
  w1 = w1
  w2 = w2
  Workers <- TwoWorkers
  MaxDeliveries = 3
  BatchLimit = 2
  MaxAttempts = 2
  Unusable = {1}
  MaxFaults = 1
INVARIANTS
  AttemptsWereMade
  OutcomeIsEarned
  SecondAckNeedsOverlap
PROPERTY DeliveriesSettle
CHECK_DEADLOCK FALSE
