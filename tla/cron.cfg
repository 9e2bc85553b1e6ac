SPECIFICATION FairSpec
CONSTANTS
  w1 = w1
  w2 = w2
  Workers <- TwoWorkers
  Schedules <- ThreeSchedules
  Unparsable = Unparsable
  MaxChanges = 1
  MaxTime = 3
  Lag = 1
  CatchUp = 2
  MaxFaults = 1
INVARIANTS
  TypeOK
  DispatchesPerSlot
  SkipsNeedABlindRace
  NoOrphanExecution
PROPERTY CatchesUp
CHECK_DEADLOCK FALSE
