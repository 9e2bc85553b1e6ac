SPECIFICATION FairSpec
CONSTANTS
  c1 = c1
  c2 = c2
  none = none
  Clients <- OneClient
  NoClient = none
  Openers <- AnyOpener
  Ends = {"run_completed", "run_rolled_back"}
  Resumables = {TRUE, FALSE}
  Faults = {"lost", "read"}
  ApiRollback = TRUE
  MaxEvents = 3
  MaxJoins = 2
  ClockId = 9
INVARIANTS
  TypeOK
  InOrderOnce
  BufferIsTheEmission
PROPERTIES
  ResumableWithholdsNothing
  EndReachesListeners
CHECK_DEADLOCK FALSE
