SPECIFICATION Spec
CONSTANTS
  c1 = c1
  c2 = c2
  none = none
  Clients <- OneClient
  NoClient = none
  Openers <- NoOpener
  Ends = {"run_completed", "run_rolled_back"}
  Resumables = {FALSE}
  Faults <- NoFault
  ApiRollback = FALSE
  MaxEvents = 2
  MaxJoins = 1
  ClockId = 9
PROPERTY NothingWithheld
CHECK_DEADLOCK FALSE
