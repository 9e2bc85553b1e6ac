SPECIFICATION Spec
CONSTANTS
  Operators = {"o1"}
  Specs <- TwoSpecs
  MaxChanges = 1
  MaxFaults = 2
INVARIANTS
  TypeOK
  IdleMeansReconciled
PROPERTY Converges
CHECK_DEADLOCK FALSE
