SPECIFICATION Spec
CONSTANTS
  h1 = h1
  h2 = h2
  i1 = i1
  i2 = i2
  Handlers <- TwoHandlers
  Nobody = Nobody
  Modes = {"mode_a", "mode_b"}
  Images <- TwoImages
  NoImage = ""
  DefaultImage = "latest"
  Faults = {"store", "sync"}
  MaxRequests = 3
  MaxRestarts = 1
INVARIANTS
  TypeOK
  LoneRequestHeals
  RevisionsWereCurrent
PROPERTY StaleCopyKeepsImage
SYMMETRY Symmetric
CHECK_DEADLOCK FALSE
