SPECIFICATION Spec
CONSTANTS
  s1 = s1
  s2 = s2
  n1 = n1
  n2 = n2
  None = None
  Sessions = {s1}
  Nodes = {n1}
  NodeOne = n1
  SeqCap = 8
  Epochs = {0}
  Precisions = {"ns"}
  Factor <- FactorValue
  Counts = {1}
  Forces = {}
  ConfiguredAtStart = {TRUE}
  MayInstall = TRUE
  MaxClock = 3
  MaxChanges = 3
  MaxCalls = 3
INVARIANTS ReinstallHarmless
CHECK_DEADLOCK FALSE
