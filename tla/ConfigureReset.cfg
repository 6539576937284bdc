SPECIFICATION AdvisedSpec
CONSTANTS
  s1 = s1
  s2 = s2
  n1 = n1
  n2 = n2
  None = None
  Sessions = {s1}
  Nodes = {n1}
  NodeOne = n1
  SeqCap = 2
  Epochs = {0}
  Precisions = {"us", "ns"}
  Factor <- FactorValue
  Counts = {1, 3}
  Forces = {TRUE}
  ConfiguredAtStart = {TRUE}
  MayInstall = FALSE
  MaxClock = 3
  MaxChanges = 3
  MaxCalls = 3
PROPERTIES HeerIdsOnce
CHECK_DEADLOCK FALSE
