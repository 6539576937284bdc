SPECIFICATION Spec
CONSTANTS
  s1 = s1
  s2 = s2
  n1 = n1
  n2 = n2
  None = None
  Sessions = {s1, s2}
  Nodes = {n1}
  NodeOne = n1
  SeqCap = 2
  Epochs = {0, 2}
  Precisions = {"us", "ns", "xs"}
  Factor <- FactorValue
  Counts = {1, 3}
  Forces = {FALSE}
  ConfiguredAtStart = {FALSE}
  MayInstall = TRUE
  MaxClock = 3
  MaxChanges = 3
  MaxCalls = 3
SYMMETRY SessionSymmetry
INVARIANTS TypeOK
PROPERTIES NeverIssuedTwice ConfiguredNodeUsable
CHECK_DEADLOCK FALSE
