SPECIFICATION FairSpec
CONSTANTS
  s1 = s1
  s2 = s2
  n1 = n1
  n2 = n2
  heer1 = heer1
  ranj1 = ranj1
  heer2 = heer2
  None = None
  Sessions = {s1, s2}
  Nodes = {n1, n2}
  Streams = {heer1, heer2}
  NodeOf <- TwoNodes
  SeqCap = 2
  DriftBelow = 2
  HardFrom = 3
  Guarded = {}
  MaxTick = 4
  Counts = {1}
  Spans = {TRUE}
  Backward = {}
  Deletable = {n2}
  MaxClock = 0
  MaxHeld = 2
INVARIANTS UniqueIds
PROPERTIES CallEnds
