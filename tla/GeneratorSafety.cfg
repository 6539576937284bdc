SPECIFICATION Spec
CONSTANTS
  s1 = s1
  s2 = s2
  n1 = n1
  n2 = n2
  heer1 = heer1
  ranj1 = ranj1
  heer2 = heer2
  None = None
  Sessions = {s1, s2}
  Nodes = {n1}
  Streams = {heer1}
  NodeOf <- SingleStream
  SeqCap = 2
  DriftBelow = 2
  HardFrom = 3
  Guarded = {}
  MaxTick = 4
  Counts = {0, 1, 2}
  Spans = {TRUE, FALSE}
  Backward = {1}
  Deletable = {}
  MaxClock = 2
  MaxHeld = 4
SYMMETRY SessionSymmetry
INVARIANTS TypeOK UniqueIds StateCoversIssued
PROPERTIES RowNeverRegresses ImplementsAllocator
