SPECIFICATION Spec
CONSTANTS
  s1 = s1
  s2 = s2
  n1 = n1
  n2 = n2
  heer1 = heer1
  ranj1 = ranj1
  heer2 = heer2
  None = None
  Sessions = {s1, s2}
  Nodes = {n1}
  Streams = {heer1}
  NodeOf <- SingleStream
  SeqCap = 2
  DriftBelow = 2
  HardFrom = 3
  Guarded = {heer1}
  MaxTick = 4
  Counts = {1, 2, 5}
  Spans = {TRUE, FALSE}
  Backward = {}
  Deletable = {}
  MaxClock = 4
  MaxHeld = 5
SYMMETRY SessionSymmetry
INVARIANTS DriftBounded
PROPERTIES NoFalseRollback
