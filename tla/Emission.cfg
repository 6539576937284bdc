SPECIFICATION EmissionSpec
CONSTANTS
  SeqCap = 3
  LastTick = 4
  Checked = TRUE
  StartTicks <- StartTicksValue
  Requests <- RequestsValue
INVARIANTS EmitsClosedForm RaisesExactly
