SPECIFICATION Spec
CONSTANTS
  Absent = Absent
  LookAhead = 2
  GateVars = {"URL"}
  Places <- ThePlaces
  Settings <- TheSettings
  Saves <- TheSaves
INVARIANTS MaskExact NothingEscapes NoFalseAlarm VerdictSound
CHECK_DEADLOCK FALSE
