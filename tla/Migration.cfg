SPECIFICATION FairSpec
CONSTANTS
  c1 = c1
  w1 = w1
  Null = Null
  NoOne = NoOne
  Absent = Absent
  Same = Same
  Migrator = Migrator
  Children = {c1}
  Writers = {w1}
  MaxIds = 2
  IdBound = 4
  MaxStatements = 2
  MaxRuns = 2
INVARIANTS TypeOK LinksKept NeverHalfMigrated WritersUnharmed ScriptSound
CHECK_DEADLOCK FALSE
PROPERTIES ScriptEnds StatementsEnd
