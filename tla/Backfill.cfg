SPECIFICATION FairSpec
CONSTANTS
  r1 = r1
  r2 = r2
  w1 = w1
  w2 = w2
  Backfiller = Backfiller
  NoOne = NoOne
  Null = Null
  Absent = Absent
  Same = Same
  Rows = {r1, r2}
  Writers = {w1, w2}
  Settings <- TheSettings
  IdBound = 2
INVARIANTS TypeOK DoneMeansFilled NeverStale
PROPERTIES NoLostWrite FillsTable BackfillEnds
