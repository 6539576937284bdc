SPECIFICATION LibrarySpec
CONSTANTS
  HeerTicks = 2
  HeerNodes = 2
  HeerSeqs = 2
  HighTicks = 4
  MidTicks = 2
  LowTicks = 2
  RanjNodes = 4
  RanjSeqs = 4
  Versions = 2
  Version = 1
  Variants = 2
  Variant = 1
  Precisions = 2
  Millis <- MillisValue
  RanjIds <- RanjIdsValue
  HeerIds <- HeerIdsValue
  MaxBatch = 3
  Threads = {t1, t2}
  Given <- GivenValue
  DefaultPrecision = 1
  GivenHeer <- GivenHeerValue
  GivenRanj <- GivenRanjValue
  Arrivals <- ArrivalsValue
  SafeInteger = 4
  MaxHops = 3
  Callers = {c1, c2}
  Words <- WordsValue
  Structs <- StructsValue
  Strings <- StringsValue
  MaxCalls = 4
INVARIANTS AgreesWithCheck OrderFree KeepsOrder RoundTrip LosslessOrRefused ConvertedInOrder ErrorIsOwn
