SPECIFICATION Spec
CONSTANTS
  Threads = {t1}
  Names = {f1, f2, f3}
  NoName = NoName
  MaxClus = 5
  MaxGrow = 2
  Spellings = {"exact"}
  EmptyImage = {}
  MaxCrashes = 0
INVARIANTS
  NoCrossLink
  NoDangling
  NoLeak
  PastOnlyWhenFull
  HarmBounded
PROPERTIES
  PoolSpec
