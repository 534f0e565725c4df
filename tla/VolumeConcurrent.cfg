SPECIFICATION FairSpec
CONSTANTS
  Threads = {t1, t2}
  Names = {f1, f2}
  NoName = NoName
  MaxClus = 3
  MaxGrow = 1
  Spellings = {"exact"}
  EmptyImage = {f1}
  MaxCrashes = 1
INVARIANTS
  LinksAscend
PROPERTIES
  SoundApart
  ChainLoopsAdvance
  OpCompletes
