SPECIFICATION Spec
CONSTANTS
  Dirs = {"root", "sub"}
  Names = {n1, n2, n3}
  RootEntCnt = 3
  PerSec = 2
  SecPerClus = 2
  MaxClus = 4
  SubChain <- Apart
SYMMETRY NameSymmetry
INVARIANTS
  FirstFreeTaken
PROPERTIES
  HarmAtBorder
  NamesKept
