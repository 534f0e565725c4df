SPECIFICATION Spec
CONSTANTS
  Files = {f1, f2}
  SubFiles = {f1}
  Bytes = {x, y}
  SecBytes = 2
  SecPerClus = 2
  MaxClus = 5
  Page = 8
  Kinds = {"plain", "fill"}
  Spellings = {"exact"}
  MaxSize = 8
  MaxWrites = 2
INVARIANTS
  WriteStored
