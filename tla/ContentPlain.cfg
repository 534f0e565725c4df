SPECIFICATION Spec
CONSTANTS
  Files = {f1, f2}
  SubFiles = {f1}
  Bytes = {x, y}
  SecBytes = 1
  SecPerClus = 2
  MaxClus = 5
  Page = 4
  Kinds = {"plain"}
  Spellings = {"exact"}
  MaxSize = 5
  MaxWrites = 4
SYMMETRY DataSymmetry
INVARIANTS
  WriteStored
  ReadStored
PROPERTIES
  BytesSpec
