SPECIFICATION Spec
CONSTANTS NameLen = 2 ExtLen = 2 Texts <- MCTexts
INVARIANTS InBounds Encoded ExitIllFormed LookupAgrees
