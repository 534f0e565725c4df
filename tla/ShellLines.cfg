SPECIFICATION Spec
CONSTANTS
  Counts = {1, 2, 3, 4}
  Stopping = {1, 2}
  Capacity = 1
  MaxOut = 3
  MaxFails = 2
CHECK_DEADLOCK FALSE
INVARIANTS
  FdsBalanced
  EofAfterWriter
PROPERTIES
  PromptReturns
