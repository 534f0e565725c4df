SPECIFICATION Spec
CONSTANTS First = 3 MaxProcs = 5 UserLen = 4
INVARIANTS SurvivorsListed OverrunYoung CountSpan
CHECK_DEADLOCK FALSE
