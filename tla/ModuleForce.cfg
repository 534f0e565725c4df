SPECIFICATION FairSpec
CONSTANT Users = {u1, u2}
INVARIANTS TimerGone CountRight
PROPERTY RemovalCompletes
CHECK_DEADLOCK FALSE
