SPECIFICATION Spec
CONSTANTS
    Threads = {t1, t2}
    Sector = 8  Word = 32
    Rsvd = {1}  NumFATs = {2}  FATSz = {5}  RootEnt = {1}
    BytsPerSec = {8, 24}  SecPerClus = {1, 4}
    Clusters = {3, 9, 17}
    Times <- MCTimes
INVARIANTS  StampKept
CHECK_DEADLOCK FALSE
