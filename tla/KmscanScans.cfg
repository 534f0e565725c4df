SPECIFICATION FairSpec
CONSTANTS Pids = {p1, p2}
          Mortal = {p2}
          Writers = {w}
          MaxStores = 4
          NoPid = NoPid
          Null = Null
          Stale = Stale
          Top = Top
INVARIANTS StopIsFinal FolderLock LeavesNothing
PROPERTIES UnloadEnds StartScans
CHECK_DEADLOCK FALSE
