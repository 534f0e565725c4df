SPECIFICATION FairSpec
CONSTANTS Work = 2
          Prompt = TRUE
INVARIANTS OneAtATime LocksCount ExecAfterWork
PROPERTY WorkCompletes
CHECK_DEADLOCK FALSE
