---------------------------- MODULE Kmscan_proofs ----------------------------
(***************************************************************************)
(* Proofs about Kmscan for every set of processes and writers and every    *)
(* number of stores.                                                       *)
(***************************************************************************)
EXTENDS Kmscan, TLAPS

\* Where the lock is held, what the scan in progress is, and what is known
\* before the files of sysfs exist.
ThreadInv ==
    /\ pc \in Scanning \cup {"choose"} => lock /\ run = 1 /\ job # 0
    /\ pc = "unlock" => lock
    /\ pc \in {"name", "test", "unflag", "mkdir", "record", "flag"} => job # 3
    /\ pc \in {"remove", "create"} => job = 1
    /\ pc = "files" => job = 2
    /\ life \in {"out", "loading", "draining"} => ThreadEnded
    /\ life \in {"out", "loading", "grouping", "unwinding"} =>
           run = 0 /\ dirs = {} /\ \A w \in Writers : st[w] = "idle"
    /\ life = "unwinding" => "loadfail" \in hist

Clean == "raced" \notin hist /\ "stale" \notin hist

\* The folder lock is right for p.
Agree(p) == (flag[p] = 1 <=> p \in dirs) /\ (p \in dirs => dir[p] = p)

\* The folder lock is right but for the process a scan is making or removing
\* the directory of, and the scan knows about that one.
FolderInv ==
    /\ \A p \in PidVals : Agree(p) \/ (p = pid /\ pc \in {"unflag", "record", "flag"})
    /\ pc \in {"test", "unflag", "mkdir"} => name = pid
    /\ pc \in {"unflag", "mkdir"} => pid \notin dirs
    /\ pc = "record" => pid \in dirs /\ test = pid
    /\ pc = "flag" => pid \in dirs /\ dir[pid] = pid
    /\ pc \in {"remove", "create", "files"} \/ (pc = "lookup" /\ job # 3) => pid \in dirs
    /\ Top \notin vma /\ Top \notin pages

USE DEF PidVals, Pointers, Scanning, userVars, threadVars, moduleVars, procVars,
        ThreadOnly, ScanOnly

-----------------------------------------------------------------------------
\* Every step keeps the types.
LEMMA TypesKept ==
  ASSUME TypeOK, ThreadInv, [Next]_vars
  PROVE  TypeOK'
<1> USE ConstantsOK
<1>1. CASE LoadRoot
  BY <1>1 DEF LoadRoot, TypeOK, ThreadInv
<1>2. CASE LoadThread
  BY <1>2 DEF LoadThread, TypeOK, ThreadInv
<1>3. CASE LoadGroup
  BY <1>3 DEF LoadGroup, TypeOK, ThreadInv
<1>4. CASE LoadUnwound
  <2>1. lock' \in BOOLEAN
    BY <1>4 DEF LoadUnwound, FreshData
  <2>2. /\ pid' = NoPid /\ func' = 0 /\ run' = 0 /\ job' = 0 /\ name' = NoPid
        /\ test' = Null /\ de' = Null /\ UNCHANGED <<st, pc>>
        /\ flag' = [p \in PidVals |-> 0] /\ dir' = [p \in PidVals |-> Null]
    BY <1>4 DEF LoadUnwound, FreshData
  <2>3. life' = "out" /\ dirs' \subseteq dirs
    BY <1>4 DEF LoadUnwound
  <2> QED
    BY <2>1, <2>2, <2>3 DEF TypeOK
<1>5. CASE Unload
  BY <1>5 DEF Unload, TypeOK, ThreadInv
<1>6. CASE UnloadGroup
  BY <1>6 DEF UnloadGroup, ThreadEnded, TypeOK, ThreadInv
<1>7. CASE UnloadRoot
  <2>1. lock' \in BOOLEAN
    BY <1>7 DEF UnloadRoot, FreshData
  <2>2. /\ pid' = NoPid /\ func' = 0 /\ run' = 0 /\ job' = 0 /\ name' = NoPid
        /\ test' = Null /\ de' = Null /\ UNCHANGED <<st, pc>>
        /\ flag' = [p \in PidVals |-> 0] /\ dir' = [p \in PidVals |-> Null]
    BY <1>7 DEF UnloadRoot, FreshData
  <2>3. life' = "out" /\ dirs' \subseteq dirs
    BY <1>7 DEF UnloadRoot
  <2> QED
    BY <2>1, <2>2, <2>3 DEF TypeOK
<1>8. CASE Loop
  BY <1>8 DEF Loop, TypeOK, ThreadInv
<1>9. CASE Lock
  BY <1>9 DEF Lock, TypeOK, ThreadInv
<1>10. CASE Unlock
  <2>1. lock' \in BOOLEAN
    BY <1>10 DEF Unlock
  <2>2. pc' \in {"after"} /\ job' = 0 /\ name' = NoPid /\ test' = Null
    BY <1>10 DEF Unlock
  <2> QED
    BY <1>10, <2>1, <2>2 DEF Unlock, TypeOK
<1>11. CASE After
  BY <1>11 DEF After, TypeOK, ThreadInv
<1>12. CASE SleepEnds
  BY <1>12 DEF SleepEnds, TypeOK, ThreadInv
<1>13. CASE Wait
  BY <1>13 DEF Wait, TypeOK, ThreadInv
<1>14. CASE Woken
  BY <1>14 DEF Woken, TypeOK, ThreadInv
<1>15. CASE Name
  BY <1>15 DEF Name, TypeOK, ThreadInv
<1>16. CASE VmaDir
  BY <1>16 DEF VmaDir, Mkdir, TypeOK, ThreadInv
<1>17. CASE PagesDir
  BY <1>17 DEF PagesDir, RemoveDir, RemoveStale, TypeOK, ThreadInv
<1>18. CASE PagesUnflag
  BY <1>18 DEF PagesUnflag, TypeOK, ThreadInv
<1>19. CASE PagesMkdir
  BY <1>19 DEF PagesMkdir, Mkdir, TypeOK, ThreadInv
<1>20. CASE Record
  BY <1>20 DEF Record, TypeOK, ThreadInv
<1>21. CASE SetFlag
  BY <1>21 DEF SetFlag, TypeOK, ThreadInv
<1>22. CASE Lookup
  BY <1>22 DEF Lookup, Oops, TypeOK, ThreadInv
<1>23. CASE VmaRemove
  BY <1>23 DEF VmaRemove, RemoveStale, RemoveDir, TypeOK, ThreadInv
<1>24. CASE VmaCreate
  BY <1>24 DEF VmaCreate, Parent, TypeOK, ThreadInv
<1>25. CASE PagesCreate
  BY <1>25 DEF PagesCreate, Parent, TypeOK, ThreadInv
<1>26. CASE PhysScan
  BY <1>26 DEF PhysScan, TypeOK, ThreadInv
<1>27. ASSUME NEW p \in Pids, PidStore(p) PROVE TypeOK'
  BY <1>27 DEF PidStore, Writable, OneRace, TypeOK, ThreadInv
<1>28. ASSUME NEW p \in Pids, ProcExit(p) PROVE TypeOK'
  BY <1>28 DEF ProcExit, TypeOK, ThreadInv
<1>29. ASSUME NEW f \in 1 .. 3, FuncStore(f) PROVE TypeOK'
  BY <1>29 DEF FuncStore, Writable, TypeOK, ThreadInv
<1>30. ASSUME NEW w \in Writers, NEW how \in {"start", "stop"}, RunStore(w, how) PROVE TypeOK'
  BY <1>30 DEF RunStore, Writable, TypeOK, ThreadInv
<1>31. ASSUME NEW w \in Writers, RunSet(w) PROVE TypeOK'
  BY <1>31 DEF RunSet, TypeOK, ThreadInv
<1>32. ASSUME NEW w \in Writers, RunWake(w) PROVE TypeOK'
  BY <1>32 DEF RunWake, TypeOK, ThreadInv
<1>34. CASE Choose
  BY <1>34 DEF Choose, TypeOK, ThreadInv
<1>35. CASE WalkDies
  BY <1>35 DEF WalkDies, Oops, TypeOK, ThreadInv
<1>33. CASE UNCHANGED vars
  BY <1>33 DEF vars, TypeOK, ThreadInv
<1> QED
  BY <1>1, <1>2, <1>3, <1>4, <1>5, <1>6, <1>7, <1>8, <1>9, <1>10, <1>11,
     <1>12, <1>13, <1>14, <1>15, <1>16, <1>17, <1>18, <1>19, <1>20, <1>21,
     <1>22, <1>23, <1>24, <1>25, <1>26, <1>27, <1>28, <1>29, <1>30, <1>31,
     <1>32, <1>33, <1>34, <1>35 DEF Next, Thread, Scan, Admin, Writer, LoadRefused

\* Every step keeps what is known of the lock and of the early states.
LEMMA ThreadKept ==
  ASSUME TypeOK, ThreadInv, [Next]_vars
  PROVE  ThreadInv'
<1> USE ConstantsOK
<1>1. CASE LoadRoot
  BY <1>1 DEF LoadRoot, TypeOK, ThreadInv, ThreadEnded
<1>2. CASE LoadThread
  BY <1>2 DEF LoadThread, TypeOK, ThreadInv, ThreadEnded
<1>3. CASE LoadGroup
  BY <1>3 DEF LoadGroup, TypeOK, ThreadInv, ThreadEnded
<1>4. CASE LoadUnwound
  BY <1>4 DEF LoadUnwound, FreshData, ThreadEnded, TypeOK, ThreadInv,
     ThreadEnded
<1>5. CASE Unload
  BY <1>5 DEF Unload, TypeOK, ThreadInv, ThreadEnded
<1>6. CASE UnloadGroup
  BY <1>6 DEF UnloadGroup, ThreadEnded, TypeOK, ThreadInv, ThreadEnded
<1>7. CASE UnloadRoot
  BY <1>7 DEF UnloadRoot, FreshData, TypeOK, ThreadInv, ThreadEnded
<1>8. CASE Loop
  BY <1>8 DEF Loop, TypeOK, ThreadInv, ThreadEnded
<1>9. CASE Lock
  BY <1>9 DEF Lock, TypeOK, ThreadInv, ThreadEnded
<1>10. CASE Unlock
  BY <1>10 DEF Unlock, TypeOK, ThreadInv, ThreadEnded
<1>11. CASE After
  BY <1>11 DEF After, TypeOK, ThreadInv, ThreadEnded
<1>12. CASE SleepEnds
  BY <1>12 DEF SleepEnds, TypeOK, ThreadInv, ThreadEnded
<1>13. CASE Wait
  BY <1>13 DEF Wait, TypeOK, ThreadInv, ThreadEnded
<1>14. CASE Woken
  BY <1>14 DEF Woken, TypeOK, ThreadInv, ThreadEnded
<1>15. CASE Name
  BY <1>15 DEF Name, TypeOK, ThreadInv, ThreadEnded
<1>16. CASE VmaDir
  BY <1>16 DEF VmaDir, Mkdir, TypeOK, ThreadInv, ThreadEnded
<1>17. CASE PagesDir
  BY <1>17 DEF PagesDir, RemoveDir, RemoveStale, TypeOK, ThreadInv,
     ThreadEnded
<1>18. CASE PagesUnflag
  BY <1>18 DEF PagesUnflag, TypeOK, ThreadInv, ThreadEnded
<1>19. CASE PagesMkdir
  BY <1>19 DEF PagesMkdir, Mkdir, TypeOK, ThreadInv, ThreadEnded
<1>20. CASE Record
  BY <1>20 DEF Record, TypeOK, ThreadInv, ThreadEnded
<1>21. CASE SetFlag
  BY <1>21 DEF SetFlag, TypeOK, ThreadInv, ThreadEnded
<1>22. CASE Lookup
  BY <1>22 DEF Lookup, Oops, TypeOK, ThreadInv, ThreadEnded
<1>23. CASE VmaRemove
  BY <1>23 DEF VmaRemove, RemoveStale, RemoveDir, TypeOK, ThreadInv,
     ThreadEnded
<1>24. CASE VmaCreate
  BY <1>24 DEF VmaCreate, Parent, TypeOK, ThreadInv, ThreadEnded
<1>25. CASE PagesCreate
  BY <1>25 DEF PagesCreate, Parent, TypeOK, ThreadInv, ThreadEnded
<1>26. CASE PhysScan
  BY <1>26 DEF PhysScan, TypeOK, ThreadInv, ThreadEnded
<1>27. ASSUME NEW p \in Pids, PidStore(p) PROVE ThreadInv'
  BY <1>27 DEF PidStore, Writable, OneRace, TypeOK, ThreadInv, ThreadEnded
<1>28. ASSUME NEW p \in Pids, ProcExit(p) PROVE ThreadInv'
  BY <1>28 DEF ProcExit, TypeOK, ThreadInv, ThreadEnded
<1>29. ASSUME NEW f \in 1 .. 3, FuncStore(f) PROVE ThreadInv'
  BY <1>29 DEF FuncStore, Writable, TypeOK, ThreadInv, ThreadEnded
<1>30. ASSUME NEW w \in Writers, NEW how \in {"start", "stop"}, RunStore(w, how) PROVE ThreadInv'
  BY <1>30 DEF RunStore, Writable, TypeOK, ThreadInv, ThreadEnded
<1>31. ASSUME NEW w \in Writers, RunSet(w) PROVE ThreadInv'
  BY <1>31 DEF RunSet, TypeOK, ThreadInv, ThreadEnded
<1>32. ASSUME NEW w \in Writers, RunWake(w) PROVE ThreadInv'
  BY <1>32 DEF RunWake, TypeOK, ThreadInv, ThreadEnded
<1>34. CASE Choose
  BY <1>34 DEF Choose, TypeOK, ThreadInv, ThreadEnded
<1>35. CASE WalkDies
  BY <1>35 DEF WalkDies, Oops, TypeOK, ThreadInv, ThreadEnded
<1>33. CASE UNCHANGED vars
  BY <1>33 DEF vars, TypeOK, ThreadInv, ThreadEnded
<1> QED
  BY <1>1, <1>2, <1>3, <1>4, <1>5, <1>6, <1>7, <1>8, <1>9, <1>10, <1>11,
     <1>12, <1>13, <1>14, <1>15, <1>16, <1>17, <1>18, <1>19, <1>20, <1>21,
     <1>22, <1>23, <1>24, <1>25, <1>26, <1>27, <1>28, <1>29, <1>30, <1>31,
     <1>32, <1>33, <1>34, <1>35 DEF Next, Thread, Scan, Admin, Writer, LoadRefused

\* Every step that is neither a store into a scan nor a second removal keeps
\* the folder lock.
LEMMA FoldersKept ==
  ASSUME TypeOK, ThreadInv, Clean => FolderInv, Clean', [Next]_vars
  PROVE  FolderInv'
<1> USE ConstantsOK
<1>1. CASE LoadRoot
  BY <1>1 DEF LoadRoot, TypeOK, ThreadInv, FolderInv, Clean, Agree
<1>2. CASE LoadThread
  BY <1>2 DEF LoadThread, TypeOK, ThreadInv, FolderInv, Clean, Agree
<1>3. CASE LoadGroup
  BY <1>3 DEF LoadGroup, TypeOK, ThreadInv, FolderInv, Clean, Agree
<1>4. CASE LoadUnwound
  BY <1>4 DEF LoadUnwound, FreshData, ThreadEnded, TypeOK, ThreadInv,
     FolderInv, Clean, Agree
<1>5. CASE Unload
  BY <1>5 DEF Unload, TypeOK, ThreadInv, FolderInv, Clean, Agree
<1>6. CASE UnloadGroup
  BY <1>6 DEF UnloadGroup, ThreadEnded, TypeOK, ThreadInv, FolderInv, Clean,
     Agree
<1>7. CASE UnloadRoot
  <2>1. ThreadEnded /\ UNCHANGED <<pc, hist>>
    BY <1>7 DEF UnloadRoot, ThreadInv
  <2>2. /\ dirs' = {} /\ flag' = [p \in PidVals |-> 0]
        /\ vma' = vma \cap {Top} /\ pages' = pages \cap {Top}
    BY <1>7 DEF UnloadRoot, FreshData
  <2> QED
    BY <2>1, <2>2 DEF FolderInv, Clean, Agree, ThreadEnded
<1>8. CASE Loop
  BY <1>8 DEF Loop, TypeOK, ThreadInv, FolderInv, Clean, Agree
<1>9. CASE Lock
  BY <1>9 DEF Lock, TypeOK, ThreadInv, FolderInv, Clean, Agree
<1>10. CASE Unlock
  BY <1>10 DEF Unlock, TypeOK, ThreadInv, FolderInv, Clean, Agree
<1>11. CASE After
  BY <1>11 DEF After, TypeOK, ThreadInv, FolderInv, Clean, Agree
<1>12. CASE SleepEnds
  BY <1>12 DEF SleepEnds, TypeOK, ThreadInv, FolderInv, Clean, Agree
<1>13. CASE Wait
  BY <1>13 DEF Wait, TypeOK, ThreadInv, FolderInv, Clean, Agree
<1>14. CASE Woken
  BY <1>14 DEF Woken, TypeOK, ThreadInv, FolderInv, Clean, Agree
<1>15. CASE Name
  BY <1>15 DEF Name, TypeOK, ThreadInv, FolderInv, Clean, Agree
<1>16. CASE VmaDir
  BY <1>16 DEF VmaDir, Mkdir, TypeOK, ThreadInv, FolderInv, Clean, Agree
<1>17. CASE PagesDir
  BY <1>17 DEF PagesDir, RemoveDir, RemoveStale, TypeOK, ThreadInv, FolderInv,
     Clean, Agree
<1>18. CASE PagesUnflag
  BY <1>18 DEF PagesUnflag, TypeOK, ThreadInv, FolderInv, Clean, Agree
<1>19. CASE PagesMkdir
  BY <1>19 DEF PagesMkdir, Mkdir, TypeOK, ThreadInv, FolderInv, Clean, Agree
<1>20. CASE Record
  BY <1>20 DEF Record, TypeOK, ThreadInv, FolderInv, Clean, Agree
<1>21. CASE SetFlag
  BY <1>21 DEF SetFlag, TypeOK, ThreadInv, FolderInv, Clean, Agree
<1>22. CASE Lookup
  BY <1>22 DEF Lookup, Oops, TypeOK, ThreadInv, FolderInv, Clean, Agree
<1>23. CASE VmaRemove
  BY <1>23 DEF VmaRemove, RemoveStale, RemoveDir, TypeOK, ThreadInv,
     FolderInv, Clean, Agree
<1>24. CASE VmaCreate
  BY <1>24 DEF VmaCreate, Parent, TypeOK, ThreadInv, FolderInv, Clean, Agree
<1>25. CASE PagesCreate
  BY <1>25 DEF PagesCreate, Parent, TypeOK, ThreadInv, FolderInv, Clean, Agree
<1>26. CASE PhysScan
  BY <1>26 DEF PhysScan, TypeOK, ThreadInv, FolderInv, Clean, Agree
<1>27. ASSUME NEW p \in Pids, PidStore(p) PROVE FolderInv'
  BY <1>27 DEF PidStore, Writable, OneRace, TypeOK, ThreadInv, FolderInv,
     Clean, Agree
<1>28. ASSUME NEW p \in Pids, ProcExit(p) PROVE FolderInv'
  BY <1>28 DEF ProcExit, TypeOK, ThreadInv, FolderInv, Clean, Agree
<1>29. ASSUME NEW f \in 1 .. 3, FuncStore(f) PROVE FolderInv'
  BY <1>29 DEF FuncStore, Writable, TypeOK, ThreadInv, FolderInv, Clean, Agree
<1>30. ASSUME NEW w \in Writers, NEW how \in {"start", "stop"}, RunStore(w, how) PROVE FolderInv'
  BY <1>30 DEF RunStore, Writable, TypeOK, ThreadInv, FolderInv, Clean, Agree
<1>31. ASSUME NEW w \in Writers, RunSet(w) PROVE FolderInv'
  BY <1>31 DEF RunSet, TypeOK, ThreadInv, FolderInv, Clean, Agree
<1>32. ASSUME NEW w \in Writers, RunWake(w) PROVE FolderInv'
  BY <1>32 DEF RunWake, TypeOK, ThreadInv, FolderInv, Clean, Agree
<1>34. CASE Choose
  BY <1>34 DEF Choose, TypeOK, ThreadInv, FolderInv, Clean, Agree
<1>35. CASE WalkDies
  BY <1>35 DEF WalkDies, Oops, TypeOK, ThreadInv, FolderInv, Clean, Agree
<1>33. CASE UNCHANGED vars
  BY <1>33 DEF vars, TypeOK, ThreadInv, FolderInv, Clean, Agree
<1> QED
  BY <1>1, <1>2, <1>3, <1>4, <1>5, <1>6, <1>7, <1>8, <1>9, <1>10, <1>11,
     <1>12, <1>13, <1>14, <1>15, <1>16, <1>17, <1>18, <1>19, <1>20, <1>21,
     <1>22, <1>23, <1>24, <1>25, <1>26, <1>27, <1>28, <1>29, <1>30, <1>31,
     <1>32, <1>33, <1>34, <1>35 DEF Next, Thread, Scan, Admin, Writer, LoadRefused

\* Every step keeps LeavesNothing.
LEMMA NothingKept ==
  ASSUME TypeOK, ThreadInv, Clean => FolderInv, LeavesNothing, ThreadInv', [Next]_vars
  PROVE  LeavesNothing'
<1> USE ConstantsOK
<1>1. CASE LoadRoot
  BY <1>1 DEF LoadRoot, ThreadInv, LeavesNothing, ThreadEnded
<1>2. CASE LoadThread
  BY <1>2 DEF LoadThread, ThreadInv, LeavesNothing, ThreadEnded
<1>3. CASE LoadGroup
  BY <1>3 DEF LoadGroup, ThreadInv, LeavesNothing, ThreadEnded
<1>4. CASE LoadUnwound
  BY <1>4 DEF LoadUnwound, FreshData, ThreadEnded, ThreadInv, LeavesNothing,
     ThreadEnded
<1>5. CASE Unload
  BY <1>5 DEF Unload, ThreadInv, LeavesNothing, ThreadEnded
<1>6. CASE UnloadGroup
  BY <1>6 DEF UnloadGroup, ThreadEnded, ThreadInv, LeavesNothing, ThreadEnded
<1>7. CASE UnloadRoot
  <2> SUFFICES ASSUME "raced" \notin hist, "stale" \notin hist
               PROVE  ~root' /\ dirs' = {} /\ vma' = {} /\ pages' = {} /\ ~physfile'
    BY <1>7 DEF UnloadRoot, LeavesNothing
  <2>1. Top \notin vma /\ Top \notin pages
    BY DEF Clean, FolderInv
  <2> QED
    BY <1>7, <2>1 DEF UnloadRoot
<1>8. CASE Loop
  BY <1>8 DEF Loop, ThreadInv, LeavesNothing, ThreadEnded
<1>9. CASE Lock
  BY <1>9 DEF Lock, ThreadInv, LeavesNothing, ThreadEnded
<1>10. CASE Unlock
  BY <1>10 DEF Unlock, ThreadInv, LeavesNothing, ThreadEnded
<1>11. CASE After
  BY <1>11 DEF After, ThreadInv, LeavesNothing, ThreadEnded
<1>12. CASE SleepEnds
  BY <1>12 DEF SleepEnds, ThreadInv, LeavesNothing, ThreadEnded
<1>13. CASE Wait
  BY <1>13 DEF Wait, ThreadInv, LeavesNothing, ThreadEnded
<1>14. CASE Woken
  BY <1>14 DEF Woken, ThreadInv, LeavesNothing, ThreadEnded
<1>15. CASE Name
  BY <1>15 DEF Name, ThreadInv, LeavesNothing, ThreadEnded
<1>16. CASE VmaDir
  BY <1>16 DEF VmaDir, Mkdir, ThreadInv, LeavesNothing, ThreadEnded
<1>17. CASE PagesDir
  BY <1>17 DEF PagesDir, RemoveDir, RemoveStale, ThreadInv, LeavesNothing,
     ThreadEnded
<1>18. CASE PagesUnflag
  BY <1>18 DEF PagesUnflag, ThreadInv, LeavesNothing, ThreadEnded
<1>19. CASE PagesMkdir
  BY <1>19 DEF PagesMkdir, Mkdir, ThreadInv, LeavesNothing, ThreadEnded
<1>20. CASE Record
  BY <1>20 DEF Record, ThreadInv, LeavesNothing, ThreadEnded
<1>21. CASE SetFlag
  BY <1>21 DEF SetFlag, ThreadInv, LeavesNothing, ThreadEnded
<1>22. CASE Lookup
  BY <1>22 DEF Lookup, Oops, ThreadInv, LeavesNothing, ThreadEnded
<1>23. CASE VmaRemove
  BY <1>23 DEF VmaRemove, RemoveStale, RemoveDir, ThreadInv, LeavesNothing,
     ThreadEnded
<1>24. CASE VmaCreate
  BY <1>24 DEF VmaCreate, Parent, ThreadInv, LeavesNothing, ThreadEnded
<1>25. CASE PagesCreate
  BY <1>25 DEF PagesCreate, Parent, ThreadInv, LeavesNothing, ThreadEnded
<1>26. CASE PhysScan
  BY <1>26 DEF PhysScan, ThreadInv, LeavesNothing, ThreadEnded
<1>27. ASSUME NEW p \in Pids, PidStore(p) PROVE LeavesNothing'
  BY <1>27 DEF PidStore, Writable, OneRace, ThreadInv, LeavesNothing,
     ThreadEnded
<1>28. ASSUME NEW p \in Pids, ProcExit(p) PROVE LeavesNothing'
  BY <1>28 DEF ProcExit, ThreadInv, LeavesNothing, ThreadEnded
<1>29. ASSUME NEW f \in 1 .. 3, FuncStore(f) PROVE LeavesNothing'
  BY <1>29 DEF FuncStore, Writable, ThreadInv, LeavesNothing, ThreadEnded
<1>30. ASSUME NEW w \in Writers, NEW how \in {"start", "stop"}, RunStore(w, how) PROVE LeavesNothing'
  BY <1>30 DEF RunStore, Writable, ThreadInv, LeavesNothing, ThreadEnded
<1>31. ASSUME NEW w \in Writers, RunSet(w) PROVE LeavesNothing'
  BY <1>31 DEF RunSet, ThreadInv, LeavesNothing, ThreadEnded
<1>32. ASSUME NEW w \in Writers, RunWake(w) PROVE LeavesNothing'
  BY <1>32 DEF RunWake, ThreadInv, LeavesNothing, ThreadEnded
<1>34. CASE Choose
  BY <1>34 DEF Choose, ThreadInv, LeavesNothing, ThreadEnded
<1>35. CASE WalkDies
  BY <1>35 DEF WalkDies, Oops, ThreadInv, LeavesNothing, ThreadEnded
<1>33. CASE UNCHANGED vars
  BY <1>33 DEF vars, ThreadInv, LeavesNothing, ThreadEnded
<1> QED
  BY <1>1, <1>2, <1>3, <1>4, <1>5, <1>6, <1>7, <1>8, <1>9, <1>10, <1>11,
     <1>12, <1>13, <1>14, <1>15, <1>16, <1>17, <1>18, <1>19, <1>20, <1>21,
     <1>22, <1>23, <1>24, <1>25, <1>26, <1>27, <1>28, <1>29, <1>30, <1>31,
     <1>32, <1>33, <1>34, <1>35 DEF Next, Thread, Scan, Admin, Writer, LoadRefused

-----------------------------------------------------------------------------
KmscanInv ==
    /\ TypeOK
    /\ ThreadInv
    /\ Clean => FolderInv
    /\ LeavesNothing

\* KmscanInv is an invariant of the module.
LEMMA KmscanInvariant == Spec => []KmscanInv
<1>1. Init => KmscanInv
  <2> SUFFICES ASSUME Init PROVE KmscanInv
    OBVIOUS
  <2>1. TypeOK
    <3>1. lock \in BOOLEAN
      BY DEF Init
    <3>2. /\ life = "out" /\ pid = NoPid /\ func = 0 /\ run = 0 /\ pc = "off"
          /\ job = 0 /\ name = NoPid /\ test = Null /\ de = Null /\ dirs = {}
          /\ st = [w \in Writers |-> "idle"]
          /\ flag = [p \in PidVals |-> 0] /\ dir = [p \in PidVals |-> Null]
      BY DEF Init
    <3> QED
      BY <3>1, <3>2 DEF TypeOK
  <2>2. ThreadInv
    BY DEF Init, ThreadInv, ThreadEnded
  <2>3. FolderInv
    BY DEF Init, FolderInv, Agree
  <2>4. LeavesNothing
    BY DEF Init, LeavesNothing
  <2> QED
    BY <2>1, <2>2, <2>3, <2>4 DEF KmscanInv
<1>2. KmscanInv /\ [Next]_vars => KmscanInv'
  BY TypesKept, ThreadKept, FoldersKept, NothingKept DEF KmscanInv
<1> QED
  BY <1>1, <1>2, PTL DEF Spec

\* The values stored through sysfs, the place of the kernel thread and its
\* pointers stay in range, whatever is stored, loaded, unloaded or exits.
THEOREM TypeCorrect == Spec => []TypeOK
<1>1. KmscanInv => TypeOK
  BY DEF KmscanInv
<1> QED
  BY <1>1, KmscanInvariant, PTL

\* After run_store has stored 0 no scan runs: the lock around the assignment
\* and the one around sysfs_test_to_do exclude each other for any number of
\* writers.
THEOREM StopsAreFinal == Spec => []StopIsFinal
<1>1. KmscanInv => StopIsFinal
  BY DEF KmscanInv, ThreadInv, StopIsFinal
<1> QED
  BY <1>1, KmscanInvariant, PTL

\* Between scans mutex[] and proc_test_const[] agree with the directories below
\* /proc/kmscan, for every process, unless pid_store has changed the pid under
\* a scan or a dangling entry was removed.
THEOREM FoldersLocked == Spec => []FolderLock
<1>1. KmscanInv => FolderLock
  BY DEF KmscanInv, FolderInv, Agree, Clean, FolderLock, FoldersRight
<1> QED
  BY <1>1, KmscanInvariant, PTL

\* sysfs_test_exit leaves no entry in /proc behind under the same conditions,
\* unless a load failed halfway.
THEOREM NothingLeft == Spec => []LeavesNothing
<1>1. KmscanInv => LeavesNothing
  BY DEF KmscanInv
<1> QED
  BY <1>1, KmscanInvariant, PTL
=============================================================================
