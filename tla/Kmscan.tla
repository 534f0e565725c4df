------------------------------- MODULE Kmscan -------------------------------
(***************************************************************************)
(* The kernel module sec3.c: a kernel thread scans the memory of the       *)
(* process whose number was stored in /sys/kernel/mm/kmscan/pid and leaves *)
(* the result in files below /proc/kmscan.  sysfs stores, loading and      *)
(* unloading of the module and exits of processes run beside the thread;   *)
(* run_store and the scan take sysfs_test_thread_mutex, pid_store and      *)
(* func_store take nothing.                                                *)
(*                                                                         *)
(* A pointer to a proc entry is written as the name of the directory it    *)
(* is or lies in; it turns to Stale when that directory is removed.  The   *)
(* numbers a scan counts are left out, the entries it makes are not.       *)
(***************************************************************************)
EXTENDS Naturals

CONSTANTS Pids,       \* process numbers a user stores
          Mortal,     \* processes that may exit while the module is loaded
          Writers,    \* tasks that write to the file run
          MaxStores,  \* bound: stores to the files pid and func
          NoPid,      \* 0, what pid is before the first store; no process has it
          Null, Stale, \* pointers: NULL, and to an entry that is gone
          Top         \* /proc itself, where a NULL parent leads

ASSUME ConstantsOK ==
    /\ Mortal \subseteq Pids /\ MaxStores \in Nat
    /\ NoPid \notin Pids /\ {Null, Stale, Top} \cap (Pids \cup {NoPid}) = {}
    /\ Null # Stale /\ Null # Top /\ Stale # Top

PidVals == Pids \cup {NoPid}

VARIABLES life,     \* of the module: "out" ... "live" ... "out"
          pid, func, run, \* the values stored through sysfs
          st,       \* per writer: where its run_store is
          pc,       \* of the kernel thread
          lock,     \* sysfs_test_thread_mutex is held by the thread
          stop,     \* kthread_stop has been called
          woken,    \* the wait queue has been woken since the thread blocked
          job,      \* the function sysfs_test_to_do compares with or has chosen
          name,     \* pid_char
          task,     \* target_task
          flag,     \* mutex[]: 1 when the directory exists
          dir,      \* proc_test_const[]
          test,     \* proc_test, the result of proc_mkdir
          de,       \* the static pointer to the last vma_count
          root,     \* /proc/kmscan exists
          dirs,     \* its subdirectories
          vma,      \* directories with a file vma_count
          pages,    \* directories with the files of func 2
          physfile, \* /proc/kmscan/phys_addr exists
          alive,    \* processes
          stores,   \* such stores so far
          hist      \* history: what has happened that the code does not handle

userVars == <<pid, func>>
threadVars == <<pc, lock, job, name, task, woken>>
moduleVars == <<flag, dir, test, de>>
procVars == <<root, dirs, vma, pages, physfile>>
vars == <<life, userVars, run, st, stop, threadVars, moduleVars, procVars, alive, stores, hist>>

Init ==
    /\ life = "out" /\ pid = NoPid /\ func = 0 /\ run = 0
    /\ st = [w \in Writers |-> "idle"]
    /\ pc = "off" /\ lock = FALSE /\ stop = FALSE /\ woken = FALSE
    /\ job = 0 /\ name = NoPid /\ task = NoPid
    /\ flag = [p \in PidVals |-> 0] /\ dir = [p \in PidVals |-> Null]
    /\ test = Null /\ de = Null
    /\ root = FALSE /\ dirs = {} /\ vma = {} /\ pages = {} /\ physfile = FALSE
    /\ alive = Pids /\ stores = 0 /\ hist = {}

-----------------------------------------------------------------------------
(* sysfs_test_init and sysfs_test_exit *)

\* The static data of a module go with it and are new when it is loaded again.
FreshData ==
    /\ pid' = NoPid /\ func' = 0 /\ run' = 0
    /\ lock' = FALSE /\ stop' = FALSE /\ woken' = FALSE
    /\ job' = 0 /\ name' = NoPid /\ task' = NoPid
    /\ flag' = [p \in PidVals |-> 0] /\ dir' = [p \in PidVals |-> Null]
    /\ test' = Null /\ de' = Null

\* proc_mkdir("kmscan") fails, and with it the load, while the directory of
\* an earlier load is still there.
LoadRoot ==
    /\ life = "out" /\ ~root
    /\ life' = "loading" /\ root' = TRUE
    /\ UNCHANGED <<userVars, run, st, stop, threadVars, moduleVars, dirs, vma, pages, physfile, alive, stores, hist>>

LoadRefused == life = "out" /\ root /\ UNCHANGED vars

LoadThread ==
    /\ life = "loading"
    /\ \/ life' = "grouping" /\ pc' = "top" /\ UNCHANGED hist
       \/ life' = "out" /\ hist' = hist \cup {"loadfail"} /\ UNCHANGED pc
    /\ UNCHANGED <<userVars, run, st, stop, lock, job, name, task, woken, moduleVars, procVars, alive, stores>>

LoadGroup ==
    /\ life = "grouping"
    /\ \/ life' = "live" /\ UNCHANGED <<stop, woken, hist>>
       \/ life' = "unwinding" /\ stop' = TRUE /\ woken' = TRUE /\ hist' = hist \cup {"loadfail"}
    /\ UNCHANGED <<userVars, run, st, pc, lock, job, name, task, moduleVars, procVars, alive, stores>>

ThreadEnded == pc \in {"off", "dead"}

LoadUnwound ==
    /\ life = "unwinding" /\ ThreadEnded /\ life' = "out" /\ FreshData
    /\ UNCHANGED <<st, pc, procVars, alive, stores, hist>>

\* rmmod: kthread_stop asks the thread to end, wakes it and waits.
Unload ==
    /\ life = "live" /\ life' = "stopping"
    /\ stop' = TRUE /\ woken' = TRUE
    /\ UNCHANGED <<userVars, run, st, pc, lock, job, name, task, moduleVars, procVars, alive, stores, hist>>

\* Mutant of UnloadGroup: the thread is not waited for.
UnloadGroupEarly ==
    /\ life = "stopping" /\ life' = "draining"
    /\ UNCHANGED <<userVars, run, st, stop, threadVars, moduleVars, procVars, alive, stores, hist>>

\* sysfs_remove_group begins: no new stores, those that run are waited for.
UnloadGroup ==
    /\ life = "stopping" /\ ThreadEnded /\ life' = "draining"
    /\ UNCHANGED <<userVars, run, st, stop, threadVars, moduleVars, procVars, alive, stores, hist>>

\* proc_remove takes /proc/kmscan with everything below it.
UnloadRoot ==
    /\ life = "draining" /\ \A w \in Writers : st[w] = "idle"
    /\ life' = "out" /\ FreshData
    /\ root' = FALSE /\ dirs' = {} /\ physfile' = FALSE
    /\ vma' = vma \cap {Top} /\ pages' = pages \cap {Top}
    /\ UNCHANGED <<st, pc, alive, stores, hist>>

-----------------------------------------------------------------------------
(* The stores *)

Scanning == {"name", "test", "unflag", "mkdir", "record", "flag", "lookup",
             "remove", "create", "files", "phys"}
Writable == life \in {"live", "stopping"}

\* Bound: at most one pid_store of a behaviour hits a scan.
OneRace == pc \in Scanning => "raced" \notin hist

\* pid_store takes no lock; "raced" remembers that it hit a scan.
PidStore(p) ==
    /\ Writable /\ OneRace /\ p # pid /\ pid' = p /\ stores < MaxStores /\ stores' = stores + 1
    /\ hist' = IF pc \in Scanning THEN hist \cup {"raced"} ELSE hist
    /\ UNCHANGED <<life, func, run, st, stop, threadVars, moduleVars, procVars, alive>>

FuncStore(f) ==
    /\ Writable /\ f # func /\ func' = f /\ stores < MaxStores /\ stores' = stores + 1
    /\ UNCHANGED <<life, pid, run, st, stop, threadVars, moduleVars, procVars, alive, hist>>

RunStore(w, how) ==
    /\ Writable /\ st[w] = "idle" /\ st' = [st EXCEPT ![w] = how]
    /\ UNCHANGED <<life, userVars, run, stop, threadVars, moduleVars, procVars, alive, stores, hist>>

\* Mutant of RunSet: without the lock.
RunSetUnlocked(w) ==
    /\ st[w] \in {"stop", "start"}
    /\ run' = IF st[w] = "start" THEN 1 ELSE 0
    /\ st' = [st EXCEPT ![w] = IF @ = "start" THEN "wake" ELSE "idle"]
    /\ UNCHANGED <<life, userVars, stop, threadVars, moduleVars, procVars, alive, stores, hist>>

\* The assignment under the lock ...
RunSet(w) ==
    /\ st[w] \in {"stop", "start"} /\ ~lock
    /\ run' = IF st[w] = "start" THEN 1 ELSE 0
    /\ st' = [st EXCEPT ![w] = IF @ = "start" THEN "wake" ELSE "idle"]
    /\ UNCHANGED <<life, userVars, stop, threadVars, moduleVars, procVars, alive, stores, hist>>

\* Mutant of RunWake: no wake-up.
RunWakeNothing(w) ==
    /\ st[w] = "wake" /\ st' = [st EXCEPT ![w] = "idle"]
    /\ UNCHANGED <<life, userVars, run, stop, threadVars, moduleVars, procVars, alive, stores, hist>>

\* ... and wake_up_interruptible after it.
RunWake(w) ==
    /\ st[w] = "wake" /\ st' = [st EXCEPT ![w] = "idle"] /\ woken' = TRUE
    /\ UNCHANGED <<life, userVars, run, stop, pc, lock, job, name, task, moduleVars, procVars, alive, stores, hist>>

ProcExit(p) ==
    /\ p \in alive \cap Mortal /\ alive' = alive \ {p}
    /\ UNCHANGED <<life, userVars, run, st, stop, threadVars, moduleVars, procVars, stores, hist>>

-----------------------------------------------------------------------------
(* sysfs_testd_thread *)

ThreadOnly == UNCHANGED <<life, userVars, run, st, stop, moduleVars, procVars, alive, stores, hist>>

Loop ==
    /\ pc = "top" /\ pc' = IF stop THEN "off" ELSE "lock"
    /\ ThreadOnly /\ UNCHANGED <<lock, job, name, task, woken>>

\* mutex_lock and the test of run.
Lock ==
    /\ pc = "lock" /\ ~lock /\ lock' = TRUE
    /\ IF run = 1 THEN pc' = "choose" /\ job' = 1 ELSE pc' = "unlock" /\ UNCHANGED job
    /\ ThreadOnly /\ UNCHANGED <<name, task, woken>>

\* sysfs_test_to_do reads func anew for each comparison; a func_store between
\* them may make it choose none.
Choose ==
    /\ pc = "choose"
    /\ \/ func = job /\ pc' = (IF job = 3 THEN "lookup" ELSE "name") /\ UNCHANGED job
       \/ func # job /\ job < 3 /\ job' = job + 1 /\ UNCHANGED pc
       \/ func # job /\ job = 3 /\ pc' = "unlock" /\ UNCHANGED job
    /\ ThreadOnly /\ UNCHANGED <<lock, name, task, woken>>

\* The locals of the scan end with it; proc_test is assigned before every use,
\* so its old value does not matter.
Unlock ==
    /\ pc = "unlock" /\ lock' = FALSE /\ pc' = "after"
    /\ job' = 0 /\ name' = NoPid /\ task' = NoPid /\ test' = Null
    /\ UNCHANGED <<life, userVars, run, st, stop, woken, flag, dir, de, procVars, alive, stores, hist>>

After ==
    /\ pc = "after" /\ pc' = IF run = 1 THEN "sleep" ELSE "wait"
    /\ ThreadOnly /\ UNCHANGED <<lock, job, name, task, woken>>

\* schedule_timeout_interruptible ends after some time, or by a wake-up.
SleepEnds ==
    /\ pc = "sleep" /\ pc' = "top"
    /\ ThreadOnly /\ UNCHANGED <<lock, job, name, task, woken>>

\* Mutant of Wait: the condition leaves kthread_should_stop out.
WaitRunOnly ==
    /\ pc = "wait"
    /\ pc' = IF run = 1 THEN "top" ELSE "blocked"
    /\ woken' = FALSE
    /\ ThreadOnly /\ UNCHANGED <<lock, job, name, task>>

\* wait_event_freezable: the condition is looked at before each block.
Wait ==
    /\ pc = "wait"
    /\ pc' = IF run = 1 \/ stop THEN "top" ELSE "blocked"
    /\ woken' = FALSE
    /\ ThreadOnly /\ UNCHANGED <<lock, job, name, task>>

Woken ==
    /\ pc = "blocked" /\ woken /\ pc' = "wait"
    /\ ThreadOnly /\ UNCHANGED <<lock, job, name, task, woken>>

-----------------------------------------------------------------------------
(* The three scans.  Each reads pid anew wherever it uses it. *)

ScanOnly == UNCHANGED <<life, userVars, run, st, stop, lock, job, woken, alive, stores>>
Oops == pc' = "dead" /\ hist' = hist \cup {"oops"}

\* proc_mkdir(pid_char, root): NULL when the name is already there.
Mkdir ==
    /\ test' = IF name \in dirs THEN Null ELSE name
    /\ dirs' = dirs \cup {name}

\* A directory goes with what is in it; pointers into it dangle.
RemoveDir(d) ==
    /\ dirs' = dirs \ {d} /\ vma' = vma \ {d} /\ pages' = pages \ {d}
    /\ dir' = [p \in PidVals |-> IF dir[p] = d THEN Stale ELSE dir[p]]
    /\ de' = IF de = d THEN Stale ELSE de

\* proc_remove of an entry that is gone reads freed memory: nothing happens,
\* or whatever lies there now is removed, or the thread dies.
RemoveStale(next) ==
    \/ /\ pc' = next /\ hist' = hist \cup {"stale"}
       /\ UNCHANGED <<dirs, vma, pages, dir, de>>
    \/ /\ pc' = next /\ hist' = hist \cup {"stale"}
       /\ \E d \in dirs : RemoveDir(d)
    \/ /\ pc' = "dead" /\ hist' = hist \cup {"stale", "oops"}
       /\ UNCHANGED <<dirs, vma, pages, dir, de>>

Name ==
    /\ pc = "name" /\ name' = pid /\ pc' = "test"
    /\ ScanOnly /\ UNCHANGED <<task, moduleVars, procVars, hist>>

\* func 1 makes the directory of the process when the flag says there is none.
VmaDir ==
    /\ pc = "test" /\ job = 1
    /\ IF flag[pid] = 0
       THEN pc' = "record" /\ Mkdir
       ELSE pc' = "lookup" /\ UNCHANGED <<test, dirs>>
    /\ ScanOnly
    /\ UNCHANGED <<name, task, flag, dir, de, root, vma, pages, physfile, hist>>

\* func 2 removes it first.
PagesDir ==
    /\ pc = "test" /\ job = 2
    /\ \/ /\ flag[pid] = 0 \/ dir[pid] = Null
          /\ pc' = IF flag[pid] = 0 THEN "mkdir" ELSE "unflag"
          /\ UNCHANGED <<dirs, vma, pages, dir, de, hist>>
       \/ /\ flag[pid] = 1 /\ dir[pid] \in PidVals
          /\ pc' = "unflag" /\ RemoveDir(dir[pid])
          /\ UNCHANGED hist
       \/ /\ flag[pid] = 1 /\ dir[pid] = Stale
          /\ RemoveStale("unflag")
    /\ ScanOnly /\ UNCHANGED <<name, task, flag, test, root, physfile>>

PagesUnflag ==
    /\ pc = "unflag" /\ pc' = "mkdir"
    /\ flag' = [flag EXCEPT ![pid] = 0]
    /\ ScanOnly /\ UNCHANGED <<name, task, dir, test, de, procVars, hist>>

PagesMkdir ==
    /\ pc = "mkdir" /\ pc' = "record" /\ Mkdir
    /\ ScanOnly
    /\ UNCHANGED <<name, task, flag, dir, de, root, vma, pages, physfile, hist>>

\* Mutant of Record: an old pointer is kept.
RecordOnce ==
    /\ pc = "record" /\ pc' = "flag"
    /\ dir' = [dir EXCEPT ![pid] = IF @ = Null THEN test ELSE @]
    /\ ScanOnly /\ UNCHANGED <<name, task, flag, test, de, procVars, hist>>

\* proc_test_const[pid] = proc_test; mutex[pid] = 1
Record ==
    /\ pc = "record" /\ pc' = "flag"
    /\ dir' = [dir EXCEPT ![pid] = test]
    /\ ScanOnly /\ UNCHANGED <<name, task, flag, test, de, procVars, hist>>

SetFlag ==
    /\ pc = "flag" /\ pc' = "lookup"
    /\ flag' = [flag EXCEPT ![pid] = 1]
    /\ ScanOnly /\ UNCHANGED <<name, task, dir, test, de, procVars, hist>>

\* pid_task finds nothing for a process that is gone, and target_task->mm is
\* read through NULL.
Lookup ==
    /\ pc = "lookup" /\ task' = pid
    /\ IF pid \in alive
       THEN pc' = <<"remove", "files", "phys">>[job] /\ UNCHANGED hist
       ELSE Oops
    /\ ScanOnly /\ UNCHANGED <<name, moduleVars, procVars>>

\* proc_remove(de): the test in front of it guards nothing.
VmaRemove ==
    /\ pc = "remove"
    /\ \/ /\ de = Null /\ pc' = "create"
          /\ UNCHANGED <<dirs, vma, pages, dir, de, hist>>
       \/ /\ de \in PidVals \cup {Top} /\ pc' = "create"
          /\ vma' = vma \ {de} /\ de' = Stale
          /\ UNCHANGED <<dirs, pages, dir, hist>>
       \/ de = Stale /\ RemoveStale("create")
    /\ ScanOnly /\ UNCHANGED <<name, task, flag, test, root, physfile>>

Parent(d) == IF d = Null THEN Top ELSE d

\* proc_create_data in the directory proc_test_const names now: NULL when the
\* file is there already.
VmaCreate ==
    /\ pc = "create"
    /\ \/ /\ dir[pid] # Stale
          /\ de' = IF Parent(dir[pid]) \in vma THEN Null ELSE Parent(dir[pid])
          /\ vma' = vma \cup {Parent(dir[pid])}
          /\ pc' = "unlock" /\ UNCHANGED hist
       \/ /\ dir[pid] = Stale
          /\ pc' \in {"unlock", "dead"} /\ UNCHANGED <<de, vma>>
          /\ hist' = hist \cup {"stale"} \cup (IF pc' = "dead" THEN {"oops"} ELSE {})
    /\ ScanOnly /\ UNCHANGED <<name, task, flag, dir, test, root, dirs, pages, physfile>>

PagesCreate ==
    /\ pc = "files"
    /\ \/ /\ dir[pid] # Stale
          /\ pages' = pages \cup {Parent(dir[pid])}
          /\ pc' = "unlock" /\ UNCHANGED hist
       \/ /\ dir[pid] = Stale
          /\ pc' \in {"unlock", "dead"} /\ UNCHANGED pages
          /\ hist' = hist \cup {"stale"} \cup (IF pc' = "dead" THEN {"oops"} ELSE {})
    /\ ScanOnly /\ UNCHANGED <<name, task, moduleVars, root, dirs, vma, physfile>>

\* func 3 removes the old phys_addr after its walk and makes it again.
PhysScan ==
    /\ pc = "phys" /\ pc' = "unlock" /\ physfile' = TRUE
    /\ ScanOnly /\ UNCHANGED <<name, task, moduleVars, root, dirs, vma, pages, hist>>

\* The walks over the memory map, between pid_task and what comes next, take
\* no reference to it: it is freed under them when the process exits, and the
\* thread may die.
WalkDies ==
    /\ pc \in {"remove", "files", "phys"} /\ task \notin alive /\ Oops
    /\ ScanOnly /\ UNCHANGED <<name, task, moduleVars, procVars>>

-----------------------------------------------------------------------------
Scan ==
    \/ Name \/ VmaDir \/ PagesDir \/ PagesUnflag \/ PagesMkdir \/ Record \/ SetFlag
    \/ Lookup \/ VmaRemove \/ VmaCreate \/ PagesCreate
    \/ PhysScan \/ WalkDies

Thread == Loop \/ Lock \/ Choose \/ Unlock \/ After \/ SleepEnds \/ Wait \/ Woken \/ Scan

Admin == LoadThread \/ LoadGroup \/ LoadUnwound \/ UnloadGroup \/ UnloadRoot
Writer(w) == RunSet(w) \/ RunWake(w)

Next ==
    \/ Thread \/ LoadRoot \/ LoadRefused \/ Admin \/ Unload
    \/ \E p \in Pids : PidStore(p) \/ ProcExit(p)
    \/ \E f \in 1 .. 3 : FuncStore(f)
    \/ \E w \in Writers : \/ \E how \in {"start", "stop"} : RunStore(w, how)
                          \/ Writer(w)

Spec == Init /\ [][Next]_vars

\* The thread, a load or an unload under way and a store that finds the lock
\* free go on.
FairSpec ==
    /\ Spec /\ WF_vars(Thread) /\ WF_vars(Admin)
    /\ \A w \in Writers : WF_vars(Writer(w))

-----------------------------------------------------------------------------
Pointers == PidVals \cup {Null, Stale}

\* Pointers of the module are NULL, dangle or name a directory.
TypeOK ==
    /\ life \in {"out", "loading", "grouping", "unwinding", "live", "stopping", "draining"}
    /\ pid \in PidVals /\ func \in 0 .. 3 /\ run \in {0, 1}
    /\ st \in [Writers -> {"idle", "start", "stop", "wake"}]
    /\ pc \in Scanning \cup {"off", "dead", "top", "lock", "choose", "unlock", "after", "sleep", "wait", "blocked"}
    /\ lock \in BOOLEAN /\ job \in 0 .. 3 /\ name \in PidVals
    /\ flag \in [PidVals -> {0, 1}]
    /\ dir \in [PidVals -> Pointers] /\ test \in Pointers /\ de \in Pointers \cup {Top}
    /\ dirs \subseteq PidVals

\* Once run_store has stored 0 no scan is going on, and none begins before 1
\* is stored: the lock around the scan and the one in run_store meet.
StopIsFinal == run = 0 => pc \notin Scanning

\* The folder lock of the source, while no scan is going on: mutex[p] is 1
\* exactly when the directory of p exists, and proc_test_const[p] is that
\* directory.
FoldersRight ==
    life = "live" /\ pc \notin Scanning =>
        \A p \in PidVals : /\ (flag[p] = 1) <=> (p \in dirs)
                           /\ p \in dirs => dir[p] = p

\* The folder lock is right after any sequence of scans, as long as no
\* pid_store hit a scan and no removed entry was removed again.
FolderLock == hist \cap {"raced", "stale"} = {} => FoldersRight

\* What the comment on mutex[] says ("1 -- the folder exists; 0 -- it does
\* not") whenever pid_store comes: it reads no lock, and the scan reads pid
\* anew each time.
FolderLockStores == "stale" \notin hist => FoldersRight

\* The same for scans that no store hits: the unguarded proc_remove(de) of func
\* 1 after func 2 has removed the directory de lies in.
FolderLockReuse == "raced" \notin hist => FoldersRight

\* An unloaded module leaves nothing in /proc, under the same conditions and
\* unless a load failed halfway (then /proc/kmscan stays).
LeavesNothing ==
    hist \cap {"raced", "stale", "loadfail"} = {} /\ life = "out" =>
        ~root /\ dirs = {} /\ vma = {} /\ pages = {} /\ ~physfile

\* rmmod always comes back, whatever is stored meanwhile, unless a scan has
\* killed the thread.
UnloadEnds == life = "stopping" ~> (life = "out" \/ "oops" \in hist)

\* A stored 1 starts a scan: no wake-up is lost.
StartScans ==
    (life = "live" /\ run = 1 /\ func # 0) ~>
        (pc \in Scanning \/ run = 0 \/ life # "live" \/ "oops" \in hist)
=============================================================================
