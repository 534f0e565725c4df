------------------------------ MODULE PsState ------------------------------
(***************************************************************************)
(* The system calls ps_counter and ps_state added to sys.c, and the        *)
(* program test_syscall.c that calls the second.  ps_state walks the list  *)
(* of processes twice, once to count them and once to copy them into a     *)
(* buffer of the size counted, with no lock in either walk, while other    *)
(* processes fork and exit.                                                *)
(*                                                                         *)
(* A process is named by the order of its birth: fork adds at the tail of  *)
(* the list, so the list is the set of the living in increasing order and  *)
(* 0 stands for init_task, where every walk begins and ends.  fork, exit   *)
(* and the list are external.  One that exits is unlinked but keeps its    *)
(* own next pointer (list_del_rcu), which a walk standing on it follows.   *)
(***************************************************************************)
EXTENDS Integers, Sequences, FiniteSets

CONSTANTS
    First,      \* processes alive when the system call is first made
    MaxProcs,   \* bound: processes ever born
    UserLen     \* entries of the array states of test_syscall.c (1000 there)

ASSUME ProcsAssumption ==
    First \in Nat \ {0} /\ MaxProcs \in Nat /\ First <= MaxProcs /\ UserLen \in Nat

Procs == 1 .. MaxProcs

VARIABLES
    live,     \* the list of processes
    born,     \* the last process born
    stale,    \* next pointers of processes that have exited
    pc,       \* the caller: "idle", "count", "alloc", "copy", "print", "done"
    call,     \* "counter" or "state"
    task,     \* the cursor of the walk
    counter,  \* the number of processes counted
    counted,  \* history: the processes counted
    states,   \* the entries written to the buffer by the second walk
    before,   \* history: the list when the call was made
    oldest,   \* history: the last process born before the call
    start,    \* history: the list when the current walk began
    last,     \* history: the last process born before it
    fault     \* "none", "oops", "stack" (the array of main was too short for the
              \* copy) or "past" (the loop of main has run out of it)

procs == <<live, born, stale>>
vars == <<procs, pc, call, task, counter, counted, states, before, oldest, start, last, fault>>

-----------------------------------------------------------------------------
(* The list of processes *)

Later(p) == {q \in live : q > p}

\* The first process after p in the list, or init_task.
After(p) == IF Later(p) = {} THEN 0 ELSE CHOOSE q \in Later(p) : \A r \in Later(p) : q <= r

\* next_task(p).
NextTask(p) == IF p = 0 \/ p \in live THEN After(p) ELSE stale[p]

Init ==
    /\ live = 1 .. First /\ born = First /\ stale = [p \in Procs |-> 0]
    /\ pc = "idle" /\ call = "counter" /\ task = 0 /\ counter = 0 /\ counted = {}
    /\ states = <<>> /\ before = live /\ oldest = First
    /\ start = live /\ last = First /\ fault = "none"

Fork ==
    /\ fault = "none" /\ born < MaxProcs
    /\ born' = born + 1 /\ live' = live \cup {born + 1}
    /\ UNCHANGED <<stale, pc, call, task, counter, counted, states, before, oldest, start, last, fault>>

\* Process 1 never exits.
Exit(p) ==
    /\ fault = "none" /\ p \in live \ {1}
    /\ live' = live \ {p} /\ stale' = [stale EXCEPT ![p] = After(p)]
    /\ UNCHANGED <<born, pc, call, task, counter, counted, states, before, oldest, start, last, fault>>

-----------------------------------------------------------------------------
(* The system calls *)

\* Mutant of Call: counter is not set to 0.
CallKeeps(c) ==
    /\ fault = "none" /\ pc = "idle" /\ pc' = "count" /\ call' = c /\ task' = 0
    /\ counted' = {} /\ states' = <<>>
    /\ before' = live /\ oldest' = born /\ start' = live /\ last' = born
    /\ UNCHANGED <<procs, counter, fault>>

Call(c) ==
    /\ fault = "none" /\ pc = "idle" /\ pc' = "count" /\ call' = c /\ task' = 0
    /\ counter' = 0 /\ counted' = {} /\ states' = <<>>
    /\ before' = live /\ oldest' = born /\ start' = live /\ last' = born
    /\ UNCHANGED <<procs, fault>>

\* One round of the first for_each_process.
CountOne ==
    /\ fault = "none" /\ pc = "count" /\ NextTask(task) # 0
    /\ task' = NextTask(task) /\ counter' = counter + 1
    /\ counted' = counted \cup {NextTask(task)}
    /\ UNCHANGED <<procs, pc, call, states, before, oldest, start, last, fault>>

\* Mutant of CountEnd: one less is counted.
CountEndLess ==
    /\ fault = "none" /\ pc = "count" /\ NextTask(task) = 0
    /\ pc' = IF call = "counter" THEN "done" ELSE "alloc"
    /\ counter' = counter - 1
    /\ UNCHANGED <<procs, call, task, counted, states, before, oldest, start, last, fault>>

\* The walk is back at init_task: ps_counter copies the number to the caller.
CountEnd ==
    /\ fault = "none" /\ pc = "count" /\ NextTask(task) = 0
    /\ pc' = IF call = "counter" THEN "done" ELSE "alloc"
    /\ UNCHANGED <<procs, call, task, counter, counted, states, before, oldest, start, last, fault>>

\* kmalloc, which may sleep, and temp = states.
Alloc ==
    /\ fault = "none" /\ pc = "alloc" /\ pc' = "copy" /\ task' = 0 /\ states' = <<>>
    /\ start' = live /\ last' = born
    /\ UNCHANGED <<procs, call, counter, counted, before, oldest, fault>>

\* kmalloc returns NULL and the first entry is written through it.
AllocFails ==
    /\ fault = "none" /\ pc = "alloc" /\ fault' = "oops"
    /\ UNCHANGED <<procs, pc, call, task, counter, counted, states, before, oldest, start, last>>

\* One round of the second for_each_process: the entry is written wherever
\* temp points, past the end of the buffer too.
CopyOne ==
    /\ fault = "none" /\ pc = "copy" /\ NextTask(task) # 0
    /\ task' = NextTask(task) /\ states' = Append(states, NextTask(task))
    /\ UNCHANGED <<procs, pc, call, counter, counted, before, oldest, start, last, fault>>

\* copy_to_user of counter entries to the array of main.
CopyEnd ==
    /\ fault = "none" /\ pc = "copy" /\ NextTask(task) = 0
    /\ IF counter > UserLen THEN fault' = "stack" /\ UNCHANGED pc
                            ELSE pc' = "print" /\ UNCHANGED fault
    /\ UNCHANGED <<procs, call, task, counter, counted, states, before, oldest, start, last>>

-----------------------------------------------------------------------------
(* main of test_syscall.c *)

\* The entries of the array that the kernel has filled.
Filled == {i \in 1 .. Len(states) : i <= counter}

\* Entries of the array whose pid is not 0: those filled with a process, and
\* those that hold what the stack or the memory of kmalloc held.
NonZero(junk) == Filled \cup junk

\* The loop prints entries until the first pid that is 0, junk behind the
\* filled ones too; when there is no 0 in the array it reads on behind it.
ShowStates(junk) ==
    /\ fault = "none" /\ pc = "print"
    /\ IF 1 .. UserLen \subseteq NonZero(junk) THEN fault' = "past" /\ UNCHANGED pc
                                               ELSE pc' = "done" /\ UNCHANGED fault
    /\ UNCHANGED <<procs, call, task, counter, counted, states, before, oldest, start, last>>

Return ==
    /\ fault = "none" /\ pc = "done" /\ pc' = "idle"
    /\ UNCHANGED <<procs, call, task, counter, counted, states, before, oldest, start, last, fault>>

-----------------------------------------------------------------------------
Next ==
    \/ Fork \/ \E p \in Procs : Exit(p)
    \/ \E c \in {"counter", "state"} : Call(c)
    \/ CountOne \/ CountEnd \/ Alloc \/ AllocFails \/ CopyOne \/ CopyEnd
    \/ \E junk \in SUBSET (1 .. UserLen) : ShowStates(junk)
    \/ Return

Spec == Init /\ [][Next]_vars

-----------------------------------------------------------------------------
\* Counters, cursors and list stay in their ranges.
TypeOK ==
    /\ live \in SUBSET Procs /\ 1 \in live
    /\ born \in Procs /\ stale \in [Procs -> Procs \cup {0}]
    /\ pc \in {"idle", "count", "alloc", "copy", "print", "done"}
    /\ call \in {"counter", "state"} /\ task \in Procs \cup {0}
    /\ counter \in 0 .. MaxProcs /\ counted \in SUBSET Procs
    /\ states \in Seq(Procs)
    /\ before \in SUBSET Procs /\ oldest \in Procs /\ start \in SUBSET Procs /\ last \in Procs
    /\ fault \in {"none", "oops", "stack", "past"}

\* Processes that have lived since the call was made.
Survivors == before \cap live

\* Although neither walk of ps_state takes a lock, a process that lives
\* through the call is counted, and its entry lies inside of the buffer.
SurvivorsListed ==
    /\ (pc \in {"alloc", "copy", "print", "done"} => Survivors \subseteq counted)
    /\ (pc \in {"print", "done"} /\ call = "state" =>
            \A p \in Survivors : \E i \in 1 .. Len(states) : i <= counter /\ states[i] = p)

\* The second walk writes past the end of the buffer only for processes that
\* were born after ps_state was called.
OverrunYoung == \A i \in 1 .. Len(states) : i > counter => states[i] > oldest

\* Each process is counted and copied once, in the order of the list, and
\* the count is between the survivors and those that lived at some time.
CountSpan ==
    /\ counter = Cardinality(counted) /\ counted \subseteq before \cup (oldest + 1 .. born)
    /\ \A i, j \in 1 .. Len(states) : i < j => states[i] < states[j]
=============================================================================
