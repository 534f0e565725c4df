---------------------------- MODULE ThreadLocks ----------------------------
(***************************************************************************)
(* The exercise thread.c: a parent and a forked child each run three       *)
(* threads that take hand-made locks (plain integers, tested and counted   *)
(* down in separate instructions) and are ordered by sleeps.  fork copies  *)
(* the lock array, so each process has its own.                            *)
(*                                                                         *)
(* Every sleep of the program lasts one second.  Second is the moment at   *)
(* which all the sleepers wake; it happens when nothing that runs has a    *)
(* step of its own left, that is, the instructions between two sleeps take *)
(* less than a second.  Within a second they interleave in every order.    *)
(***************************************************************************)
EXTENDS Naturals, Sequences, FiniteSets

CONSTANTS Work,     \* rounds of the work loop, 10 in the program
          Prompt    \* FALSE: a second may pass between any two instructions

ASSUME ConstantsOK == Work \in Nat \ {0} /\ Prompt \in BOOLEAN

Procs == {"parent", "child"}
Numbers == 1 .. 3
Threads == Procs \X Numbers
Locks == 0 .. 2
Create == {"create1", "create2", "create3"}
Join == {"join1", "join2", "join3"}

VARIABLES life,    \* per process: "none", "runs", "exec", "exited" or "aborted"
          main,    \* per process: where its main thread is
          seen,    \* child: the next lock its main thread looks at, 0 to 3
          echo,    \* child: "none", "ready", "getchar" or "done": thread_exec
          mutex,   \* the array of each process
          pc,      \* per thread
          slept,   \* seconds the thread has slept
          held,    \* locks the thread has taken, in order
          tmp      \* the register of mutex[num]-- and mutex[num]++

vars == <<life, main, seen, echo, mutex, pc, slept, held, tmp>>
threadVars == <<pc, slept, held, tmp>>
mainVars == <<life, main, seen, echo>>

\* Mutant of Needs: thread 3 forgets lock 1.
NeedsSkipping(n) == CASE n = 1 -> <<0>> [] n = 2 -> <<1, 0>> [] n = 3 -> <<2, 0>>

\* The locks thread n waits for, in this order; it signals them in the same.
Needs(n) == CASE n = 1 -> <<0>> [] n = 2 -> <<1, 0>> [] n = 3 -> <<2, 1, 0>>

Alive(t) == life[t[1]] = "runs"
Goes(t, from, to) == pc[t] = from /\ pc' = [pc EXCEPT ![t] = to]

Init ==
    /\ life = [p \in Procs |-> IF p = "parent" THEN "runs" ELSE "none"]
    /\ main = [p \in Procs |-> "fork"]
    /\ seen = 0 /\ echo = "none"
    /\ mutex = [p \in Procs |-> [l \in Locks |-> 1]]
    /\ pc = [t \in Threads |-> "off"]
    /\ slept = [t \in Threads |-> 0]
    /\ held = [t \in Threads |-> <<>>]
    /\ tmp = [t \in Threads |-> 0]

-----------------------------------------------------------------------------
(* thread_function *)

\* The locks are asked for before the first, the second or the third sleep.
WantsLocks(t) == slept[t] = t[2] - 1 /\ Len(held[t]) < Len(Needs(t[2]))
NextLock(t) == Needs(t[2])[Len(held[t]) + 1]

\* The loop of waiting() ends when it sees a positive value.
Test(t) ==
    /\ Alive(t) /\ WantsLocks(t) /\ mutex[t[1]][NextLock(t)] > 0
    /\ Goes(t, "run", "load")
    /\ UNCHANGED <<mainVars, mutex, slept, held, tmp>>

\* mutex[num]-- reads the lock ...
Load(t) ==
    /\ Alive(t) /\ Goes(t, "load", "store")
    /\ tmp' = [tmp EXCEPT ![t] = mutex[t[1]][NextLock(t)]]
    /\ UNCHANGED <<mainVars, mutex, slept, held>>

\* ... and writes it back.
Store(t) ==
    /\ Alive(t) /\ Goes(t, "store", "run")
    /\ mutex' = [mutex EXCEPT ![t[1]][NextLock(t)] = tmp[t] - 1]
    /\ held' = [held EXCEPT ![t] = Append(@, NextLock(t))]
    /\ UNCHANGED <<mainVars, slept, tmp>>

\* sleep(1): the two before the work loop and those of its rounds.
Sleep(t) ==
    /\ Alive(t) /\ ~WantsLocks(t) /\ slept[t] < 2 + Work
    /\ Goes(t, "run", "sleep")
    /\ UNCHANGED <<mainVars, mutex, slept, held, tmp>>

\* signaling(): mutex[num]++ on the locks in the order they were taken.
Signal(t) ==
    /\ Alive(t) /\ slept[t] = 2 + Work /\ held[t] # <<>>
    /\ Goes(t, "run", "signal")
    /\ tmp' = [tmp EXCEPT ![t] = mutex[t[1]][Head(held[t])]]
    /\ UNCHANGED <<mainVars, mutex, slept, held>>

\* Mutant of SignalStore: the lock is not counted up.
SignalForgets(t) ==
    /\ Alive(t) /\ Goes(t, "signal", "run")
    /\ held' = [held EXCEPT ![t] = Tail(@)]
    /\ UNCHANGED <<mainVars, mutex, slept, tmp>>

SignalStore(t) ==
    /\ Alive(t) /\ Goes(t, "signal", "run")
    /\ mutex' = [mutex EXCEPT ![t[1]][Head(held[t])] = tmp[t] + 1]
    /\ held' = [held EXCEPT ![t] = Tail(@)]
    /\ UNCHANGED <<mainVars, slept, tmp>>

ToGetchar(t) ==
    /\ Alive(t) /\ slept[t] = 2 + Work /\ held[t] = <<>>
    /\ Goes(t, "run", "getchar")
    /\ UNCHANGED <<mainVars, mutex, slept, held, tmp>>

\* The user may type a character, now or never.
Getchar(t) ==
    /\ Alive(t) /\ Goes(t, "getchar", "done")
    /\ UNCHANGED <<mainVars, mutex, slept, held, tmp>>

-----------------------------------------------------------------------------
(* main *)

Moves(p, from, to) ==
    /\ life[p] = "runs" /\ main[p] = from
    /\ main' = [main EXCEPT ![p] = to]

Dies(p, how) == life' = [life EXCEPT ![p] = how]

\* fork(): the child starts with a copy of the locks, or there is no child.
Fork ==
    /\ life["parent"] = "runs" /\ main["parent"] = "fork"
    /\ \/ /\ life' = [life EXCEPT !["child"] = "runs"]
          /\ main' = [p \in Procs |-> "create1"]
       \/ /\ main' = [main EXCEPT !["parent"] = "create1"]
          /\ UNCHANGED life
    /\ UNCHANGED <<seen, echo, mutex, threadVars>>

\* pthread_create of thread n.
CreateThread(p, n) ==
    /\ Moves(p, <<"create1", "create2", "create3">>[n],
             IF n < 3 THEN <<"create2", "create3">>[n]
             ELSE IF p = "child" THEN "sleep1" ELSE "join1")
    /\ pc' = [pc EXCEPT ![<<p, n>>] = "run"]
    /\ UNCHANGED <<life, seen, echo, mutex, slept, held, tmp>>

\* pthread_create fails and abort() ends the process and all its threads.
Abort(p) ==
    /\ life[p] = "runs" /\ main[p] \in Create \cup {"createEcho"}
    /\ Dies(p, "aborted")
    /\ UNCHANGED <<main, seen, echo, mutex, threadVars>>

\* One read of the loop that waits for all locks: it starts again at the
\* first lock that is taken.  The loop is run before thread_exec is created
\* and again after the joins.
AfterLoop(where) == IF where = "look1" THEN "createEcho" ELSE "sleep3"

\* Mutant of Look: the loop forgets the last lock.
LookLess(where) ==
    /\ life["child"] = "runs" /\ main["child"] = where /\ seen \in Locks
    /\ seen' = IF mutex["child"][seen] <= 0 THEN 0 ELSE IF seen = 1 THEN 3 ELSE seen + 1
    /\ UNCHANGED <<life, main, echo, mutex, threadVars>>

Look(where) ==
    /\ life["child"] = "runs" /\ main["child"] = where /\ seen \in Locks
    /\ seen' = IF mutex["child"][seen] <= 0 THEN 0 ELSE seen + 1
    /\ UNCHANGED <<life, main, echo, mutex, threadVars>>

LookDone(where) ==
    /\ Moves("child", where, AfterLoop(where)) /\ seen = 3
    /\ seen' = 0
    /\ UNCHANGED <<life, echo, mutex, threadVars>>

CreateEcho ==
    /\ Moves("child", "createEcho", "join1")
    /\ echo' = "ready"
    /\ UNCHANGED <<life, seen, mutex, threadVars>>

\* thread_exec: execl replaces the whole process, or fails and returns.
Exec ==
    /\ life["child"] = "runs" /\ echo = "ready"
    /\ \/ Dies("child", "exec") /\ UNCHANGED echo
       \/ echo' = "getchar" /\ UNCHANGED life
    /\ UNCHANGED <<main, seen, mutex, threadVars>>

EchoGetchar ==
    /\ life["child"] = "runs" /\ echo = "getchar" /\ echo' = "done"
    /\ UNCHANGED <<life, main, seen, mutex, threadVars>>

JoinThread(p, n) ==
    /\ Moves(p, <<"join1", "join2", "join3">>[n],
             IF n < 3 THEN <<"join2", "join3">>[n]
             ELSE IF p = "child" THEN "sleep2" ELSE "exit")
    /\ pc[<<p, n>>] = "done"
    /\ UNCHANGED <<life, seen, echo, mutex, threadVars>>

JoinEcho ==
    /\ Moves("child", "joinEcho", "getchar") /\ echo = "done"
    /\ UNCHANGED <<life, seen, echo, mutex, threadVars>>

MainGetchar ==
    /\ Moves("child", "getchar", "exit")
    /\ UNCHANGED <<life, seen, echo, mutex, threadVars>>

Exit(p) ==
    /\ life[p] = "runs" /\ main[p] = "exit" /\ Dies(p, "exited")
    /\ UNCHANGED <<main, seen, echo, mutex, threadVars>>

-----------------------------------------------------------------------------
\* A thread, a main thread or thread_exec that has a step to take at once;
\* a loop that waits and a getchar have none.
ThreadBusy(t) ==
    /\ Alive(t)
    /\ \/ pc[t] \in {"load", "store", "signal"}
       \/ pc[t] = "run" /\ (WantsLocks(t) => mutex[t[1]][NextLock(t)] > 0)

Looking == main["child"] \in {"look1", "look2"}

MainBusy(p) ==
    /\ life[p] = "runs"
    /\ \/ main[p] \in Create \cup {"fork", "createEcho", "exit"}
       \/ \E n \in Numbers : main[p] = <<"join1", "join2", "join3">>[n] /\ pc[<<p, n>>] = "done"
       \/ p = "child" /\ main[p] = "joinEcho" /\ echo = "done"
       \/ p = "child" /\ Looking /\ \A l \in Locks : l >= seen => mutex[p][l] > 0
       \/ p = "child" /\ echo = "ready"

Sleepers == {t \in Threads : pc[t] = "sleep"}
MainSleeps == main["child"] \in {"sleep1", "sleep2", "sleep3"}
AfterSleep(where) ==
    CASE where = "sleep1" -> "look1" [] where = "sleep2" -> "look2" [] where = "sleep3" -> "joinEcho"

\* A second has passed: everyone who sleeps wakes.
Second ==
    /\ Prompt => /\ \A t \in Threads : ~ThreadBusy(t)
                 /\ \A p \in Procs : ~MainBusy(p)
    /\ (\E t \in Sleepers : Alive(t)) \/ (life["child"] = "runs" /\ MainSleeps)
    /\ pc' = [t \in Threads |-> IF pc[t] = "sleep" THEN "run" ELSE pc[t]]
    /\ slept' = [t \in Threads |-> IF pc[t] = "sleep" THEN slept[t] + 1 ELSE slept[t]]
    /\ main' = IF MainSleeps THEN [main EXCEPT !["child"] = AfterSleep(@)] ELSE main
    /\ UNCHANGED <<life, seen, echo, mutex, held, tmp>>

ThreadStep(t) ==
    \/ Test(t) \/ Load(t) \/ Store(t) \/ Sleep(t)
    \/ Signal(t) \/ SignalStore(t) \/ ToGetchar(t)

MainStep(p) ==
    \/ \E n \in Numbers : CreateThread(p, n) \/ JoinThread(p, n)
    \/ Exit(p)

ChildStep ==
    \/ \E where \in {"look1", "look2"} : Look(where) \/ LookDone(where)
    \/ CreateEcho \/ JoinEcho

Next ==
    \/ \E t \in Threads : ThreadStep(t) \/ Getchar(t)
    \/ \E p \in Procs : MainStep(p) \/ Abort(p)
    \/ ChildStep \/ Fork \/ Exec \/ EchoGetchar \/ MainGetchar
    \/ Second

Spec == Init /\ [][Next]_vars

\* The scheduler runs every thread that can run, and seconds pass; nothing
\* makes the user type.
FairSpec ==
    /\ Spec
    /\ \A t \in Threads : WF_vars(ThreadStep(t))
    /\ \A p \in Procs : WF_vars(MainStep(p))
    /\ WF_vars(ChildStep) /\ WF_vars(Fork) /\ WF_vars(Exec) /\ WF_vars(Second)

-----------------------------------------------------------------------------
\* A lock is never counted below 0 or above 1, whatever the interleaving of
\* the reads and writes of waiting() and signaling().
TypeOK ==
    /\ life \in [Procs -> {"none", "runs", "exec", "exited", "aborted"}]
    /\ seen \in 0 .. 3
    /\ mutex \in [Procs -> [Locks -> {0, 1}]]
    /\ pc \in [Threads -> {"off", "run", "load", "store", "sleep", "signal", "getchar", "done"}]
    /\ slept \in [Threads -> 0 .. 2 + Work]
    /\ held \in [Threads -> Seq(Locks)]
    /\ tmp \in [Threads -> {0, 1}]

\* Thread t works: it has all of its locks and has not begun to give them back.
Working(t) == pc[t] # "off" /\ held[t] = Needs(t[2]) /\ slept[t] >= 2

\* Two threads of a process never work at the same time, although waiting()
\* tests and counts down in separate instructions: the sleeps before the
\* waits and the order of the locks keep the threads from testing together.
OneAtATime ==
    \A t, u \in Threads : t # u /\ t[1] = u[1] => ~(Working(t) /\ Working(u))

Holders(p, l) == {t \in Threads : t[1] = p /\ \E i \in 1 .. Len(held[t]) : held[t][i] = l}

\* No update of a lock is lost: a lock is 1 exactly when no thread has it,
\* and no two threads have it.
LocksCount ==
    \A p \in Procs, l \in Locks : mutex[p][l] + Cardinality(Holders(p, l)) = 1

\* execl replaces the child only after its three threads have finished their
\* work: the loop that looks at the locks one after the other cannot be
\* fooled by a lock that changes hands in the meantime.
ExecAfterWork ==
    echo # "none" =>
        \A n \in Numbers : slept[<<"child", n>>] = 2 + Work

WorkDone(p) == \A n \in Numbers : pc[<<p, n>>] \in {"getchar", "done"}

\* No thread waits for ever: every process that runs finishes the work of
\* its three threads, and the child gets to its execl, unless a thread
\* could not be created.
WorkCompletes ==
    /\ \A p \in Procs : life[p] = "runs" ~> (WorkDone(p) \/ life[p] # "runs")
    /\ life["child"] = "runs" ~> (echo # "none" \/ life["child"] = "aborted")
=============================================================================
