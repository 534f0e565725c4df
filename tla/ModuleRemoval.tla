--------------------------- MODULE ModuleRemoval ---------------------------
(***************************************************************************)
(* Two kernel modules of lab 3 together: the target sec2.c, whose init may *)
(* start a timer that rearms itself or die on a process that does not      *)
(* exist, and forcermmod.c, which resets the state and the reference count *)
(* of a target that rmmod refuses; forcermmod_replace_exit.c also puts a   *)
(* function of its own in place of the target's exit function.  Neither    *)
(* takes a lock, so that everything else may run between their stores.     *)
(*                                                                         *)
(* What insmod, rmmod and the reference count of the kernel do is external *)
(* (kernel/module.c): a live module without users has the count 1, a       *)
(* module whose init runs one more, and rmmod takes a live module at 1     *)
(* down to 0.                                                              *)
(***************************************************************************)
EXTENDS Naturals, FiniteSets

CONSTANT Users      \* tasks and modules that take and drop references to the target

ASSUME UsersAssumption == IsFiniteSet(Users)

VARIABLES state,    \* of the target: "absent", "coming", "live" or "going"
          init,     \* its init function: "none", "runs" or "dead"
          loop,     \* its parameter
          refcnt,   \* its reference count
          holders,  \* users that have taken a reference and not dropped it
          exit,     \* mod->exit: "own", "force", or "gone" with the other module
          remover,  \* rmmod of the target: "none", "exit" or "free"
          armed,    \* my_timer_list is pending
          running,  \* timer_function is being executed
          force,    \* the removing module: "no", the step its init has done, "yes" when
                    \* loaded; "dangling": in init, with a target that has been freed
          repl,     \* it is forcermmod_replace_exit
          fault,    \* what brought the kernel down
          hist      \* history: "inuse" (count reset while in use), "replaced"

timer == <<armed, running>>
forcing == <<force, repl>>
vars == <<state, init, loop, refcnt, holders, exit, remover, timer, forcing, fault, hist>>

Init ==
    /\ state = "absent" /\ init = "none" /\ loop = 0 /\ refcnt = 0 /\ holders = {}
    /\ exit = "own" /\ remover = "none" /\ armed = FALSE /\ running = FALSE
    /\ force = "no" /\ repl = FALSE /\ fault = "none" /\ hist = {}

Up == fault = "none"

-----------------------------------------------------------------------------
(* sec2.c *)

\* insmod sec2: the count is held while init runs.
Insmod(l) ==
    /\ Up /\ state = "absent" /\ init = "none" /\ state' = "coming"
    /\ init' = "runs" /\ loop' = l /\ refcnt' = 2 /\ exit' = "own"
    /\ UNCHANGED <<holders, remover, timer, forcing, fault, hist>>

\* lab3_init: 1 lists the kernel threads, 2 starts the timer, 3 prints the
\* relatives of a process, anything else nothing.  Then the kernel drops the
\* reference and the module is live.
InitReturns ==
    /\ Up /\ init = "runs" /\ init' = "none"
    /\ IF state = "absent"
       THEN fault' = "use" /\ UNCHANGED <<state, refcnt, armed>>
       ELSE /\ state' = "live" /\ refcnt' = IF refcnt > 0 THEN refcnt - 1 ELSE 0
            /\ armed' = (armed \/ loop = 2) /\ UNCHANGED fault
    /\ UNCHANGED <<loop, holders, exit, remover, running, forcing, hist>>

\* With 3 and a pid without a process the NULL of pid_task is followed: the
\* task dies inside of init and the module stays as it is.
InitDies ==
    /\ Up /\ init = "runs" /\ loop = 3 /\ init' = "dead"
    /\ UNCHANGED <<state, loop, refcnt, holders, exit, remover, timer, forcing, fault, hist>>

\* The timer expires; its function is in the memory of the module.
TimerFires ==
    /\ Up /\ armed /\ ~running /\ armed' = FALSE
    /\ IF state = "absent"
       THEN fault' = "timer" /\ UNCHANGED running
       ELSE running' = TRUE /\ UNCHANGED fault
    /\ UNCHANGED <<state, init, loop, refcnt, holders, exit, remover, forcing, hist>>

\* timer_function counts the kernel threads and ends with mod_timer.
TimerRearms ==
    /\ Up /\ running
    /\ running' = FALSE
    /\ IF state = "absent"
       THEN fault' = "timer" /\ UNCHANGED armed
       ELSE armed' = TRUE /\ UNCHANGED fault
    /\ UNCHANGED <<state, init, loop, refcnt, holders, exit, remover, forcing, hist>>

-----------------------------------------------------------------------------
(* Users of the target, and rmmod *)

Get(u) ==
    /\ Up /\ state = "live" /\ refcnt > 0 /\ u \notin holders
    /\ refcnt' = refcnt + 1 /\ holders' = holders \cup {u}
    /\ UNCHANGED <<state, init, loop, exit, remover, timer, forcing, fault, hist>>

\* A holder calls the module's code and drops its reference.
Put(u) ==
    /\ Up /\ u \in holders /\ holders' = holders \ {u}
    /\ IF state = "absent"
       THEN fault' = "use" /\ UNCHANGED refcnt
       ELSE refcnt' = (IF refcnt > 0 THEN refcnt - 1 ELSE 0) /\ UNCHANGED fault
    /\ UNCHANGED <<state, init, loop, exit, remover, timer, forcing, hist>>

\* rmmod sec2 is refused unless the module is live and the count is 1; a
\* count of 0 on a live module is a BUG of the kernel.
Rmmod ==
    /\ Up /\ state = "live" /\ remover = "none"
    /\ \/ /\ refcnt = 1 /\ refcnt' = 0 /\ state' = "going" /\ remover' = "exit"
          /\ UNCHANGED fault
       \/ /\ refcnt = 0 /\ fault' = "bug" /\ UNCHANGED <<refcnt, state, remover>>
    /\ UNCHANGED <<init, loop, holders, exit, timer, forcing, hist>>

\* Mutant of LabExit: del_timer instead of del_timer_sync.
LabExitNoSync ==
    /\ Up /\ remover = "exit" /\ exit = "own"
    /\ armed' = FALSE /\ remover' = "free"
    /\ UNCHANGED <<state, init, loop, refcnt, holders, exit, running, forcing, fault, hist>>

\* lab3_exit: del_timer_sync waits for timer_function and takes the timer off,
\* whether it was set up or not.
LabExit ==
    /\ Up /\ remover = "exit" /\ exit = "own" /\ ~running
    /\ armed' = FALSE /\ remover' = "free"
    /\ UNCHANGED <<state, init, loop, refcnt, holders, exit, running, forcing, fault, hist>>

\* force_replace_exit_module_function in its place: it prints a line.
ForceExit ==
    /\ Up /\ remover = "exit" /\ exit \in {"force", "gone"}
    /\ IF exit = "gone"
       THEN fault' = "exit" /\ UNCHANGED remover
       ELSE remover' = "free" /\ UNCHANGED fault
    /\ UNCHANGED <<state, init, loop, refcnt, holders, exit, timer, forcing, hist>>

\* The memory of the module is given back, also under force_cleanup_module.
Free ==
    /\ Up /\ remover = "free" /\ remover' = "none"
    /\ state' = "absent" /\ refcnt' = 0 /\ init' = IF init = "dead" THEN "none" ELSE init
    /\ force' = IF force \in {"found", "live", "counted"} THEN "dangling" ELSE force
    /\ UNCHANGED <<loop, holders, exit, timer, repl, fault, hist>>

-----------------------------------------------------------------------------
(* forcermmod.c and forcermmod_replace_exit.c *)

\* References that somebody will still drop, or an rmmod under way.
InUse == init = "runs" \/ holders # {} \/ remover # "none"

\* insmod of one of the two modules: find_module, without module_mutex.
ForceFind(r) ==
    /\ Up /\ force = "no" /\ state # "absent"
    /\ force' = "found" /\ repl' = r
    /\ UNCHANGED <<state, init, loop, refcnt, holders, exit, remover, timer, fault, hist>>

\* Without the target force_cleanup_module returns -1 and the load fails.
ForceNotFound == Up /\ force = "no" /\ state = "absent" /\ UNCHANGED vars

\* The modules that depend on the target are printed and nothing else; then
\* the state is LIVE.
ForceState ==
    /\ Up /\ force = "found" /\ force' = "live" /\ state' = "live"
    /\ hist' = hist \cup (IF InUse THEN {"inuse"} ELSE {})
    /\ UNCHANGED <<init, loop, refcnt, holders, exit, remover, timer, repl, fault>>

\* Mutant of ForceCount: the count is left as it is.
ForceCountBare ==
    /\ Up /\ force = "live" /\ force' = "counted"
    /\ UNCHANGED <<state, init, loop, refcnt, holders, exit, remover, timer, repl, fault, hist>>

\* refcnt is no per-cpu variable, so that local_set writes a zero at a stray
\* address for every cpu, which the kernel may not survive; then the count
\* is 1.
ForceCount ==
    /\ Up /\ force = "live"
    /\ \/ fault' = "wild" /\ UNCHANGED <<force, refcnt, hist>>
       \/ /\ force' = "counted" /\ refcnt' = 1
          /\ hist' = hist \cup (IF InUse THEN {"inuse"} ELSE {})
          /\ UNCHANGED fault
    /\ UNCHANGED <<state, init, loop, holders, exit, remover, timer, repl>>

\* CONFIG_REPLACE_EXIT_FUNCTION: mod->exit is the function of this module.
ForceSwap ==
    /\ Up /\ force = "counted" /\ force' = "yes"
    /\ exit' = IF repl THEN "force" ELSE exit
    /\ hist' = hist \cup (IF repl THEN {"replaced"} ELSE {})
    /\ UNCHANGED <<state, init, loop, refcnt, holders, remover, timer, repl, fault>>

\* The remaining stores go to memory that was given back.
ForceDangling ==
    /\ Up /\ force = "dangling"
    /\ \/ force' = "yes" /\ UNCHANGED fault
       \/ fault' = "wild" /\ UNCHANGED force
    /\ UNCHANGED <<state, init, loop, refcnt, holders, exit, remover, timer, repl, hist>>

\* rmmod of the removing module: its function goes with it.
ForceRmmod ==
    /\ Up /\ force = "yes" /\ force' = "no" /\ repl' = FALSE
    /\ exit' = IF exit = "force" THEN "gone" ELSE exit
    /\ UNCHANGED <<state, init, loop, refcnt, holders, remover, timer, fault, hist>>

-----------------------------------------------------------------------------
Next ==
    \/ \E l \in 0 .. 3 : Insmod(l)
    \/ InitReturns \/ InitDies \/ TimerFires \/ TimerRearms
    \/ \E u \in Users : Get(u) \/ Put(u)
    \/ Rmmod \/ LabExit \/ ForceExit \/ Free
    \/ \E r \in BOOLEAN : ForceFind(r)
    \/ ForceNotFound \/ ForceState \/ ForceCount \/ ForceSwap \/ ForceDangling \/ ForceRmmod

Spec == Init /\ [][Next]_vars

\* Users drop what they hold, rmmod is tried until it is accepted, and
\* del_timer_sync finds the timer function idle between two rounds; an init
\* that has begun goes on.
FairSpec ==
    /\ Spec /\ SF_vars(Rmmod) /\ SF_vars(LabExit) /\ WF_vars(ForceExit) /\ WF_vars(Free)
    /\ WF_vars(InitReturns) /\ WF_vars(TimerRearms)
    /\ WF_vars(ForceState \/ ForceCount \/ ForceSwap \/ ForceDangling)
    /\ \A u \in Users : WF_vars(Put(u))

-----------------------------------------------------------------------------
\* The count of a module that is going is 0, and nothing is counted past its
\* users and the load.
TypeOK ==
    /\ state \in {"absent", "coming", "live", "going"}
    /\ init \in {"none", "runs", "dead"} /\ loop \in 0 .. 3
    /\ refcnt \in 0 .. Cardinality(Users) + 2 /\ holders \subseteq Users
    /\ exit \in {"own", "force", "gone"} /\ remover \in {"none", "exit", "free"}
    /\ armed \in BOOLEAN /\ running \in BOOLEAN
    /\ force \in {"no", "found", "live", "counted", "yes", "dangling"} /\ repl \in BOOLEAN
    /\ fault \in {"none", "timer", "use", "bug", "exit", "wild"}
    /\ hist \subseteq {"inuse", "replaced"}

\* timer_function never runs in memory that was given back, and no timer is
\* left behind by a module that is gone, although timer_function rearms the
\* timer while lab3_exit takes it off -- unless the exit function was replaced
\* or the module was forced while in use.
TimerGone ==
    hist = {} => fault # "timer" /\ (state = "absent" => ~armed /\ ~running)

\* The reference count of the target is right, so that it is never freed
\* under a user and never drops to 0 while it is live, unless the count was
\* reset while somebody held a reference or was loading or removing it.  Only
\* between the two stores of force_cleanup_module may a target whose init died
\* be live with the count of the load.
CountRight ==
    "inuse" \notin hist =>
        /\ fault \notin {"use", "bug"}
        /\ state = "live" /\ force # "live" => refcnt = 1 + Cardinality(holders)
        /\ state \in {"going", "absent"} => holders = {}

\* A target that is live, a stuck one included once it has been forced, is
\* removed if its users stop coming: rmmod is not refused for ever.
RemovalCompletes ==
    <>[](holders = {}) => (state = "live" ~> (state = "absent" \/ fault # "none"))

\* The target is never removed while a module that depends on it, or any other
\* user, still holds a reference: the comment above the test of source_list
\* promises that force_cleanup_module gives up in that case.
DependentsKeep == state = "absent" => holders = {}
=============================================================================
