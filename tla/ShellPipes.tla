----------------------------- MODULE ShellPipes -----------------------------
(***************************************************************************)
(* Pipelines of the shell lab2/lab2.2/lab2_shell.c: which process holds    *)
(* which end of which pipe, and whether the shell gets back to its prompt. *)
(*                                                                         *)
(* Command i of a line writes to pipe i and reads from the pipe the shell  *)
(* remembers in lastReadEnd.  Process 0 is the shell.  What a command does *)
(* is external: a source writes a number of items, a filter passes on what *)
(* it reads until end of file, and a command that stops early (head, or a  *)
(* name execvp does not find) may exit at any time.  lastReadEnd and ret   *)
(* are declared in the body of the loop; in every build their place on the *)
(* stack keeps its value from one round to the next.                       *)
(***************************************************************************)
EXTENDS Integers

CONSTANTS
  Counts,     \* numbers of commands a line may have
  Stopping,   \* those of them whose commands may stop early
  Capacity,   \* items a pipe holds
  MaxOut,     \* bound: items a source writes
  MaxFails    \* bound: how often pipe() fails

ASSUME ShellAssumption ==
  /\ Counts \subseteq Nat \ {0} /\ \E m \in Counts : \A k \in Counts : k <= m
  /\ Stopping \subseteq Counts
  /\ Capacity \in Nat \ {0} /\ MaxOut \in Nat /\ MaxFails \in Nat

MaxCount == CHOOSE n \in Counts : \A m \in Counts : m <= n
Cmds == 1 .. MaxCount
Procs == 0 .. MaxCount

VARIABLES
  pc,        \* where the shell is
  n,         \* cmd_count
  i,         \* the loop variable, counted from 1
  ret,       \* what pipe() returned last, in lines of more than two commands
  last,      \* the pipe behind lastReadEnd, 0 before the first assignment
  kids,      \* the children: not there, running, ended
  early,     \* the commands of this line that stop early
  inp,       \* the pipe a child has as standard input, 0 for the terminal
  outp,      \* the same for standard output
  readers,   \* processes with a descriptor for the read end of each pipe
  writers,   \* and for the write end
  sent,      \* items written to each pipe
  rcvd,      \* items read from it
  fails      \* failed calls of pipe()

line == <<n, early>>
shell == <<pc, i, ret, last>>
ends == <<readers, writers>>
data == <<sent, rcvd>>
vars == <<line, shell, kids, inp, outp, ends, data, fails>>

\* Type invariant: pipes never hold more than their capacity.
TypeOK ==
  /\ pc \in {"prompt", "pipe", "fork", "close", "wait", "wild", "gone"}
  /\ n \in Counts \cup {0} /\ i \in 1 .. MaxCount + 1
  /\ ret \in {"ok", "error"} /\ last \in Procs
  /\ kids \in [Cmds -> {"none", "run", "ended"}]
  /\ early \subseteq Cmds
  /\ inp \in [Cmds -> Procs] /\ outp \in [Cmds -> Procs]
  /\ readers \in [Cmds -> SUBSET Procs] /\ writers \in [Cmds -> SUBSET Procs]
  /\ sent \in [Cmds -> 0 .. MaxOut] /\ rcvd \in [Cmds -> 0 .. MaxOut]
  /\ \A p \in Cmds : sent[p] - rcvd[p] \in 0 .. Capacity
  /\ fails \in 0 .. MaxFails

\* The state of the shell between two lines, but for descriptors still open.
Fresh ==
  /\ n = 0 /\ i = 1 /\ ret = "ok" /\ last = 0 /\ early = {}
  /\ kids = [c \in Cmds |-> "none"]
  /\ inp = [c \in Cmds |-> 0] /\ outp = [c \in Cmds |-> 0]
  /\ sent = [p \in Cmds |-> 0] /\ rcvd = [p \in Cmds |-> 0]

Init ==
  /\ pc = "prompt"
  /\ Fresh
  /\ readers = [p \in Cmds |-> {}] /\ writers = [p \in Cmds |-> {}]
  /\ fails = 0
-----------------------------------------------------------------------------
(* The shell.                                                              *)

\* A line is read.  A single built-in command runs in the shell: "exit" ends
\* it, the others come back to the prompt at once and are left out.
ReadLine ==
  /\ pc = "prompt"
  /\ n' \in Counts
  /\ early' \in IF n' \in Stopping THEN SUBSET (1 .. n') ELSE {{}}
  /\ pc' = IF n' = 1 THEN "fork" ELSE "pipe"
  /\ UNCHANGED <<i, ret, last, kids, inp, outp, ends, data, fails>>

Exit ==
  /\ pc = "prompt" /\ pc' = "gone"
  /\ UNCHANGED <<line, i, ret, last, kids, inp, outp, ends, data, fails>>

\* pipe(pipefd): once for two commands, in every round but the last for more.
Pipe ==
  /\ pc = "pipe" /\ i < n
  /\ \/ /\ readers' = [readers EXCEPT ![i] = {0}]
        /\ writers' = [writers EXCEPT ![i] = {0}]
        /\ ret' = "ok" /\ pc' = "fork"
        /\ UNCHANGED <<n, early, i, last, kids, inp, outp, data, fails>>
     \/ /\ fails < MaxFails /\ fails' = fails + 1
        /\ IF n = 2 THEN pc' = "prompt" /\ n' = 0 /\ early' = {} /\ UNCHANGED <<i, ret>>
                    ELSE i' = i + 1 /\ ret' = "error" /\ UNCHANGED <<pc, n, early>>
        /\ UNCHANGED <<last, kids, inp, outp, ends, data>>

\* The last round tests ret without a call of pipe() before it.
LastRound ==
  /\ pc = "pipe" /\ i = n
  /\ IF ret = "error" THEN pc' = "wait" /\ i' = i + 1
                      ELSE pc' = "fork" /\ UNCHANGED i
  /\ UNCHANGED <<line, ret, last, kids, inp, outp, ends, data, fails>>

\* Mutants of KeepsWrite: the children of two commands close nothing; a child
\* closes the write end before dup2.
KeepsWriteAlways(c) == TRUE
KeepsWriteNever(c) == FALSE

\* What child c keeps of the descriptors it inherits: with two commands it
\* closes the end it does not use, with more it closes nothing.
KeepsRead(c) == n = 2 => c = 2
KeepsWrite(c) == n = 2 => c = 1

\* fork, and what the child does before execvp.
Fork ==
  /\ pc = "fork" /\ ~(n > 2 /\ i > 1 /\ last = 0)
  /\ kids' = [kids EXCEPT ![i] = "run"]
  /\ outp' = [outp EXCEPT ![i] = IF i < n THEN i ELSE 0]
  /\ inp' = [inp EXCEPT ![i] = IF i = 1 THEN 0 ELSE IF n = 2 THEN 1 ELSE last]
  /\ readers' = [p \in Cmds |-> IF 0 \in readers[p] /\ KeepsRead(i)
                                THEN readers[p] \cup {i} ELSE readers[p]]
  /\ writers' = [p \in Cmds |-> IF 0 \in writers[p] /\ KeepsWrite(i)
                                THEN writers[p] \cup {i} ELSE writers[p]]
  /\ pc' = IF n = 1 THEN "wait" ELSE "close"
  /\ UNCHANGED <<line, i, ret, last, data, fails>>

\* lastReadEnd was never assigned: dup2 and close get whatever number is on
\* the stack, and the model stops.
ForkWild ==
  /\ pc = "fork" /\ n > 2 /\ i > 1 /\ last = 0
  /\ pc' = "wild"
  /\ UNCHANGED <<line, i, ret, last, kids, inp, outp, ends, data, fails>>

Without(f, ps, q) == [p \in Cmds |-> IF p \in ps THEN f[p] \ {q} ELSE f[p]]

\* After each fork: the previous read end and the current write end are
\* closed.  In the last round pipefd[1] has been closed before.
CloseMany ==
  /\ pc = "close" /\ n > 2
  /\ readers' = IF i > 1 THEN Without(readers, {last}, 0) ELSE readers
  /\ writers' = IF i < n THEN Without(writers, {i}, 0) ELSE writers
  /\ last' = IF i < n THEN i ELSE last
  /\ i' = i + 1
  /\ pc' = IF i = n THEN "wait" ELSE "pipe"
  /\ UNCHANGED <<line, ret, kids, inp, outp, data, fails>>

\* Mutant of CloseTwo: the read end stays open in the shell.
CloseTwoWrite ==
  /\ pc = "close" /\ n = 2
  /\ i' = i + 1
  /\ pc' = IF i = 1 THEN "fork" ELSE "wait"
  /\ writers' = IF i = 1 THEN writers ELSE Without(writers, {1}, 0)
  /\ UNCHANGED <<line, ret, last, kids, inp, outp, readers, data, fails>>

\* With two commands both ends are closed after both forks.
CloseTwo ==
  /\ pc = "close" /\ n = 2
  /\ i' = i + 1
  /\ IF i = 1 THEN pc' = "fork" /\ UNCHANGED ends
     ELSE /\ pc' = "wait"
          /\ readers' = Without(readers, {1}, 0)
          /\ writers' = Without(writers, {1}, 0)
  /\ UNCHANGED <<line, ret, last, kids, inp, outp, data, fails>>

\* while (wait(NULL) > 0)
Wait ==
  /\ pc = "wait" /\ \A c \in Cmds : kids[c] # "run"
  /\ pc' = "prompt"
  /\ n' = 0 /\ i' = 1 /\ ret' = "ok" /\ last' = 0 /\ early' = {}
  /\ kids' = [c \in Cmds |-> "none"]
  /\ inp' = [c \in Cmds |-> 0] /\ outp' = [c \in Cmds |-> 0]
  /\ sent' = [p \in Cmds |-> 0] /\ rcvd' = [p \in Cmds |-> 0]
  /\ UNCHANGED <<ends, fails>>

-----------------------------------------------------------------------------
(* The commands (external).                                                *)

Gone(c) ==
  /\ kids' = [kids EXCEPT ![c] = "ended"]
  /\ readers' = Without(readers, Cmds, c)
  /\ writers' = Without(writers, Cmds, c)

\* End of file: nothing left and nobody who could write.
AtEof(c) == sent[inp[c]] = rcvd[inp[c]] /\ writers[inp[c]] = {}

\* How much command c has to write so far.
Supply(c) == IF inp[c] = 0 THEN MaxOut ELSE rcvd[inp[c]]

WantsToWrite(c) == kids[c] = "run" /\ outp[c] # 0 /\ sent[outp[c]] < Supply(c)

Read(c) ==
  /\ kids[c] = "run" /\ inp[c] # 0
  /\ rcvd[inp[c]] < sent[inp[c]]
  /\ rcvd' = [rcvd EXCEPT ![inp[c]] = @ + 1]
  /\ UNCHANGED <<line, shell, kids, inp, outp, ends, sent, fails>>

Write(c) ==
  /\ WantsToWrite(c)
  /\ readers[outp[c]] # {}
  /\ sent[outp[c]] - rcvd[outp[c]] < Capacity
  /\ sent' = [sent EXCEPT ![outp[c]] = @ + 1]
  /\ UNCHANGED <<line, shell, kids, inp, outp, ends, rcvd, fails>>

\* SIGPIPE: a write with no reader ends the writer.
BrokenPipe(c) ==
  /\ WantsToWrite(c)
  /\ readers[outp[c]] = {}
  /\ Gone(c)
  /\ UNCHANGED <<line, shell, inp, outp, data, fails>>

Finish(c) ==
  /\ kids[c] = "run"
  /\ ~WantsToWrite(c) /\ (inp[c] # 0 => AtEof(c))
  /\ Gone(c)
  /\ UNCHANGED <<line, shell, inp, outp, data, fails>>

StopEarly(c) ==
  /\ kids[c] = "run" /\ c \in early
  /\ Gone(c)
  /\ UNCHANGED <<line, shell, inp, outp, data, fails>>

Command(c) ==
  Read(c) \/ Write(c) \/ BrokenPipe(c) \/ Finish(c) \/ StopEarly(c)

-----------------------------------------------------------------------------
Run == Pipe \/ LastRound \/ Fork \/ ForkWild \/ CloseMany \/ CloseTwo \/ Wait

Stopped == pc \in {"gone", "wild"} /\ UNCHANGED vars

Next ==
  \/ ReadLine \/ Exit \/ Run \/ Stopped
  \/ \E c \in Cmds : Command(c)

\* The scheduler runs the shell and every command that can go on; whether the
\* user types another line is up to the user.
Spec ==
  /\ Init /\ [][Next]_vars
  /\ WF_vars(Run)
  /\ \A c \in Cmds : WF_vars(Command(c))

-----------------------------------------------------------------------------
(* Properties.                                                             *)

\* At the prompt the shell has no end of a pipe open: the closes of the two
\* branches of main account for every pipe() before them.  When pipe() fails a
\* round is skipped; then read ends stay behind, and write ends still do not.
FdsBalanced ==
  pc = "prompt" => \A p \in Cmds :
    0 \notin writers[p] /\ (fails = 0 => 0 \notin readers[p])

\* What the comment above the closes says: the shell closes the read end that
\* the command has used up, and keeps none.  A pipe() that fails in one round
\* leaves the read end of the round before open for ever.
ReadEndsClosed == pc = "prompt" => \A p \in Cmds : 0 \notin readers[p]

\* End of file comes only after the command in front has ended, so no output
\* is lost by a descriptor closed too early.
EofAfterWriter ==
  \A c \in Cmds :
    kids[c] = "run" /\ inp[c] # 0 /\ AtEof(c) => kids[inp[c]] = "ended"

\* Waiting for the children ends: a pipeline whose last pipe() succeeded gives
\* the prompt back.  (After a failure the shell itself is the last reader of
\* the pipe before, and its writer may block.)
PromptReturns == pc = "wait" /\ ret = "ok" ~> pc = "prompt"
=============================================================================
