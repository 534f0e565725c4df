-------------------------- MODULE ShellPipes_proofs --------------------------
(***************************************************************************)
(* Proofs about ShellPipes, for lines of any number of commands, pipes of  *)
(* any capacity and any number of failures of pipe(): the types, that the  *)
(* shell is left with no end of a pipe, and that no command sees the end   *)
(* of its input before the command in front of it has ended.               *)
(***************************************************************************)
EXTENDS ShellPipes, TLAPS

\* Nothing has been done for the current line.
Quiet ==
  /\ ret = "ok" /\ last = 0 /\ kids = [c \in Cmds |-> "none"]
  /\ inp = [c \in Cmds |-> 0] /\ outp = [c \in Cmds |-> 0]
  /\ sent = [p \in Cmds |-> 0] /\ rcvd = [p \in Cmds |-> 0]

\* Where the shell is in its loop over the commands.
LoopInv ==
  /\ pc = "prompt" => Fresh
  /\ pc \in {"pipe", "fork", "close", "wild"} => n \in Counts /\ i <= n
  /\ pc = "pipe" => n > 1 /\ (n = 2 => i = 1) /\ (i = 1 => Quiet)
  /\ pc = "close" => n > 1
  /\ pc = "fork" /\ n = 1 => i = 1
  /\ fails = 0 => ret = "ok" /\ pc # "wild"

\* Which commands the shell has started, and which of them are behind the
\* read end it remembers.
KidsInv ==
  /\ \A c \in Cmds : kids[c] # "none" => c < i \/ (c = i /\ pc \in {"close", "wait"})
  /\ last # 0 => n > 2 /\ last < n /\ last < i /\ kids[last] # "none"
  /\ n = 2 /\ i = 2 => kids[1] # "none"
  /\ pc = "close" => kids[i] # "none"

\* The standard input of a command is the pipe of a command that was started,
\* and a command that runs has the write end of its own pipe.
PipeInv ==
  \A c \in Cmds :
    /\ outp[c] \in {0, c}
    /\ inp[c] # 0 => inp[c] < n /\ kids[inp[c]] # "none"
    /\ kids[c] = "run" /\ c < n => c \in writers[c]

\* The write end the shell has is the one of the pipe it made last.
WriteEnds ==
  /\ \A p \in Cmds : 0 \in writers[p] =>
       pc \in {"fork", "close", "wild"} /\ (IF n = 2 THEN p = 1 ELSE p = i /\ i < n)
  /\ pc \in {"fork", "close"} /\ i < n => 0 \in writers[i]

\* Without a failure of pipe(), the read ends it has are that one's and the
\* one it remembers.
ReadEnds ==
  fails = 0 =>
    /\ n > 2 /\ pc \in {"pipe", "fork", "close"} => last = i - 1
    /\ \A p \in Cmds : 0 \in readers[p] =>
         IF n = 2 THEN p = 1 /\ pc \in {"fork", "close"}
         ELSE \/ p = i /\ i < n /\ pc \in {"fork", "close"}
              \/ p = i - 1 /\ pc \in {"pipe", "fork", "close"}

ShellInv == TypeOK /\ LoopInv /\ KidsInv /\ PipeInv /\ WriteEnds /\ ReadEnds

-----------------------------------------------------------------------------
USE ShellAssumption DEF line, shell, ends, data

\* The longest line bounds all.
LEMMA Sizes ==
  /\ MaxCount \in Nat \ {0} /\ \A m \in Counts : m \in Nat \ {0} /\ m <= MaxCount
  /\ Cmds \subseteq Nat /\ Procs \subseteq Nat /\ 0 \in Procs
  /\ \A k : k \in Cmds <=> k \in Nat /\ 1 <= k /\ k <= MaxCount
  /\ \A k : k \in Procs <=> k = 0 \/ k \in Cmds
<1>1. MaxCount \in Counts /\ \A m \in Counts : m <= MaxCount
  BY DEF MaxCount
<1> QED
  BY <1>1 DEF Cmds, Procs

\* The values the proofs of the steps use.
LEMMA Ranges ==
  ASSUME ShellInv
  PROVE  /\ n \in Nat /\ n <= MaxCount /\ i \in Nat /\ 1 <= i /\ i <= MaxCount + 1
         /\ last \in Nat /\ last <= MaxCount /\ fails \in Nat /\ fails <= MaxFails
         /\ (pc \in {"pipe", "fork", "close", "wild"} => i \in Cmds /\ i <= n /\ n \in Counts)
<1>1. TypeOK /\ LoopInv
  BY DEF ShellInv
<1>2. n \in Nat /\ n <= MaxCount
  BY <1>1, Sizes DEF TypeOK
<1>3. i \in Nat /\ 1 <= i /\ i <= MaxCount + 1
  BY <1>1, Sizes DEF TypeOK
<1>4. last \in Nat /\ last <= MaxCount
  BY <1>1, Sizes DEF TypeOK, Procs
<1>5. fails \in Nat /\ fails <= MaxFails
  BY <1>1 DEF TypeOK
<1>6. ASSUME pc \in {"pipe", "fork", "close", "wild"} PROVE i \in Cmds /\ i <= n /\ n \in Counts
  BY <1>1, <1>2, <1>3, <1>6, Sizes DEF LoopInv
<1> QED
  BY <1>2, <1>3, <1>4, <1>5, <1>6

\* The shell starts at the prompt with nothing open.
LEMMA ShellInit == ASSUME Init PROVE ShellInv
<1>1. TypeOK
  BY Sizes DEF Init, Fresh, TypeOK
<1>2. LoopInv
  BY DEF Init, Fresh, LoopInv
<1>3. KidsInv /\ PipeInv
  BY DEF Init, Fresh, KidsInv, PipeInv
<1>4. WriteEnds /\ ReadEnds
  BY DEF Init, Fresh, WriteEnds, ReadEnds
<1> QED
  BY <1>1, <1>2, <1>3, <1>4 DEF ShellInv

\* A line is read, or the shell ends.
LEMMA PromptStep == ASSUME ShellInv, ReadLine \/ Exit PROVE ShellInv'
<1>1. TypeOK /\ LoopInv /\ Fresh /\ pc = "prompt" /\ i = 1
  BY DEF ShellInv, LoopInv, ReadLine, Exit, Fresh
<1>2. /\ UNCHANGED <<i, ret, last, kids, inp, outp, readers, writers, sent, rcvd, fails>>
      /\ (pc' \in {"pipe", "fork"} /\ n' \in Counts /\ (pc' = "fork" <=> n' = 1)) \/ (pc' = "gone" /\ n' = n)
  BY DEF ReadLine, Exit
<1>3. early' \subseteq Cmds
  <2>1. CASE Exit
    BY <1>1, <2>1 DEF Exit, TypeOK
  <2>2. CASE ReadLine
    <3>1. n' \in Counts /\ 1 .. n' \subseteq Cmds
      BY <2>2, Sizes DEF ReadLine, Cmds
    <3>2. early' \subseteq 1 .. n'
      BY <2>2 DEF ReadLine
    <3> QED
      BY <3>1, <3>2
  <2> QED
    BY <2>1, <2>2
<1>4. TypeOK'
  BY <1>1, <1>2, <1>3 DEF TypeOK
<1>5. n' \in Nat /\ (n' \in Counts => n' >= 1)
  <2>1. n = 0
    BY <1>1 DEF Fresh
  <2>2. n' \in Counts => n' \in Nat \ {0}
    BY Sizes
  <2> QED
    BY <1>2, <2>1, <2>2
<1>6. \A c \in Cmds : kids'[c] = "none" /\ inp'[c] = 0 /\ outp'[c] = 0
  BY <1>1, <1>2 DEF Fresh
<1>7. LoopInv'
  <2>1. Quiet /\ UNCHANGED Quiet
    BY <1>1, <1>2 DEF Fresh, Quiet
  <2> QED
    BY <1>1, <1>2, <1>5, <2>1 DEF LoopInv
<1>8. KidsInv'
  BY <1>1, <1>2, <1>6 DEF KidsInv, Fresh
<1>9. PipeInv'
  BY <1>6 DEF PipeInv
<1>10. \A p \in Cmds : 0 \notin writers'[p] /\ (fails' = 0 => 0 \notin readers'[p])
  BY <1>1, <1>2, Sizes DEF ShellInv, WriteEnds, ReadEnds, Fresh
<1>11. pc' = "fork" => ~(i' < n')
  BY <1>1, <1>2
<1>12. WriteEnds'
  BY <1>2, <1>10, <1>11 DEF WriteEnds
<1>13. ReadEnds'
  BY <1>1, <1>2, <1>10 DEF ReadEnds, Fresh
<1> QED
  BY <1>4, <1>7, <1>8, <1>9, <1>12, <1>13 DEF ShellInv

\* pipe() gives the shell both ends of pipe i, or fails.
LEMMA PipeStep == ASSUME ShellInv, Pipe PROVE ShellInv'
<1>1. TypeOK /\ LoopInv /\ KidsInv /\ PipeInv /\ WriteEnds /\ ReadEnds
  BY DEF ShellInv
<1>2. pc = "pipe" /\ i < n /\ i \in Cmds /\ n \in Counts /\ n > 1 /\ (n = 2 => i = 1)
  BY <1>1, Ranges DEF Pipe, LoopInv
<1>3. i \in Nat /\ 1 <= i /\ n \in Nat /\ n <= MaxCount /\ fails \in Nat /\ last \in Nat
  BY Ranges
<1>4. \A c \in Cmds : kids[c] # "none" => c < i
  BY <1>1, <1>2 DEF KidsInv
<1>5. kids[i] = "none" /\ \A p \in Cmds : 0 \notin writers[p]
  BY <1>1, <1>2, <1>3, <1>4, Sizes DEF WriteEnds
<1>6. CASE ret' = "ok" /\ pc' = "fork" /\ readers' = [readers EXCEPT ![i] = {0}]
           /\ writers' = [writers EXCEPT ![i] = {0}]
           /\ UNCHANGED <<n, early, i, last, kids, inp, outp, data, fails>>
  <2>1. TypeOK'
    BY <1>1, <1>6, Sizes DEF TypeOK
  <2>2. /\ \A p \in Cmds : p # i => writers'[p] = writers[p] /\ readers'[p] = readers[p]
        /\ writers'[i] = {0}
    BY <1>1, <1>2, <1>6 DEF TypeOK
  <2>3. LoopInv'
    BY <1>1, <1>2, <1>6 DEF LoopInv
  <2>4. KidsInv'
    BY <1>1, <1>2, <1>4, <1>6 DEF KidsInv
  <2>5. PipeInv'
    BY <1>1, <1>5, <1>6, <2>2 DEF PipeInv
  <2>6. WriteEnds'
    BY <1>2, <1>5, <1>6, <2>2 DEF WriteEnds
  <2>7. ReadEnds'
    BY <1>1, <1>2, <1>6, <2>2 DEF ReadEnds
  <2> QED
    BY <2>1, <2>3, <2>4, <2>5, <2>6, <2>7 DEF ShellInv
<1>7. CASE fails' = fails + 1 /\ fails < MaxFails /\ UNCHANGED <<last, kids, inp, outp, ends, data>>
           /\ n = 2 /\ pc' = "prompt" /\ n' = 0 /\ early' = {} /\ UNCHANGED <<i, ret>>
  <2>1. TypeOK'
    BY <1>1, <1>3, <1>7 DEF TypeOK
  <2>2. Quiet /\ i = 1
    BY <1>1, <1>2, <1>7 DEF LoopInv
  <2>3. Fresh' /\ fails' # 0
    BY <1>3, <1>7, <2>2 DEF Fresh, Quiet
  <2>4. LoopInv'
    BY <1>7, <2>3 DEF LoopInv
  <2>5. KidsInv' /\ PipeInv'
    BY <1>7, <2>3 DEF Fresh, KidsInv, PipeInv
  <2>6. WriteEnds' /\ ReadEnds'
    BY <1>5, <1>7, <2>3 DEF WriteEnds, ReadEnds
  <2> QED
    BY <2>1, <2>4, <2>5, <2>6 DEF ShellInv
<1>8. CASE fails' = fails + 1 /\ fails < MaxFails /\ UNCHANGED <<last, kids, inp, outp, ends, data>>
           /\ n # 2 /\ i' = i + 1 /\ ret' = "error" /\ UNCHANGED <<pc, n, early>>
  <2>1. TypeOK'
    BY <1>1, <1>2, <1>3, <1>8, Sizes DEF TypeOK
  <2>2. fails' # 0
    BY <1>3, <1>8
  <2>3. LoopInv'
    BY <1>1, <1>2, <1>3, <1>8, <2>2 DEF LoopInv
  <2>4. KidsInv'
    BY <1>1, <1>2, <1>3, <1>4, <1>8, Sizes DEF KidsInv
  <2>5. PipeInv'
    BY <1>1, <1>8 DEF PipeInv
  <2>6. WriteEnds'
    BY <1>2, <1>5, <1>8 DEF WriteEnds
  <2>7. ReadEnds'
    BY <2>2 DEF ReadEnds
  <2> QED
    BY <2>1, <2>3, <2>4, <2>5, <2>6, <2>7 DEF ShellInv
<1> QED
  BY <1>6, <1>7, <1>8 DEF Pipe

\* The last round makes no pipe; without a failure it starts a command.
LEMMA LastRoundStep == ASSUME ShellInv, LastRound PROVE ShellInv'
<1>1. TypeOK /\ LoopInv /\ KidsInv /\ PipeInv /\ WriteEnds /\ ReadEnds
  BY DEF ShellInv
<1>2. pc = "pipe" /\ i = n /\ i \in Cmds /\ n \in Counts /\ n > 1 /\ n # 2
  BY <1>1, Ranges DEF LastRound, LoopInv
<1>3. i \in Nat /\ n \in Nat /\ n <= MaxCount /\ last \in Nat
  BY Ranges
<1>4. /\ UNCHANGED <<n, early, ret, last, kids, inp, outp, readers, writers, sent, rcvd, fails>>
      /\ (ret = "error" /\ pc' = "wait" /\ i' = i + 1) \/ (pc' = "fork" /\ i' = i)
  BY DEF LastRound
<1>5. TypeOK'
  BY <1>1, <1>2, <1>3, <1>4, Sizes DEF TypeOK
<1>6. LoopInv'
  BY <1>1, <1>2, <1>3, <1>4 DEF LoopInv
<1>7. KidsInv'
  BY <1>1, <1>2, <1>3, <1>4, Sizes DEF KidsInv
<1>8. PipeInv'
  BY <1>1, <1>4 DEF PipeInv
<1>9. WriteEnds'
  BY <1>1, <1>2, <1>3, <1>4 DEF WriteEnds
<1>10. ReadEnds'
  <2>1. fails = 0 => ret = "ok"
    BY <1>1 DEF LoopInv
  <2> QED
    BY <1>1, <1>2, <1>3, <1>4, <2>1 DEF ReadEnds
<1> QED
  BY <1>5, <1>6, <1>7, <1>8, <1>9, <1>10 DEF ShellInv

\* fork: command i gets what the shell has open, but for what it closes.
LEMMA ForkStep == ASSUME ShellInv, Fork PROVE ShellInv'
<1>1. TypeOK /\ LoopInv /\ KidsInv /\ PipeInv /\ WriteEnds /\ ReadEnds
  BY DEF ShellInv
<1>2. pc = "fork" /\ i \in Cmds /\ i <= n /\ n \in Counts /\ ~(n > 2 /\ i > 1 /\ last = 0)
  BY Ranges DEF Fork
<1>3. i \in Nat /\ 1 <= i /\ n \in Nat /\ n <= MaxCount /\ last \in Nat /\ last <= MaxCount /\ i # 0
  BY Ranges
<1>4. /\ kids' = [kids EXCEPT ![i] = "run"]
      /\ outp' = [outp EXCEPT ![i] = IF i < n THEN i ELSE 0]
      /\ inp' = [inp EXCEPT ![i] = IF i = 1 THEN 0 ELSE IF n = 2 THEN 1 ELSE last]
      /\ pc' = (IF n = 1 THEN "wait" ELSE "close")
      /\ UNCHANGED <<n, early, i, ret, last, sent, rcvd, fails>>
  BY DEF Fork
<1>5. \A p \in Cmds : /\ readers'[p] = readers[p] \/ readers'[p] = readers[p] \cup {i}
                      /\ writers'[p] = writers[p] \/ writers'[p] = writers[p] \cup {i}
                      /\ 0 \in writers[p] /\ KeepsWrite(i) => i \in writers'[p]
  BY DEF Fork
<1>6. \A p \in Cmds : /\ 0 \in readers'[p] <=> 0 \in readers[p]
                      /\ 0 \in writers'[p] <=> 0 \in writers[p]
                      /\ writers[p] \subseteq writers'[p]
  BY <1>3, <1>5
<1>7. /\ \A c \in Cmds : c # i => kids'[c] = kids[c] /\ inp'[c] = inp[c] /\ outp'[c] = outp[c]
      /\ kids'[i] = "run" /\ outp'[i] = (IF i < n THEN i ELSE 0)
      /\ inp'[i] = IF i = 1 THEN 0 ELSE IF n = 2 THEN 1 ELSE last
  BY <1>1, <1>2, <1>4 DEF TypeOK
<1>8. TypeOK'
  <2>1. readers' \in [Cmds -> SUBSET Procs] /\ writers' \in [Cmds -> SUBSET Procs]
    <3>1. i \in Procs
      BY <1>2, Sizes
    <3> QED
      BY <1>1, <3>1 DEF Fork, TypeOK
  <2>2. 0 \in Procs /\ i \in Procs /\ 1 \in Procs /\ last \in Procs
    BY <1>1, <1>2, Sizes DEF TypeOK
  <2>3. inp' \in [Cmds -> Procs] /\ outp' \in [Cmds -> Procs] /\ kids' \in [Cmds -> {"none", "run", "ended"}]
    BY <1>1, <1>4, <2>2 DEF TypeOK
  <2> QED
    BY <1>1, <1>4, <2>1, <2>3 DEF TypeOK
<1>9. LoopInv'
  BY <1>1, <1>2, <1>3, <1>4, Sizes DEF LoopInv
<1>10. KidsInv'
  BY <1>1, <1>2, <1>3, <1>4, <1>7, Sizes DEF KidsInv
<1>11. PipeInv'
  <2>1. ASSUME NEW c \in Cmds PROVE outp'[c] \in {0, c}
    BY <1>1, <1>7 DEF PipeInv
  <2>2. ASSUME NEW c \in Cmds, c # i, inp'[c] # 0 PROVE inp'[c] < n /\ kids'[inp'[c]] # "none"
    <3>1. inp'[c] = inp[c] /\ inp[c] \in Cmds
      BY <1>1, <1>7, <2>2, Sizes DEF TypeOK
    <3>2. inp[c] < n /\ kids[inp[c]] # "none"
      BY <1>1, <2>2, <3>1 DEF PipeInv
    <3> QED
      BY <1>7, <3>1, <3>2
  <2>3. ASSUME inp'[i] # 0 PROVE inp'[i] < n /\ kids'[inp'[i]] # "none"
    <3>1. CASE n = 2
      <4>1. i = 2 /\ inp'[i] = 1 /\ kids[1] # "none" /\ 1 \in Cmds
        BY <1>1, <1>2, <1>3, <1>7, <2>3, <3>1, Sizes DEF KidsInv
      <4> QED
        BY <1>7, <3>1, <4>1
    <3>2. CASE n # 2
      <4>1. inp'[i] = last /\ last # 0 /\ last < n /\ kids[last] # "none" /\ last \in Cmds
        BY <1>1, <1>7, <2>3, <3>2, Sizes DEF KidsInv, TypeOK
      <4> QED
        BY <1>7, <4>1
    <3> QED
      BY <3>1, <3>2
  <2>4. ASSUME NEW c \in Cmds, kids'[c] = "run", c < n PROVE c \in writers'[c]
    <3>1. CASE c = i
      <4>1. 0 \in writers[i]
        BY <1>1, <1>2, <2>4, <3>1 DEF WriteEnds
      <4>2. KeepsWrite(i)
        BY <1>3, <2>4, <3>1 DEF KeepsWrite
      <4> QED
        BY <1>2, <1>5, <3>1, <4>1, <4>2
    <3>2. CASE c # i
      BY <1>1, <1>6, <1>7, <2>4, <3>2 DEF PipeInv
    <3> QED
      BY <3>1, <3>2
  <2> QED
    BY <1>4, <2>1, <2>2, <2>3, <2>4 DEF PipeInv
<1>12. WriteEnds'
  <2>1. ASSUME NEW p \in Cmds, 0 \in writers'[p]
        PROVE  pc' = "close" /\ (IF n = 2 THEN p = 1 ELSE p = i /\ i < n)
    <3>1. IF n = 2 THEN p = 1 ELSE p = i /\ i < n
      BY <1>1, <1>6, <2>1 DEF WriteEnds
    <3>2. n # 1
      BY <1>3, <3>1
    <3> QED
      BY <1>4, <3>1, <3>2
  <2>2. i < n => 0 \in writers'[i]
    BY <1>1, <1>2, <1>6 DEF WriteEnds
  <2> QED
    BY <1>4, <2>1, <2>2 DEF WriteEnds
<1>13. ReadEnds'
  BY <1>1, <1>2, <1>3, <1>4, <1>6, Sizes DEF ReadEnds
<1> QED
  BY <1>8, <1>9, <1>10, <1>11, <1>12, <1>13 DEF ShellInv

\* lastReadEnd is used before it is set only after pipe() has failed.
LEMMA ForkWildStep == ASSUME ShellInv, ForkWild PROVE ShellInv'
<1>1. TypeOK /\ LoopInv /\ KidsInv /\ PipeInv /\ WriteEnds /\ ReadEnds
  BY DEF ShellInv
<1>2. /\ pc = "fork" /\ n > 2 /\ i > 1 /\ last = 0 /\ pc' = "wild"
      /\ UNCHANGED <<n, early, i, ret, last, kids, inp, outp, readers, writers, sent, rcvd, fails>>
  BY DEF ForkWild
<1>3. i \in Nat /\ fails # 0
  BY <1>1, <1>2, Ranges DEF ReadEnds
<1>4. TypeOK'
  BY <1>1, <1>2 DEF TypeOK
<1>5. LoopInv'
  BY <1>1, <1>2, <1>3 DEF LoopInv
<1>6. KidsInv' /\ PipeInv'
  BY <1>1, <1>2 DEF KidsInv, PipeInv
<1>7. WriteEnds' /\ ReadEnds'
  BY <1>1, <1>2, <1>3 DEF WriteEnds, ReadEnds
<1> QED
  BY <1>4, <1>5, <1>6, <1>7 DEF ShellInv

\* The closes after a fork of a line of three or more commands.
LEMMA CloseManyStep == ASSUME ShellInv, CloseMany PROVE ShellInv'
<1>1. TypeOK /\ LoopInv /\ KidsInv /\ PipeInv /\ WriteEnds /\ ReadEnds
  BY DEF ShellInv
<1>2. pc = "close" /\ n > 2 /\ i \in Cmds /\ i <= n /\ n \in Counts
  BY Ranges DEF CloseMany
<1>3. i \in Nat /\ 1 <= i /\ n \in Nat /\ n <= MaxCount /\ last \in Nat
  BY Ranges
<1>4. /\ last' = (IF i < n THEN i ELSE last) /\ i' = i + 1
      /\ pc' = (IF i = n THEN "wait" ELSE "pipe")
      /\ UNCHANGED <<n, early, ret, kids, inp, outp, sent, rcvd, fails>>
  BY DEF CloseMany
<1>5. \A p \in Cmds : /\ readers'[p] = IF i > 1 /\ p = last THEN readers[p] \ {0} ELSE readers[p]
                      /\ writers'[p] = IF i < n /\ p = i THEN writers[p] \ {0} ELSE writers[p]
  BY DEF CloseMany, Without
<1>6. TypeOK'
  <2>1. readers' \in [Cmds -> SUBSET Procs] /\ writers' \in [Cmds -> SUBSET Procs]
    BY <1>1 DEF CloseMany, Without, TypeOK
  <2>2. last' \in Procs /\ i' \in 1 .. MaxCount + 1
    BY <1>1, <1>2, <1>3, <1>4, Sizes DEF TypeOK
  <2> QED
    BY <1>1, <1>4, <2>1, <2>2 DEF TypeOK
<1>7. LoopInv'
  BY <1>1, <1>2, <1>3, <1>4 DEF LoopInv
<1>8. KidsInv'
  BY <1>1, <1>2, <1>3, <1>4, Sizes DEF KidsInv
<1>9. PipeInv'
  <2>1. ASSUME NEW p \in Cmds, p \in writers[p] PROVE p \in writers'[p]
    <3>1. p # 0
      BY Sizes
    <3> QED
      BY <1>5, <2>1, <3>1
  <2> QED
    BY <1>1, <1>4, <2>1 DEF PipeInv
<1>10. WriteEnds'
  <2>1. \A p \in Cmds : 0 \notin writers'[p]
    <3>1. n # 2
      BY <1>2, <1>3
    <3>2. \A p \in Cmds : 0 \in writers[p] => p = i /\ i < n
      BY <1>1, <3>1 DEF WriteEnds
    <3> QED
      BY <1>5, <3>2
  <2> QED
    BY <1>4, <2>1 DEF WriteEnds
<1>11. ReadEnds'
  <2>1. SUFFICES ASSUME fails = 0
                 PROVE  /\ pc' = "pipe" => last' = i' - 1
                        /\ \A p \in Cmds : 0 \in readers'[p] => p = i' - 1 /\ pc' = "pipe"
    BY <1>2, <1>4 DEF ReadEnds
  <2>2. last = i - 1
    BY <1>1, <1>2, <2>1 DEF ReadEnds
  <2>3. ASSUME NEW p \in Cmds, 0 \in readers'[p] PROVE p = i /\ i < n
    <3>1. p \in Nat /\ 1 <= p /\ 0 \in readers[p] /\ ~(i > 1 /\ p = last)
      BY <1>5, <2>3, Sizes
    <3>2. (p = i /\ i < n) \/ p = i - 1
      BY <1>1, <1>2, <2>1, <3>1 DEF ReadEnds
    <3> QED
      BY <1>3, <2>2, <3>1, <3>2
  <2>4. (i < n => pc' = "pipe" /\ last' = i) /\ i' - 1 = i /\ (pc' = "pipe" => i < n)
    BY <1>2, <1>3, <1>4
  <2> QED
    BY <2>3, <2>4
<1> QED
  BY <1>6, <1>7, <1>8, <1>9, <1>10, <1>11 DEF ShellInv

\* The closes after the forks of a line of two commands.
LEMMA CloseTwoStep == ASSUME ShellInv, CloseTwo PROVE ShellInv'
<1>1. TypeOK /\ LoopInv /\ KidsInv /\ PipeInv /\ WriteEnds /\ ReadEnds
  BY DEF ShellInv
<1>2. pc = "close" /\ n = 2 /\ i \in Cmds /\ n \in Counts /\ (i = 1 \/ i = 2)
  BY Ranges DEF CloseTwo
<1>3. n <= MaxCount
  BY Ranges
<1>4. i' = i + 1 /\ UNCHANGED <<n, early, ret, last, kids, inp, outp, sent, rcvd, fails>>
  BY DEF CloseTwo
<1>5. CASE i = 1
  <2>1. pc' = "fork" /\ UNCHANGED <<readers, writers>>
    BY <1>5 DEF CloseTwo
  <2>2. TypeOK'
    BY <1>1, <1>2, <1>3, <1>4, <1>5, <2>1, Sizes DEF TypeOK
  <2>3. LoopInv'
    BY <1>1, <1>2, <1>4, <1>5, <2>1 DEF LoopInv
  <2>4. KidsInv' /\ PipeInv'
    BY <1>1, <1>2, <1>4, <1>5, <2>1, Sizes DEF KidsInv, PipeInv
  <2>5. WriteEnds' /\ ReadEnds'
    BY <1>1, <1>2, <1>4, <1>5, <2>1 DEF WriteEnds, ReadEnds
  <2> QED
    BY <2>2, <2>3, <2>4, <2>5 DEF ShellInv
<1>6. CASE i = 2
  <2>1. pc' = "wait"
    BY <1>6 DEF CloseTwo
  <2>2. \A p \in Cmds : /\ readers'[p] = IF p = 1 THEN readers[p] \ {0} ELSE readers[p]
                        /\ writers'[p] = IF p = 1 THEN writers[p] \ {0} ELSE writers[p]
    BY <1>6 DEF CloseTwo, Without
  <2>3. TypeOK'
    <3>1. readers' \in [Cmds -> SUBSET Procs] /\ writers' \in [Cmds -> SUBSET Procs]
      BY <1>1, <1>6 DEF CloseTwo, Without, TypeOK
    <3> QED
      BY <1>1, <1>2, <1>3, <1>4, <1>6, <2>1, <3>1, Sizes DEF TypeOK
  <2>4. LoopInv'
    BY <1>1, <1>2, <1>4, <2>1 DEF LoopInv
  <2>5. KidsInv'
    BY <1>1, <1>2, <1>4, <1>6, <2>1, Sizes DEF KidsInv
  <2>6. PipeInv'
    <3>1. ASSUME NEW p \in Cmds, p \in writers[p] PROVE p \in writers'[p]
      <4>1. p # 0
        BY Sizes
      <4> QED
        BY <2>2, <3>1, <4>1
    <3> QED
      BY <1>1, <1>4, <3>1 DEF PipeInv
  <2>7. \A p \in Cmds : 0 \notin writers'[p] /\ (fails = 0 => 0 \notin readers'[p])
    BY <1>1, <1>2, <2>2 DEF WriteEnds, ReadEnds
  <2>8. WriteEnds' /\ ReadEnds'
    BY <1>2, <1>4, <2>1, <2>7 DEF WriteEnds, ReadEnds
  <2> QED
    BY <2>3, <2>4, <2>5, <2>6, <2>8 DEF ShellInv
<1> QED
  BY <1>2, <1>5, <1>6

\* All commands have ended and the shell returns to its prompt.
LEMMA WaitStep == ASSUME ShellInv, Wait PROVE ShellInv'
<1>1. TypeOK /\ LoopInv /\ WriteEnds /\ ReadEnds /\ pc = "wait"
  BY DEF ShellInv, Wait
<1>2. Fresh' /\ pc' = "prompt" /\ UNCHANGED <<readers, writers, fails>>
  BY DEF Wait, Fresh
<1>3. TypeOK'
  BY <1>1, <1>2, Sizes DEF Fresh, TypeOK
<1>4. LoopInv'
  BY <1>2 DEF LoopInv, Fresh
<1>5. KidsInv' /\ PipeInv'
  BY <1>2 DEF Fresh, KidsInv, PipeInv
<1>6. \A p \in Cmds : 0 \notin writers[p] /\ (fails = 0 => 0 \notin readers[p])
  BY <1>1 DEF WriteEnds, ReadEnds
<1>7. WriteEnds' /\ ReadEnds'
  BY <1>2, <1>6 DEF WriteEnds, ReadEnds
<1> QED
  BY <1>3, <1>4, <1>5, <1>7 DEF ShellInv

-----------------------------------------------------------------------------
(* The commands.                                                           *)

\* Items that are passed on leave the descriptors alone.
LEMMA DataStep == ASSUME ShellInv, NEW c \in Cmds, Read(c) \/ Write(c) PROVE ShellInv'
<1>1. TypeOK /\ LoopInv /\ KidsInv /\ PipeInv /\ WriteEnds /\ ReadEnds
  BY DEF ShellInv
<1>2. /\ UNCHANGED <<n, early, pc, i, ret, last, kids, inp, outp, readers, writers, fails>>
      /\ kids[c] = "run"
  BY DEF Read, Write, WantsToWrite
<1>3. /\ sent' \in [Cmds -> 0 .. MaxOut] /\ rcvd' \in [Cmds -> 0 .. MaxOut]
      /\ \A p \in Cmds : sent'[p] - rcvd'[p] \in 0 .. Capacity
  <2>1. CASE Read(c)
    <3> DEFINE q == inp[c]
    <3>1. q \in Cmds /\ rcvd[q] < sent[q] /\ UNCHANGED sent /\ rcvd' = [rcvd EXCEPT ![q] = rcvd[q] + 1]
      BY <1>1, <2>1, Sizes DEF Read, TypeOK
    <3> HIDE DEF q
    <3>2. rcvd[q] \in 0 .. MaxOut /\ sent[q] \in 0 .. MaxOut /\ sent[q] - rcvd[q] \in 0 .. Capacity
      BY <1>1, <3>1 DEF TypeOK
    <3>3. rcvd[q] + 1 \in 0 .. MaxOut /\ sent[q] - (rcvd[q] + 1) \in 0 .. Capacity
      BY <3>1, <3>2
    <3> QED
      BY <1>1, <3>1, <3>3 DEF TypeOK
  <2>2. CASE Write(c)
    <3> DEFINE q == outp[c]
    <3>1. /\ q \in Cmds /\ sent[q] < Supply(c) /\ sent[q] - rcvd[q] < Capacity
          /\ UNCHANGED rcvd /\ sent' = [sent EXCEPT ![q] = sent[q] + 1]
      BY <1>1, <2>2, Sizes DEF Write, WantsToWrite, TypeOK
    <3> HIDE DEF q
    <3>2. rcvd[q] \in 0 .. MaxOut /\ sent[q] \in 0 .. MaxOut /\ sent[q] - rcvd[q] \in 0 .. Capacity
      BY <1>1, <3>1 DEF TypeOK
    <3>3. Supply(c) \in 0 .. MaxOut
      BY <1>1, Sizes DEF Supply, TypeOK
    <3>4. sent[q] + 1 \in 0 .. MaxOut /\ (sent[q] + 1) - rcvd[q] \in 0 .. Capacity
      BY <3>1, <3>2, <3>3
    <3> QED
      BY <1>1, <3>1, <3>4 DEF TypeOK
  <2> QED
    BY <2>1, <2>2
<1>4. TypeOK'
  BY <1>1, <1>2, <1>3 DEF TypeOK
<1>5. LoopInv'
  <2>1. ~Fresh /\ ~Quiet
    BY <1>2 DEF Fresh, Quiet
  <2> QED
    BY <1>1, <1>2, <2>1 DEF LoopInv
<1>6. KidsInv' /\ PipeInv' /\ WriteEnds' /\ ReadEnds'
  BY <1>1, <1>2 DEF KidsInv, PipeInv, WriteEnds, ReadEnds
<1> QED
  BY <1>4, <1>5, <1>6 DEF ShellInv

\* A command that ends gives up its own descriptors.
LEMMA EndStep ==
  ASSUME ShellInv, NEW c \in Cmds, BrokenPipe(c) \/ Finish(c) \/ StopEarly(c)
  PROVE  ShellInv'
<1>1. TypeOK /\ LoopInv /\ KidsInv /\ PipeInv /\ WriteEnds /\ ReadEnds
  BY DEF ShellInv
<1>2. /\ UNCHANGED <<n, early, pc, i, ret, last, inp, outp, sent, rcvd, fails>>
      /\ kids[c] = "run" /\ Gone(c)
  BY DEF BrokenPipe, Finish, StopEarly, WantsToWrite
<1>3. /\ kids' \in [Cmds -> {"none", "run", "ended"}] /\ kids'[c] = "ended"
      /\ \A d \in Cmds : d # c => kids'[d] = kids[d]
  BY <1>1, <1>2 DEF Gone, TypeOK
<1>4. \A p \in Cmds : readers'[p] = readers[p] \ {c} /\ writers'[p] = writers[p] \ {c}
  BY <1>2 DEF Gone, Without
<1>5. c # 0 /\ \A d \in Cmds : kids'[d] # "none" <=> kids[d] # "none"
  BY <1>2, <1>3, Sizes
<1>6. TypeOK'
  <2>1. readers' \in [Cmds -> SUBSET Procs] /\ writers' \in [Cmds -> SUBSET Procs]
    BY <1>1, <1>2 DEF Gone, Without, TypeOK
  <2> QED
    BY <1>1, <1>2, <1>3, <2>1 DEF TypeOK
<1>7. LoopInv'
  <2>1. ~Fresh /\ ~Quiet
    BY <1>2 DEF Fresh, Quiet
  <2> QED
    BY <1>1, <1>2, <2>1 DEF LoopInv
<1>8. KidsInv'
  <2>1. last # 0 => last \in Cmds
    BY <1>1, Sizes DEF TypeOK
  <2>2. n = 2 => 1 \in Cmds
    BY Ranges, Sizes
  <2>3. pc = "close" => i \in Cmds
    BY Ranges
  <2> QED
    BY <1>1, <1>2, <1>5, <2>1, <2>2, <2>3 DEF KidsInv
<1>9. PipeInv'
  <2>1. \A d \in Cmds : inp[d] # 0 => inp[d] \in Cmds
    BY <1>1, Sizes DEF TypeOK
  <2>2. ASSUME NEW d \in Cmds, kids'[d] = "run", d < n PROVE d \in writers'[d]
    BY <1>1, <1>3, <1>4, <2>2 DEF PipeInv
  <2> QED
    BY <1>1, <1>2, <1>5, <2>1, <2>2 DEF PipeInv
<1>10. \A p \in Cmds : (0 \in writers'[p] <=> 0 \in writers[p]) /\ (0 \in readers'[p] <=> 0 \in readers[p])
  BY <1>4, <1>5
<1>11. WriteEnds' /\ ReadEnds'
  <2>1. pc \in {"fork", "close"} => i \in Cmds
    BY Ranges
  <2> QED
    BY <1>1, <1>2, <1>10, <2>1 DEF WriteEnds, ReadEnds
<1> QED
  BY <1>6, <1>7, <1>8, <1>9, <1>11 DEF ShellInv

-----------------------------------------------------------------------------
(* The theorems.                                                           *)

\* The invariant holds in every state of the shell.
LEMMA ShellInvariant == Spec => []ShellInv
<1>1. Init => ShellInv
  BY ShellInit
<1>2. ASSUME ShellInv, UNCHANGED vars PROVE ShellInv'
  BY <1>2 DEF vars, ShellInv, TypeOK, LoopInv, Fresh, Quiet, KidsInv, PipeInv, WriteEnds, ReadEnds
<1>3. ShellInv /\ [Next]_vars => ShellInv'
  BY <1>2, PromptStep, PipeStep, LastRoundStep, ForkStep, ForkWildStep, CloseManyStep,
     CloseTwoStep, WaitStep, DataStep, EndStep DEF Next, Run, Stopped, Command
<1> QED
  BY <1>1, <1>3, PTL DEF Spec

\* Descriptors, loop variable and pipes of the shell stay in their ranges,
\* whatever the line and whatever fails.
THEOREM TypeCorrect == Spec => []TypeOK
<1>1. ShellInv => TypeOK
  BY DEF ShellInv
<1> QED
  BY <1>1, ShellInvariant, PTL

\* Back at its prompt the shell has closed every write end, and without a
\* failure of pipe() every read end too, for lines of any length.
THEOREM FdsClosed == Spec => []FdsBalanced
<1>1. ASSUME ShellInv PROVE FdsBalanced
  <2>1. SUFFICES ASSUME pc = "prompt", NEW p \in Cmds
                 PROVE  0 \notin writers[p] /\ (fails = 0 => 0 \notin readers[p])
    BY DEF FdsBalanced
  <2> QED
    BY <1>1, <2>1 DEF ShellInv, WriteEnds, ReadEnds
<1> QED
  BY <1>1, ShellInvariant, PTL

\* A command of a pipeline sees the end of its input only after the command
\* in front of it has ended.
THEOREM EofLast == Spec => []EofAfterWriter
<1>1. ASSUME ShellInv PROVE EofAfterWriter
  <2>1. SUFFICES ASSUME NEW c \in Cmds, kids[c] = "run", inp[c] # 0, AtEof(c)
                 PROVE  kids[inp[c]] = "ended"
    BY DEF EofAfterWriter
  <2>2. inp[c] \in Cmds /\ kids[inp[c]] \in {"none", "run", "ended"}
    BY <1>1, <2>1, Sizes DEF ShellInv, TypeOK
  <2>3. inp[c] < n /\ kids[inp[c]] # "none"
    BY <1>1, <2>1 DEF ShellInv, PipeInv
  <2>4. kids[inp[c]] # "run"
    BY <1>1, <2>1, <2>2, <2>3 DEF ShellInv, PipeInv, AtEof
  <2> QED
    BY <2>2, <2>3, <2>4
<1> QED
  BY <1>1, ShellInvariant, PTL
=============================================================================
