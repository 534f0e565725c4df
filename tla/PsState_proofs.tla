--------------------------- MODULE PsState_proofs ---------------------------
(***************************************************************************)
(* Proofs about PsState: its types, and that a process that lives through  *)
(* ps_state is listed inside of the buffer, for any number of processes.   *)
(*                                                                         *)
(* The argument is about the walk under way: Since is every process that   *)
(* was in the list at some time after the walk began.  A pointer left in   *)
(* one of them that exited never leads past a process that has been in the *)
(* list for the whole walk, so the walk meets all of those.  A process     *)
(* born before the call that the second walk meets was in the list between *)
(* the walks, hence was counted by the first: its place is inside.         *)
(***************************************************************************)
EXTENDS PsState, FiniteSetTheorems, WellFoundedInduction, TLAPS

\* Processes in the list at some time after the current walk began.
Since == start \cup (last + 1 .. born)

Steady == start \cap live

ListInv ==
    /\ live \subseteq Since /\ last <= born /\ oldest <= last
    /\ \A q \in start : q <= last
    /\ \A q \in before : q <= oldest
    /\ \A q \in start : q <= oldest => q \in before

StaleInv ==
    \A d \in Since \ live :
        /\ stale[d] # 0 => stale[d] \in Since /\ stale[d] > d
        /\ \A q \in Steady : q > d => stale[d] # 0 /\ stale[d] <= q

CursorInv == pc \in {"count", "copy"} => task = 0 \/ task \in Since

CountInv ==
    /\ counter = Cardinality(counted)
    /\ counted \subseteq before \cup (oldest + 1 .. born)
    /\ pc = "count" => /\ start = before /\ last = oldest /\ states = <<>>
                       /\ \A c \in counted : c <= task
                       /\ \A q \in Steady : q <= task => q \in counted
    /\ pc \in {"alloc", "copy", "print", "done"} => Survivors \subseteq counted
    /\ pc \in {"alloc", "copy", "print"} => call = "state"

CopyInv ==
    /\ \A i \in 1 .. Len(states) : states[i] \in Since
    /\ \A i \in 1 .. Len(states) : states[i] <= oldest => states[i] \in counted
    /\ \A i, j \in 1 .. Len(states) : i < j => states[i] < states[j]
    /\ pc = "copy" =>
          /\ \A i \in 1 .. Len(states) : states[i] <= task
          /\ \A q \in start : q <= oldest => q \in counted
          /\ \A q \in Steady : q <= task => \E i \in 1 .. Len(states) : states[i] = q
    /\ pc = "print" \/ (pc = "done" /\ call = "state") =>
          \A q \in Steady : \E i \in 1 .. Len(states) : states[i] = q

IInv == TypeOK /\ ListInv /\ StaleInv /\ CursorInv /\ CountInv /\ CopyInv

-----------------------------------------------------------------------------
\* A set of naturals that is not empty has a least element.
LEMMA Least == ASSUME NEW T \in SUBSET Nat, T # {} PROVE \E x \in T : \A y \in T : x <= y
<1> DEFINE R == OpToRel(<, Nat)
<1>1. IsWellFoundedOn(R, Nat) BY NatLessThanWellFounded
<1>2. \A x, y \in Nat : y < x => <<y, x>> \in R BY DEF OpToRel
<1> HIDE DEF R
<1>3. PICK x \in T : \A y \in T : ~ (<<y, x>> \in R) BY <1>1, WFMin
<1>4. ASSUME NEW y \in T PROVE x <= y
  <2>1. x \in Nat /\ y \in Nat OBVIOUS
  <2>2. ~ (y < x) BY <2>1, <1>2, <1>3
  <2> QED BY <2>1, <2>2
<1> QED BY <1>4

\* After(p) is the first process of the list that is later than p.
LEMMA AfterFacts ==
    ASSUME TypeOK, NEW p \in Procs \cup {0}
    PROVE  /\ After(p) = 0 \/ (After(p) \in live /\ After(p) > p)
           /\ \A q \in live : q > p => After(p) # 0 /\ After(p) <= q
<1> USE ProcsAssumption DEF Procs
<1>1. CASE Later(p) = {} BY <1>1 DEF After, Later, TypeOK
<1>2. CASE Later(p) # {}
  <2>0. live \subseteq Nat BY DEF TypeOK
  <2>1. Later(p) \in SUBSET Nat BY <2>0 DEF Later
  <2>2. \E q \in Later(p) : \A r \in Later(p) : q <= r BY <2>1, <1>2, Least
  <2>3. After(p) \in Later(p) /\ \A r \in Later(p) : After(p) <= r
    BY <1>2, <2>2 DEF After
  <2> QED BY <2>3 DEF Later, TypeOK
<1> QED BY <1>1, <1>2

\* A step of a walk goes to a later process met since the walk began and
\* passes over none that has been in the list for the whole walk.
LEMMA NextFacts ==
    ASSUME IInv, pc \in {"count", "copy"}
    PROVE  /\ NextTask(task) = 0 \/ (NextTask(task) \in Since /\ NextTask(task) > task)
           /\ \A q \in Steady : q > task => NextTask(task) # 0 /\ NextTask(task) <= q
<1> USE ProcsAssumption
<1>1. TypeOK /\ task \in Procs \cup {0} BY DEF IInv, TypeOK
<1>2. CASE task = 0 \/ task \in live
  BY <1>1, <1>2, AfterFacts DEF NextTask, IInv, ListInv, Steady
<1>3. CASE task # 0 /\ task \notin live
  <2>1. task \in Since \ live BY <1>3 DEF IInv, CursorInv
  <2>2. NextTask(task) = stale[task] BY <1>3 DEF NextTask
  <2> QED BY <2>1, <2>2 DEF IInv, StaleInv
<1> QED BY <1>2, <1>3

\* An entry for a process born before the call lies inside of the buffer.
LEMMA OldInside ==
    ASSUME IInv, NEW i \in 1 .. Len(states), states[i] <= oldest
    PROVE  i <= counter
<1> USE ProcsAssumption
<1>0. /\ states \in Seq(Procs) /\ counted \in SUBSET Procs /\ oldest \in Procs
      /\ Len(states) \in Nat
  BY DEF IInv, TypeOK
<1> DEFINE f == [j \in 1 .. i |-> states[j]]
<1>1. ASSUME NEW j \in 1 .. i PROVE states[j] \in counted
  <2>1. j \in 1 .. Len(states) /\ (j = i \/ j < i) BY <1>0
  <2>2. states[j] <= states[i] BY <2>1, <1>0 DEF IInv, CopyInv, Procs
  <2>3. states[j] <= oldest BY <2>1, <2>2, <1>0 DEF Procs
  <2> QED BY <2>1, <2>3 DEF IInv, CopyInv
<1>2. ASSUME NEW j \in 1 .. i, NEW k \in 1 .. i, states[j] = states[k] PROVE j = k
  <2>1. j \in 1 .. Len(states) /\ k \in 1 .. Len(states) /\ states[j] \in Procs BY <1>0
  <2>2. ~ (j < k) /\ ~ (k < j) BY <2>1, <1>2 DEF IInv, CopyInv, Procs
  <2> QED BY <2>2
<1>3. f \in Injection(1 .. i, counted) BY <1>1, <1>2 DEF Injection, IsInjective
<1>4. IsFiniteSet(counted)
  <2>1. IsFiniteSet(Procs) BY FS_Interval DEF Procs
  <2> QED BY <2>1, <1>0, FS_Subset
<1>5. Cardinality(1 .. i) <= Cardinality(counted) BY <1>3, <1>4, FS_Injection
<1>6. Cardinality(1 .. i) = i BY FS_Interval
<1> QED BY <1>5, <1>6 DEF IInv, CountInv

LEMMA SinceType == TypeOK => Since \subseteq Procs
<1> SUFFICES ASSUME TypeOK PROVE Since \subseteq Procs OBVIOUS
<1>1. start \subseteq Procs BY DEF TypeOK
<1>2. last + 1 .. born \subseteq Procs BY ProcsAssumption DEF TypeOK, Procs
<1> QED BY <1>1, <1>2 DEF Since

LEMMA InitIInv == Init => IInv
<1> USE ProcsAssumption
<1> SUFFICES ASSUME Init PROVE IInv OBVIOUS
<1>1. TypeOK BY DEF Init, TypeOK, Procs
<1>2. ListInv /\ CursorInv /\ CopyInv BY DEF Init, ListInv, CursorInv, CopyInv, Since
<1>3. StaleInv BY DEF Init, StaleInv, Since
<1>4. CountInv BY FS_EmptySet DEF Init, CountInv
<1> QED BY <1>1, <1>2, <1>3, <1>4 DEF IInv

-----------------------------------------------------------------------------
\* fork adds a process later than all others.
LEMMA ForkStep == IInv /\ Fork => IInv'
<1> USE ProcsAssumption
<1> SUFFICES ASSUME IInv, Fork PROVE IInv' OBVIOUS
<1>0. TypeOK /\ ListInv BY DEF IInv
<1>1. TypeOK' BY <1>0 DEF Fork, TypeOK, Procs
<1>2. /\ Since' = Since \cup {born + 1} /\ born + 1 \notin start
      /\ Steady' = Steady /\ Survivors' = Survivors /\ born + 1 \notin Since
  BY <1>0 DEF Fork, TypeOK, ListInv, Since, Steady, Survivors, Procs
<1>3. ListInv' BY <1>0, <1>2 DEF Fork, ListInv, TypeOK, Procs
<1>4. StaleInv' BY <1>2 DEF Fork, IInv, StaleInv
<1>5. CursorInv' BY <1>2 DEF Fork, IInv, CursorInv
<1>6. CountInv' BY <1>0, <1>2 DEF Fork, IInv, CountInv, TypeOK, Procs
<1>7. CopyInv' BY <1>2 DEF Fork, IInv, CopyInv
<1> QED BY <1>1, <1>3, <1>4, <1>5, <1>6, <1>7 DEF IInv

\* A process that exits points at the first one left behind it.
LEMMA ExitStep == ASSUME NEW p \in Procs PROVE IInv /\ Exit(p) => IInv'
<1> USE ProcsAssumption
<1> SUFFICES ASSUME IInv, Exit(p) PROVE IInv' OBVIOUS
<1>0. TypeOK /\ ListInv BY DEF IInv
<1>a. /\ After(p) = 0 \/ (After(p) \in live /\ After(p) > p)
      /\ \A q \in live : q > p => After(p) # 0 /\ After(p) <= q
  BY <1>0, AfterFacts
<1>1. TypeOK'
  <2>1. live' \in SUBSET Procs /\ 1 \in live' BY <1>0 DEF Exit, TypeOK
  <2>2. stale' \in [Procs -> Procs \cup {0}] BY <1>0, <1>a DEF Exit, TypeOK
  <2> QED BY <1>0, <2>1, <2>2 DEF Exit, TypeOK
<1>2. Since' = Since /\ Steady' \subseteq Steady /\ Survivors' \subseteq Survivors
  BY DEF Exit, Since, Steady, Survivors
<1>3. ListInv' BY <1>0, <1>2 DEF Exit, ListInv
<1>4. StaleInv'
  <2> SUFFICES ASSUME NEW d \in Since \ live'
               PROVE  /\ stale'[d] # 0 => stale'[d] \in Since /\ stale'[d] > d
                      /\ \A q \in Steady' : q > d => stale'[d] # 0 /\ stale'[d] <= q
    BY <1>2 DEF StaleInv
  <2>1. CASE d = p
    <3>1. stale'[d] = After(p) BY <2>1, <1>0 DEF Exit, TypeOK
    <3> QED BY <3>1, <2>1, <1>a, <1>0 DEF ListInv, Steady, Exit
  <2>2. CASE d # p
    <3>1. d \notin live /\ stale'[d] = stale[d] BY <2>2, <1>0 DEF Exit, TypeOK
    <3> QED BY <3>1, <1>2 DEF IInv, StaleInv
  <2> QED BY <2>1, <2>2
<1>5. CursorInv' BY <1>2 DEF Exit, IInv, CursorInv
<1>6. CountInv' BY <1>2 DEF Exit, IInv, CountInv
<1>7. CopyInv' BY <1>2 DEF Exit, IInv, CopyInv
<1> QED BY <1>1, <1>3, <1>4, <1>5, <1>6, <1>7 DEF IInv

LEMMA CallStep == ASSUME NEW c \in {"counter", "state"} PROVE IInv /\ Call(c) => IInv'
<1> USE ProcsAssumption
<1> SUFFICES ASSUME IInv, Call(c) PROVE IInv' OBVIOUS
<1>0. TypeOK /\ ListInv BY DEF IInv
<1>1. TypeOK' BY <1>0 DEF Call, procs, TypeOK, Procs
<1>b. \A q \in live : q <= born
  <2>1. born \in Nat /\ last \in Nat /\ last <= born /\ live \in SUBSET Nat
    BY <1>0 DEF ListInv, TypeOK, Procs
  <2> QED BY <1>0, <2>1 DEF ListInv, Since, TypeOK, Procs
<1>2. /\ Since' = live /\ live' = live /\ start' = live /\ before' = live
      /\ last' = born /\ oldest' = born /\ born' = born
  BY <1>0 DEF Call, procs, Since, TypeOK, Procs
<1>3. ListInv' BY <1>0, <1>2, <1>b DEF ListInv, TypeOK, Procs
<1>4. StaleInv' BY <1>2 DEF StaleInv
<1>5. CursorInv' BY DEF Call, CursorInv
<1>6. CountInv' BY <1>0, <1>2, FS_EmptySet DEF Call, CountInv, Steady, TypeOK, Procs
<1>7. CopyInv' BY DEF Call, CopyInv
<1> QED BY <1>1, <1>3, <1>4, <1>5, <1>6, <1>7 DEF IInv

\* The process counted is later than all counted before it.
LEMMA CountOneStep == IInv /\ CountOne => IInv'
<1> USE ProcsAssumption
<1> SUFFICES ASSUME IInv, CountOne PROVE IInv' OBVIOUS
<1> DEFINE n == NextTask(task)
<1>0. TypeOK /\ ListInv BY DEF IInv
<1>a. /\ n # 0 /\ n \in Since /\ n > task /\ \A q \in Steady : q > task => n <= q
  BY NextFacts DEF CountOne
<1>2. Since' = Since /\ Steady' = Steady /\ Survivors' = Survivors
  BY DEF CountOne, procs, Since, Steady, Survivors
<1>b. n \in Procs /\ task \in Procs \cup {0}
  BY <1>0, <1>a, SinceType DEF TypeOK
<1>c. /\ counter = Cardinality(counted) /\ start = before /\ last = oldest /\ states = <<>>
      /\ (\A c \in counted : c <= task) /\ (\A q \in Steady : q <= task => q \in counted)
      /\ counted \subseteq before \cup (oldest + 1 .. born)
  BY DEF IInv, CountInv, CountOne
<1>d. /\ task' = n /\ counter' = counter + 1 /\ counted' = counted \cup {n}
      /\ UNCHANGED <<procs, pc, call, states, before, oldest, start, last, fault>>
      /\ pc = "count"
  BY DEF CountOne
<1> HIDE DEF n
<1>e. n \notin counted BY <1>a, <1>b, <1>c DEF Procs
<1>f. counter' = Cardinality(counted') /\ counted' \in SUBSET Procs /\ counter' \in 0 .. MaxProcs
  <2>1. IsFiniteSet(Procs) /\ Cardinality(Procs) = MaxProcs BY FS_Interval DEF Procs
  <2>2. counted' \in SUBSET Procs BY <1>b, <1>d, <1>0 DEF TypeOK
  <2>3. IsFiniteSet(counted) BY <2>1, <1>0, FS_Subset DEF TypeOK
  <2>4. counter' = Cardinality(counted') BY <2>3, <1>c, <1>d, <1>e, FS_AddElement
  <2>5. Cardinality(counted') <= MaxProcs BY <2>1, <2>2, FS_Subset
  <2>6. counter' \in Nat BY <1>0, <1>d DEF TypeOK
  <2> QED BY <2>2, <2>4, <2>5, <2>6
<1>1. TypeOK' BY <1>0, <1>b, <1>d, <1>f DEF procs, TypeOK
<1>3. ListInv' BY <1>0, <1>2, <1>d DEF procs, ListInv
<1>4. StaleInv' BY <1>2, <1>d DEF procs, IInv, StaleInv
<1>5. CursorInv' BY <1>2, <1>a, <1>d DEF CursorInv
<1>6. CountInv'
  <2>1. counted' \subseteq before \cup (oldest + 1 .. born) BY <1>a, <1>c, <1>d DEF Since
  <2>2. \A c \in counted' : c <= n
    BY <1>a, <1>b, <1>c, <1>d, <1>0 DEF TypeOK, Procs
  <2>3. \A q \in Steady : q <= n => q \in counted'
    <3> SUFFICES ASSUME NEW q \in Steady, q <= n PROVE q \in counted' OBVIOUS
    <3>1. q \in Procs BY <1>0 DEF Steady, TypeOK
    <3>2. CASE q <= task BY <3>2, <1>c, <1>d
    <3>3. CASE q > task BY <3>1, <3>3, <1>a, <1>b, <1>d DEF Procs
    <3> QED BY <3>1, <3>2, <3>3, <1>b DEF Procs
  <2> QED BY <1>2, <1>c, <1>d, <1>f, <2>1, <2>2, <2>3 DEF procs, CountInv
<1>7. CopyInv' BY <1>c, <1>d DEF CopyInv
<1> QED BY <1>1, <1>3, <1>4, <1>5, <1>6, <1>7 DEF IInv

LEMMA CountEndStep == IInv /\ CountEnd => IInv'
<1> USE ProcsAssumption
<1> SUFFICES ASSUME IInv, CountEnd PROVE IInv' OBVIOUS
<1>0. TypeOK /\ ListInv BY DEF IInv
<1>a. \A q \in Steady : ~ (q > task) BY NextFacts DEF CountEnd
<1>2. Since' = Since /\ Steady' = Steady /\ Survivors' = Survivors
  BY DEF CountEnd, procs, Since, Steady, Survivors
<1>b. start = before /\ states = <<>> /\ \A q \in Steady : q <= task => q \in counted
  BY DEF IInv, CountInv, CountEnd
<1>c. Survivors \subseteq counted
  BY <1>0, <1>a, <1>b DEF Survivors, Steady, TypeOK, Procs
<1>1. TypeOK' BY <1>0 DEF CountEnd, procs, TypeOK
<1>3. ListInv' BY <1>0, <1>2 DEF CountEnd, procs, ListInv
<1>4. StaleInv' BY <1>2 DEF CountEnd, procs, IInv, StaleInv
<1>5. CursorInv' BY DEF CountEnd, CursorInv
<1>6. CountInv' BY <1>0, <1>2, <1>c DEF CountEnd, procs, IInv, CountInv, TypeOK
<1>7. CopyInv' BY <1>b, <1>0 DEF CountEnd, CopyInv, TypeOK
<1> QED BY <1>1, <1>3, <1>4, <1>5, <1>6, <1>7 DEF IInv

LEMMA AllocStep == IInv /\ (Alloc \/ AllocFails) => IInv'
<1> USE ProcsAssumption
<1> SUFFICES ASSUME IInv, Alloc \/ AllocFails PROVE IInv' OBVIOUS
<1>0. TypeOK /\ ListInv BY DEF IInv
<1>1. CASE AllocFails
  BY <1>1 DEF AllocFails, procs, IInv, TypeOK, ListInv, StaleInv, CursorInv, CountInv,
              CopyInv, Since, Steady, Survivors
<1>2. CASE Alloc
  <2>b. born \in Nat /\ last \in Nat /\ last <= born /\ live \in SUBSET Nat /\ oldest \in Nat
    BY <1>0 DEF ListInv, TypeOK, Procs
  <2>c. \A q \in live : q <= born
    BY <1>0, <2>b DEF ListInv, Since, TypeOK, Procs
  <2>d. /\ Since' = live /\ live' = live /\ start' = live /\ last' = born
        /\ oldest' = oldest /\ born' = born /\ before' = before
    BY <1>0, <1>2 DEF Alloc, procs, Since, TypeOK, Procs
  <2>e. \A q \in live : q <= oldest => q \in Survivors
    <3> SUFFICES ASSUME NEW q \in live, q <= oldest PROVE q \in before
      BY DEF Survivors
    <3>1. q \in Nat /\ q \in Since /\ oldest <= last BY <1>0, <2>b DEF ListInv
    <3>2. q \in start BY <3>1, <2>b DEF Since
    <3> QED BY <3>2, <1>0 DEF ListInv
  <2>f. Survivors \subseteq counted /\ call = "state" BY <1>2 DEF IInv, CountInv, Alloc
  <2>1. TypeOK' BY <1>0, <1>2 DEF Alloc, procs, TypeOK, Procs
  <2>3. ListInv' BY <1>0, <2>d, <2>c, <2>b, <2>e DEF ListInv, Survivors
  <2>4. StaleInv' BY <2>d DEF StaleInv
  <2>5. CursorInv' BY <1>2 DEF Alloc, CursorInv
  <2>6. CountInv' BY <1>2, <2>d, <2>f DEF Alloc, procs, IInv, CountInv, Survivors
  <2>7. CopyInv' BY <1>2, <2>d, <2>e, <2>f, <2>b, <1>0 DEF Alloc, CopyInv, Steady, TypeOK, Procs
  <2> QED BY <2>1, <2>3, <2>4, <2>5, <2>6, <2>7 DEF IInv
<1> QED BY <1>1, <1>2

\* A process born before the call that is copied was counted.
LEMMA CopyOneStep == IInv /\ CopyOne => IInv'
<1> USE ProcsAssumption
<1> SUFFICES ASSUME IInv, CopyOne PROVE IInv' OBVIOUS
<1> DEFINE n == NextTask(task)
<1>0. TypeOK /\ ListInv BY DEF IInv
<1>a. /\ n # 0 /\ n \in Since /\ n > task /\ \A q \in Steady : q > task => n <= q
  BY NextFacts DEF CopyOne
<1>b. n \in Procs /\ task \in Procs \cup {0} BY <1>0, <1>a, SinceType DEF TypeOK
<1>2. Since' = Since /\ Steady' = Steady /\ Survivors' = Survivors
  BY DEF CopyOne, procs, Since, Steady, Survivors
<1>c. /\ task' = n /\ states' = Append(states, n) /\ pc = "copy"
      /\ UNCHANGED <<procs, pc, call, counter, counted, before, oldest, start, last, fault>>
  BY DEF CopyOne
<1> HIDE DEF n
<1>d. /\ \A i \in 1 .. Len(states) : states[i] <= task
      /\ \A q \in start : q <= oldest => q \in counted
      /\ \A q \in Steady : q <= task => \E i \in 1 .. Len(states) : states[i] = q
      /\ \A i \in 1 .. Len(states) : states[i] \in Since
      /\ \A i \in 1 .. Len(states) : states[i] <= oldest => states[i] \in counted
      /\ \A i, j \in 1 .. Len(states) : i < j => states[i] < states[j]
  BY <1>c DEF IInv, CopyInv
<1>e. n <= oldest => n \in counted
  <2> SUFFICES ASSUME n <= oldest PROVE n \in counted OBVIOUS
  <2>1. oldest <= last /\ oldest \in Nat /\ last \in Nat BY <1>0 DEF ListInv, TypeOK, Procs
  <2>2. n \in start BY <2>1, <1>a, <1>b DEF Since, Procs
  <2> QED BY <2>2, <1>d
<1>f. /\ states \in Seq(Procs) /\ Len(states) \in Nat /\ Len(states') = Len(states) + 1
      /\ states'[Len(states) + 1] = n
      /\ \A i \in 1 .. Len(states) : states'[i] = states[i]
  BY <1>0, <1>b, <1>c DEF TypeOK
<1>1. TypeOK' BY <1>0, <1>b, <1>c DEF procs, TypeOK
<1>3. ListInv' BY <1>0, <1>2, <1>c DEF procs, ListInv
<1>4. StaleInv' BY <1>2, <1>c DEF procs, IInv, StaleInv
<1>5. CursorInv' BY <1>2, <1>a, <1>c DEF CursorInv
<1>6. CountInv' BY <1>2, <1>c DEF procs, IInv, CountInv
<1>7. CopyInv'
  <2>1. ASSUME NEW i \in 1 .. Len(states')
        PROVE  states'[i] \in Since /\ (states'[i] <= oldest => states'[i] \in counted)
    BY <1>a, <1>d, <1>e, <1>f
  <2>2. ASSUME NEW i \in 1 .. Len(states') PROVE states'[i] <= n
    <3>1. CASE i = Len(states) + 1 BY <3>1, <1>f, <1>b DEF Procs
    <3>2. CASE i \in 1 .. Len(states)
      <4>1. states'[i] = states[i] /\ states[i] <= task /\ states[i] \in Procs
        BY <3>2, <1>d, <1>f
      <4> QED BY <4>1, <1>a, <1>b DEF Procs
    <3> QED BY <3>1, <3>2, <1>f
  <2>3. ASSUME NEW i \in 1 .. Len(states'), NEW j \in 1 .. Len(states'), i < j
        PROVE  states'[i] < states'[j]
    <3>1. i \in 1 .. Len(states) /\ states[i] \in Procs BY <2>3, <1>f
    <3>2. CASE j \in 1 .. Len(states) BY <3>1, <3>2, <2>3, <1>d, <1>f
    <3>3. CASE j = Len(states) + 1
      BY <3>1, <3>3, <1>a, <1>b, <1>d, <1>f DEF Procs
    <3> QED BY <3>2, <3>3, <1>f
  <2>4. ASSUME NEW q \in Steady, q <= n PROVE \E i \in 1 .. Len(states') : states'[i] = q
    <3>1. q \in Procs BY <1>0 DEF Steady, TypeOK
    <3>2. CASE q <= task
      <4>1. PICK i \in 1 .. Len(states) : states[i] = q BY <3>2, <1>d
      <4> QED BY <4>1, <1>f
    <3>3. CASE q > task
      <4>1. q = n BY <3>1, <3>3, <2>4, <1>a, <1>b DEF Procs
      <4> QED BY <4>1, <1>f
    <3> QED BY <3>1, <3>2, <3>3, <1>b DEF Procs
  <2> QED BY <2>1, <2>2, <2>3, <2>4, <1>c, <1>d, <1>2 DEF CopyInv
<1> QED BY <1>1, <1>3, <1>4, <1>5, <1>6, <1>7 DEF IInv

LEMMA CopyEndStep == IInv /\ CopyEnd => IInv'
<1> USE ProcsAssumption
<1> SUFFICES ASSUME IInv, CopyEnd PROVE IInv' OBVIOUS
<1>0. TypeOK /\ ListInv BY DEF IInv
<1>a. \A q \in Steady : ~ (q > task) BY NextFacts DEF CopyEnd
<1>2. Since' = Since /\ Steady' = Steady /\ Survivors' = Survivors
  BY DEF CopyEnd, procs, Since, Steady, Survivors
<1>b. \A q \in Steady : q <= task BY <1>0, <1>a DEF Steady, TypeOK, Procs
<1>1. TypeOK' BY <1>0 DEF CopyEnd, procs, TypeOK
<1>3. ListInv' BY <1>0, <1>2 DEF CopyEnd, procs, ListInv
<1>4. StaleInv' BY <1>2 DEF CopyEnd, procs, IInv, StaleInv
<1>5. CursorInv' BY <1>2 DEF CopyEnd, IInv, CursorInv
<1>6. CountInv' BY <1>2 DEF CopyEnd, procs, IInv, CountInv
<1>7. CopyInv' BY <1>2, <1>b DEF CopyEnd, IInv, CopyInv
<1> QED BY <1>1, <1>3, <1>4, <1>5, <1>6, <1>7 DEF IInv

LEMMA PrintStep ==
    ASSUME NEW junk \in SUBSET (1 .. UserLen) PROVE IInv /\ (ShowStates(junk) \/ Return) => IInv'
<1> USE ProcsAssumption
<1> SUFFICES ASSUME IInv, ShowStates(junk) \/ Return PROVE IInv' OBVIOUS
<1>0. TypeOK /\ ListInv BY DEF IInv
<1>2. /\ Since' = Since /\ Steady' = Steady /\ Survivors' = Survivors
      /\ UNCHANGED <<procs, call, task, counter, counted, states, before, oldest, start, last>>
      /\ fault' \in {fault, "past"}
      /\ pc' = pc \/ (pc' = "done" /\ pc = "print") \/ pc' = "idle"
  BY DEF ShowStates, Return, procs, Since, Steady, Survivors
<1>1. TypeOK' BY <1>0, <1>2 DEF procs, TypeOK
<1>4. ListInv' /\ StaleInv' BY <1>2 DEF procs, IInv, ListInv, StaleInv
<1>5. CursorInv' BY <1>2 DEF IInv, CursorInv
<1>6. CountInv' BY <1>2 DEF procs, IInv, CountInv
<1>7. CopyInv' BY <1>2 DEF IInv, CopyInv
<1> QED BY <1>1, <1>4, <1>5, <1>6, <1>7 DEF IInv

LEMMA StutterStep == IInv /\ UNCHANGED vars => IInv'
BY DEF vars, procs, IInv, TypeOK, ListInv, StaleInv, CursorInv, CountInv, CopyInv, Since, Steady,
       Survivors

LEMMA Inductive == Spec => []IInv
<1>1. IInv /\ [Next]_vars => IInv'
  BY ForkStep, ExitStep, CallStep, CountOneStep, CountEndStep, AllocStep, CopyOneStep,
     CopyEndStep, PrintStep, StutterStep DEF Next
<1> QED BY InitIInv, <1>1, PTL DEF Spec

-----------------------------------------------------------------------------
\* The calls stay in their types, the counter within the number of processes.
THEOREM TypeCorrect == Spec => []TypeOK
<1>1. IInv => TypeOK BY DEF IInv
<1> QED BY Inductive, <1>1, PTL

\* ps_state overruns its buffer only with processes younger than the call.
THEOREM OverrunOnlyYoung == Spec => []OverrunYoung
<1>1. IInv => OverrunYoung
  <2> SUFFICES ASSUME IInv, NEW i \in 1 .. Len(states), i > counter PROVE states[i] > oldest
    BY DEF OverrunYoung
  <2>1. /\ states[i] \in Procs /\ oldest \in Procs /\ counter \in Nat /\ i \in Nat
    BY DEF IInv, TypeOK
  <2>2. ~ (states[i] <= oldest) BY OldInside, <2>1
  <2> QED BY <2>1, <2>2 DEF Procs
<1> QED BY Inductive, <1>1, PTL

\* Between the walks and the return of ps_state the survivors are listed.
LEMMA Listed == IInv => SurvivorsListed
<1> SUFFICES ASSUME IInv PROVE SurvivorsListed OBVIOUS
<1>0. TypeOK /\ ListInv BY DEF IInv
<1>1. pc \in {"alloc", "copy", "print", "done"} => Survivors \subseteq counted
  BY DEF IInv, CountInv
<1>2. ASSUME pc \in {"print", "done"}, call = "state", NEW p \in Survivors
      PROVE  \E i \in 1 .. Len(states) : i <= counter /\ states[i] = p
  <2>1. p \in Nat /\ p <= oldest /\ oldest <= last /\ oldest \in Nat /\ last \in Nat
    BY <1>0 DEF Survivors, ListInv, TypeOK, Procs
  <2>2. p \in Since /\ p \in live BY <1>0 DEF Survivors, ListInv
  <2>3. p \in Steady BY <2>1, <2>2 DEF Since, Steady
  <2>4. PICK i \in 1 .. Len(states) : states[i] = p BY <1>2, <2>3 DEF IInv, CopyInv
  <2>5. i <= counter BY <2>1, <2>4, OldInside
  <2> QED BY <2>4, <2>5
<1> QED BY <1>1, <1>2 DEF SurvivorsListed

\* Every process that lives through a call is counted, and ps_state has
\* written its entry inside of the buffer, whatever forks and exits meanwhile.
THEOREM AllSurvivorsListed == Spec => []SurvivorsListed
BY Inductive, Listed, PTL

\* Each walk meets a process at most once, in the order of the list, and only
\* processes that were in it at some time during the call.
THEOREM CountedOnce == Spec => []CountSpan
<1>1. IInv => CountSpan BY DEF IInv, CountInv, CopyInv, CountSpan
<1> QED BY Inductive, <1>1, PTL
=============================================================================
