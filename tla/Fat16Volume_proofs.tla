------------------------- MODULE Fat16Volume_proofs -------------------------
(***************************************************************************)
(* Proofs about Fat16Volume for every set of threads and names and every   *)
(* size of the volume.                                                     *)
(***************************************************************************)
EXTENDS Fat16VolumePool, FiniteSetTheorems, TLAPS

USE DEF Clusters, Entries, EOC, LastLink, Media, Word, IsLink, Overrun, Steps,
        At, Goto, RunPast, image, locals

-----------------------------------------------------------------------------
(* SharedInv: any number of threads, with crashes.                         *)

\* The images the driver mounts satisfy the invariant.
LEMMA SharedInit == Init => SharedInv
<1> SUFFICES ASSUME Init PROVE SharedInv
  OBVIOUS
<1> USE ConstantsAssumption
<1>1. fat1 \in [Entries -> Word] /\ fat1[1] # 0
  BY DEF Init
<1>2. first \in [Names -> Entries] /\ \A n \in Names : first[n] # 1
  BY DEF Init
<1>3. pc = [t \in Threads |-> "idle"]
  BY DEF Init
<1>5. ASSUME NEW t \in Threads PROVE Numbers(t)
  <2>1. pc[t] = "idle"
    BY <1>3
  <2> QED
    BY <2>1 DEF Numbers
<1>4. TypeOK
  BY <1>1, <1>2 DEF Init, TypeOK
<1> QED
  BY <1>1, <1>2, <1>4, <1>5 DEF SharedInv, Init

\* Every step of a handler preserves it.
LEMMA SharedStep ==
  ASSUME SharedInv, NEW t \in Threads, Step(t)
  PROVE  SharedInv'
<1> USE ConstantsAssumption
<1> DEFINE Rest == LinksAscend /\ fat1[1] # 0 /\ \A n \in Names : first[n] # 1
<1> SUFFICES ASSUME TypeOK, Rest, \A u \in Threads : Numbers(u)
             PROVE  SharedInv'
  BY DEF SharedInv
<1>1. CASE Search(t)
  <2>1. TypeOK'
    <3>1. pc' \in [Threads -> Steps]
      <4>1. pc' = pc \/ pc' = [pc EXCEPT ![t] = "entry"]
        BY <1>1 DEF Search
      <4> HIDE DEF Word, Entries
      <4> QED
        BY <4>1 DEF TypeOK
    <3>2. clus' \in [Threads -> Entries]
      BY <1>1 DEF Search, TypeOK, Numbers
    <3>3. edge' \in {"inside", "past"}
      BY <1>1 DEF Search, TypeOK, Numbers
    <3>4. UNCHANGED <<fat1, fat2, live, first, name, next, left, crashes>>
      BY <1>1 DEF Search
    <3> QED
      BY <3>1, <3>2, <3>3, <3>4 DEF TypeOK
  <2>2. Rest'
    BY <1>1 DEF Search, TypeOK, LinksAscend, Numbers
  <2>3. ASSUME NEW u \in Threads PROVE Numbers(u)'
    <3>1. CASE u # t
      <4>1. UNCHANGED <<pc[u], name[u], clus[u], next[u], left[u]>>
        BY <1>1, <3>1 DEF Search, TypeOK
      <4> QED
        BY <4>1 DEF Numbers
    <3>2. CASE u = t
      BY <1>1, <3>2 DEF Search, TypeOK, LinksAscend, Numbers
    <3> QED
      BY <3>1, <3>2
  <2> QED
    BY <2>1, <2>2, <2>3 DEF SharedInv
<1>2. CASE MknodEntry(t)
  <2>1. TypeOK'
    BY <1>2 DEF MknodEntry, TypeOK, Numbers
  <2>2. Rest'
    BY <1>2 DEF MknodEntry, TypeOK, LinksAscend, Numbers
  <2>3. ASSUME NEW u \in Threads PROVE Numbers(u)'
    BY <1>2 DEF MknodEntry, TypeOK, LinksAscend, Numbers
  <2> QED
    BY <2>1, <2>2, <2>3 DEF SharedInv
<1>3. CASE MarkEnd(t)
  <2>1. TypeOK'
    BY <1>3 DEF MarkEnd, Return, TypeOK, Numbers
  <2>2. Rest'
    BY <1>3 DEF MarkEnd, Return, TypeOK, LinksAscend, Numbers
  <2>3. ASSUME NEW u \in Threads PROVE Numbers(u)'
    BY <1>3 DEF MarkEnd, Return, TypeOK, LinksAscend, Numbers
  <2> QED
    BY <2>1, <2>2, <2>3 DEF SharedInv
<1>4. CASE FreeLoad(t)
  <2>1. TypeOK'
    BY <1>4 DEF FreeLoad, TypeOK, Numbers
  <2>2. Rest'
    BY <1>4 DEF FreeLoad, TypeOK, LinksAscend, Numbers
  <2>3. ASSUME NEW u \in Threads PROVE Numbers(u)'
    <3>1. CASE u # t
      <4>1. UNCHANGED <<pc[u], name[u], clus[u], next[u], left[u]>>
        BY <1>4, <3>1 DEF FreeLoad, TypeOK
      <4> QED
        BY <4>1 DEF Numbers
    <3>2. CASE u = t
      <4>1. pc'[t] = "clear1" /\ next'[t] = fat1[clus[t]]
        BY <1>4 DEF FreeLoad, TypeOK
      <4>2. name'[t] \in Names /\ clus'[t] = clus[t] /\ clus[t] \in Entries /\ clus[t] # 1
        BY <1>4 DEF FreeLoad, TypeOK, Numbers
      <4>3. fat1[clus[t]] \in Word
        BY <4>2 DEF TypeOK
      <4>4. IsLink(fat1[clus[t]]) => clus[t] < fat1[clus[t]]
        <5>1. CASE clus[t] = 0
          BY <4>3, <5>1
        <5>2. CASE clus[t] \in Clusters
          BY <4>3, <5>2 DEF LinksAscend
        <5> QED
          BY <4>2, <5>1, <5>2
      <4> QED
        BY <3>2, <4>1, <4>2, <4>4 DEF Numbers
    <3> QED
      BY <3>1, <3>2
  <2> QED
    BY <2>1, <2>2, <2>3 DEF SharedInv
<1>5. CASE FreeClear1(t)
  <2>1. TypeOK'
    BY <1>5 DEF FreeClear1, TypeOK, Numbers
  <2>2. Rest'
    BY <1>5 DEF FreeClear1, TypeOK, LinksAscend, Numbers
  <2>3. ASSUME NEW u \in Threads PROVE Numbers(u)'
    BY <1>5 DEF FreeClear1, TypeOK, LinksAscend, Numbers
  <2> QED
    BY <2>1, <2>2, <2>3 DEF SharedInv
<1>6. CASE FreeClear2(t)
  <2>1. TypeOK'
    <3>1. fat2' \in [Entries -> Word]
      BY <1>6 DEF FreeClear2, TypeOK, Numbers
    <3>2. pc' \in [Threads -> Steps]
      <4>1. pc' = [pc EXCEPT ![t] = "load"] \/ pc' = [pc EXCEPT ![t] = "erase"]
        BY <1>6 DEF FreeClear2
      <4> HIDE DEF Word, Entries
      <4> QED
        BY <4>1 DEF TypeOK
    <3>3. clus' \in [Threads -> Entries]
      <4>1. clus' = clus \/ (IsLink(next[t]) /\ clus' = [clus EXCEPT ![t] = next[t]])
        BY <1>6 DEF FreeClear2
      <4>2. IsLink(next[t]) => next[t] \in Entries
        BY DEF TypeOK
      <4> HIDE DEF Word, Entries
      <4> QED
        BY <4>1, <4>2 DEF TypeOK
    <3>4. UNCHANGED <<fat1, live, first, name, next, left, edge, crashes>>
      BY <1>6 DEF FreeClear2
    <3> QED
      BY <3>1, <3>2, <3>3, <3>4 DEF TypeOK
  <2>2. Rest'
    BY <1>6 DEF FreeClear2, TypeOK, LinksAscend, Numbers
  <2>3. ASSUME NEW u \in Threads PROVE Numbers(u)'
    BY <1>6 DEF FreeClear2, TypeOK, LinksAscend, Numbers
  <2> QED
    BY <2>1, <2>2, <2>3 DEF SharedInv
<1>7. CASE UnlinkErase(t)
  <2>1. TypeOK'
    BY <1>7 DEF UnlinkErase, Return, TypeOK, Numbers
  <2>2. Rest'
    BY <1>7 DEF UnlinkErase, Return, TypeOK, LinksAscend, Numbers
  <2>3. ASSUME NEW u \in Threads PROVE Numbers(u)'
    BY <1>7 DEF UnlinkErase, Return, TypeOK, LinksAscend, Numbers
  <2> QED
    BY <2>1, <2>2, <2>3 DEF SharedInv
<1>8. CASE Walk(t)
  <2>1. TypeOK'
    <3>1. pc' \in [Threads -> Steps]
      <4>1. \/ pc' = pc
            \/ pc' = [pc EXCEPT ![t] = "grow"]
            \/ pc' = [pc EXCEPT ![t] = "idle"]
        BY <1>8 DEF Walk, Return
      <4> HIDE DEF Word, Entries
      <4> QED
        BY <4>1 DEF TypeOK
    <3>2. name' \in [Threads -> Names \cup {NoName}]
      BY <1>8 DEF Walk, Return, TypeOK, Numbers
    <3>3. clus' \in [Threads -> Entries]
      BY <1>8 DEF Walk, Return, TypeOK, Numbers
    <3>4. next' \in [Threads -> Word \cup Entries]
      BY <1>8 DEF Walk, Return, TypeOK, Numbers
    <3>5. left' \in [Threads -> 0 .. MaxGrow]
      BY <1>8 DEF Walk, Return, TypeOK, Numbers
    <3>6. UNCHANGED <<fat1, fat2, live, first, edge, crashes>>
      BY <1>8 DEF Walk, Return
    <3> QED
      BY <3>1, <3>2, <3>3, <3>4, <3>5, <3>6 DEF TypeOK
  <2>2. Rest'
    BY <1>8 DEF Walk, Return, TypeOK, LinksAscend, Numbers
  <2>3. ASSUME NEW u \in Threads PROVE Numbers(u)'
    <3>1. CASE u # t
      BY <1>8, <3>1 DEF Walk, Return, TypeOK, Numbers
    <3>2. CASE u = t
      BY <1>8, <3>2 DEF Walk, Return, TypeOK, LinksAscend, Numbers
    <3> QED
      BY <3>1, <3>2
  <2> QED
    BY <2>1, <2>2, <2>3 DEF SharedInv
<1>9. CASE Grow(t)
  <2>1. TypeOK'
    <3>1. pc' \in [Threads -> Steps]
      BY <1>9 DEF Grow, TypeOK, Numbers
    <3>2. next' \in [Threads -> Word \cup Entries]
      BY <1>9 DEF Grow, TypeOK, Numbers
    <3>3. edge' \in {"inside", "past"}
      BY <1>9 DEF Grow, TypeOK, Numbers
    <3>4. UNCHANGED <<fat1, fat2, live, first, name, clus, left, crashes>>
      BY <1>9 DEF Grow
    <3> QED
      BY <3>1, <3>2, <3>3, <3>4 DEF TypeOK
  <2>2. Rest'
    BY <1>9 DEF Grow, TypeOK, LinksAscend, Numbers
  <2>3. ASSUME NEW u \in Threads PROVE Numbers(u)'
    BY <1>9 DEF Grow, TypeOK, LinksAscend, Numbers
  <2> QED
    BY <2>1, <2>2, <2>3 DEF SharedInv
<1>10. CASE Probe(t)
  <2>1. TypeOK'
    <3>1. pc' \in [Threads -> Steps]
      <4>1. pc' = pc \/ pc' = [pc EXCEPT ![t] = "link"]
        BY <1>10 DEF Probe
      <4> HIDE DEF Word, Entries
      <4> QED
        BY <4>1 DEF TypeOK
    <3>2. next' \in [Threads -> Word \cup Entries]
      BY <1>10 DEF Probe, TypeOK, Numbers
    <3>3. edge' \in {"inside", "past"}
      BY <1>10 DEF Probe, TypeOK, Numbers
    <3>4. UNCHANGED <<fat1, fat2, live, first, name, clus, left, crashes>>
      BY <1>10 DEF Probe
    <3> QED
      BY <3>1, <3>2, <3>3, <3>4 DEF TypeOK
  <2>2. Rest'
    BY <1>10 DEF Probe, TypeOK, LinksAscend, Numbers
  <2>3. ASSUME NEW u \in Threads PROVE Numbers(u)'
    BY <1>10 DEF Probe, TypeOK, LinksAscend, Numbers
  <2> QED
    BY <2>1, <2>2, <2>3 DEF SharedInv
<1>11. CASE Link(t)
  <2>1. TypeOK'
    BY <1>11 DEF Link, TypeOK, Numbers
  <2>2. Rest'
    BY <1>11 DEF Link, TypeOK, LinksAscend, Numbers
  <2>3. ASSUME NEW u \in Threads PROVE Numbers(u)'
    BY <1>11 DEF Link, TypeOK, LinksAscend, Numbers
  <2> QED
    BY <2>1, <2>2, <2>3 DEF SharedInv
<1>12. CASE Follow(t)
  <2>1. TypeOK'
    <3>1. pc' \in [Threads -> Steps]
      BY <1>12 DEF Follow, TypeOK, Numbers
    <3>2. clus' \in [Threads -> Entries]
      <4>1. clus' = clus \/ \E c \in Entries : clus' = [clus EXCEPT ![t] = c]
        BY <1>12 DEF Follow
      <4> HIDE DEF Word, Entries
      <4> QED
        BY <4>1 DEF TypeOK
    <3>3. left' \in [Threads -> 0 .. MaxGrow]
      <4>1. left' = left \/ left' = [left EXCEPT ![t] = left[t] - 1]
        BY <1>12 DEF Follow
      <4>2. left[t] - 1 \in 0 .. MaxGrow
        BY <1>12 DEF Follow, TypeOK, Numbers
      <4> HIDE DEF Word, Entries
      <4> QED
        BY <4>1, <4>2 DEF TypeOK
    <3>4. edge' \in {"inside", "past"}
      BY <1>12 DEF Follow, TypeOK, Numbers
    <3>5. UNCHANGED <<fat1, fat2, live, first, name, next, crashes>>
      BY <1>12 DEF Follow
    <3> QED
      BY <3>1, <3>2, <3>3, <3>4, <3>5 DEF TypeOK
  <2>2. Rest'
    BY <1>12 DEF Follow, TypeOK, LinksAscend, Numbers
  <2>3. ASSUME NEW u \in Threads PROVE Numbers(u)'
    BY <1>12 DEF Follow, TypeOK, LinksAscend, Numbers
  <2> QED
    BY <2>1, <2>2, <2>3 DEF SharedInv
<1> QED
  BY <1>1, <1>2, <1>3, <1>4, <1>5, <1>6, <1>7, <1>8, <1>9, <1>10, <1>11, <1>12 DEF Step

\* Calling a handler preserves it.
LEMMA SharedBegin ==
  ASSUME SharedInv, NEW t \in Threads, NEW n \in Names, Begin(t, n)
  PROVE  SharedInv'
<1> USE ConstantsAssumption
<1> DEFINE Rest == LinksAscend /\ fat1[1] # 0 /\ \A m \in Names : first[m] # 1
<1> SUFFICES ASSUME TypeOK, Rest, \A u \in Threads : Numbers(u)
             PROVE  SharedInv'
  BY DEF SharedInv
<1>1. CASE MknodStart(t, n)
  <2>1. TypeOK'
    BY <1>1 DEF MknodStart, Enter, TypeOK, Numbers
  <2>2. Rest'
    BY <1>1 DEF MknodStart, Enter, TypeOK, LinksAscend, Numbers
  <2>3. ASSUME NEW u \in Threads PROVE Numbers(u)'
    BY <1>1 DEF MknodStart, Enter, TypeOK, LinksAscend, Numbers
  <2> QED
    BY <2>1, <2>2, <2>3 DEF SharedInv
<1>2. CASE UnlinkStart(t, n)
  <2>1. TypeOK'
    BY <1>2 DEF UnlinkStart, Enter, TypeOK, Numbers
  <2>2. Rest'
    BY <1>2 DEF UnlinkStart, Enter, TypeOK, LinksAscend, Numbers
  <2>3. ASSUME NEW u \in Threads PROVE Numbers(u)'
    BY <1>2 DEF UnlinkStart, Enter, TypeOK, LinksAscend, Numbers
  <2> QED
    BY <2>1, <2>2, <2>3 DEF SharedInv
<1>3. CASE WriteStart(t, n)
  <2>1. TypeOK'
    <3>1. PICK k \in 0 .. MaxGrow : Enter(t, n, "walk", first[n], k)
      BY <1>3 DEF WriteStart
    <3>2. UNCHANGED <<image, next, edge, crashes>>
      BY <1>3 DEF WriteStart
    <3>3. pc' \in [Threads -> Steps]
      BY <3>1 DEF Enter, TypeOK
    <3>4. clus' \in [Threads -> Entries] /\ left' \in [Threads -> 0 .. MaxGrow]
      BY <3>1 DEF Enter, TypeOK
    <3>5. name' \in [Threads -> Names \cup {NoName}]
      BY <3>1 DEF Enter, TypeOK
    <3> QED
      BY <3>2, <3>3, <3>4, <3>5 DEF TypeOK
  <2>2. Rest'
    <3>1. UNCHANGED <<fat1, first>>
      BY <1>3 DEF WriteStart
    <3> QED
      BY <3>1 DEF LinksAscend
  <2>3. ASSUME NEW u \in Threads PROVE Numbers(u)'
    BY <1>3 DEF WriteStart, Enter, TypeOK, LinksAscend, Numbers
  <2> QED
    BY <2>1, <2>2, <2>3 DEF SharedInv
<1>4. CASE WriteUnset(t, n)
  <2>1. TypeOK'
    <3>1. pc' \in [Threads -> Steps]
      <4>1. pc' = pc \/ pc' = [pc EXCEPT ![t] = "grow"]
        BY <1>4 DEF WriteUnset, Enter
      <4> HIDE DEF Word, Entries
      <4> QED
        BY <4>1 DEF TypeOK
    <3>2. name' \in [Threads -> Names \cup {NoName}]
      <4>1. name' = name \/ name' = [name EXCEPT ![t] = n]
        BY <1>4 DEF WriteUnset, Enter
      <4> HIDE DEF Word, Entries
      <4> QED
        BY <4>1 DEF TypeOK
    <3>3. clus' \in [Threads -> Entries]
      <4>1. clus' = clus \/ \E c \in Entries : clus' = [clus EXCEPT ![t] = c]
        BY <1>4 DEF WriteUnset, Enter
      <4> HIDE DEF Word, Entries
      <4> QED
        BY <4>1 DEF TypeOK
    <3>4. left' \in [Threads -> 0 .. MaxGrow]
      <4>1. left' = left \/ \E k \in 0 .. MaxGrow : left' = [left EXCEPT ![t] = k]
        BY <1>4 DEF WriteUnset, Enter
      <4> HIDE DEF Word, Entries
      <4> QED
        BY <4>1 DEF TypeOK
    <3>5. edge' \in {"inside", "past"}
      BY <1>4 DEF WriteUnset, Enter, TypeOK, Numbers
    <3>6. UNCHANGED <<fat1, fat2, live, first, next, crashes>>
      BY <1>4 DEF WriteUnset, Enter
    <3> QED
      BY <3>1, <3>2, <3>3, <3>4, <3>5, <3>6 DEF TypeOK
  <2>2. Rest'
    BY <1>4 DEF WriteUnset, Enter, TypeOK, LinksAscend, Numbers
  <2>3. ASSUME NEW u \in Threads PROVE Numbers(u)'
    <3>1. CASE u # t
      <4>1. UNCHANGED <<pc[u], name[u], clus[u], next[u], left[u]>>
        BY <1>4, <3>1 DEF WriteUnset, Enter, TypeOK
      <4> QED
        BY <4>1 DEF Numbers
    <3>2. CASE u = t
      BY <1>4, <3>2 DEF WriteUnset, Enter, TypeOK, LinksAscend, Numbers
    <3> QED
      BY <3>1, <3>2
  <2> QED
    BY <2>1, <2>2, <2>3 DEF SharedInv
<1> QED
  BY <1>1, <1>2, <1>3, <1>4 DEF Begin

\* SharedInv is an invariant of the driver.
LEMMA SharedInvariant == Spec => []SharedInv
<1>1. Init => SharedInv
  BY SharedInit
<1>2. SharedInv /\ [Next]_vars => SharedInv'
  <2> SUFFICES ASSUME SharedInv, [Next]_vars PROVE SharedInv'
    OBVIOUS
  <2>1. CASE \E t \in Threads : Step(t)
    BY <2>1, SharedStep
  <2>2. CASE \E t \in Threads, n \in Names : Begin(t, n)
    BY <2>2, SharedBegin
  <2>3. CASE Crash
    BY <2>3, ConstantsAssumption DEF Crash, SharedInv, TypeOK, LinksAscend, Numbers
  <2>4. CASE UNCHANGED vars
    BY <2>4 DEF vars, SharedInv, TypeOK, LinksAscend, Numbers
  <2> QED
    BY <2>1, <2>2, <2>3, <2>4 DEF Next, Beyond
<1> QED
  BY <1>1, <1>2, PTL DEF Spec

\* The entries of the table and the numbers a thread holds stay in range, for
\* every number of threads and crashes: no handler of the driver takes a number
\* from the table, or counts one up, that the model's types do not allow.
THEOREM TypeCorrect == Spec => []TypeOK
<1>1. SharedInv => TypeOK
  BY DEF SharedInv
<1> QED
  BY <1>1, SharedInvariant, PTL

\* No interleaving of mknod, unlink and write, and no crash between two of their
\* writes, makes a chain of fat1 run in a circle.
THEOREM ChainsAscend == Spec => []LinksAscend
<1>1. SharedInv => LinksAscend
  BY DEF SharedInv
<1> QED
  BY <1>1, SharedInvariant, PTL

\* What one step of a handler does to the position of a loop.
LEMMA StepAdvances ==
  ASSUME SharedInv, NEW t \in Threads, Step(t), NEW u \in Threads,
         clus'[u] # clus[u], pc'[u] # "idle", pc[u] \in {"walk", "clear2"}
  PROVE  clus[u] < clus'[u]
<1> USE ConstantsAssumption
<1> SUFFICES ASSUME TypeOK, LinksAscend, \A s \in Threads : Numbers(s)
             PROVE  clus[u] < clus'[u]
  BY DEF SharedInv
<1>1. u = t
  BY DEF Step, Search, MknodEntry, MarkEnd, FreeLoad, FreeClear1, FreeClear2,
         UnlinkErase, Walk, Grow, Probe, Link, Follow, Return, TypeOK
<1>2. Walk(t) \/ FreeClear2(t)
  BY <1>1 DEF Step, Search, MknodEntry, MarkEnd, FreeLoad, FreeClear1,
         UnlinkErase, Grow, Probe, Link, Follow
<1>3. CASE Walk(t)
  <2>1. clus'[t] = fat1[clus[t]] /\ IsLink(fat1[clus[t]])
    BY <1>1, <1>3 DEF Walk, Return, TypeOK
  <2>2. clus[t] \in Clusters /\ fat1[clus[t]] \in Word
    BY <1>3 DEF Walk, TypeOK, Numbers
  <2> QED
    BY <1>1, <2>1, <2>2 DEF LinksAscend
<1>4. CASE FreeClear2(t)
  <2>1. clus'[t] = next[t] /\ IsLink(next[t])
    BY <1>1, <1>4 DEF FreeClear2, TypeOK
  <2> QED
    BY <1>1, <1>4, <2>1 DEF FreeClear2, Numbers
<1> QED
  BY <1>2, <1>3, <1>4

\* The loops of write_path and fat16_unlink only ever move to a higher cluster,
\* so each makes at most as many rounds as the volume has clusters, whatever
\* the other threads write into the table meanwhile.
THEOREM LoopsAdvance == Spec => ChainLoopsAdvance
<1>1. SharedInv /\ [Next]_vars => [Advance]_vars
  <2> SUFFICES ASSUME SharedInv, Next PROVE Advance
    OBVIOUS
  <2> SUFFICES ASSUME NEW u \in Threads, clus'[u] # clus[u], pc'[u] # "idle",
                      pc[u] \in {"walk", "clear2"}
               PROVE  clus[u] < clus'[u]
    BY DEF Advance
  <2>1. CASE \E t \in Threads : Step(t)
    BY <2>1, StepAdvances
  <2>2. CASE \E t \in Threads, n \in Names : Begin(t, n)
    <3>1. PICK t \in Threads, n \in Names : Begin(t, n)
      BY <2>2
    <3>2. pc[t] = "idle" /\ (clus' = clus \/ \E c : clus' = [clus EXCEPT ![t] = c])
      BY <3>1 DEF Begin, MknodStart, UnlinkStart, WriteStart, WriteUnset, Enter
    <3> QED
      BY <3>2 DEF SharedInv, TypeOK
  <2>3. CASE Crash
    BY <2>3 DEF Crash
  <2>4. CASE Beyond
    BY <2>4 DEF Beyond, vars
  <2> QED
    BY <2>1, <2>2, <2>3, <2>4 DEF Next
<1> QED
  BY <1>1, SharedInvariant, PTL DEF Spec, ChainLoopsAdvance

-----------------------------------------------------------------------------
(* SerialInv: one thread.  Each step is first reduced to what it does to   *)
(* the numbers of the thread and to the entries of the table, then the     *)
(* parts of the invariant follow one by one.                               *)

SerialParts(t) ==
  /\ ReservedIntact /\ HeadsInVolume /\ NoCrossLink
  /\ EntriesBacked /\ LinksBacked /\ UsedReferred /\ Position(t)

\* The search of fat16_mknod.
LEMMA SerialSearch ==
  ASSUME Alone, SerialInv, NEW t \in Threads, Search(t)
  PROVE  SerialParts(t)'
<1> USE ConstantsAssumption
<1>1. \A u \in Threads : u = t
  BY DEF Alone
<1>2. TypeOK /\ Numbers(t)
  BY DEF SerialInv, SharedInv
<1>3. SerialParts(t) /\ LinksAscend
  BY DEF SerialInv, SharedInv, SerialParts, HeadsInVolume
<1>4. fat1 \in [Entries -> Word] /\ first \in [Names -> Entries] /\ live \subseteq Names
  BY <1>2 DEF TypeOK
<1>5. /\ pc[t] = "search" /\ name'[t] = name[t] /\ UNCHANGED <<fat1, live, first>>
      /\ \/ pc'[t] = "entry" /\ clus'[t] = clus[t] /\ fat1[clus[t]] = 0
         \/ pc'[t] = "search"
  BY <1>2, <1>3 DEF Search, TypeOK, Numbers, SerialParts, Position
<1>6. ReservedIntact'
  BY <1>1, <1>3, <1>4, <1>5 DEF SerialParts, ReservedIntact
<1>7. HeadsInVolume'
  BY <1>1, <1>3, <1>4, <1>5 DEF SerialParts, HeadsInVolume, Position
<1>8. NoCrossLink'
  BY <1>1, <1>3, <1>4, <1>5 DEF SerialParts, NoCrossLink, HeadsInVolume, Position
<1>9. EntriesBacked'
  BY <1>1, <1>3, <1>4, <1>5 DEF SerialParts, EntriesBacked, Position, Unlinks
<1>10. LinksBacked'
  BY <1>1, <1>3, <1>4, <1>5 DEF SerialParts, LinksBacked, Position
<1>11. UsedReferred'
  BY <1>1, <1>3, <1>4, <1>5 DEF SerialParts, UsedReferred, Referred, Position
<1>12. Position(t)'
  BY <1>1, <1>3, <1>4, <1>5 DEF SerialParts, Position, OnlyFrom, Referred,
     Unlinks
<1> QED
  BY <1>6, <1>7, <1>8, <1>9, <1>10, <1>11, <1>12 DEF SerialParts

\* The entry is written while its cluster is still free.
LEMMA SerialMknodEntry ==
  ASSUME Alone, SerialInv, NEW t \in Threads, MknodEntry(t)
  PROVE  SerialParts(t)'
<1> USE ConstantsAssumption
<1>1. \A u \in Threads : u = t
  BY DEF Alone
<1>2. TypeOK /\ Numbers(t)
  BY DEF SerialInv, SharedInv
<1>3. SerialParts(t) /\ LinksAscend
  BY DEF SerialInv, SharedInv, SerialParts, HeadsInVolume
<1>4. fat1 \in [Entries -> Word] /\ first \in [Names -> Entries] /\ live \subseteq Names
  BY <1>2 DEF TypeOK
<1>5. /\ pc[t] = "entry" /\ pc'[t] = "mark" /\ UNCHANGED fat1
      /\ clus'[t] = clus[t] /\ name'[t] = name[t] /\ name[t] \in Names /\ clus[t] \in Clusters
      /\ live' = live \cup {name[t]} /\ first'[name[t]] = clus[t]
      /\ \A n \in live : n # name[t] => first'[n] = first[n]
  BY <1>2, <1>3 DEF MknodEntry, TypeOK, Numbers, SerialParts, Position
<1>6. ReservedIntact'
  BY <1>1, <1>3, <1>4, <1>5 DEF SerialParts, ReservedIntact
<1>7. HeadsInVolume'
  BY <1>1, <1>3, <1>4, <1>5 DEF SerialParts, HeadsInVolume, Position
<1>8. NoCrossLink'
  BY <1>1, <1>3, <1>4, <1>5 DEF SerialParts, NoCrossLink, HeadsInVolume, Position,
     EntriesBacked, LinksBacked
<1>9. EntriesBacked'
  BY <1>1, <1>3, <1>4, <1>5 DEF SerialParts, EntriesBacked, Position, Unlinks
<1>10. LinksBacked'
  BY <1>1, <1>3, <1>4, <1>5 DEF SerialParts, LinksBacked, Position
<1>11. UsedReferred'
  <2>1. \A c \in Clusters : fat1[c] # 0 => Referred(c)
    BY <1>1, <1>3, <1>5 DEF SerialParts, UsedReferred
  <2>2. \A n \in live : n \in live' /\ first'[n] = first[n]
    BY <1>3, <1>5 DEF SerialParts, Position
  <2>3. \A c \in Clusters : Referred(c) => Referred(c)'
    BY <1>5, <2>2 DEF Referred
  <2> QED
    BY <1>5, <2>1, <2>3 DEF UsedReferred
<1>12. Position(t)'
  BY <1>1, <1>3, <1>4, <1>5 DEF SerialParts, Position, OnlyFrom, Referred,
     Unlinks
<1> QED
  BY <1>6, <1>7, <1>8, <1>9, <1>10, <1>11, <1>12 DEF SerialParts

\* The mark makes the cluster that is referred to a used one.
LEMMA SerialMarkEnd ==
  ASSUME Alone, SerialInv, NEW t \in Threads, MarkEnd(t)
  PROVE  SerialParts(t)'
<1> USE ConstantsAssumption
<1>1. \A u \in Threads : u = t
  BY DEF Alone
<1>2. TypeOK /\ Numbers(t)
  BY DEF SerialInv, SharedInv
<1>3. SerialParts(t) /\ LinksAscend
  BY DEF SerialInv, SharedInv, SerialParts, HeadsInVolume
<1>4. fat1 \in [Entries -> Word] /\ first \in [Names -> Entries] /\ live \subseteq Names
  BY <1>2 DEF TypeOK
<1>5. /\ pc[t] = "mark" /\ pc'[t] = "idle" /\ UNCHANGED <<live, first>>
      /\ clus[t] \in Clusters /\ fat1'[clus[t]] = EOC
      /\ \A c \in Entries : c # clus[t] => fat1'[c] = fat1[c]
  BY <1>2, <1>3 DEF MarkEnd, Return, TypeOK, Numbers, SerialParts, Position
<1>6. ReservedIntact'
  BY <1>1, <1>3, <1>4, <1>5 DEF SerialParts, ReservedIntact
<1>7. HeadsInVolume'
  BY <1>1, <1>3, <1>4, <1>5 DEF SerialParts, HeadsInVolume, Position
<1>8. NoCrossLink'
  <2>1. \A c \in Clusters : fat1'[c] \in Clusters => fat1'[c] = fat1[c]
    BY <1>5
  <2> QED
    BY <1>3, <1>5, <2>1 DEF SerialParts, NoCrossLink
<1>9. EntriesBacked'
  BY <1>1, <1>3, <1>4, <1>5 DEF SerialParts, EntriesBacked, Position, Unlinks
<1>10. LinksBacked'
  BY <1>1, <1>3, <1>4, <1>5 DEF SerialParts, LinksBacked, Position, NoCrossLink
<1>11. UsedReferred'
  <2> SUFFICES ASSUME NEW c \in Clusters, fat1'[c] # 0
               PROVE  Referred(c)'
    BY DEF UsedReferred
  <2>1. fat1[clus[t]] \notin Clusters
    BY <1>3, <1>5 DEF SerialParts, Position
  <2>2. Referred(c)
    BY <1>1, <1>3, <1>5 DEF SerialParts, UsedReferred, Position
  <2>3. CASE \E n \in live : first[n] = c
    BY <1>5, <2>3 DEF Referred
  <2>4. CASE \E d \in Clusters : fat1[d] = c
    BY <1>5, <2>1, <2>4 DEF Referred
  <2> QED
    BY <2>2, <2>3, <2>4 DEF Referred
<1>12. Position(t)'
  BY <1>1, <1>3, <1>4, <1>5 DEF SerialParts, Position, OnlyFrom, Referred,
     Unlinks
<1> QED
  BY <1>6, <1>7, <1>8, <1>9, <1>10, <1>11, <1>12 DEF SerialParts

\* freeCluster has read the entry.
LEMMA SerialFreeLoad ==
  ASSUME Alone, SerialInv, NEW t \in Threads, FreeLoad(t)
  PROVE  SerialParts(t)'
<1> USE ConstantsAssumption
<1>1. \A u \in Threads : u = t
  BY DEF Alone
<1>2. TypeOK /\ Numbers(t)
  BY DEF SerialInv, SharedInv
<1>3. SerialParts(t) /\ LinksAscend
  BY DEF SerialInv, SharedInv, SerialParts, HeadsInVolume
<1>4. fat1 \in [Entries -> Word] /\ first \in [Names -> Entries] /\ live \subseteq Names
  BY <1>2 DEF TypeOK
<1>5. /\ pc[t] = "load" /\ pc'[t] = "clear1" /\ UNCHANGED <<fat1, live, first>>
      /\ clus'[t] = clus[t] /\ name'[t] = name[t] /\ next'[t] = fat1[clus[t]]
  BY <1>2, <1>3 DEF FreeLoad, TypeOK, Numbers, SerialParts, Position
<1>6. ReservedIntact'
  BY <1>1, <1>3, <1>4, <1>5 DEF SerialParts, ReservedIntact
<1>7. HeadsInVolume'
  BY <1>1, <1>3, <1>4, <1>5 DEF SerialParts, HeadsInVolume, Position
<1>8. NoCrossLink'
  BY <1>1, <1>3, <1>4, <1>5 DEF SerialParts, NoCrossLink, HeadsInVolume, Position
<1>9. EntriesBacked'
  BY <1>1, <1>3, <1>4, <1>5 DEF SerialParts, EntriesBacked, Position, Unlinks
<1>10. LinksBacked'
  BY <1>1, <1>3, <1>4, <1>5 DEF SerialParts, LinksBacked, Position
<1>11. UsedReferred'
  BY <1>1, <1>3, <1>4, <1>5 DEF SerialParts, UsedReferred, Referred, Position
<1>12. Position(t)'
  BY <1>1, <1>3, <1>4, <1>5 DEF SerialParts, Position, OnlyFrom, Referred,
     Unlinks
<1> QED
  BY <1>6, <1>7, <1>8, <1>9, <1>10, <1>11, <1>12 DEF SerialParts

\* The head of what is left of the chain is freed; next[t] remembers the rest.
LEMMA SerialFreeClear1 ==
  ASSUME Alone, SerialInv, NEW t \in Threads, FreeClear1(t)
  PROVE  SerialParts(t)'
<1> USE ConstantsAssumption
<1>1. \A u \in Threads : u = t
  BY DEF Alone
<1>2. TypeOK /\ Numbers(t)
  BY DEF SerialInv, SharedInv
<1>3. SerialParts(t) /\ LinksAscend
  BY DEF SerialInv, SharedInv, SerialParts, HeadsInVolume
<1>4. fat1 \in [Entries -> Word] /\ first \in [Names -> Entries] /\ live \subseteq Names
  BY <1>2 DEF TypeOK
<1>5. /\ pc[t] = "clear1" /\ pc'[t] = "clear2" /\ UNCHANGED <<live, first>>
      /\ clus'[t] = clus[t] /\ name'[t] = name[t] /\ next'[t] = next[t]
      /\ clus[t] \in Clusters /\ fat1'[clus[t]] = 0
      /\ \A c \in Entries : c # clus[t] => fat1'[c] = fat1[c]
  BY <1>2, <1>3 DEF FreeClear1, TypeOK, Numbers, SerialParts, Position
<1>6. ReservedIntact'
  BY <1>1, <1>3, <1>4, <1>5 DEF SerialParts, ReservedIntact
<1>7. HeadsInVolume'
  BY <1>1, <1>3, <1>4, <1>5 DEF SerialParts, HeadsInVolume, Position
<1>8. NoCrossLink'
  <2>1. \A c \in Clusters : fat1'[c] \in Clusters => fat1'[c] = fat1[c]
    BY <1>5
  <2> QED
    BY <1>3, <1>5, <2>1 DEF SerialParts, NoCrossLink
<1>9. EntriesBacked'
  BY <1>1, <1>3, <1>4, <1>5 DEF SerialParts, EntriesBacked, Position, Unlinks,
     OnlyFrom
<1>10. LinksBacked'
  <2> SUFFICES ASSUME NEW c \in Clusters, fat1'[c] \in Clusters, fat1'[fat1'[c]] = 0
               PROVE  FALSE
    BY <1>5 DEF LinksBacked
  <2>1. c # clus[t] /\ fat1'[c] = fat1[c]
    BY <1>5
  <2>2. fat1[c] # clus[t]
    BY <1>3, <1>5 DEF SerialParts, Position, OnlyFrom
  <2>3. fat1[fat1[c]] = 0
    BY <1>5, <2>1, <2>2
  <2> QED
    BY <1>1, <1>3, <1>5, <2>1, <2>3 DEF SerialParts, LinksBacked
<1>11. UsedReferred'
  <2> SUFFICES ASSUME NEW c \in Clusters, fat1'[c] # 0
               PROVE  Referred(c)' \/ next'[t] = c
    BY <1>5 DEF UsedReferred
  <2>1. c # clus[t] /\ fat1[c] # 0
    BY <1>5
  <2>2. Referred(c)
    BY <1>1, <1>3, <1>5, <2>1 DEF SerialParts, UsedReferred
  <2>3. CASE \E n \in live : first[n] = c
    BY <1>5, <2>3 DEF Referred
  <2>4. CASE \E d \in Clusters : fat1[d] = c
    BY <1>3, <1>5, <2>4 DEF SerialParts, Position, Referred
  <2> QED
    BY <2>2, <2>3, <2>4 DEF Referred
<1>12. Position(t)'
  BY <1>1, <1>3, <1>4, <1>5 DEF SerialParts, Position, OnlyFrom, Referred,
     Unlinks, NoCrossLink, LinksBacked, HeadsInVolume
<1> QED
  BY <1>6, <1>7, <1>8, <1>9, <1>10, <1>11, <1>12 DEF SerialParts

\* The loop moves on to the rest of the chain, or ends.
LEMMA SerialFreeClear2 ==
  ASSUME Alone, SerialInv, NEW t \in Threads, FreeClear2(t)
  PROVE  SerialParts(t)'
<1> USE ConstantsAssumption
<1>1. \A u \in Threads : u = t
  BY DEF Alone
<1>2. TypeOK /\ Numbers(t)
  BY DEF SerialInv, SharedInv
<1>3. SerialParts(t) /\ LinksAscend
  BY DEF SerialInv, SharedInv, SerialParts, HeadsInVolume
<1>4. fat1 \in [Entries -> Word] /\ first \in [Names -> Entries] /\ live \subseteq Names
  BY <1>2 DEF TypeOK
<1>5. /\ pc[t] = "clear2" /\ name'[t] = name[t] /\ UNCHANGED <<fat1, live, first>>
      /\ \/ pc'[t] = "load" /\ clus'[t] = next[t] /\ next[t] \in Clusters
         \/ pc'[t] = "erase" /\ next[t] \notin Clusters
  BY <1>2, <1>3 DEF FreeClear2, TypeOK, Numbers, SerialParts, Position
<1>6. ReservedIntact'
  BY <1>1, <1>3, <1>4, <1>5 DEF SerialParts, ReservedIntact
<1>7. HeadsInVolume'
  BY <1>1, <1>3, <1>4, <1>5 DEF SerialParts, HeadsInVolume, Position
<1>8. NoCrossLink'
  BY <1>1, <1>3, <1>4, <1>5 DEF SerialParts, NoCrossLink, HeadsInVolume, Position
<1>9. EntriesBacked'
  BY <1>1, <1>3, <1>4, <1>5 DEF SerialParts, EntriesBacked, Position, Unlinks,
     HeadsInVolume
<1>10. LinksBacked'
  BY <1>1, <1>3, <1>4, <1>5 DEF SerialParts, LinksBacked, Position
<1>11. UsedReferred'
  BY <1>1, <1>3, <1>4, <1>5 DEF SerialParts, UsedReferred, Referred, Position
<1>12. Position(t)'
  BY <1>1, <1>3, <1>4, <1>5 DEF SerialParts, Position, OnlyFrom, Referred,
     Unlinks
<1> QED
  BY <1>6, <1>7, <1>8, <1>9, <1>10, <1>11, <1>12 DEF SerialParts

\* The entry goes after its chain.
LEMMA SerialUnlinkErase ==
  ASSUME Alone, SerialInv, NEW t \in Threads, UnlinkErase(t)
  PROVE  SerialParts(t)'
<1> USE ConstantsAssumption
<1>1. \A u \in Threads : u = t
  BY DEF Alone
<1>2. TypeOK /\ Numbers(t)
  BY DEF SerialInv, SharedInv
<1>3. SerialParts(t) /\ LinksAscend
  BY DEF SerialInv, SharedInv, SerialParts, HeadsInVolume
<1>4. fat1 \in [Entries -> Word] /\ first \in [Names -> Entries] /\ live \subseteq Names
  BY <1>2 DEF TypeOK
<1>5. /\ pc[t] = "erase" /\ pc'[t] = "idle" /\ UNCHANGED <<fat1, first>>
      /\ live' = live \ {name[t]}
  BY <1>2, <1>3 DEF UnlinkErase, Return, TypeOK, Numbers, SerialParts,
     Position, Alone
<1>6. ReservedIntact'
  BY <1>1, <1>3, <1>4, <1>5 DEF SerialParts, ReservedIntact
<1>7. HeadsInVolume'
  BY <1>1, <1>3, <1>4, <1>5 DEF SerialParts, HeadsInVolume, Position
<1>8. NoCrossLink'
  BY <1>1, <1>3, <1>4, <1>5 DEF SerialParts, NoCrossLink, HeadsInVolume, Position
<1>9. EntriesBacked'
  BY <1>1, <1>3, <1>4, <1>5 DEF SerialParts, EntriesBacked, Position, Unlinks
<1>10. LinksBacked'
  BY <1>1, <1>3, <1>4, <1>5 DEF SerialParts, LinksBacked, Position
<1>11. UsedReferred'
  BY <1>1, <1>3, <1>4, <1>5 DEF SerialParts, UsedReferred, Referred, Position,
     HeadsInVolume
<1>12. Position(t)'
  BY <1>1, <1>3, <1>4, <1>5 DEF SerialParts, Position, OnlyFrom, Referred,
     Unlinks
<1> QED
  BY <1>6, <1>7, <1>8, <1>9, <1>10, <1>11, <1>12 DEF SerialParts

\* The walk stays on the chain of the file.
LEMMA SerialWalk ==
  ASSUME Alone, SerialInv, NEW t \in Threads, Walk(t)
  PROVE  SerialParts(t)'
<1> USE ConstantsAssumption
<1>1. \A u \in Threads : u = t
  BY DEF Alone
<1>2. TypeOK /\ Numbers(t)
  BY DEF SerialInv, SharedInv
<1>3. SerialParts(t) /\ LinksAscend
  BY DEF SerialInv, SharedInv, SerialParts, HeadsInVolume
<1>4. fat1 \in [Entries -> Word] /\ first \in [Names -> Entries] /\ live \subseteq Names
  BY <1>2 DEF TypeOK
<1>5. /\ pc[t] = "walk" /\ clus[t] \in Clusters /\ UNCHANGED <<fat1, live, first>>
      /\ \/ pc'[t] = "walk" /\ clus'[t] = fat1[clus[t]] /\ fat1[clus[t]] \in Clusters
         \/ pc'[t] = "grow" /\ clus'[t] = clus[t] /\ fat1[clus[t]] \notin Clusters
         \/ pc'[t] = "idle"
  BY <1>2, <1>3 DEF Walk, Return, TypeOK, Numbers, SerialParts, Position
<1>6. ReservedIntact'
  BY <1>1, <1>3, <1>4, <1>5 DEF SerialParts, ReservedIntact
<1>7. HeadsInVolume'
  BY <1>1, <1>3, <1>4, <1>5 DEF SerialParts, HeadsInVolume, Position
<1>8. NoCrossLink'
  BY <1>1, <1>3, <1>4, <1>5 DEF SerialParts, NoCrossLink, HeadsInVolume, Position
<1>9. EntriesBacked'
  BY <1>1, <1>3, <1>4, <1>5 DEF SerialParts, EntriesBacked, Position, Unlinks
<1>10. LinksBacked'
  BY <1>1, <1>3, <1>4, <1>5 DEF SerialParts, LinksBacked, Position
<1>11. UsedReferred'
  BY <1>1, <1>3, <1>4, <1>5 DEF SerialParts, UsedReferred, Referred, Position
<1>12. Position(t)'
  BY <1>1, <1>3, <1>4, <1>5 DEF SerialParts, Position, OnlyFrom, Referred,
     Unlinks
<1> QED
  BY <1>6, <1>7, <1>8, <1>9, <1>10, <1>11, <1>12 DEF SerialParts

\* The search for a successor begins.
LEMMA SerialGrow ==
  ASSUME Alone, SerialInv, NEW t \in Threads, Grow(t)
  PROVE  SerialParts(t)'
<1> USE ConstantsAssumption
<1>1. \A u \in Threads : u = t
  BY DEF Alone
<1>2. TypeOK /\ Numbers(t)
  BY DEF SerialInv, SharedInv
<1>3. SerialParts(t) /\ LinksAscend
  BY DEF SerialInv, SharedInv, SerialParts, HeadsInVolume
<1>4. fat1 \in [Entries -> Word] /\ first \in [Names -> Entries] /\ live \subseteq Names
  BY <1>2 DEF TypeOK
<1>5. /\ pc[t] = "grow" /\ clus'[t] = clus[t] /\ UNCHANGED <<fat1, live, first>>
      /\ pc'[t] \in {"grow", "probe"}
  BY <1>2, <1>3 DEF Grow, TypeOK, Numbers, SerialParts, Position
<1>6. ReservedIntact'
  BY <1>1, <1>3, <1>4, <1>5 DEF SerialParts, ReservedIntact
<1>7. HeadsInVolume'
  BY <1>1, <1>3, <1>4, <1>5 DEF SerialParts, HeadsInVolume, Position
<1>8. NoCrossLink'
  BY <1>1, <1>3, <1>4, <1>5 DEF SerialParts, NoCrossLink, HeadsInVolume, Position
<1>9. EntriesBacked'
  BY <1>1, <1>3, <1>4, <1>5 DEF SerialParts, EntriesBacked, Position, Unlinks
<1>10. LinksBacked'
  BY <1>1, <1>3, <1>4, <1>5 DEF SerialParts, LinksBacked, Position
<1>11. UsedReferred'
  BY <1>1, <1>3, <1>4, <1>5 DEF SerialParts, UsedReferred, Referred, Position
<1>12. Position(t)'
  BY <1>1, <1>3, <1>4, <1>5 DEF SerialParts, Position, OnlyFrom, Referred,
     Unlinks
<1> QED
  BY <1>6, <1>7, <1>8, <1>9, <1>10, <1>11, <1>12 DEF SerialParts

\* The search for a successor.
LEMMA SerialProbe ==
  ASSUME Alone, SerialInv, NEW t \in Threads, Probe(t)
  PROVE  SerialParts(t)'
<1> USE ConstantsAssumption
<1>1. \A u \in Threads : u = t
  BY DEF Alone
<1>2. TypeOK /\ Numbers(t)
  BY DEF SerialInv, SharedInv
<1>3. SerialParts(t) /\ LinksAscend
  BY DEF SerialInv, SharedInv, SerialParts, HeadsInVolume
<1>4. fat1 \in [Entries -> Word] /\ first \in [Names -> Entries] /\ live \subseteq Names
  BY <1>2 DEF TypeOK
<1>5. /\ pc[t] = "probe" /\ clus'[t] = clus[t] /\ UNCHANGED <<fat1, live, first>>
      /\ \/ pc'[t] = "probe"
         \/ pc'[t] = "link" /\ next'[t] = next[t] /\ fat1[next[t]] = 0
  BY <1>2, <1>3 DEF Probe, TypeOK, Numbers, SerialParts, Position
<1>6. ReservedIntact'
  BY <1>1, <1>3, <1>4, <1>5 DEF SerialParts, ReservedIntact
<1>7. HeadsInVolume'
  BY <1>1, <1>3, <1>4, <1>5 DEF SerialParts, HeadsInVolume, Position
<1>8. NoCrossLink'
  BY <1>1, <1>3, <1>4, <1>5 DEF SerialParts, NoCrossLink, HeadsInVolume, Position
<1>9. EntriesBacked'
  BY <1>1, <1>3, <1>4, <1>5 DEF SerialParts, EntriesBacked, Position, Unlinks
<1>10. LinksBacked'
  BY <1>1, <1>3, <1>4, <1>5 DEF SerialParts, LinksBacked, Position
<1>11. UsedReferred'
  BY <1>1, <1>3, <1>4, <1>5 DEF SerialParts, UsedReferred, Referred, Position
<1>12. Position(t)'
  BY <1>1, <1>3, <1>4, <1>5 DEF SerialParts, Position, OnlyFrom, Referred,
     Unlinks
<1> QED
  BY <1>6, <1>7, <1>8, <1>9, <1>10, <1>11, <1>12 DEF SerialParts

\* The link is written while the cluster it leads to is still free.
LEMMA SerialLink ==
  ASSUME Alone, SerialInv, NEW t \in Threads, Link(t)
  PROVE  SerialParts(t)'
<1> USE ConstantsAssumption
<1>1. \A u \in Threads : u = t
  BY DEF Alone
<1>2. TypeOK /\ Numbers(t)
  BY DEF SerialInv, SharedInv
<1>3. SerialParts(t) /\ LinksAscend
  BY DEF SerialInv, SharedInv, SerialParts, HeadsInVolume
<1>4. fat1 \in [Entries -> Word] /\ first \in [Names -> Entries] /\ live \subseteq Names
  BY <1>2 DEF TypeOK
<1>5. /\ pc[t] = "link" /\ pc'[t] = "follow" /\ UNCHANGED <<live, first>>
      /\ clus'[t] = clus[t] /\ next'[t] = next[t] /\ next[t] \in Clusters /\ next[t] # clus[t]
      /\ clus[t] \in Clusters /\ fat1'[clus[t]] = next[t]
      /\ \A c \in Entries : c # clus[t] => fat1'[c] = fat1[c]
  BY <1>2, <1>3 DEF Link, TypeOK, Numbers, SerialParts, Position
<1>6. ReservedIntact'
  BY <1>1, <1>3, <1>4, <1>5 DEF SerialParts, ReservedIntact
<1>7. HeadsInVolume'
  BY <1>1, <1>3, <1>4, <1>5 DEF SerialParts, HeadsInVolume, Position
<1>8. NoCrossLink'
  <2>1. \A d \in Clusters : fat1[d] # next[t]
    BY <1>1, <1>3, <1>5 DEF SerialParts, LinksBacked, Position
  <2>2. \A n \in live : first[n] # next[t]
    BY <1>1, <1>3, <1>5 DEF SerialParts, EntriesBacked, Position, Unlinks
  <2>3. ASSUME NEW c \in Clusters, NEW d \in Clusters, fat1'[c] = fat1'[d], fat1'[c] \in Clusters
        PROVE  c = d
    BY <1>3, <1>5, <2>1, <2>3 DEF SerialParts, NoCrossLink
  <2>4. ASSUME NEW n \in live, NEW c \in Clusters, fat1'[c] \in Clusters
        PROVE  fat1'[c] # first[n]
    BY <1>3, <1>5, <2>2, <2>4 DEF SerialParts, NoCrossLink
  <2> QED
    BY <1>3, <1>5, <2>3, <2>4 DEF SerialParts, NoCrossLink
<1>9. EntriesBacked'
  BY <1>1, <1>3, <1>4, <1>5 DEF SerialParts, EntriesBacked, Position, Unlinks
<1>10. LinksBacked'
  <2> SUFFICES ASSUME NEW c \in Clusters, c # clus[t], fat1'[c] \in Clusters, fat1'[fat1'[c]] = 0
               PROVE  FALSE
    BY <1>5 DEF LinksBacked
  <2>1. fat1'[c] = fat1[c]
    BY <1>5
  <2>2. fat1[c] # clus[t] /\ fat1[fat1[c]] = 0
    BY <1>5, <2>1
  <2> QED
    BY <1>1, <1>3, <1>5, <2>1, <2>2 DEF SerialParts, LinksBacked
<1>11. UsedReferred'
  <2> SUFFICES ASSUME NEW c \in Clusters, fat1'[c] # 0
               PROVE  Referred(c)'
    BY DEF UsedReferred
  <2>1. fat1[clus[t]] \notin Clusters
    BY <1>3, <1>5 DEF SerialParts, Position
  <2>2. Referred(c)
    BY <1>1, <1>3, <1>5 DEF SerialParts, UsedReferred, Position
  <2>3. CASE \E n \in live : first[n] = c
    BY <1>5, <2>3 DEF Referred
  <2>4. CASE \E d \in Clusters : fat1[d] = c
    BY <1>5, <2>1, <2>4 DEF Referred
  <2> QED
    BY <2>2, <2>3, <2>4 DEF Referred
<1>12. Position(t)'
  BY <1>1, <1>3, <1>4, <1>5 DEF SerialParts, Position, OnlyFrom, Referred,
     Unlinks
<1> QED
  BY <1>6, <1>7, <1>8, <1>9, <1>10, <1>11, <1>12 DEF SerialParts

\* The new cluster becomes the end of the chain.
LEMMA SerialFollow ==
  ASSUME Alone, SerialInv, NEW t \in Threads, Follow(t)
  PROVE  SerialParts(t)'
<1> USE ConstantsAssumption
<1>1. \A u \in Threads : u = t
  BY DEF Alone
<1>2. TypeOK /\ Numbers(t)
  BY DEF SerialInv, SharedInv
<1>3. SerialParts(t) /\ LinksAscend
  BY DEF SerialInv, SharedInv, SerialParts, HeadsInVolume
<1>4. fat1 \in [Entries -> Word] /\ first \in [Names -> Entries] /\ live \subseteq Names
  BY <1>2 DEF TypeOK
<1>5. /\ pc[t] = "follow" /\ UNCHANGED <<fat1, live, first>>
      /\ pc'[t] \in {"grow", "mark"} /\ clus'[t] = next[t] /\ clus[t] \in Clusters
      /\ fat1[clus[t]] = next[t] /\ next[t] \in Clusters
  BY <1>2, <1>3 DEF Follow, TypeOK, Numbers, SerialParts, Position
<1>6. ReservedIntact'
  BY <1>1, <1>3, <1>4, <1>5 DEF SerialParts, ReservedIntact
<1>7. HeadsInVolume'
  BY <1>1, <1>3, <1>4, <1>5 DEF SerialParts, HeadsInVolume, Position
<1>8. NoCrossLink'
  BY <1>1, <1>3, <1>4, <1>5 DEF SerialParts, NoCrossLink, HeadsInVolume, Position
<1>9. EntriesBacked'
  BY <1>1, <1>3, <1>4, <1>5 DEF SerialParts, EntriesBacked, Position, Unlinks
<1>10. LinksBacked'
  BY <1>1, <1>3, <1>4, <1>5 DEF SerialParts, LinksBacked, Position
<1>11. UsedReferred'
  BY <1>1, <1>3, <1>4, <1>5 DEF SerialParts, UsedReferred, Referred, Position
<1>12. Position(t)'
  BY <1>1, <1>3, <1>4, <1>5 DEF SerialParts, Position, OnlyFrom, Referred,
     Unlinks
<1> QED
  BY <1>6, <1>7, <1>8, <1>9, <1>10, <1>11, <1>12 DEF SerialParts

\* fat16_mknod is called.
LEMMA SerialMknodStart ==
  ASSUME Alone, SerialInv, NEW t \in Threads, NEW n \in Names, MknodStart(t, n)
  PROVE  SerialParts(t)'
<1> USE ConstantsAssumption
<1>1. \A u \in Threads : u = t
  BY DEF Alone
<1>2. TypeOK /\ Numbers(t)
  BY DEF SerialInv, SharedInv
<1>3. SerialParts(t) /\ LinksAscend
  BY DEF SerialInv, SharedInv, SerialParts, HeadsInVolume
<1>4. fat1 \in [Entries -> Word] /\ first \in [Names -> Entries] /\ live \subseteq Names
  BY <1>2 DEF TypeOK
<1>5. /\ pc[t] = "idle" /\ pc'[t] = "search" /\ UNCHANGED <<fat1, live, first>>
      /\ name'[t] = n /\ n \notin live
  BY <1>2, <1>3 DEF MknodStart, Enter, TypeOK, Numbers, SerialParts, Position
<1>6. ReservedIntact'
  BY <1>1, <1>3, <1>4, <1>5 DEF SerialParts, ReservedIntact
<1>7. HeadsInVolume'
  BY <1>1, <1>3, <1>4, <1>5 DEF SerialParts, HeadsInVolume, Position
<1>8. NoCrossLink'
  BY <1>1, <1>3, <1>4, <1>5 DEF SerialParts, NoCrossLink, HeadsInVolume, Position
<1>9. EntriesBacked'
  BY <1>1, <1>3, <1>4, <1>5 DEF SerialParts, EntriesBacked, Position, Unlinks
<1>10. LinksBacked'
  BY <1>1, <1>3, <1>4, <1>5 DEF SerialParts, LinksBacked, Position
<1>11. UsedReferred'
  BY <1>1, <1>3, <1>4, <1>5 DEF SerialParts, UsedReferred, Referred, Position
<1>12. Position(t)'
  BY <1>1, <1>3, <1>4, <1>5 DEF SerialParts, Position, OnlyFrom, Referred,
     Unlinks
<1> QED
  BY <1>6, <1>7, <1>8, <1>9, <1>10, <1>11, <1>12 DEF SerialParts

\* fat16_unlink is called.
LEMMA SerialUnlinkStart ==
  ASSUME Alone, SerialInv, NEW t \in Threads, NEW n \in Names, UnlinkStart(t, n)
  PROVE  SerialParts(t)'
<1> USE ConstantsAssumption
<1>1. \A u \in Threads : u = t
  BY DEF Alone
<1>2. TypeOK /\ Numbers(t)
  BY DEF SerialInv, SharedInv
<1>3. SerialParts(t) /\ LinksAscend
  BY DEF SerialInv, SharedInv, SerialParts, HeadsInVolume
<1>4. fat1 \in [Entries -> Word] /\ first \in [Names -> Entries] /\ live \subseteq Names
  BY <1>2 DEF TypeOK
<1>5. /\ pc[t] = "idle" /\ pc'[t] = "load" /\ UNCHANGED <<fat1, live, first>>
      /\ name'[t] = n /\ n \in live /\ clus'[t] = first[n]
  BY <1>2, <1>3 DEF UnlinkStart, Enter, TypeOK, Numbers, SerialParts, Position
<1>6. ReservedIntact'
  BY <1>1, <1>3, <1>4, <1>5 DEF SerialParts, ReservedIntact
<1>7. HeadsInVolume'
  BY <1>1, <1>3, <1>4, <1>5 DEF SerialParts, HeadsInVolume, Position
<1>8. NoCrossLink'
  BY <1>1, <1>3, <1>4, <1>5 DEF SerialParts, NoCrossLink, HeadsInVolume, Position
<1>9. EntriesBacked'
  BY <1>1, <1>3, <1>4, <1>5 DEF SerialParts, EntriesBacked, Position, Unlinks
<1>10. LinksBacked'
  BY <1>1, <1>3, <1>4, <1>5 DEF SerialParts, LinksBacked, Position
<1>11. UsedReferred'
  BY <1>1, <1>3, <1>4, <1>5 DEF SerialParts, UsedReferred, Referred, Position
<1>12. Position(t)'
  BY <1>1, <1>3, <1>4, <1>5 DEF SerialParts, Position, OnlyFrom, Referred,
     Unlinks, NoCrossLink, EntriesBacked, HeadsInVolume
<1> QED
  BY <1>6, <1>7, <1>8, <1>9, <1>10, <1>11, <1>12 DEF SerialParts

\* write_path is called for a file that has clusters.
LEMMA SerialWriteStart ==
  ASSUME Alone, SerialInv, NEW t \in Threads, NEW n \in Names, WriteStart(t, n)
  PROVE  SerialParts(t)'
<1> USE ConstantsAssumption
<1>1. \A u \in Threads : u = t
  BY DEF Alone
<1>2. TypeOK /\ Numbers(t)
  BY DEF SerialInv, SharedInv
<1>3. SerialParts(t) /\ LinksAscend
  BY DEF SerialInv, SharedInv, SerialParts, HeadsInVolume
<1>4. fat1 \in [Entries -> Word] /\ first \in [Names -> Entries] /\ live \subseteq Names
  BY <1>2 DEF TypeOK
<1>5. /\ pc[t] = "idle" /\ pc'[t] = "walk" /\ UNCHANGED <<fat1, live, first>>
      /\ name'[t] = n /\ n \in live /\ clus'[t] = first[n]
  BY <1>2, <1>3 DEF WriteStart, Enter, TypeOK, Numbers, SerialParts, Position
<1>6. ReservedIntact'
  BY <1>1, <1>3, <1>4, <1>5 DEF SerialParts, ReservedIntact
<1>7. HeadsInVolume'
  BY <1>1, <1>3, <1>4, <1>5 DEF SerialParts, HeadsInVolume, Position
<1>8. NoCrossLink'
  BY <1>1, <1>3, <1>4, <1>5 DEF SerialParts, NoCrossLink, HeadsInVolume, Position
<1>9. EntriesBacked'
  BY <1>1, <1>3, <1>4, <1>5 DEF SerialParts, EntriesBacked, Position, Unlinks
<1>10. LinksBacked'
  BY <1>1, <1>3, <1>4, <1>5 DEF SerialParts, LinksBacked, Position
<1>11. UsedReferred'
  BY <1>1, <1>3, <1>4, <1>5 DEF SerialParts, UsedReferred, Referred, Position
<1>12. Position(t)'
  BY <1>1, <1>3, <1>4, <1>5 DEF SerialParts, Position, OnlyFrom, Referred,
     Unlinks, HeadsInVolume
<1> QED
  BY <1>6, <1>7, <1>8, <1>9, <1>10, <1>11, <1>12 DEF SerialParts


\* The images the driver mounts satisfy the invariant.
LEMMA SerialInit ==
  ASSUME Alone, Init
  PROVE  SerialInv
<1> USE ConstantsAssumption
<1>1. SharedInv
  BY SharedInit
<1>2. NoCrossLink /\ Backed /\ Reached /\ (\A t \in Threads : pc[t] = "idle")
  BY DEF Init
<1>3. ReservedIntact
  BY DEF Init, ReservedIntact
<1>4. HeadsInVolume
  BY DEF Alone, Init, HeadsInVolume
<1>5. EntriesBacked /\ LinksBacked /\ UsedReferred
  BY <1>2, <1>4 DEF Backed, Reached, HeadsInVolume, EntriesBacked, LinksBacked,
     UsedReferred, Referred
<1>6. ASSUME NEW t \in Threads PROVE Position(t)
  BY <1>2 DEF Position, Unlinks
<1> QED
  BY <1>1, <1>2, <1>3, <1>4, <1>5, <1>6 DEF SerialInv, HeadsInVolume

\* With one thread at work SerialInv is an invariant of the driver.
LEMMA SerialInvariant ==
  ASSUME Alone
  PROVE  Spec => []SerialInv
<1>1. Init => SerialInv
  BY SerialInit
<1>2. SharedInv' /\ SerialInv /\ [Next]_vars => SerialInv'
  <2> SUFFICES ASSUME SharedInv', SerialInv, [Next]_vars PROVE SerialInv'
    OBVIOUS
  <2>1. ASSUME NEW t \in Threads, SerialParts(t)' PROVE SerialInv'
    <3>1. \A u \in Threads : Position(u)'
      BY <2>1 DEF Alone, SerialParts
    <3> QED
      BY <2>1, <3>1 DEF SerialInv, SerialParts, HeadsInVolume
  <2>2. CASE \E t \in Threads : Step(t)
    <3>1. PICK t \in Threads : Step(t)
      BY <2>2
    <3>2. SerialParts(t)'
      BY <3>1, SerialSearch, SerialMknodEntry, SerialMarkEnd, SerialFreeLoad,
         SerialFreeClear1, SerialFreeClear2, SerialUnlinkErase, SerialWalk,
         SerialGrow, SerialProbe, SerialLink, SerialFollow DEF Step
    <3> QED
      BY <2>1, <3>2
  <2>3. CASE \E t \in Threads, n \in Names : Begin(t, n)
    <3>1. PICK t \in Threads, n \in Names : Begin(t, n)
      BY <2>3
    <3>2. ~WriteUnset(t, n)
      BY ConstantsAssumption DEF WriteUnset, SerialInv, HeadsInVolume
    <3>3. SerialParts(t)'
      BY <3>1, <3>2, SerialMknodStart, SerialUnlinkStart, SerialWriteStart
         DEF Begin
    <3> QED
      BY <2>1, <3>3
  <2>4. CASE Crash
    BY <2>4 DEF Crash, Alone, SerialInv, SharedInv, TypeOK
  <2>5. CASE UNCHANGED vars
    BY <2>5 DEF vars, SerialInv, HeadsInVolume, ReservedIntact, NoCrossLink, EntriesBacked,
                LinksBacked, UsedReferred, Referred, Position, OnlyFrom
  <2> QED
    BY <2>2, <2>3, <2>4, <2>5 DEF Next, Beyond
<1> QED
  BY <1>1, <1>2, SharedInvariant, PTL DEF Spec

\* One handler at a time, no two of the entries and links of the table refer to
\* one cluster: fat16_mknod and write_path never give out a cluster that a
\* chain still holds.
THEOREM NeverCrossLinked ==
  ASSUME Alone
  PROVE  Spec => []NoCrossLink
<1>1. SerialInv => NoCrossLink
  BY DEF SerialInv
<1> QED
  BY <1>1, SerialInvariant, PTL

\* One handler at a time, fat16_unlink and fat16_mknod leave no entry and no
\* link that leads to a free cluster.
THEOREM NeverDangling ==
  ASSUME Alone
  PROVE  Spec => []NoDangling
<1>1. SerialInv => NoDangling
  BY DEF SerialInv, NoDangling, Quiet, Backed, EntriesBacked, LinksBacked,
     Unlinks
<1> QED
  BY <1>1, SerialInvariant, PTL

\* One handler at a time, the loops of fat16_unlink and write_path leave no
\* cluster in use that no chain leads to.
THEOREM NeverLeaked ==
  ASSUME Alone
  PROVE  Spec => []NoLeak
<1>1. SerialInv => NoLeak
  BY DEF SerialInv, NoLeak, Quiet, Reached, UsedReferred, Referred
<1> QED
  BY <1>1, SerialInvariant, PTL

\* One handler at a time, a kill finds at most one reference to a free cluster
\* and at most one lost chain: they are what the thread has in its hands.
THEOREM HarmedOnce ==
  ASSUME Alone
  PROVE  Spec => []HarmBounded
<1>1. ASSUME SerialInv PROVE HarmBounded
  <2>1. EntriesBacked /\ LinksBacked /\ UsedReferred /\ NoCrossLink /\ TypeOK
    BY <1>1 DEF SerialInv, SharedInv
  <2>2. ASSUME NEW n \in BadEntries PROVE BadLinks = {} /\ \E t \in Threads : name[t] = n
    <3>1. PICK t \in Threads : /\ name[t] = n
                               /\ pc[t] \in Unlinks \/ (pc[t] = "mark" /\ clus[t] = first[n])
      BY <2>1, <2>2 DEF BadEntries, EntriesBacked
    <3>2. ASSUME NEW c \in BadLinks PROVE FALSE
      <4>1. \/ pc[t] = "follow" /\ clus[t] = c
            \/ pc[t] \in {"grow", "probe", "link", "mark"} /\ clus[t] = fat1[c]
        BY <2>1, <3>2 DEF BadLinks, LinksBacked, Alone
      <4>2. fat1[c] # first[n] /\ n \in live /\ c \in Clusters /\ fat1[c] \in Clusters
        BY <2>1, <2>2, <3>2 DEF BadLinks, BadEntries, NoCrossLink
      <4> QED
        BY <3>1, <4>1, <4>2 DEF Unlinks
    <3> QED
      BY <3>1, <3>2
  <2>3. ASSUME NEW c \in BadLinks, NEW d \in BadLinks PROVE c = d
    <3>1. c \in Clusters /\ d \in Clusters /\ (fat1[c] = fat1[d] => c = d)
      BY <2>1, <2>3 DEF BadLinks, NoCrossLink
    <3>2. PICK t \in Threads : \/ pc[t] = "follow" /\ clus[t] = c
                               \/ pc[t] \in {"grow", "probe", "link", "mark"} /\ clus[t] = fat1[c]
      BY <2>1, <2>3 DEF BadLinks, LinksBacked
    <3>3. \/ pc[t] = "follow" /\ clus[t] = d
          \/ pc[t] \in {"grow", "probe", "link", "mark"} /\ clus[t] = fat1[d]
      BY <2>1, <2>3 DEF BadLinks, LinksBacked, Alone
    <3> QED
      BY <3>1, <3>2, <3>3
  <2>4. ASSUME NEW c \in LostChains, NEW d \in LostChains PROVE c = d
    <3> HIDE DEF Clusters
    <3>0. ASSUME NEW e \in LostChains PROVE e \in Clusters /\ fat1[e] # 0 /\ ~Referred(e)
      <4>1. /\ e \in Clusters /\ fat1[e] # 0
            /\ \A n \in live : first[n] # e
            /\ \A k \in Clusters : fat1[k] # e
        BY <3>0 DEF LostChains
      <4> QED
        BY <4>1 DEF Referred
    <3>1. c \in Clusters /\ d \in Clusters /\ fat1[c] # 0 /\ fat1[d] # 0
          /\ ~Referred(c) /\ ~Referred(d)
      BY <2>4, <3>0
    <3>2. PICK t \in Threads : \/ pc[t] \in {"load", "clear1"} /\ clus[t] = c
                               \/ pc[t] = "clear2" /\ next[t] = c
      BY <2>1, <3>1, Zenon DEF UsedReferred
    <3>3. \E u \in Threads : \/ pc[u] \in {"load", "clear1"} /\ clus[u] = d
                             \/ pc[u] = "clear2" /\ next[u] = d
      BY <2>1, <3>1, Zenon DEF UsedReferred
    <3>4. \/ pc[t] \in {"load", "clear1"} /\ clus[t] = d
          \/ pc[t] = "clear2" /\ next[t] = d
      BY <3>3 DEF Alone
    <3> QED
      BY <3>2, <3>4
  <2> QED
    BY <2>2, <2>3, <2>4 DEF HarmBounded
<1> QED
  BY <1>1, SerialInvariant, PTL

\* The searches of one handler at a time: what they have passed is in use, and
\* they leave the table only when there is nothing else.
LEMMA FullStep ==
  ASSUME Alone, SerialInv, FullInv, NEW t \in Threads, Step(t)
  PROVE  FullInv'
<1> USE ConstantsAssumption
<1>1. TypeOK /\ Position(t) /\ Numbers(t) /\ Scanned(t) /\ ~Overrun
  BY DEF SerialInv, SharedInv, FullInv, Step, Search, MknodEntry, MarkEnd, FreeLoad,
     FreeClear1, FreeClear2, UnlinkErase, Walk, Grow, Probe, Link, Follow, At
<1>2. SUFFICES PastOnlyWhenFull' /\ Scanned(t)'
  BY DEF Alone, FullInv
<1>3. CASE Search(t)
  BY <1>1, <1>3 DEF Search, Goto, RunPast, locals, At, TypeOK, Scanned, PastOnlyWhenFull,
     image, Numbers
<1>4. CASE Probe(t)
  BY <1>1, <1>4 DEF Probe, Goto, RunPast, locals, At, TypeOK, Scanned, PastOnlyWhenFull,
     image, Numbers
<1>5. CASE Grow(t)
  BY <1>1, <1>5 DEF Grow, Goto, RunPast, locals, At, TypeOK, Scanned, PastOnlyWhenFull,
     image, Numbers
<1>6. CASE Follow(t)
  <2>1. fat1[clus[t]] \in Entries
    BY <1>1, <1>6 DEF Follow, At, Position
  <2> QED
    BY <1>1, <1>6, <2>1 DEF Follow, Goto, At, TypeOK, Scanned, PastOnlyWhenFull
<1>7. CASE MknodEntry(t) \/ MarkEnd(t) \/ FreeLoad(t) \/ FreeClear1(t) \/ FreeClear2(t)
           \/ UnlinkErase(t) \/ Walk(t) \/ Link(t)
  <2>1. edge' = edge /\ pc'[t] \notin {"search", "probe"}
    BY <1>1, <1>7 DEF MknodEntry, MarkEnd, FreeLoad, FreeClear1, FreeClear2, UnlinkErase,
       Walk, Link, Goto, Return, TypeOK
  <2> QED
    BY <1>1, <2>1 DEF Scanned, PastOnlyWhenFull
<1> QED
  BY <1>3, <1>4, <1>5, <1>6, <1>7 DEF Step

\* One handler at a time, a search runs past the end of the volume only when
\* all clusters it might have taken are in use.
THEOREM LeavesOnlyFull ==
  ASSUME Alone
  PROVE  Spec => []PastOnlyWhenFull
<1> USE ConstantsAssumption
<1>1. Init => FullInv
  BY DEF Init, FullInv, PastOnlyWhenFull, Scanned
<1>2. SerialInv /\ FullInv /\ [Next]_vars => FullInv'
  <2> SUFFICES ASSUME SerialInv, FullInv, [Next]_vars PROVE FullInv'
    OBVIOUS
  <2>1. CASE \E t \in Threads : Step(t)
    BY <2>1, FullStep
  <2>2. CASE \E t \in Threads, n \in Names : Begin(t, n)
    <3>1. PICK t \in Threads, n \in Names : Begin(t, n)
      BY <2>2
    <3>2. ~WriteUnset(t, n)
      BY DEF SerialInv, HeadsInVolume, WriteUnset
    <3>3. TypeOK /\ edge' = edge /\ ~Overrun /\ pc'[t] # "probe"
          /\ (pc'[t] = "search" => clus'[t] = 2)
      BY <3>1, <3>2 DEF Begin, MknodStart, UnlinkStart, WriteStart, Enter, SerialInv,
         SharedInv, TypeOK
    <3> QED
      BY <3>3 DEF Alone, FullInv, PastOnlyWhenFull, Scanned
  <2>3. CASE Crash
    BY <2>3 DEF Crash, FullInv, PastOnlyWhenFull, Scanned
  <2>4. CASE Beyond \/ UNCHANGED vars
    BY <2>4 DEF Beyond, vars, image, locals, FullInv, PastOnlyWhenFull, Scanned
  <2> QED
    BY <2>1, <2>2, <2>3, <2>4 DEF Next
<1>3. FullInv => PastOnlyWhenFull
  BY DEF FullInv
<1> QED
  BY <1>1, <1>2, <1>3, SerialInvariant, PTL DEF Spec

-----------------------------------------------------------------------------
(* Chains: what ChainFrom holds, whatever the table.                       *)

\* A chain holds its first cluster and what its links lead to, and is the
\* least such set.
LEMMA ChainBasics ==
  ASSUME NEW f, NEW c \in Clusters
  PROVE  /\ ChainFrom(f, c) \subseteq Clusters
         /\ c \in ChainFrom(f, c)
         /\ LinksWithin(f, ChainFrom(f, c))
         /\ \A S \in SUBSET Clusters :
              c \in S /\ LinksWithin(f, S) => ChainFrom(f, c) \subseteq S
<1> HIDE DEF Clusters
<1>1. ChainFrom(f, c) \subseteq Clusters /\ c \in ChainFrom(f, c)
  BY DEF ChainFrom
<1>2. LinksWithin(f, ChainFrom(f, c))
  BY Zenon DEF ChainFrom, LinksWithin
<1>3. ASSUME NEW S \in SUBSET Clusters, c \in S, LinksWithin(f, S)
      PROVE  ChainFrom(f, c) \subseteq S
  BY <1>3 DEF ChainFrom
<1> QED
  BY <1>1, <1>2, <1>3

\* Two tables with the same links on a chain have the same chain.
LEMMA ChainAgree ==
  ASSUME NEW f, NEW g, NEW c \in Clusters,
         \A d \in ChainFrom(f, c) :
           f[d] \in Clusters \/ g[d] \in Clusters => f[d] = g[d]
  PROVE  ChainFrom(g, c) = ChainFrom(f, c)
<1> HIDE DEF Clusters
<1> DEFINE A == ChainFrom(f, c)
           B == ChainFrom(g, c)
<1>1. /\ A \subseteq Clusters /\ c \in A /\ LinksWithin(f, A)
      /\ B \subseteq Clusters /\ c \in B /\ LinksWithin(g, B)
  BY ChainBasics
<1>2. LinksWithin(g, A)
  BY <1>1 DEF LinksWithin
<1>3. B \subseteq A
  BY <1>1, <1>2, ChainBasics
<1>4. LinksWithin(f, B)
  BY <1>1, <1>3 DEF LinksWithin
<1>5. A \subseteq B
  BY <1>1, <1>4, ChainBasics
<1> QED
  BY <1>3, <1>5

\* A link from the end of a chain to a cluster that leads nowhere adds at most
\* that cluster.
LEMMA ChainLinked ==
  ASSUME NEW f, NEW g, NEW c \in Clusters, NEW a \in Clusters, NEW b \in Clusters,
         f[a] \notin Clusters, f[b] \notin Clusters, a # b, g[a] = b,
         \A d \in Clusters : d # a => g[d] = f[d],
         NEW d \in Clusters, d # b
  PROVE  d \in ChainFrom(g, c) <=> d \in ChainFrom(f, c)
<1> HIDE DEF Clusters
<1> DEFINE A == ChainFrom(f, c)
           B == ChainFrom(g, c)
<1>1. /\ A \subseteq Clusters /\ c \in A /\ LinksWithin(f, A)
      /\ B \subseteq Clusters /\ c \in B /\ LinksWithin(g, B)
  BY ChainBasics
<1>2. LinksWithin(f, B)
  BY <1>1 DEF LinksWithin
<1>3. A \subseteq B
  BY <1>1, <1>2, ChainBasics
<1>4. LinksWithin(g, A \cup {b})
  BY <1>1 DEF LinksWithin
<1>5. B \subseteq A \cup {b}
  BY <1>1, <1>4, ChainBasics
<1> QED
  BY <1>3, <1>5

\* A chain is its first cluster and the chain from there, which is beyond it.
LEMMA ChainRest ==
  ASSUME NEW f, NEW a \in Clusters,
         \A c \in Clusters : f[c] \in Clusters => c < f[c]
  PROVE  /\ f[a] \notin Clusters => ChainFrom(f, a) = {a}
         /\ f[a] \in Clusters =>
              /\ ChainFrom(f, a) = {a} \cup ChainFrom(f, f[a])
              /\ a \notin ChainFrom(f, f[a])
<1>1. /\ ChainFrom(f, a) \subseteq Clusters /\ a \in ChainFrom(f, a)
      /\ LinksWithin(f, ChainFrom(f, a))
  BY ChainBasics
<1>2. ASSUME f[a] \notin Clusters PROVE ChainFrom(f, a) = {a}
  <2> HIDE DEF Clusters
  <2>1. LinksWithin(f, {a})
    BY <1>2 DEF LinksWithin
  <2> QED
    BY <1>1, <2>1, ChainBasics
<1>3. ASSUME f[a] \in Clusters
      PROVE  /\ ChainFrom(f, a) = {a} \cup ChainFrom(f, f[a])
             /\ a \notin ChainFrom(f, f[a])
  <2> DEFINE A == ChainFrom(f, a)
             B == ChainFrom(f, f[a])
             High == {d \in Clusters : a < d}
  <2>1. B \subseteq Clusters /\ f[a] \in B /\ LinksWithin(f, B)
    BY <1>3, ChainBasics
  <2>2. f[a] \in High /\ LinksWithin(f, High) /\ High \in SUBSET Clusters /\ a \notin High
    BY <1>3, ConstantsAssumption DEF LinksWithin
  <2> HIDE DEF High, Clusters
  <2>3. B \subseteq High
    BY <1>3, <2>2, ChainBasics
  <2>4. LinksWithin(f, {a} \cup B)
    BY <2>1 DEF LinksWithin
  <2>5. A \subseteq {a} \cup B
    BY <2>1, <2>4, ChainBasics
  <2>6. f[a] \in A
    BY <1>1, <1>3 DEF LinksWithin
  <2>7. B \subseteq A
    BY <1>1, <1>3, <2>6, ChainBasics
  <2> QED
    BY <1>1, <2>2, <2>3, <2>5, <2>7
<1> QED
  BY <1>2, <1>3

\* A set of clusters has a lowest one.
LEMMA LowestCluster ==
  ASSUME NEW S \in SUBSET Clusters, S # {}
  PROVE  \E c \in S : \A d \in S : ~(d < c)
<1> DEFINE Below(p) == {q \in S : q <= p}
           f == [p \in S |-> Cardinality(Below(p))]
<1>0. IsFiniteSet(S) /\ S \subseteq Nat
  <2>1. IsFiniteSet(Clusters) /\ Clusters \subseteq Nat
    BY ConstantsAssumption, FS_Interval
  <2> QED
    BY <2>1, FS_Subset
<1> HIDE DEF Clusters
<1>1. Cardinality(S) \in Nat /\ Cardinality(S) # 0
  BY <1>0, FS_CardinalityType, FS_EmptySet
<1>2. ASSUME NEW p \in S
      PROVE  IsFiniteSet(Below(p)) /\ Cardinality(Below(p)) \in 1 .. Cardinality(S)
  <2>1. Below(p) \in SUBSET S /\ p \in Below(p)
    BY <1>0
  <2> HIDE DEF Below
  <2>2. IsFiniteSet(Below(p)) /\ Cardinality(Below(p)) <= Cardinality(S)
    BY <1>0, <2>1, FS_Subset
  <2>3. Cardinality(Below(p)) \in Nat
    BY <2>2, FS_CardinalityType
  <2>4. Cardinality(Below(p)) # 0
    BY <2>1, <2>2, FS_EmptySet
  <2> QED
    BY <1>1, <2>2, <2>3, <2>4
<1>3. ASSUME NEW p \in S, NEW r \in S, p < r
      PROVE  Cardinality(Below(p)) # Cardinality(Below(r))
  <2>0. p \in Nat /\ r \in Nat /\ ~(r <= p)
    BY <1>0, <1>3
  <2>1. Below(p) \in SUBSET Below(r) /\ r \in Below(r) /\ r \notin Below(p)
    <3>1. \A q \in S : q <= p => q <= r
      BY <1>0, <1>3, <2>0
    <3>2. r <= r
      BY <2>0
    <3> QED
      BY <2>0, <3>1, <3>2, Zenon
  <2>2. IsFiniteSet(Below(r))
    BY <1>2
  <2> HIDE DEF Below
  <2>3. Below(p) # Below(r)
    BY <2>1
  <2> QED
    BY <2>1, <2>2, <2>3, FS_Subset
<1> HIDE DEF Below
<1>4. f \in [S -> 1 .. Cardinality(S)]
  BY <1>2
<1>5. \A p, r \in S : f[p] = f[r] => p = r
  <2> SUFFICES ASSUME NEW p \in S, NEW r \in S, p # r PROVE f[p] # f[r]
    OBVIOUS
  <2>1. p < r \/ r < p
    BY <1>0
  <2> QED
    BY <1>3, <2>1
<1>6. f \in Injection(S, 1 .. Cardinality(S))
  BY <1>4, <1>5 DEF Injection, IsInjective
<1>7. IsFiniteSet(1 .. Cardinality(S)) /\ Cardinality(1 .. Cardinality(S)) = Cardinality(S)
  BY <1>1, FS_Interval
<1>8. f \in Surjection(S, 1 .. Cardinality(S))
  BY <1>6, <1>7, FS_Injection
<1>9. PICK c \in S : Cardinality(Below(c)) = 1
  <2>1. 1 \in 1 .. Cardinality(S)
    BY <1>1
  <2>2. \E c \in S : f[c] = 1
    <3> HIDE DEF f
    <3> QED
      BY <1>8, <2>1 DEF Surjection
  <2> QED
    BY <2>2
<1>10. ASSUME NEW d \in S, d < c PROVE FALSE
  <2>1. c \in Below(c) /\ d \in Below(c) /\ c # d
    BY <1>0, <1>10 DEF Below
  <2>2. \E x : Below(c) = {x}
    BY <1>2, <1>9, FS_Singleton
  <2> QED
    BY <2>1, <2>2
<1> QED
  BY <1>10

-----------------------------------------------------------------------------
(* The clusters of the files, one handler at a time.                       *)

\* Where the clusters of a file begin, in terms of the one thread.
LEMMA StartIs ==
  ASSUME Alone, NEW t \in Threads, NEW n
  PROVE  Start(n) = IF name[t] = n /\ pc[t] \in Unlinks
                   THEN IF pc[t] \in {"load", "clear1"} THEN clus[t]
                        ELSE IF pc[t] = "clear2" THEN next[t] ELSE 0
                   ELSE first[n]
<1>1. \A u \in Threads : u = t
  BY DEF Alone
<1>2. CASE name[t] = n /\ pc[t] \in Unlinks
  <2>1. t \in Unlinking /\ (\E u \in Unlinking : name[u] = n)
    BY <1>2 DEF Unlinking
  <2>2. (CHOOSE u \in Unlinking : name[u] = n) = t
    BY <1>1, <1>2, <2>1 DEF Unlinking
  <2> QED
    BY <1>2, <2>1, <2>2 DEF Start
<1>3. CASE ~(name[t] = n /\ pc[t] \in Unlinks)
  <2>1. ~ \E u \in Unlinking : name[u] = n
    BY <1>1, <1>3 DEF Unlinking
  <2> QED
    BY <1>3, <2>1 DEF Start
<1> QED
  BY <1>2, <1>3

\* SerialInv puts the files apart.
LEMMA SerialStarts ==
  ASSUME Alone, SerialInv
  PROVE  StartsApart
<1> USE ConstantsAssumption
<1>1. CASE Threads = {}
  <2>1. \A n : Start(n) = first[n]
    BY <1>1 DEF Start, Unlinking
  <2> QED
    BY <1>1, <2>1 DEF SerialInv, NoCrossLink, UsedReferred, Referred, StartsApart
<1>2. ASSUME NEW t \in Threads PROVE StartsApart
  <2>1. \A u \in Threads : u = t
    BY DEF Alone
  <2>2. /\ NoCrossLink /\ UsedReferred /\ Position(t) /\ HeadsInVolume
    BY DEF SerialInv
  <2> DEFINE Now(n) == IF name[t] = n /\ pc[t] \in Unlinks
                       THEN IF pc[t] \in {"load", "clear1"} THEN clus[t]
                            ELSE IF pc[t] = "clear2" THEN next[t] ELSE 0
                       ELSE first[n]
  <2>3. \A n : Start(n) = Now(n)
    BY StartIs
  <2>4. ASSUME NEW n \in live, Now(n) \in Clusters, NEW c \in Clusters
        PROVE  fat1[c] # Now(n)
    BY <2>2, <2>4 DEF NoCrossLink, Position, OnlyFrom, Unlinks
  <2>5. ASSUME NEW m \in live, NEW n \in live, Now(m) = Now(n), Now(m) \in Clusters
        PROVE  m = n
    BY <2>2, <2>5 DEF NoCrossLink, Position, OnlyFrom, Unlinks
  <2>6. ASSUME NEW c \in Clusters, fat1[c] # 0, \A d \in Clusters : fat1[d] # c
        PROVE  \E n \in live : Now(n) = c
    <3>1. CASE \E n \in live : first[n] = c
      <4>1. PICK n \in live : first[n] = c
        BY <3>1
      <4>2. Now(n) = c
        BY <2>2, <2>6, <4>1 DEF Position, Unlinks
      <4> QED
        BY <4>2
    <3>2. CASE (pc[t] \in {"load", "clear1"} /\ clus[t] = c) \/ (pc[t] = "clear2" /\ next[t] = c)
      <4>1. name[t] \in live /\ Now(name[t]) = c
        BY <2>2, <3>2 DEF Position, Unlinks
      <4> QED
        BY <4>1
    <3> QED
      BY <2>1, <2>2, <2>6, <3>1, <3>2 DEF UsedReferred, Referred
  <2> HIDE DEF Now, Clusters
  <2> QED
    BY <2>3, <2>4, <2>5, <2>6 DEF StartsApart
<1> QED
  BY <1>1, <1>2

\* So their chains never meet, and with links that ascend every cluster in use
\* is on one.
LEMMA SerialPartition ==
  ASSUME Alone, SerialInv
  PROVE  Partition
<1>1. StartsApart
  BY SerialStarts
<1>2. NoCrossLink /\ LinksAscend
  BY DEF SerialInv, SharedInv
<1>3. \A n : Start(n) \in Clusters => Holds(n) = ChainFrom(fat1, Start(n))
  BY Zenon DEF Holds
<1>4. \A n : Start(n) \notin Clusters => Holds(n) = {}
  BY Zenon DEF Holds
<1>5. ASSUME NEW m \in live, NEW n \in live, m # n, NEW c \in Holds(m) \cap Holds(n)
      PROVE  FALSE
  <2> HIDE DEF Clusters
  <2> DEFINE A == Holds(m)
             B == Holds(n)
  <2>1. Start(m) \in Clusters /\ Start(n) \in Clusters /\ Start(m) # Start(n)
    BY <1>1, <1>4, <1>5 DEF StartsApart
  <2>2. /\ A \subseteq Clusters /\ Start(m) \in A /\ LinksWithin(fat1, A)
        /\ B \subseteq Clusters /\ Start(n) \in B /\ LinksWithin(fat1, B)
    BY <1>3, <2>1, ChainBasics
  <2>3. ASSUME NEW d \in B, d # Start(n) PROVE \E e \in B : fat1[e] = d
    <3> DEFINE C == B \ {d}
    <3>1. SUFFICES ASSUME \A e \in B : fat1[e] # d PROVE FALSE
      OBVIOUS
    <3>2. LinksWithin(fat1, C) /\ Start(n) \in C /\ C \in SUBSET Clusters
      BY <2>2, <2>3, <3>1 DEF LinksWithin
    <3>3. B \subseteq C
      BY <1>3, <2>1, <3>2, ChainBasics
    <3> QED
      BY <3>3
  <2>4. Start(m) \notin B
    BY <1>1, <2>1, <2>2, <2>3 DEF StartsApart
  <2>5. LinksWithin(fat1, A \ B)
    <3> SUFFICES ASSUME NEW d \in A \ B, fat1[d] \in Clusters, fat1[d] \in B
                 PROVE  FALSE
      BY <2>2 DEF LinksWithin
    <3>1. fat1[d] # Start(n)
      BY <1>1, <2>1, <2>2 DEF StartsApart
    <3>2. PICK e \in B : fat1[e] = fat1[d]
      BY <2>3, <3>1
    <3> QED
      BY <1>2, <2>2, <3>2 DEF NoCrossLink
  <2>6. A \subseteq A \ B
    BY <1>3, <2>1, <2>2, <2>4, <2>5, ChainBasics
  <2> QED
    BY <1>5, <2>6
<1>6. ASSUME NEW b \in Clusters, fat1[b] # 0, \A n \in live : b \notin Holds(n)
      PROVE  FALSE
  <2> DEFINE S == {c \in Clusters : fat1[c] # 0 /\ \A n \in live : c \notin Holds(n)}
  <2>1. PICK c \in S : \A d \in S : ~(d < c)
    BY <1>6, LowestCluster
  <2>2. ASSUME NEW n \in live, Start(n) = c PROVE FALSE
    <3> HIDE DEF Clusters
    <3>1. c \in Holds(n)
      BY <1>3, <2>2, ChainBasics
    <3> QED
      BY <3>1
  <2>3. PICK d \in Clusters : fat1[d] = c
    BY <1>1, <2>2 DEF StartsApart
  <2>4. d < c /\ fat1[d] # 0
    BY <1>2, <2>3, ConstantsAssumption DEF LinksAscend
  <2>5. ASSUME NEW n \in live, d \in Holds(n) PROVE FALSE
    <3> HIDE DEF Clusters
    <3>1. Start(n) \in Clusters
      BY <1>4, <2>5
    <3>2. LinksWithin(fat1, Holds(n))
      BY <1>3, <3>1, ChainBasics
    <3>3. c \in Holds(n)
      BY <2>3, <2>5, <3>2 DEF LinksWithin
    <3> QED
      BY <3>3
  <2> QED
    BY <2>1, <2>4, <2>5
<1> QED
  BY <1>5, <1>6 DEF Partition

-----------------------------------------------------------------------------
(* Every step is a step of the pool.                                       *)

\* The starts of the files and the file in removal, now and after a step.
LEMMA MapIs ==
  ASSUME Alone, NEW t \in Threads
  PROVE  /\ Dying = IF pc[t] \in Unlinks THEN {name[t]} ELSE {}
         /\ Dying' = IF pc'[t] \in Unlinks THEN {name'[t]} ELSE {}
         /\ \A n : Start(n)' =
                IF name'[t] = n /\ pc'[t] \in Unlinks
                THEN IF pc'[t] \in {"load", "clear1"} THEN clus'[t]
                     ELSE IF pc'[t] = "clear2" THEN next'[t] ELSE 0
                ELSE first'[n]
<1>1. \A u \in Threads : u = t
  BY DEF Alone
<1>2. Dying = IF pc[t] \in Unlinks THEN {name[t]} ELSE {}
  BY <1>1 DEF Dying, Unlinking
<1>3. Dying' = IF pc'[t] \in Unlinks THEN {name'[t]} ELSE {}
  BY <1>1 DEF Dying, Unlinking
<1>4. (\A n : Start(n) = IF name[t] = n /\ pc[t] \in Unlinks
                          THEN IF pc[t] \in {"load", "clear1"} THEN clus[t]
                               ELSE IF pc[t] = "clear2" THEN next[t] ELSE 0
                          ELSE first[n])'
  <2>1. \A n : (Start(n) = IF name[t] = n /\ pc[t] \in Unlinks
                   THEN IF pc[t] \in {"load", "clear1"} THEN clus[t]
                        ELSE IF pc[t] = "clear2" THEN next[t] ELSE 0
                   ELSE first[n])
    BY StartIs
  <2> QED
    BY <2>1, PTL
<1> QED
  BY <1>2, <1>3, <1>4 DEF Unlinks

\* What a cluster maps to hangs on whether it is free and on who holds it.
LEMMA OwnerKept ==
  ASSUME NEW c, fat1'[c] = 0 <=> fat1[c] = 0,
         fat1[c] # 0 => Holders(c)' = Holders(c)
  PROVE  Owner(c)' = Owner(c)
BY DEF Owner

\* A free cluster maps to no file, one in use to the file that holds it ...
LEMMA OwnerIs ==
  ASSUME Partition, NEW c \in Clusters
  PROVE  /\ fat1[c] = 0 => Owner(c) = NoName
         /\ fat1[c] # 0 => Owner(c) \in live /\ c \in Holds(Owner(c))
<1> HIDE DEF Clusters
<1>1. fat1[c] = 0 => Owner(c) = NoName
  BY DEF Owner
<1>2. ASSUME fat1[c] # 0 PROVE Owner(c) \in Holders(c)
  <2>1. Holders(c) # {}
    BY <1>2 DEF Partition, Holders
  <2>2. Owner(c) = OneOf(Holders(c))
    BY <1>2, <2>1 DEF Owner
  <2> QED
    BY <2>1, <2>2 DEF OneOf
<1> QED
  BY <1>1, <1>2 DEF Holders

\* ... after a step as well ...
LEMMA OwnerNext ==
  ASSUME NEW c \in Clusters
  PROVE  (Partition /\ fat1[c] # 0 => Owner(c) \in live)'
<1>1. Partition /\ fat1[c] # 0 => Owner(c) \in live
  BY OwnerIs
<1> QED
  BY <1>1, PTL

\* ... and a step that concerns one cluster changes the map there only.
LEMMA OwnerChanged ==
  ASSUME NEW c \in Clusters, \A d \in Clusters : d # c => Owner(d)' = Owner(d)
  PROVE  Owners' = [Owners EXCEPT ![c] = Owner(c)']
<1> HIDE DEF Clusters
<1> DEFINE New == [Owners EXCEPT ![c] = Owner(c)']
<1>1. \A d \in Clusters : Owner(d)' = New[d]
  BY DEF Owners
<1>2. New = [d \in Clusters |-> New[d]]
  BY DEF Owners
<1> HIDE DEF New
<1>3. New = [d \in Clusters |-> Owner(d)']
  BY <1>1, <1>2
<1> QED
  BY <1>3 DEF New, Owners

\* Steps that leave the table, the directory and the starts of the files alone
\* are no steps of the pool.
LEMMA PoolKept ==
  ASSUME UNCHANGED <<fat1, live, Dying>>, \A n \in live : Holds(n)' = Holds(n)
  PROVE  UNCHANGED Pool!vars
<1>1. \A c : Holders(c)' = Holders(c)
  BY DEF Holders
<1>2. \A c : Owner(c)' = Owner(c)
  BY <1>1, OwnerKept
<1>3. Owners' = Owners
  BY <1>2 DEF Owners
<1> QED
  BY <1>3 DEF Pool!vars

\* Outside fat16_unlink the table, the directory and so the pool are left alone
\* by every step but those below.
LEMMA PoolElsewhere ==
  ASSUME Alone, NEW t \in Threads, UNCHANGED <<fat1, live, first>>,
         pc[t] \notin Unlinks, pc'[t] \notin Unlinks
  PROVE  UNCHANGED Pool!vars
<1>1. Dying' = Dying
  BY MapIs
<1>2. \A n : Start(n)' = Start(n)
  <2>1. \A n : Start(n) = first[n]
    BY StartIs
  <2>2. \A n : Start(n)' = first'[n]
    BY MapIs
  <2> QED
    BY <2>1, <2>2
<1>3. \A n : Holds(n)' = Holds(n)
  BY <1>2 DEF Holds
<1> QED
  BY <1>1, <1>3, PoolKept

\* fat16_unlink keeps its place in the chain when it reads the table, and when
\* it clears the second copy and moves on.
LEMMA PoolFreeLoad ==
  ASSUME Alone, SerialInv, NEW t \in Threads, FreeLoad(t)
  PROVE  UNCHANGED Pool!vars
<1>1. /\ pc[t] = "load" /\ pc'[t] = "clear1" /\ UNCHANGED <<fat1, live, first, name>>
      /\ clus'[t] = clus[t]
  BY DEF FreeLoad, SerialInv, SharedInv, TypeOK
<1>2. Dying' = Dying
  BY <1>1, MapIs DEF Unlinks
<1>3. ASSUME NEW n PROVE Start(n)' = Start(n)
  BY <1>1, MapIs, StartIs DEF Unlinks
<1>4. \A n : Holds(n)' = Holds(n)
  BY <1>1, <1>3 DEF Holds
<1> QED
  BY <1>1, <1>2, <1>4, PoolKept

\* At the end of the chain nothing is left to own.
LEMMA PoolFreeClear2 ==
  ASSUME Alone, SerialInv, NEW t \in Threads, FreeClear2(t)
  PROVE  UNCHANGED Pool!vars
<1>0. TypeOK
  BY DEF SerialInv, SharedInv
<1>1. /\ pc[t] = "clear2" /\ name'[t] = name[t] /\ UNCHANGED <<fat1, live, first>>
      /\ \/ pc'[t] = "load" /\ clus'[t] = next[t] /\ next[t] \in Clusters
         \/ pc'[t] = "erase" /\ next[t] \notin Clusters
  BY <1>0, ConstantsAssumption DEF FreeClear2, TypeOK
<1>2. Dying' = Dying
  BY <1>1, MapIs DEF Unlinks
<1>3. 0 \notin Clusters
  BY ConstantsAssumption
<1>4. ASSUME NEW n PROVE Start(n)' = Start(n) \/ (Start(n) \notin Clusters /\ Start(n)' \notin Clusters)
  <2>1. CASE name[t] = n
    <3>1. Start(n) = next[t]
      BY <1>1, <2>1, StartIs DEF Unlinks
    <3>2. CASE pc'[t] = "load"
      <4>1. Start(n)' = clus'[t]
        BY <1>1, <2>1, <3>2, MapIs DEF Unlinks
      <4> QED
        BY <1>1, <3>1, <3>2, <4>1
    <3>3. CASE pc'[t] = "erase"
      <4>1. Start(n)' = 0
        BY <1>1, <2>1, <3>3, MapIs DEF Unlinks
      <4>2. next[t] \notin Clusters
        BY <1>1, <3>3
      <4> HIDE DEF Clusters
      <4> QED
        BY <1>3, <3>1, <4>1, <4>2
    <3> QED
      BY <1>1, <3>2, <3>3
  <2>2. CASE name[t] # n
    BY <1>1, <2>2, MapIs, StartIs
  <2> QED
    BY <2>1, <2>2
<1> HIDE DEF Clusters
<1>5. \A n : Holds(n)' = Holds(n)
  BY <1>1, <1>4 DEF Holds
<1> QED
  BY <1>1, <1>2, <1>5, PoolKept

\* fat16_unlink begins: its file is in removal, with all its clusters.
LEMMA PoolUnlinkStart ==
  ASSUME Alone, SerialInv, NEW t \in Threads, NEW n \in Names, UnlinkStart(t, n)
  PROVE  Pool!BeginRemove(n)
<1>1. /\ pc[t] = "idle" /\ pc'[t] = "load" /\ UNCHANGED <<fat1, live, first>>
      /\ name'[t] = n /\ n \in live /\ clus'[t] = first[n]
  BY DEF UnlinkStart, Enter, SerialInv, SharedInv, TypeOK
<1>2. Dying = {} /\ Dying' = {n}
  BY <1>1, MapIs DEF Unlinks
<1>3. ASSUME NEW m PROVE Start(m)' = Start(m)
  <2>1. Start(m) = first[m]
    BY <1>1, StartIs DEF Unlinks
  <2>2. Start(m)' = first[m]
    BY <1>1, MapIs DEF Unlinks
  <2> QED
    BY <2>1, <2>2
<1>4. \A m : Holds(m)' = Holds(m)
  BY <1>1, <1>3 DEF Holds
<1>5. \A c : Owner(c)' = Owner(c)
  BY <1>1, <1>4, OwnerKept DEF Holders
<1>6. Owners' = Owners
  BY <1>5 DEF Owners
<1> QED
  BY <1>1, <1>2, <1>6 DEF Pool!BeginRemove

\* A cluster that was free and is not any more has been taken by its file.
LEMMA PoolTake ==
  ASSUME Partition, Partition', live' = live, live \subseteq Names, Dying = {}, Dying' = {},
         NEW c \in Clusters, fat1[c] = 0, fat1'[c] # 0,
         \A d \in Clusters : d # c => Owner(d)' = Owner(d)
  PROVE  Pool!Next
<1> HIDE DEF Clusters
<1>1. Owner(c) = NoName
  BY OwnerIs
<1>2. Owner(c)' \in live
  BY OwnerNext
<1>3. Owners' = [Owners EXCEPT ![c] = Owner(c)']
  BY OwnerChanged
<1>4. Owners[c] = NoName
  BY <1>1 DEF Owners
<1>5. Pool!Take(Owner(c)', c)
  BY <1>2, <1>3, <1>4 DEF Pool!Take
<1> QED
  BY <1>2, <1>5 DEF Pool!Next

\* The end mark takes the cluster fat16_mknod has put into the entry, or
\* write_path has linked last.
LEMMA PoolMarkEnd ==
  ASSUME Alone, SerialInv, Partition, Partition', NEW t \in Threads, MarkEnd(t)
  PROVE  Pool!Next
<1> USE ConstantsAssumption
<1>1. TypeOK /\ Position(t)
  BY DEF SerialInv, SharedInv
<1>2. /\ pc[t] = "mark" /\ pc'[t] = "idle" /\ UNCHANGED <<live, first>>
      /\ clus[t] \in Clusters /\ fat1[clus[t]] = 0 /\ fat1'[clus[t]] = EOC
      /\ \A c \in Clusters : c # clus[t] => fat1'[c] = fat1[c]
  BY <1>1 DEF MarkEnd, Return, TypeOK, Position
<1>3. Dying = {} /\ Dying' = {}
  BY <1>2, MapIs DEF Unlinks
<1>4. \A n : Start(n) = first[n] /\ Start(n)' = first[n]
  <2>1. \A n : Start(n) = first[n]
    BY <1>2, StartIs DEF Unlinks
  <2>2. \A n : Start(n)' = first'[n]
    BY <1>2, MapIs DEF Unlinks
  <2> QED
    BY <1>2, <2>1, <2>2
<1>5. fat1[clus[t]] \notin Clusters /\ fat1'[clus[t]] \notin Clusters /\ fat1'[clus[t]] # 0
  BY <1>2
<1>6. live \subseteq Names
  BY <1>1 DEF TypeOK
<1> HIDE DEF Clusters
<1>7. ASSUME NEW n PROVE Holds(n)' = Holds(n)
  <2>1. CASE first[n] \in Clusters
    <3>1. ChainFrom(fat1, first[n]) \subseteq Clusters
      BY <2>1, ChainBasics
    <3>2. \A d \in ChainFrom(fat1, first[n]) :
            fat1[d] \in Clusters \/ fat1'[d] \in Clusters => fat1[d] = fat1'[d]
      BY <1>2, <1>5, <3>1
    <3>3. ChainFrom(fat1', first[n]) = ChainFrom(fat1, first[n])
      BY <2>1, <3>2, ChainAgree
    <3> QED
      BY <1>4, <2>1, <3>3 DEF Holds
  <2>2. CASE first[n] \notin Clusters
    BY <1>4, <2>2 DEF Holds
  <2> QED
    BY <2>1, <2>2
<1>8. \A c : Holders(c)' = Holders(c)
  BY <1>2, <1>7 DEF Holders
<1>9. \A d \in Clusters : d # clus[t] => Owner(d)' = Owner(d)
  BY <1>2, <1>8, OwnerKept
<1> QED
  BY <1>2, <1>3, <1>5, <1>6, <1>9, PoolTake

\* The link takes the cluster it is written into, unless that was in use, and
\* leaves the one it leads to free until it is written in its turn.
LEMMA PoolLink ==
  ASSUME Alone, SerialInv, Partition, Partition', NEW t \in Threads, Link(t)
  PROVE  Pool!Next \/ UNCHANGED Pool!vars
<1> USE ConstantsAssumption
<1>1. TypeOK /\ Position(t) /\ Numbers(t)
  BY DEF SerialInv, SharedInv
<1>2. /\ pc[t] = "link" /\ pc'[t] = "follow" /\ UNCHANGED <<live, first>>
      /\ clus[t] \in Clusters /\ next[t] \in Clusters /\ clus[t] # next[t]
      /\ fat1[clus[t]] \notin Clusters /\ fat1[next[t]] = 0 /\ fat1'[clus[t]] = next[t]
      /\ \A c \in Clusters : c # clus[t] => fat1'[c] = fat1[c]
  BY <1>1 DEF Link, TypeOK, Position, Numbers
<1>3. Dying = {} /\ Dying' = {}
  BY <1>2, MapIs DEF Unlinks
<1>4. \A n : Start(n) = first[n] /\ Start(n)' = first[n]
  <2>1. \A n : Start(n) = first[n]
    BY <1>2, StartIs DEF Unlinks
  <2>2. \A n : Start(n)' = first'[n]
    BY <1>2, MapIs DEF Unlinks
  <2> QED
    BY <1>2, <2>1, <2>2
<1>5. fat1[next[t]] \notin Clusters /\ fat1'[clus[t]] # 0
  BY <1>2
<1>6. live \subseteq Names
  BY <1>1 DEF TypeOK
<1> HIDE DEF Clusters
<1>7. ASSUME NEW n, NEW d \in Clusters, d # next[t]
      PROVE  d \in Holds(n)' <=> d \in Holds(n)
  <2>1. CASE first[n] \in Clusters
    <3>1. d \in ChainFrom(fat1', first[n]) <=> d \in ChainFrom(fat1, first[n])
      BY <1>2, <1>5, <1>7, <2>1, ChainLinked
    <3> QED
      BY <1>4, <2>1, <3>1 DEF Holds
  <2>2. CASE first[n] \notin Clusters
    BY <1>4, <2>2 DEF Holds
  <2> QED
    BY <2>1, <2>2
<1>8. \A d \in Clusters : d # next[t] => Holders(d)' = Holders(d)
  BY <1>2, <1>7 DEF Holders
<1>9. \A d \in Clusters : d # clus[t] => Owner(d)' = Owner(d)
  BY <1>2, <1>8, OwnerKept
<1>10. CASE fat1[clus[t]] = 0
  BY <1>2, <1>3, <1>5, <1>6, <1>9, <1>10, PoolTake
<1>11. CASE fat1[clus[t]] # 0
  <2>1. ASSUME NEW c \in Clusters, c = clus[t] PROVE Owner(c)' = Owner(c)
    <3>1. Holders(c)' = Holders(c) /\ fat1[c] # 0 /\ fat1'[c] # 0
      BY <1>2, <1>5, <1>8, <1>11, <2>1
    <3> QED
      BY <3>1, OwnerKept
  <2>2. \A d \in Clusters : Owner(d)' = Owner(d)
    BY <1>9, <2>1
  <2> QED
    BY <1>2, <1>3, <2>2 DEF Pool!vars, Owners
<1> QED
  BY <1>10, <1>11

\* dir_entry_create makes the file, its cluster still free.
LEMMA PoolMknodEntry ==
  ASSUME Alone, SerialInv, NEW t \in Threads, MknodEntry(t)
  PROVE  Pool!Next
<1> USE ConstantsAssumption
<1>1. TypeOK /\ Position(t) /\ Numbers(t) /\ LinksAscend
  BY DEF SerialInv, SharedInv
<1>2. PICK n \in Names, a \in Clusters : n = name[t] /\ a = clus[t]
  BY <1>1 DEF MknodEntry, Numbers
<1>3. /\ pc[t] = "entry" /\ pc'[t] = "mark" /\ UNCHANGED fat1
      /\ n \notin live /\ live' = live \cup {n} /\ fat1[a] = 0
      /\ first'[n] = a /\ \A m \in Names : m # n => first'[m] = first[m]
  BY <1>1, <1>2 DEF MknodEntry, TypeOK, Position
<1>4. Dying = {} /\ Dying' = {}
  BY <1>3, MapIs DEF Unlinks
<1>5. \A m : Start(m) = first[m]
  BY <1>3, StartIs DEF Unlinks
<1>6. \A m : Start(m)' = first'[m]
  BY <1>3, MapIs DEF Unlinks
<1>7. fat1[a] \notin Clusters
  BY <1>3
<1>8. live \subseteq Names
  BY <1>1 DEF TypeOK
<1>9. \A c \in Clusters : fat1[c] \in Clusters => c < fat1[c]
  BY <1>1 DEF LinksAscend
<1>10. ChainFrom(fat1, a) = {a}
  BY <1>7, <1>9, ChainRest
<1> HIDE DEF Clusters
<1>11. Holds(n)' = {a}
  BY <1>3, <1>6, <1>10 DEF Holds
<1>12. ASSUME NEW m \in live PROVE Holds(m)' = Holds(m)
  <2>1. Start(m)' = Start(m)
    BY <1>3, <1>5, <1>6, <1>8
  <2> QED
    BY <1>3, <2>1 DEF Holds
<1>13. ASSUME NEW c \in Clusters PROVE Owner(c)' = Owner(c)
  <2>1. ASSUME fat1[c] # 0 PROVE Holders(c)' = Holders(c)
    <3>1. c # a
      BY <1>3, <2>1
    <3> QED
      BY <1>3, <1>11, <1>12, <3>1 DEF Holders
  <2> QED
    BY <1>3, <2>1, OwnerKept
<1>14. Owners' = Owners
  BY <1>13 DEF Owners
<1>15. Pool!Create(n)
  BY <1>3, <1>4, <1>14 DEF Pool!Create
<1> QED
  BY <1>15 DEF Pool!Next

\* freeCluster gives one cluster back, the first its file still has.
LEMMA PoolFreeClear1 ==
  ASSUME Alone, SerialInv, Partition, NEW t \in Threads, FreeClear1(t)
  PROVE  Pool!Next
<1> USE ConstantsAssumption
<1>1. TypeOK /\ Position(t) /\ Numbers(t) /\ LinksAscend
  BY DEF SerialInv, SharedInv
<1>2. PICK n \in Names, a \in Clusters : n = name[t] /\ a = clus[t]
  BY <1>1 DEF FreeClear1, Numbers, Position
<1>3. /\ pc[t] = "clear1" /\ pc'[t] = "clear2" /\ UNCHANGED <<live, first>>
      /\ name'[t] = n /\ next'[t] = fat1[a] /\ n \in live
      /\ fat1[a] # 0 /\ fat1'[a] = 0
      /\ \A c \in Clusters : c # a => fat1'[c] = fat1[c]
  BY <1>1, <1>2 DEF FreeClear1, TypeOK, Position, Unlinks
<1>4. Dying = {n} /\ Dying' = {n}
  BY <1>2, <1>3, MapIs DEF Unlinks
<1>5. Start(n) = a /\ \A m : m # n => Start(m) = first[m]
  <2>1. Start(n) = a
    BY <1>2, <1>3, StartIs DEF Unlinks
  <2>2. \A m : m # n => Start(m) = first[m]
    BY <1>2, <1>3, StartIs DEF Unlinks
  <2> QED
    BY <2>1, <2>2
<1>6. Start(n)' = fat1[a] /\ \A m : m # n => Start(m)' = first[m]
  <2>1. Start(n)' = fat1[a]
    BY <1>3, MapIs DEF Unlinks
  <2>2. \A m : m # n => Start(m)' = first[m]
    BY <1>3, MapIs DEF Unlinks
  <2> QED
    BY <2>1, <2>2
<1>7. fat1'[a] \notin Clusters
  BY <1>3
<1>8. \A c \in Clusters : fat1[c] \in Clusters => c < fat1[c]
  BY <1>1 DEF LinksAscend
<1>9. /\ fat1[a] \notin Clusters => ChainFrom(fat1, a) = {a}
      /\ fat1[a] \in Clusters =>
           /\ ChainFrom(fat1, a) = {a} \cup ChainFrom(fat1, fat1[a])
           /\ a \notin ChainFrom(fat1, fat1[a])
  BY <1>8, ChainRest
<1> HIDE DEF Clusters
<1>10. ASSUME NEW c \in Clusters, a \notin ChainFrom(fat1, c)
       PROVE  ChainFrom(fat1', c) = ChainFrom(fat1, c)
  <2>1. ChainFrom(fat1, c) \subseteq Clusters
    BY ChainBasics
  <2>2. \A d \in ChainFrom(fat1, c) :
          fat1[d] \in Clusters \/ fat1'[d] \in Clusters => fat1[d] = fat1'[d]
    BY <1>3, <1>10, <2>1
  <2> QED
    BY <2>2, ChainAgree
<1>11. a \in Holds(n) /\ Holds(n)' = Holds(n) \ {a}
  <2>1. Holds(n) = ChainFrom(fat1, a) /\ a \in ChainFrom(fat1, a)
    BY <1>5, ChainBasics DEF Holds
  <2>2. CASE fat1[a] \in Clusters
    <3>1. Holds(n)' = ChainFrom(fat1', fat1[a])
      BY <1>6, <2>2 DEF Holds
    <3>2. ChainFrom(fat1', fat1[a]) = ChainFrom(fat1, fat1[a])
      BY <1>9, <1>10, <2>2
    <3> QED
      BY <1>9, <2>1, <2>2, <3>1, <3>2
  <2>3. CASE fat1[a] \notin Clusters
    <3>1. Holds(n)' = {}
      BY <1>6, <2>3 DEF Holds
    <3> QED
      BY <1>9, <2>1, <2>3, <3>1
  <2> QED
    BY <2>2, <2>3
<1>12. ASSUME NEW m \in live, m # n PROVE a \notin Holds(m) /\ Holds(m)' = Holds(m)
  <2>1. a \notin Holds(m)
    BY <1>3, <1>11, <1>12 DEF Partition
  <2>2. Start(m) = first[m] /\ Start(m)' = first[m]
    BY <1>5, <1>6, <1>12
  <2>3. CASE first[m] \in Clusters
    <3>1. Holds(m) = ChainFrom(fat1, first[m]) /\ Holds(m)' = ChainFrom(fat1', first[m])
      BY <2>2, <2>3 DEF Holds
    <3> QED
      BY <1>10, <2>1, <2>3, <3>1
  <2>4. CASE first[m] \notin Clusters
    BY <2>1, <2>2, <2>4 DEF Holds
  <2> QED
    BY <2>1, <2>3, <2>4
<1>13. ASSUME NEW c \in Clusters, c # a PROVE Owner(c)' = Owner(c)
  <2>1. \A m \in live : c \in Holds(m)' <=> c \in Holds(m)
    BY <1>11, <1>12, <1>13
  <2>2. Holders(c)' = Holders(c)
    BY <1>3, <2>1 DEF Holders
  <2> QED
    BY <1>3, <1>13, <2>2, OwnerKept
<1>14. Owner(a) = n
  BY <1>3, <1>12, OwnerIs
<1>15. Owner(a)' = NoName
  BY <1>3 DEF Owner
<1>16. Owners' = [Owners EXCEPT ![a] = NoName]
  BY <1>13, <1>15, OwnerChanged
<1>17. Pool!Drop(n, a)
  BY <1>3, <1>4, <1>14, <1>16 DEF Pool!Drop, Owners
<1> QED
  BY <1>17 DEF Pool!Next

\* The entry goes when its file has no cluster left.
LEMMA PoolUnlinkErase ==
  ASSUME Alone, SerialInv, Partition, NEW t \in Threads, UnlinkErase(t)
  PROVE  Pool!Next
<1> USE ConstantsAssumption
<1>1. TypeOK /\ Position(t) /\ Numbers(t)
  BY DEF SerialInv, SharedInv
<1>2. PICK n \in Names : n = name[t]
  BY <1>1 DEF UnlinkErase, Numbers
<1>3. /\ pc[t] = "erase" /\ pc'[t] = "idle" /\ UNCHANGED <<fat1, first>>
      /\ live' = live \ {n} /\ n \in live
  BY <1>1, <1>2 DEF UnlinkErase, Return, TypeOK, Position, Unlinks, Alone
<1>4. Dying = {n} /\ Dying' = {}
  BY <1>2, <1>3, MapIs DEF Unlinks
<1>5. Start(n) = 0 /\ \A m : m # n => Start(m) = first[m]
  <2>1. Start(n) = 0
    BY <1>2, <1>3, StartIs DEF Unlinks
  <2>2. \A m : m # n => Start(m) = first[m]
    BY <1>2, <1>3, StartIs DEF Unlinks
  <2> QED
    BY <2>1, <2>2
<1>6. \A m : Start(m)' = first[m]
  BY <1>3, MapIs DEF Unlinks
<1>7. 0 \notin Clusters
  OBVIOUS
<1>8. NoName # n
  OBVIOUS
<1> HIDE DEF Clusters
<1>9. Holds(n) = {}
  BY <1>5, <1>7 DEF Holds
<1>10. ASSUME NEW m \in live, m # n PROVE Holds(m)' = Holds(m)
  BY <1>3, <1>5, <1>6, <1>10 DEF Holds
<1>11. ASSUME NEW c PROVE Holders(c)' = Holders(c)
  BY <1>3, <1>9, <1>10 DEF Holders
<1>12. Owners' = Owners
  <2>1. \A c : Owner(c)' = Owner(c)
    BY <1>3, <1>11, OwnerKept
  <2> QED
    BY <2>1 DEF Owners
<1>13. ASSUME NEW c \in Clusters PROVE Owners[c] # n
  BY <1>8, <1>9, OwnerIs DEF Owners
<1>14. Pool!Remove(n)
  BY <1>3, <1>4, <1>12, <1>13 DEF Pool!Remove
<1> QED
  BY <1>14 DEF Pool!Next

\* Every step of the driver is a step of the pool or leaves it alone.
LEMMA PoolStep ==
  ASSUME Alone, SerialInv, Partition, Partition', [Next]_vars
  PROVE  [Pool!Next]_(Pool!vars)
<1>1. CASE \E t \in Threads : Step(t)
  <2>1. PICK t \in Threads : Step(t)
    BY <1>1
  <2>2. TypeOK
    BY DEF SerialInv, SharedInv
  <2>3. CASE Search(t) \/ Walk(t) \/ Grow(t) \/ Probe(t) \/ Follow(t)
    <3>1. /\ pc[t] \notin Unlinks /\ pc'[t] \notin Unlinks
          /\ UNCHANGED <<fat1, live, first>>
      BY <2>2, <2>3 DEF Search, Walk, Grow, Probe, Follow, Return, TypeOK, Unlinks
    <3> QED
      BY <3>1, PoolElsewhere
  <2> QED
    BY <2>1, <2>3, PoolMknodEntry, PoolMarkEnd, PoolFreeLoad, PoolFreeClear1,
       PoolFreeClear2, PoolUnlinkErase, PoolLink DEF Step
<1>2. CASE \E t \in Threads, n \in Names : Begin(t, n)
  <2>1. PICK t \in Threads, n \in Names : Begin(t, n)
    BY <1>2
  <2>2. TypeOK
    BY DEF SerialInv, SharedInv
  <2>3. ~WriteUnset(t, n)
    BY ConstantsAssumption DEF WriteUnset, SerialInv, HeadsInVolume
  <2>4. CASE MknodStart(t, n) \/ WriteStart(t, n)
    <3>1. /\ pc[t] \notin Unlinks /\ pc'[t] \notin Unlinks
          /\ UNCHANGED <<fat1, live, first>>
      BY <2>2, <2>4 DEF MknodStart, WriteStart, Enter, TypeOK, Unlinks
    <3> QED
      BY <3>1, PoolElsewhere
  <2>5. CASE UnlinkStart(t, n)
    BY <2>5, PoolUnlinkStart DEF Pool!Next
  <2> QED
    BY <2>1, <2>3, <2>4, <2>5 DEF Begin
<1>3. CASE Crash
  BY <1>3 DEF Crash, Alone, SerialInv, SharedInv, TypeOK
<1>4. CASE UNCHANGED vars
  <2>1. UNCHANGED <<fat1, live, first, pc, name, clus, next>>
    BY <1>4 DEF vars
  <2>2. Dying' = Dying
    BY <2>1 DEF Dying, Unlinking
  <2>3. \A n : Start(n)' = Start(n)
    BY <2>1 DEF Start, Unlinking
  <2>4. \A n : Holds(n)' = Holds(n)
    BY <2>1, <2>3 DEF Holds
  <2> QED
    BY <2>1, <2>2, <2>4, PoolKept
<1> QED
  BY <1>1, <1>2, <1>3, <1>4 DEF Next, Beyond

\* One handler at a time, the driver implements ClusterPool: the clusters of a
\* file are its own until fat16_unlink gives them back, every cluster it or
\* fat16_mknod or write_path takes was free, and the entry of a file goes only
\* when all its clusters are free again.
THEOREM PoolRefined ==
  ASSUME Alone
  PROVE  Spec => PoolSpec
<1>1. SerialInv => Partition
  BY SerialPartition
<1>2. Init => Pool!Init
  <2> SUFFICES ASSUME Init PROVE Pool!Init
    OBVIOUS
  <2>1. SerialInv /\ Partition
    BY SerialInit, SerialPartition
  <2>2. live \in SUBSET Names /\ \A t \in Threads : pc[t] = "idle"
    BY DEF Init
  <2>3. Dying = {}
    BY <2>2 DEF Dying, Unlinking, Unlinks
  <2>4. \A c \in Clusters : Owner(c) \in live \cup {NoName}
    BY <2>1, OwnerIs
  <2> QED
    BY <2>2, <2>3, <2>4 DEF Pool!Init, Owners
<1>3. SerialInv /\ Partition /\ Partition' /\ [Next]_vars => [Pool!Next]_(Pool!vars)
  BY PoolStep
<1> QED
  BY <1>1, <1>2, <1>3, SerialInvariant, PTL DEF Spec, PoolSpec, Pool!Spec

=============================================================================
