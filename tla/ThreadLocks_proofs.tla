-------------------------- MODULE ThreadLocks_proofs --------------------------
(***************************************************************************)
(* Proofs about ThreadLocks for any number of rounds of work, if the       *)
(* instructions between two sleeps take less than a second (Prompt).       *)
(***************************************************************************)
EXTENDS ThreadLocks, FiniteSetTheorems, SequenceTheorems, TLAPS

Has(h, l) == \E i \in 1 .. Len(h) : h[i] = l

\* What thread n holds while it takes its locks, and while it gives them back.
Prefixes(n) == CASE n = 1 -> {<<>>, <<0>>}
                 [] n = 2 -> {<<>>, <<1>>, <<1, 0>>}
                 [] n = 3 -> {<<>>, <<2>>, <<2, 1>>, <<2, 1, 0>>}
Suffixes(n) == CASE n = 1 -> {<<>>, <<0>>}
                 [] n = 2 -> {<<>>, <<0>>, <<1, 0>>}
                 [] n = 3 -> {<<>>, <<0>>, <<1, 0>>, <<2, 1, 0>>}

Creating == {"fork"} \cup Create
Places == Creating \cup Join \cup {"sleep1", "look1", "createEcho", "sleep2", "look2",
                                   "sleep3", "joinEcho", "getchar", "exit"}

\* What a thread holds depends on how long it has slept.
Shape(t) ==
    /\ slept[t] < t[2] - 1 => held[t] = <<>>
    /\ slept[t] = t[2] - 1 => held[t] \in Prefixes(t[2])
    /\ t[2] - 1 < slept[t] /\ slept[t] < 2 + Work => held[t] = Needs(t[2])
    /\ slept[t] = 2 + Work => held[t] \in Suffixes(t[2])
    /\ pc[t] = "off" => slept[t] = 0 /\ held[t] = <<>>
    /\ pc[t] \in {"load", "store"} => WantsLocks(t)
    /\ pc[t] = "sleep" => slept[t] < 2 + Work /\ ~WantsLocks(t)
    /\ pc[t] = "signal" => slept[t] = 2 + Work /\ held[t] # <<>>
    /\ pc[t] \in {"getchar", "done"} => slept[t] = 2 + Work /\ held[t] = <<>>

Shapes ==
    /\ TypeOK /\ main \in [Procs -> Places]
    /\ \A t \in Threads : Shape(t)

\* Which threads the main thread of a process has created.
Created ==
    /\ main["parent"] = "fork" => main["child"] = "fork"
    /\ \A p \in Procs, n \in Numbers :
         pc[<<p, n>>] = "off" <=> \/ main[p] \in {"fork", "create1"}
                                  \/ main[p] = "create2" /\ n > 1
                                  \/ main[p] = "create3" /\ n > 2

\* Thread t has lock l or has seen it free and is taking it.
Claims(t, l) ==
    Has(held[t], l) \/ (pc[t] \in {"load", "store"} /\ NextLock(t) = l)

\* A lock is claimed by one thread of a process at most, and its integer and
\* the registers show who has it.
LockInv ==
    /\ \A t, u \in Threads, l \in Locks :
         t[1] = u[1] /\ Claims(t, l) /\ Claims(u, l) => t = u
    /\ \A p \in Procs, l \in Locks :
         mutex[p][l] = 0 <=> \E n \in Numbers : Has(held[<<p, n>>], l)
    /\ \A t \in Threads : /\ pc[t] = "store" => tmp[t] = 1
                          /\ pc[t] = "signal" => tmp[t] = 0

\* Thread t has its first lock, or had it.
Passed(t) == slept[t] >= t[2] \/ (slept[t] = t[2] - 1 /\ held[t] # <<>>)

\* The seconds pass for all threads of a process alike, until one of them
\* waits for its second or third lock.
InStep ==
    \A t, u \in Threads :
        Alive(t) /\ t[1] = u[1] /\ slept[t] > slept[u] => Passed(u)

Finished(n) == slept[<<"child", n>>] = 2 + Work

\* What the main thread of the child has found out.
LookInv ==
    /\ life["child"] = "runs" =>
         /\ main["child"] \notin Creating \cup {"sleep1"} =>
              \A n \in Numbers : slept[<<"child", n>>] >= 1
         /\ main["child"] = "look1" => \A n \in Numbers : seen >= n => Finished(n)
         /\ main["child"] \notin Creating \cup {"sleep1", "look1"} =>
              \A n \in Numbers : Finished(n)
    /\ main["child"] \notin {"look1", "look2"} => seen = 0
    /\ echo # "none" => \A n \in Numbers : Finished(n)

-----------------------------------------------------------------------------
(* Locks taken and given back.                                             *)

\* The sequences that taking a lock makes.
LEMMA AppendTuples ==
  /\ Append(<<1>>, 0) = <<1, 0>>
  /\ Append(<<2>>, 1) = <<2, 1>>
  /\ Append(<<2, 1>>, 0) = <<2, 1, 0>>
<1>1. Append(<<1>>, 0) = <<1, 0>>
  <2>1. <<1>> \in Seq(Locks) /\ <<1, 0>> \in Seq(Locks) /\ 0 \in Locks
    BY DEF Locks
  <2>2. /\ Append(<<1>>, 0) \in Seq(Locks) /\ Len(Append(<<1>>, 0)) = 2
        /\ Append(<<1>>, 0)[1] = 1 /\ Append(<<1>>, 0)[2] = 0
    BY <2>1, AppendProperties
  <2>3. Len(<<1, 0>>) = 2 /\ \A i \in 1 .. 2 : Append(<<1>>, 0)[i] = <<1, 0>>[i]
    BY <2>2
  <2>4. /\ Len(Append(<<1>>, 0)) = Len(<<1, 0>>)
        /\ \A i \in 1 .. Len(Append(<<1>>, 0)) : Append(<<1>>, 0)[i] = <<1, 0>>[i]
    BY <2>2, <2>3
  <2> QED
    BY <2>1, <2>2, <2>4, SeqEqual, Zenon
<1>2. Append(<<2>>, 1) = <<2, 1>>
  <2>1. <<2>> \in Seq(Locks) /\ <<2, 1>> \in Seq(Locks) /\ 1 \in Locks
    BY DEF Locks
  <2>2. /\ Append(<<2>>, 1) \in Seq(Locks) /\ Len(Append(<<2>>, 1)) = 2
        /\ Append(<<2>>, 1)[1] = 2 /\ Append(<<2>>, 1)[2] = 1
    BY <2>1, AppendProperties
  <2>3. Len(<<2, 1>>) = 2 /\ \A i \in 1 .. 2 : Append(<<2>>, 1)[i] = <<2, 1>>[i]
    BY <2>2
  <2>4. /\ Len(Append(<<2>>, 1)) = Len(<<2, 1>>)
        /\ \A i \in 1 .. Len(Append(<<2>>, 1)) : Append(<<2>>, 1)[i] = <<2, 1>>[i]
    BY <2>2, <2>3
  <2> QED
    BY <2>1, <2>2, <2>4, SeqEqual, Zenon
<1>3. Append(<<2, 1>>, 0) = <<2, 1, 0>>
  <2>1. <<2, 1>> \in Seq(Locks) /\ <<2, 1, 0>> \in Seq(Locks) /\ 0 \in Locks
    BY DEF Locks
  <2>2. /\ Append(<<2, 1>>, 0) \in Seq(Locks) /\ Len(Append(<<2, 1>>, 0)) = 3
        /\ Append(<<2, 1>>, 0)[1] = 2 /\ Append(<<2, 1>>, 0)[2] = 1 /\ Append(<<2, 1>>, 0)[3] = 0
    BY <2>1, AppendProperties
  <2>3. Len(<<2, 1, 0>>) = 3 /\ \A i \in 1 .. 3 : Append(<<2, 1>>, 0)[i] = <<2, 1, 0>>[i]
    BY <2>2
  <2>4. /\ Len(Append(<<2, 1>>, 0)) = Len(<<2, 1, 0>>)
        /\ \A i \in 1 .. Len(Append(<<2, 1>>, 0)) : Append(<<2, 1>>, 0)[i] = <<2, 1, 0>>[i]
    BY <2>2, <2>3
  <2> QED
    BY <2>1, <2>2, <2>4, SeqEqual, Zenon
<1> QED
  BY <1>1, <1>2, <1>3

\* A thread that takes its locks takes them downwards from n - 1.
LEMMA PrefixNext ==
  ASSUME NEW n \in Numbers, NEW h \in Prefixes(n), NEW l, Len(h) < Len(Needs(n)),
         l = Needs(n)[Len(h) + 1]
  PROVE  /\ l \in Locks /\ l < n /\ (h = <<>> => l = n - 1)
         /\ Append(h, l) \in Prefixes(n) /\ Append(h, l) # <<>>
         /\ \A k \in Locks : Has(h, k) <=> l < k /\ k < n
         /\ \A k \in Locks : Has(Append(h, l), k) <=> Has(h, k) \/ k = l
<1>1. CASE n = 1
  <2>1. h = <<>> /\ l = 0
    BY <1>1 DEF Prefixes, Needs
  <2> QED
    BY <1>1, <2>1 DEF Prefixes, Locks, Has
<1>2. CASE n = 2
  <2>1. CASE h = <<>>
    <3>1. l = 1
      BY <1>2, <2>1 DEF Needs
    <3> QED
      BY <1>2, <2>1, <3>1 DEF Prefixes, Locks, Has
  <2>2. CASE h = <<1>>
    <3>1. l = 0
      BY <1>2, <2>2 DEF Needs
    <3>2. Append(h, l) = <<1, 0>>
      BY <2>2, <3>1, AppendTuples, Zenon
    <3>3. \A k \in Locks : Has(h, k) <=> l < k /\ k < n
      BY <1>2, <2>2, <3>1 DEF Locks, Has
    <3>4. \A k \in Locks : Has(<<1, 0>>, k) <=> Has(h, k) \/ k = l
      BY <1>2, <2>2, <3>1 DEF Locks, Has
    <3>5. l \in Locks /\ l < n /\ h # <<>>
      BY <1>2, <2>2, <3>1 DEF Locks
    <3>6. <<1, 0>> \in Prefixes(n) /\ <<1, 0>> # <<>>
      BY <1>2 DEF Prefixes
    <3> QED
      BY <3>2, <3>3, <3>4, <3>5, <3>6, Zenon
  <2> QED
    BY <1>2, <2>1, <2>2 DEF Prefixes, Needs
<1>3. CASE n = 3
  <2>1. CASE h = <<>>
    <3>1. l = 2
      BY <1>3, <2>1 DEF Needs
    <3> QED
      BY <1>3, <2>1, <3>1 DEF Prefixes, Locks, Has
  <2>2. CASE h = <<2>>
    <3>1. l = 1
      BY <1>3, <2>2 DEF Needs
    <3>2. Append(h, l) = <<2, 1>>
      BY <2>2, <3>1, AppendTuples, Zenon
    <3>3. \A k \in Locks : Has(h, k) <=> l < k /\ k < n
      BY <1>3, <2>2, <3>1 DEF Locks, Has
    <3>4. \A k \in Locks : Has(<<2, 1>>, k) <=> Has(h, k) \/ k = l
      BY <1>3, <2>2, <3>1 DEF Locks, Has
    <3>5. l \in Locks /\ l < n /\ h # <<>>
      BY <1>3, <2>2, <3>1 DEF Locks
    <3>6. <<2, 1>> \in Prefixes(n) /\ <<2, 1>> # <<>>
      BY <1>3 DEF Prefixes
    <3> QED
      BY <3>2, <3>3, <3>4, <3>5, <3>6, Zenon
  <2>3. CASE h = <<2, 1>>
    <3>1. l = 0
      BY <1>3, <2>3 DEF Needs
    <3>2. Append(h, l) = <<2, 1, 0>>
      BY <2>3, <3>1, AppendTuples, Zenon
    <3>3. \A k \in Locks : Has(h, k) <=> l < k /\ k < n
      BY <1>3, <2>3, <3>1 DEF Locks, Has
    <3>4. \A k \in Locks : Has(<<2, 1, 0>>, k) <=> Has(h, k) \/ k = l
      BY <1>3, <2>3, <3>1 DEF Locks, Has
    <3>5. l \in Locks /\ l < n /\ h # <<>>
      BY <1>3, <2>3, <3>1 DEF Locks
    <3>6. <<2, 1, 0>> \in Prefixes(n) /\ <<2, 1, 0>> # <<>>
      BY <1>3 DEF Prefixes
    <3> QED
      BY <3>2, <3>3, <3>4, <3>5, <3>6, Zenon
  <2>4. h # <<2, 1, 0>>
    BY <1>3 DEF Needs
  <2> QED
    BY <1>3, <2>1, <2>2, <2>3, <2>4 DEF Prefixes
<1> QED
  BY <1>1, <1>2, <1>3 DEF Numbers

\* A thread that lacks none of its locks has them in order.
LEMMA PrefixWhole ==
  ASSUME NEW n \in Numbers, NEW h \in Prefixes(n), ~(Len(h) < Len(Needs(n)))
  PROVE  h = Needs(n)
<1>1. CASE n = 1
  BY <1>1 DEF Prefixes, Needs
<1>2. CASE n = 2
  <2>1. ~(Len(h) < 2)
    BY <1>2 DEF Needs
  <2>2. Len(<<>>) < 2 /\ Len(<<1>>) < 2
    OBVIOUS
  <2>3. h # <<>> /\ h # <<1>>
    BY <2>1, <2>2, Zenon
  <2> QED
    BY <1>2, <2>3 DEF Prefixes, Needs
<1>3. CASE n = 3
  <2>1. ~(Len(h) < 3)
    BY <1>3 DEF Needs
  <2>2. Len(<<>>) < 3 /\ Len(<<2>>) < 3 /\ Len(<<2, 1>>) < 3
    OBVIOUS
  <2>3. h # <<>> /\ h # <<2>> /\ h # <<2, 1>>
    BY <2>1, <2>2, Zenon
  <2> QED
    BY <1>3, <2>3 DEF Prefixes, Needs
<1> QED
  BY <1>1, <1>2, <1>3 DEF Numbers

\* All of its locks are the locks below n, the first is n - 1.
LEMMA NeedsAll ==
  ASSUME NEW n \in Numbers
  PROVE  /\ Needs(n) # <<>> /\ Needs(n) \in Prefixes(n) /\ Needs(n) \in Suffixes(n)
         /\ ~(Len(Needs(n)) < Len(Needs(n)))
         /\ <<>> \in Prefixes(n) /\ Len(<<>>) < Len(Needs(n))
         /\ \A k \in Locks : Has(Needs(n), k) <=> k < n
<1>1. CASE n = 1
  BY <1>1 DEF Needs, Prefixes, Suffixes, Has, Locks
<1>2. CASE n = 2
  BY <1>2 DEF Needs, Prefixes, Suffixes, Has, Locks
<1>3. CASE n = 3
  BY <1>3 DEF Needs, Prefixes, Suffixes, Has, Locks
<1> QED
  BY <1>1, <1>2, <1>3 DEF Numbers

\* A thread that has taken a lock has lock n - 1.
LEMMA PrefixFirst ==
  ASSUME NEW n \in Numbers, NEW h \in Prefixes(n), h # <<>>
  PROVE  Has(h, n - 1) /\ \A k \in Locks : Has(h, k) => k < n
<1>1. CASE n = 1
  BY <1>1 DEF Prefixes, Has, Locks
<1>2. CASE n = 2
  BY <1>2 DEF Prefixes, Has, Locks
<1>3. CASE n = 3
  BY <1>3 DEF Prefixes, Has, Locks
<1> QED
  BY <1>1, <1>2, <1>3 DEF Numbers

\* Giving back the first lock of what is held leaves the others.
LEMMA SuffixRest ==
  ASSUME NEW n \in Numbers, NEW h \in Suffixes(n), h # <<>>
  PROVE  /\ Head(h) \in Locks /\ Has(h, Head(h)) /\ Tail(h) \in Suffixes(n)
         /\ \A k \in Locks : Has(Tail(h), k) <=> Has(h, k) /\ k # Head(h)
<1>1. CASE h = <<0>>
  <2>1. Head(h) = 0 /\ Tail(h) = <<>>
    BY <1>1
  <2> QED
    BY <1>1, <2>1 DEF Suffixes, Numbers, Has, Locks
<1>2. CASE h = <<1, 0>>
  <2>1. Head(h) = 1 /\ Tail(h) = <<0>>
    BY <1>2
  <2>2. n # 1
    BY <1>2 DEF Suffixes
  <2> QED
    BY <1>2, <2>1, <2>2 DEF Suffixes, Numbers, Has, Locks
<1>3. CASE h = <<2, 1, 0>>
  <2>1. Head(h) = 2 /\ Tail(h) = <<1, 0>>
    BY <1>3
  <2>2. n # 1 /\ n # 2
    BY <1>3 DEF Suffixes
  <2> QED
    BY <1>3, <2>1, <2>2 DEF Suffixes, Numbers, Has, Locks
<1> QED
  BY <1>1, <1>2, <1>3 DEF Suffixes, Numbers

\* Nobody has a lock of the empty sequence.
LEMMA NoneHeld == \A k : ~Has(<<>>, k)
  BY DEF Has

-----------------------------------------------------------------------------
(* What the shape of a thread says about its locks.                        *)

USE DEF threadVars, mainVars, Goes, Moves, Dies

\* Only locks below n are given back by thread n.
LEMMA SuffixBelow ==
  ASSUME NEW n \in Numbers, NEW h \in Suffixes(n), NEW k \in Locks, Has(h, k)
  PROVE  k < n
<1>1. CASE n = 1
  BY <1>1 DEF Suffixes, Has, Locks
<1>2. CASE n = 2
  BY <1>2 DEF Suffixes, Has, Locks
<1>3. CASE n = 3
  BY <1>3 DEF Suffixes, Has, Locks
<1> QED
  BY <1>1, <1>2, <1>3 DEF Numbers

\* A thread that wants a lock has the higher ones of its locks and no others.
LEMMA Wanting ==
  ASSUME Shapes, NEW t \in Threads, WantsLocks(t)
  PROVE  /\ slept[t] = t[2] - 1 /\ NextLock(t) \in Locks /\ NextLock(t) < t[2]
         /\ held[t] = <<>> => NextLock(t) = t[2] - 1
         /\ Append(held[t], NextLock(t)) \in Prefixes(t[2])
         /\ Append(held[t], NextLock(t)) # <<>>
         /\ \A k \in Locks : Has(held[t], k) <=> NextLock(t) < k /\ k < t[2]
         /\ \A k \in Locks :
              Has(Append(held[t], NextLock(t)), k) <=> Has(held[t], k) \/ k = NextLock(t)
<1>1. t[2] \in Numbers /\ held[t] \in Prefixes(t[2]) /\ slept[t] = t[2] - 1
  BY DEF Shapes, Shape, WantsLocks, Threads
<1>2. Len(held[t]) < Len(Needs(t[2])) /\ NextLock(t) = Needs(t[2])[Len(held[t]) + 1]
  BY DEF WantsLocks, NextLock
<1> QED
  BY <1>1, <1>2, PrefixNext

\* A thread with a lock has slept long enough and needs it.
LEMMA Holding ==
  ASSUME Shapes, NEW t \in Threads, NEW l \in Locks, Has(held[t], l)
  PROVE  slept[t] >= t[2] - 1 /\ l < t[2]
<1> USE ConstantsOK
<1>1. t[2] \in Numbers /\ slept[t] \in 0 .. 2 + Work /\ Shape(t)
  BY DEF Shapes, Threads, TypeOK
<1>2. held[t] # <<>>
  BY NoneHeld, Zenon
<1>3. ~(slept[t] < t[2] - 1)
  BY <1>1, <1>2, Zenon DEF Shape
<1>4. CASE slept[t] = t[2] - 1
  <2>1. held[t] \in Prefixes(t[2])
    BY <1>1, <1>4 DEF Shape
  <2> QED
    BY <1>1, <1>2, <1>3, <2>1, PrefixFirst DEF Numbers
<1>5. CASE t[2] - 1 < slept[t] /\ slept[t] < 2 + Work
  <2>1. held[t] = Needs(t[2])
    BY <1>1, <1>5 DEF Shape
  <2> QED
    BY <1>1, <1>5, <2>1, NeedsAll DEF Numbers
<1>6. CASE slept[t] = 2 + Work
  <2>1. held[t] \in Suffixes(t[2])
    BY <1>1, <1>6 DEF Shape
  <2> QED
    BY <1>1, <1>6, <2>1, SuffixBelow DEF Numbers
<1> QED
  BY <1>1, <1>3, <1>4, <1>5, <1>6 DEF Numbers

\* A thread that has got its first lock and not finished its work has it.
LEMMA Keeping ==
  ASSUME Shapes, NEW t \in Threads, Passed(t), slept[t] # 2 + Work
  PROVE  Has(held[t], t[2] - 1)
<1> USE ConstantsOK
<1>1. t[2] \in Numbers /\ slept[t] \in 0 .. 2 + Work /\ Shape(t)
  BY DEF Shapes, Threads, TypeOK
<1>2. CASE slept[t] = t[2] - 1 /\ held[t] # <<>>
  <2>1. held[t] \in Prefixes(t[2])
    BY <1>1, <1>2 DEF Shape
  <2> QED
    BY <1>1, <1>2, <2>1, PrefixFirst
<1>3. CASE slept[t] >= t[2]
  <2>1. held[t] = Needs(t[2])
    BY <1>1, <1>3 DEF Shape, Numbers
  <2>2. t[2] - 1 \in Locks /\ t[2] - 1 < t[2]
    BY <1>1 DEF Numbers, Locks
  <2> QED
    BY <1>1, <2>1, <2>2, NeedsAll
<1> QED
  BY <1>2, <1>3 DEF Passed

\* The steps of a thread leave the other threads alone.
LEMMA Others ==
  ASSUME Shapes, NEW t \in Threads, ThreadStep(t) \/ Getchar(t),
         NEW u \in Threads, u # t
  PROVE  UNCHANGED <<pc[u], slept[u], held[u], tmp[u]>>
  BY DEF Shapes, TypeOK, ThreadStep, Test, Load, Store, Sleep, Signal, SignalStore, ToGetchar,
         Getchar

-----------------------------------------------------------------------------
(* Shapes.                                                                 *)

\* The steps of a thread keep its shape.
LEMMA ShapeStep ==
  ASSUME Shapes, LockInv, NEW t \in Threads, ThreadStep(t) \/ Getchar(t)
  PROVE  TypeOK' /\ Shape(t)'
<1> USE ConstantsOK
<1>1. /\ TypeOK /\ Shape(t) /\ t[1] \in Procs /\ t[2] \in Numbers
      /\ pc[t] \in {"run", "load", "store", "sleep", "signal", "getchar", "done", "off"}
      /\ slept[t] \in 0 .. 2 + Work /\ held[t] \in Seq(Locks)
  BY DEF Shapes, Threads, TypeOK
<1>2. CASE Test(t) \/ Load(t)
  <2>1. WantsLocks(t) /\ UNCHANGED <<slept, held, mutex, life, seen>>
    BY <1>1, <1>2 DEF Test, Load, Shape
  <2>2. /\ pc'[t] \in {"load", "store"}
        /\ pc' \in [Threads -> {"off", "run", "load", "store", "sleep", "signal", "getchar", "done"}]
    BY <1>1, <1>2 DEF Test, Load, TypeOK
  <2>3. mutex[t[1]][NextLock(t)] \in {0, 1}
    BY <1>1, <2>1, Wanting DEF TypeOK
  <2>4. tmp' \in [Threads -> {0, 1}]
    BY <1>1, <1>2, <2>3 DEF Test, Load, TypeOK
  <2>5. TypeOK'
    BY <1>1, <2>1, <2>2, <2>4 DEF TypeOK
  <2> QED
    BY <1>1, <2>1, <2>2, <2>5 DEF Shape, WantsLocks
<1>3. CASE Store(t)
  <2> DEFINE l == NextLock(t)
  <2>1. WantsLocks(t) /\ tmp[t] = 1
    BY <1>1, <1>3 DEF Store, Shape, LockInv
  <2>2. l \in Locks /\ Append(held[t], l) \in Prefixes(t[2]) /\ slept[t] = t[2] - 1
    BY <2>1, Wanting
  <2>3. Append(held[t], l) \in Seq(Locks)
    BY <1>1, <2>2, AppendProperties
  <2> HIDE DEF l
  <2>4. mutex' = [mutex EXCEPT ![t[1]][l] = 0] /\ held' = [held EXCEPT ![t] = Append(held[t], l)]
    BY <1>3, <2>1 DEF Store, l
  <2>5. pc' = [pc EXCEPT ![t] = "run"] /\ UNCHANGED <<slept, tmp, life, seen>>
    BY <1>3 DEF Store
  <2>6. TypeOK'
    BY <1>1, <2>2, <2>3, <2>4, <2>5 DEF TypeOK
  <2>7. pc'[t] = "run" /\ held'[t] = Append(held[t], l) /\ slept'[t] = t[2] - 1
    BY <1>1, <2>2, <2>4, <2>5 DEF TypeOK
  <2>8. t[2] - 1 < 2 + Work /\ ~(t[2] - 1 < t[2] - 1)
    BY <1>1 DEF Numbers
  <2> QED
    BY <1>1, <2>2, <2>6, <2>7, <2>8 DEF Shape, Numbers
<1>4. CASE Sleep(t)
  <2>1. TypeOK'
    BY <1>1, <1>4 DEF Sleep, TypeOK
  <2>2. pc'[t] = "sleep" /\ UNCHANGED <<slept, held>>
    BY <1>1, <1>4 DEF Sleep, TypeOK
  <2> QED
    BY <1>1, <1>4, <2>1, <2>2 DEF Sleep, Shape, WantsLocks
<1>5. CASE Signal(t)
  <2>1. held[t] \in Suffixes(t[2]) /\ held[t] # <<>>
    BY <1>1, <1>5 DEF Signal, Shape
  <2>2. mutex[t[1]][Head(held[t])] \in {0, 1}
    BY <1>1, <2>1, SuffixRest DEF TypeOK
  <2>3. TypeOK'
    BY <1>1, <1>5, <2>2 DEF Signal, TypeOK
  <2>4. pc'[t] = "signal" /\ UNCHANGED <<slept, held>>
    BY <1>1, <1>5 DEF Signal, TypeOK
  <2> QED
    BY <1>1, <1>5, <2>3, <2>4 DEF Signal, Shape
<1>6. CASE SignalStore(t)
  <2> DEFINE l == Head(held[t])
  <2>1. held[t] \in Suffixes(t[2]) /\ held[t] # <<>> /\ tmp[t] = 0 /\ slept[t] = 2 + Work
    BY <1>1, <1>6 DEF SignalStore, Shape, LockInv
  <2>2. l \in Locks /\ Tail(held[t]) \in Suffixes(t[2])
    BY <1>1, <2>1, SuffixRest
  <2>3. Tail(held[t]) \in Seq(Locks)
    BY <1>1, <2>1, HeadTailProperties
  <2> HIDE DEF l
  <2>4. mutex' = [mutex EXCEPT ![t[1]][l] = 1] /\ held' = [held EXCEPT ![t] = Tail(held[t])]
    BY <1>6, <2>1 DEF SignalStore, l
  <2>5. pc' = [pc EXCEPT ![t] = "run"] /\ UNCHANGED <<slept, tmp, life, seen>>
    BY <1>6 DEF SignalStore
  <2>6. TypeOK'
    BY <1>1, <2>2, <2>3, <2>4, <2>5 DEF TypeOK
  <2>7. pc'[t] = "run" /\ held'[t] = Tail(held[t]) /\ slept'[t] = 2 + Work
    BY <1>1, <2>1, <2>4, <2>5 DEF TypeOK
  <2> QED
    BY <1>1, <2>2, <2>6, <2>7 DEF Shape, Numbers
<1>7. CASE ToGetchar(t) \/ Getchar(t)
  <2>1. TypeOK'
    BY <1>1, <1>7 DEF ToGetchar, Getchar, TypeOK
  <2>2. pc'[t] \in {"getchar", "done"} /\ UNCHANGED <<slept, held>>
    BY <1>1, <1>7 DEF ToGetchar, Getchar, TypeOK
  <2>3. slept[t] = 2 + Work /\ held[t] = <<>>
    BY <1>1, <1>7 DEF ToGetchar, Getchar, Shape
  <2> QED
    BY <1>1, <2>1, <2>2, <2>3 DEF Shape
<1> QED
  BY <1>2, <1>3, <1>4, <1>5, <1>6, <1>7 DEF ThreadStep

\* Every step keeps the shapes.
LEMMA ShapesKept ==
  ASSUME Shapes, Created, LockInv, [Next]_vars
  PROVE  Shapes'
<1> USE ConstantsOK
<1>1. TypeOK /\ main \in [Procs -> Places] /\ \A t \in Threads : Shape(t)
  BY DEF Shapes
<1>2. ASSUME NEW t \in Threads, ThreadStep(t) \/ Getchar(t) PROVE Shapes'
  <2>1. TypeOK' /\ Shape(t)'
    BY <1>2, ShapeStep
  <2>2. ASSUME NEW u \in Threads, u # t PROVE Shape(u)'
    <3>1. UNCHANGED <<pc[u], slept[u], held[u]>>
      BY <1>2, <2>2, Others
    <3> QED
      BY <1>1, <3>1 DEF Shape, WantsLocks
  <2>3. UNCHANGED main
    BY <1>2 DEF ThreadStep, Test, Load, Store, Sleep, Signal, SignalStore, ToGetchar, Getchar
  <2> QED
    BY <1>1, <2>1, <2>2, <2>3 DEF Shapes
<1>3. ASSUME NEW p \in Procs, NEW n \in Numbers, CreateThread(p, n) PROVE Shapes'
  <2>0. (n = 1 => main[p] = "create1") /\ (n = 2 => main[p] = "create2") /\ (n = 3 => main[p] = "create3")
    BY <1>3 DEF CreateThread
  <2>1. <<p, n>> \in Threads /\ pc[<<p, n>>] = "off"
    <3>1. n = 1 \/ n = 2 \/ n = 3
      BY DEF Numbers
    <3>2. pc[<<p, n>>] = "off"
      BY <2>0, <3>1 DEF Created
    <3> QED
      BY <3>2 DEF Threads
  <2>2. pc' = [pc EXCEPT ![<<p, n>>] = "run"] /\ UNCHANGED <<life, seen, mutex, slept, held, tmp>>
    BY <1>3 DEF CreateThread
  <2>3. main' \in [Procs -> Places]
    BY <1>1, <1>3 DEF CreateThread, Numbers, Places, Creating, Create, Join
  <2>4. TypeOK'
    BY <1>1, <2>2 DEF TypeOK
  <2>5. ASSUME NEW u \in Threads PROVE Shape(u)'
    <3>1. CASE u = <<p, n>>
      BY <1>1, <2>1, <2>2, <3>1 DEF Shape, TypeOK
    <3>2. CASE u # <<p, n>>
      <4>1. UNCHANGED <<pc[u], slept[u], held[u]>>
        BY <1>1, <2>2, <3>2 DEF TypeOK
      <4> QED
        BY <1>1, <4>1 DEF Shape, WantsLocks
    <3> QED
      BY <3>1, <3>2
  <2> QED
    BY <2>3, <2>4, <2>5 DEF Shapes
<1>4. CASE Second
  <2>1. pc' = [t \in Threads |-> IF pc[t] = "sleep" THEN "run" ELSE pc[t]]
    BY <1>4 DEF Second
  <2>2. slept' = [t \in Threads |-> IF pc[t] = "sleep" THEN slept[t] + 1 ELSE slept[t]]
    BY <1>4 DEF Second
  <2>3. UNCHANGED <<life, seen, mutex, held, tmp>>
    BY <1>4 DEF Second
  <2>4. main' \in [Procs -> Places]
    BY <1>1, <1>4 DEF Second, MainSleeps, AfterSleep, Places, Procs
  <2>5. ASSUME NEW u \in Threads PROVE Shape(u)' /\ slept'[u] \in 0 .. 2 + Work
    <3>1. u[2] \in Numbers /\ slept[u] \in 0 .. 2 + Work /\ Shape(u)
      BY <1>1 DEF TypeOK, Threads
    <3>2. CASE pc[u] = "sleep"
      <4>1. pc'[u] = "run" /\ slept'[u] = slept[u] + 1 /\ UNCHANGED held
        BY <2>1, <2>2, <2>3, <3>2
      <4>2. slept[u] < 2 + Work /\ ~WantsLocks(u)
        BY <3>1, <3>2 DEF Shape
      <4>3. CASE slept[u] < u[2] - 1
        <5>1. held[u] = <<>> /\ <<>> \in Prefixes(u[2])
          BY <3>1, <4>3, NeedsAll DEF Shape
        <5> QED
          BY <3>1, <4>1, <4>2, <4>3, <5>1 DEF Shape, Numbers
      <4>4. CASE slept[u] >= u[2] - 1
        <5>1. held[u] = Needs(u[2])
          <6>1. CASE slept[u] = u[2] - 1
            BY <3>1, <4>2, <6>1, PrefixWhole DEF Shape, WantsLocks
          <6>2. CASE slept[u] # u[2] - 1
            BY <3>1, <4>2, <4>4, <6>2 DEF Shape, Numbers
          <6> QED
            BY <6>1, <6>2
        <5>2. held[u] \in Suffixes(u[2])
          BY <3>1, <5>1, NeedsAll
        <5> QED
          BY <3>1, <4>1, <4>2, <4>4, <5>1, <5>2 DEF Shape, Numbers
      <4> QED
        BY <3>1, <4>3, <4>4 DEF Numbers
    <3>3. CASE pc[u] # "sleep"
      <4>1. UNCHANGED <<pc[u], slept[u], held[u]>>
        BY <2>1, <2>2, <2>3, <3>3
      <4> QED
        BY <3>1, <4>1 DEF Shape, WantsLocks
    <3> QED
      BY <3>2, <3>3
  <2>6. slept' \in [Threads -> 0 .. 2 + Work]
    BY <2>2, <2>5
  <2>7. TypeOK'
    BY <1>1, <2>1, <2>3, <2>6 DEF TypeOK
  <2> QED
    BY <2>4, <2>5, <2>7 DEF Shapes
<1>5. ASSUME UNCHANGED <<mutex, threadVars>>, TypeOK', main' \in [Procs -> Places]
      PROVE  Shapes'
  BY <1>1, <1>5 DEF Shapes, Shape, WantsLocks
<1>6. CASE Fork
  BY <1>1, <1>5, <1>6 DEF Fork, TypeOK, Procs, Places, Creating, Create
<1>7. ASSUME NEW p \in Procs, Abort(p) \/ Exit(p) PROVE Shapes'
  BY <1>1, <1>5, <1>7 DEF Abort, Exit, TypeOK
<1>8. ASSUME NEW where \in {"look1", "look2"}, Look(where) PROVE Shapes'
  <2>1. seen' \in 0 .. 3
    BY <1>8 DEF Look, Locks
  <2> QED
    BY <1>1, <1>5, <1>8, <2>1 DEF Look, TypeOK
<1>9. ASSUME NEW where \in {"look1", "look2"}, LookDone(where) PROVE Shapes'
  BY <1>1, <1>5, <1>9 DEF LookDone, AfterLoop, TypeOK, Places, Procs
<1>10. CASE CreateEcho \/ EchoGetchar \/ JoinEcho \/ MainGetchar
  BY <1>1, <1>5, <1>10 DEF CreateEcho, EchoGetchar, JoinEcho, MainGetchar, TypeOK, Places, Join, Procs
<1>11. CASE Exec
  BY <1>1, <1>5, <1>11 DEF Exec, TypeOK
<1>12. ASSUME NEW p \in Procs, NEW n \in Numbers, JoinThread(p, n) PROVE Shapes'
  BY <1>1, <1>5, <1>12 DEF JoinThread, TypeOK, Places, Join, Numbers
<1>13. CASE UNCHANGED vars
  BY <1>1, <1>5, <1>13 DEF vars, TypeOK
<1> QED
  BY <1>2, <1>3, <1>4, <1>6, <1>7, <1>8, <1>9, <1>10, <1>11, <1>12, <1>13
     DEF Next, MainStep, ChildStep

\* Every step keeps what is known of the threads created.
LEMMA CreatedKept ==
  ASSUME Shapes, Created, [Next]_vars
  PROVE  Created'
<1>1. TypeOK /\ main \in [Procs -> Places]
  BY DEF Shapes
<1>2. ASSUME NEW t \in Threads, ThreadStep(t) \/ Getchar(t) PROVE Created'
  <2>1. pc[t] # "off" /\ pc'[t] # "off" /\ UNCHANGED main
    BY <1>1, <1>2 DEF ThreadStep, Test, Load, Store, Sleep, Signal, SignalStore, ToGetchar,
       Getchar, TypeOK
  <2>2. \A u \in Threads : u # t => UNCHANGED pc[u]
    BY <1>2, Others
  <2>3. \A p \in Procs, n \in Numbers : <<p, n>> \in Threads
    BY DEF Threads
  <2> QED
    BY <2>1, <2>2, <2>3 DEF Created
<1>3. ASSUME NEW p \in Procs, NEW n \in Numbers, CreateThread(p, n) PROVE Created'
  <2>1. pc' = [pc EXCEPT ![<<p, n>>] = "run"] /\ <<p, n>> \in Threads
    BY <1>3 DEF CreateThread, Threads
  <2>2. \A q \in Procs, m \in Numbers :
          /\ <<q, m>> \in Threads
          /\ pc'[<<q, m>>] = IF q = p /\ m = n THEN "run" ELSE pc[<<q, m>>]
    BY <1>1, <2>1 DEF TypeOK, Threads
  <2>3. \A q \in Procs : q # p => UNCHANGED main[q]
    BY <1>1, <1>3 DEF CreateThread
  <2>4. /\ n = 1 => main[p] = "create1" /\ main'[p] = "create2"
        /\ n = 2 => main[p] = "create2" /\ main'[p] = "create3"
        /\ n = 3 => main[p] = "create3" /\ main'[p] \in {"sleep1", "join1"}
    BY <1>1, <1>3 DEF CreateThread
  <2>5. main["parent"]' = "fork" => main["child"]' = "fork"
    BY <2>3, <2>4 DEF Created, Procs, Numbers
  <2>6. ASSUME NEW q \in Procs, NEW m \in Numbers
        PROVE  pc'[<<q, m>>] = "off" <=> \/ main'[q] \in {"fork", "create1"}
                                         \/ main'[q] = "create2" /\ m > 1
                                         \/ main'[q] = "create3" /\ m > 2
    <3>1. CASE q # p
      BY <2>2, <2>3, <3>1 DEF Created
    <3>2. CASE q = p
      <4>1. pc'[<<q, m>>] = IF m = n THEN "run" ELSE pc[<<q, m>>]
        BY <2>2, <3>2
      <4>2. pc[<<q, m>>] = "off" <=> \/ main[p] \in {"fork", "create1"}
                                     \/ main[p] = "create2" /\ m > 1
                                     \/ main[p] = "create3" /\ m > 2
        BY <3>2 DEF Created
      <4>3. CASE n = 1
        BY <2>4, <3>2, <4>1, <4>2, <4>3 DEF Numbers
      <4>4. CASE n = 2
        BY <2>4, <3>2, <4>1, <4>2, <4>4 DEF Numbers
      <4>5. CASE n = 3
        BY <2>4, <3>2, <4>1, <4>2, <4>5 DEF Numbers
      <4> QED
        BY <4>3, <4>4, <4>5 DEF Numbers
    <3> QED
      BY <3>1, <3>2
  <2> QED
    BY <2>5, <2>6 DEF Created
<1>4. CASE Second
  <2>1. \A p \in Procs, n \in Numbers : pc'[<<p, n>>] = "off" <=> pc[<<p, n>>] = "off"
    BY <1>4 DEF Second, Threads
  <2>2. \A p \in Procs : main'[p] = main[p] \/ (main[p] \notin Creating /\ main'[p] \notin Creating)
    BY <1>1, <1>4 DEF Second, MainSleeps, AfterSleep, Creating, Create
  <2> QED
    BY <2>1, <2>2 DEF Created, Procs, Creating, Create
<1>5. CASE Fork
  <2>1. UNCHANGED pc /\ main["parent"] = "fork" /\ main["child"] = "fork"
    BY <1>5 DEF Fork, Created
  <2>2. \A p \in Procs : main'[p] = main[p] \/ main'[p] = "create1"
    BY <1>1, <1>5 DEF Fork
  <2>3. main'["parent"] = "create1"
    BY <1>1, <1>5 DEF Fork, Procs
  <2> QED
    BY <2>1, <2>2, <2>3 DEF Created, Procs, Creating, Create
<1>6. ASSUME UNCHANGED pc,
             \A p \in Procs : main'[p] = main[p] \/ (main[p] \notin Creating /\ main'[p] \notin Creating)
      PROVE  Created'
  BY <1>6 DEF Created, Procs, Creating, Create
<1>7. ASSUME NEW p \in Procs, Abort(p) \/ Exit(p) PROVE Created'
  BY <1>6, <1>7 DEF Abort, Exit
<1>8. ASSUME NEW where \in {"look1", "look2"}, Look(where) \/ LookDone(where) PROVE Created'
  BY <1>1, <1>6, <1>8 DEF Look, LookDone, AfterLoop, Creating, Create
<1>9. CASE CreateEcho \/ Exec \/ EchoGetchar \/ JoinEcho \/ MainGetchar
  BY <1>1, <1>6, <1>9 DEF CreateEcho, Exec, EchoGetchar, JoinEcho, MainGetchar, Creating, Create
<1>10. ASSUME NEW p \in Procs, NEW n \in Numbers, JoinThread(p, n) PROVE Created'
  BY <1>1, <1>6, <1>10 DEF JoinThread, Creating, Create, Numbers
<1>11. CASE UNCHANGED vars
  BY <1>6, <1>11 DEF vars
<1> QED
  BY <1>2, <1>3, <1>4, <1>5, <1>7, <1>8, <1>9, <1>10, <1>11 DEF Next, MainStep, ChildStep

-----------------------------------------------------------------------------
(* LockInv.                                                                *)

\* A thread is its process and its number.
LEMMA Pairs ==
  /\ \A t \in Threads : t[1] \in Procs /\ t[2] \in Numbers /\ t = <<t[1], t[2]>>
  /\ \A p \in Procs, n \in Numbers : /\ <<p, n>> \in Threads
                                     /\ <<p, n>>[1] = p /\ <<p, n>>[2] = n
  BY DEF Threads

\* Two threads of a process never want the same lock with nobody having it:
\* the higher one has the first lock of the lower one, or asked for its own
\* a second later.
LEMMA Rivals ==
  ASSUME Shapes, LockInv, InStep,
         NEW t \in Threads, NEW u \in Threads, Alive(t), t[1] = u[1], t[2] < u[2],
         WantsLocks(t), WantsLocks(u)
  PROVE  NextLock(t) # NextLock(u)
<1> USE ConstantsOK
<1>1. SUFFICES ASSUME NextLock(t) = NextLock(u) PROVE FALSE
  OBVIOUS
<1>2. t[2] \in Numbers /\ u[2] \in Numbers /\ t[2] - 1 \in Locks
  BY Pairs DEF Numbers, Locks
<1>3. slept[t] = t[2] - 1 /\ slept[u] = u[2] - 1 /\ NextLock(t) \in Locks /\ NextLock(t) < t[2]
  BY Wanting
<1>4. Alive(u)
  BY DEF Alive
<1>5. Passed(t)
  BY <1>2, <1>3, <1>4 DEF InStep, Numbers
<1>6. Has(held[t], t[2] - 1)
  BY <1>2, <1>3, <1>5, Keeping DEF Numbers
<1>7. NextLock(t) < t[2] - 1
  BY <1>2, <1>6, Wanting
<1>8. Has(held[u], t[2] - 1)
  BY <1>1, <1>2, <1>7, Wanting DEF Numbers, Locks
<1>9. t = u
  BY <1>2, <1>6, <1>8 DEF LockInv, Claims
<1> QED
  BY <1>2, <1>9 DEF Numbers

\* A thread that sees its lock free is the only one to do so.
LEMMA Free ==
  ASSUME Shapes, LockInv, InStep, NEW t \in Threads, Test(t),
         NEW u \in Threads, u[1] = t[1]
  PROVE  ~Claims(u, NextLock(t))
<1>1. WantsLocks(t) /\ Alive(t) /\ pc[t] = "run" /\ mutex[t[1]][NextLock(t)] > 0
  BY DEF Test
<1>2. NextLock(t) \in Locks
  BY <1>1, Wanting
<1>3. u = <<t[1], u[2]>> /\ u[2] \in Numbers /\ t[1] \in Procs
  BY Pairs
<1>4. ~Has(held[u], NextLock(t))
  BY <1>1, <1>2, <1>3 DEF LockInv
<1>5. ASSUME pc[u] \in {"load", "store"} PROVE NextLock(u) # NextLock(t)
  <2>1. WantsLocks(u) /\ u # t /\ Alive(u)
    BY <1>1, <1>5 DEF Shapes, Shape, Alive
  <2>2. t[2] \in Numbers /\ t[2] # u[2]
    BY <1>3, <2>1, Pairs
  <2>3. t[2] < u[2] \/ u[2] < t[2]
    BY <1>3, <2>2 DEF Numbers
  <2> QED
    BY <1>1, <2>1, <2>3, Rivals
<1> QED
  BY <1>4, <1>5 DEF Claims

\* Steps that touch neither the locks nor a thread that is taking or giving
\* back one.
LEMMA LocksAlone ==
  ASSUME LockInv, UNCHANGED <<mutex, held, tmp>>,
         \A t \in Threads : pc'[t] \in {"load", "store", "signal"} => pc'[t] = pc[t]
  PROVE  LockInv'
<1>1. ASSUME NEW t \in Threads, NEW l \in Locks, Claims(t, l)' PROVE Claims(t, l)
  BY <1>1 DEF Claims, NextLock
<1>2. \A t, u \in Threads, l \in Locks :
        t[1] = u[1] /\ Claims(t, l)' /\ Claims(u, l)' => t = u
  BY <1>1 DEF LockInv
<1> QED
  BY <1>2 DEF LockInv

\* The steps of a thread keep the locks.
LEMMA LockStep ==
  ASSUME Shapes, LockInv, InStep, NEW t \in Threads, ThreadStep(t) \/ Getchar(t)
  PROVE  LockInv'
<1> USE ConstantsOK
<1>1. /\ TypeOK /\ Shape(t) /\ t[1] \in Procs /\ t[2] \in Numbers /\ t = <<t[1], t[2]>>
  BY Pairs DEF Shapes
<1>2. ASSUME NEW u \in Threads, u # t
      PROVE  /\ UNCHANGED <<pc[u], held[u], tmp[u]>>
             /\ \A l \in Locks : Claims(u, l)' <=> Claims(u, l)
  <2>1. UNCHANGED <<pc[u], slept[u], held[u], tmp[u]>>
    BY <1>2, Others
  <2> QED
    BY <2>1 DEF Claims, NextLock
<1>3. \A l \in Locks, n \in Numbers : <<t[1], n>> # t => UNCHANGED held[<<t[1], n>>]
  BY <1>1, <1>2, Pairs
<1>4. \A p \in Procs : p # t[1] => \A n \in Numbers : UNCHANGED held[<<p, n>>]
  BY <1>2, Pairs
<1>5. CASE Test(t)
  <2>1. pc'[t] = "load" /\ UNCHANGED <<mutex, held, tmp>>
    BY <1>1, <1>5 DEF Test, TypeOK
  <2>2. \A l \in Locks : Claims(t, l)' <=> Claims(t, l) \/ l = NextLock(t)
    BY <1>1, <1>5, <2>1 DEF Claims, NextLock, Test
  <2>3. \A u \in Threads : u[1] = t[1] => ~Claims(u, NextLock(t))
    BY <1>5, Free
  <2>4. ASSUME NEW u \in Threads, NEW v \in Threads, NEW l \in Locks,
               u[1] = v[1], Claims(u, l)', Claims(v, l)'
        PROVE  u = v
    <3>1. CASE u = t
      BY <1>2, <2>2, <2>3, <2>4, <3>1 DEF LockInv
    <3>2. CASE v = t
      BY <1>2, <2>2, <2>3, <2>4, <3>2 DEF LockInv
    <3>3. CASE u # t /\ v # t
      BY <1>2, <2>4, <3>3 DEF LockInv
    <3> QED
      BY <3>1, <3>2, <3>3
  <2> QED
    BY <1>2, <2>1, <2>4 DEF LockInv
<1>6. CASE Load(t)
  <2>1. pc[t] = "load" /\ pc'[t] = "store" /\ UNCHANGED <<mutex, held>>
    BY <1>1, <1>6 DEF Load, TypeOK
  <2>2. \A l \in Locks : Claims(t, l)' <=> Claims(t, l)
    BY <2>1 DEF Claims, NextLock
  <2>3. WantsLocks(t)
    BY <1>1, <2>1 DEF Shape
  <2>4. NextLock(t) \in Locks /\ ~Has(held[t], NextLock(t))
    BY <2>3, Wanting DEF Locks
  <2>5. \A n \in Numbers : ~Has(held[<<t[1], n>>], NextLock(t))
    BY <1>1, <2>1, <2>4, Pairs DEF LockInv, Claims
  <2>6. mutex[t[1]][NextLock(t)] = 1
    <3>1. mutex[t[1]][NextLock(t)] \in {0, 1}
      BY <1>1, <2>4 DEF TypeOK
    <3>2. mutex[t[1]][NextLock(t)] # 0
      BY <1>1, <2>4, <2>5 DEF LockInv
    <3> QED
      BY <3>1, <3>2
  <2>7. tmp'[t] = 1
    BY <1>1, <1>6, <2>6 DEF Load, TypeOK
  <2>8. \A u \in Threads, l \in Locks : Claims(u, l)' <=> Claims(u, l)
    BY <1>2, <2>2
  <2>9. \A u \in Threads : /\ pc'[u] = "store" => tmp'[u] = 1
                           /\ pc'[u] = "signal" => tmp'[u] = 0
    BY <1>2, <2>1, <2>7 DEF LockInv
  <2>10. \A p \in Procs, l \in Locks :
           mutex'[p][l] = 0 <=> \E n \in Numbers : Has(held'[<<p, n>>], l)
    BY <2>1 DEF LockInv
  <2> QED
    BY <2>8, <2>9, <2>10 DEF LockInv
<1>7. CASE Store(t)
  <2> DEFINE l == NextLock(t)
  <2>1. WantsLocks(t) /\ tmp[t] = 1 /\ pc[t] = "store"
    BY <1>1, <1>7 DEF Store, Shape, LockInv
  <2>2. l \in Locks /\ \A k \in Locks : Has(Append(held[t], l), k) <=> Has(held[t], k) \/ k = l
    BY <2>1, Wanting
  <2>3. mutex' = [mutex EXCEPT ![t[1]][l] = 0] /\ held'[t] = Append(held[t], l) /\ pc'[t] = "run"
    BY <1>1, <1>7, <2>1 DEF Store, TypeOK
  <2>4. UNCHANGED tmp /\ Claims(t, l)
    BY <1>7, <2>1 DEF Store, Claims
  <2> HIDE DEF l
  <2>5. \A k \in Locks : Has(held'[t], k) <=> Has(held[t], k) \/ k = l
    BY <2>2, <2>3
  <2>6. \A u \in Threads, k \in Locks : Claims(u, k)' => Claims(u, k)
    BY <1>2, <2>2, <2>3, <2>4, <2>5 DEF Claims
  <2>7. \A u, v \in Threads, k \in Locks :
          u[1] = v[1] /\ Claims(u, k)' /\ Claims(v, k)' => u = v
    BY <2>6 DEF LockInv
  <2>8. ASSUME NEW p \in Procs, NEW k \in Locks
        PROVE  mutex'[p][k] = 0 <=> \E n \in Numbers : Has(held'[<<p, n>>], k)
    <3>1. CASE p # t[1]
      <4>1. mutex'[p][k] = mutex[p][k]
        BY <1>1, <2>3, <3>1 DEF TypeOK
      <4> QED
        BY <1>4, <3>1, <4>1 DEF LockInv
    <3>2. CASE p = t[1] /\ k = l
      <4>1. mutex'[p][k] = 0
        BY <1>1, <2>3, <3>2 DEF TypeOK
      <4>2. Has(held'[<<t[1], t[2]>>], k)
        BY <1>1, <2>5, <3>2
      <4> QED
        BY <1>1, <3>2, <4>1, <4>2
    <3>3. CASE p = t[1] /\ k # l
      <4>1. mutex'[p][k] = mutex[p][k]
        BY <1>1, <2>3, <3>3 DEF TypeOK
      <4>2. \A n \in Numbers : Has(held'[<<p, n>>], k) <=> Has(held[<<p, n>>], k)
        BY <1>3, <2>5, <3>3
      <4> QED
        BY <4>1, <4>2 DEF LockInv
    <3> QED
      BY <3>1, <3>2, <3>3
  <2>9. \A u \in Threads : /\ pc'[u] = "store" => tmp'[u] = 1
                           /\ pc'[u] = "signal" => tmp'[u] = 0
    BY <1>2, <2>3 DEF LockInv
  <2> QED
    BY <2>7, <2>8, <2>9 DEF LockInv
<1>8. CASE Sleep(t) \/ ToGetchar(t) \/ Getchar(t)
  <2>1. UNCHANGED <<mutex, held, tmp>> /\ pc'[t] \in {"sleep", "getchar", "done"}
    BY <1>1, <1>8 DEF Sleep, ToGetchar, Getchar, TypeOK
  <2>2. \A u \in Threads : pc'[u] \in {"load", "store", "signal"} => pc'[u] = pc[u]
    BY <1>2, <2>1
  <2> QED
    BY <2>1, <2>2, LocksAlone
<1>9. CASE Signal(t)
  <2>1. UNCHANGED <<mutex, held>> /\ pc[t] = "run" /\ pc'[t] = "signal"
    BY <1>1, <1>9 DEF Signal, TypeOK
  <2>2. held[t] # <<>> /\ held[t] \in Suffixes(t[2])
    BY <1>1, <1>9 DEF Signal, Shape
  <2>3. Head(held[t]) \in Locks /\ Has(held[t], Head(held[t]))
    BY <1>1, <2>2, SuffixRest
  <2>4. mutex[t[1]][Head(held[t])] = 0
    BY <1>1, <2>3 DEF LockInv
  <2>5. tmp'[t] = 0
    BY <1>1, <1>9, <2>4 DEF Signal, TypeOK
  <2>6. \A u \in Threads, l \in Locks : Claims(u, l)' => Claims(u, l)
    BY <1>2, <2>1 DEF Claims
  <2>7. \A u \in Threads : /\ pc'[u] = "store" => tmp'[u] = 1
                           /\ pc'[u] = "signal" => tmp'[u] = 0
    BY <1>2, <2>1, <2>5 DEF LockInv
  <2>8. \A p \in Procs, l \in Locks :
          mutex'[p][l] = 0 <=> \E n \in Numbers : Has(held'[<<p, n>>], l)
    BY <2>1 DEF LockInv
  <2>9. \A u, v \in Threads, k \in Locks :
          u[1] = v[1] /\ Claims(u, k)' /\ Claims(v, k)' => u = v
    BY <2>6 DEF LockInv
  <2> QED
    BY <2>7, <2>8, <2>9 DEF LockInv
<1>10. CASE SignalStore(t)
  <2> DEFINE l == Head(held[t])
  <2>1. held[t] \in Suffixes(t[2]) /\ held[t] # <<>> /\ tmp[t] = 0
    BY <1>1, <1>10 DEF SignalStore, Shape, LockInv
  <2>2. /\ l \in Locks /\ Has(held[t], l)
        /\ \A k \in Locks : Has(Tail(held[t]), k) <=> Has(held[t], k) /\ k # l
    BY <1>1, <2>1, SuffixRest
  <2> HIDE DEF l
  <2>3. /\ mutex' = [mutex EXCEPT ![t[1]][l] = 1] /\ held'[t] = Tail(held[t]) /\ pc'[t] = "run"
        /\ UNCHANGED tmp
    BY <1>1, <1>10, <2>1 DEF SignalStore, TypeOK, l
  <2>4. \A k \in Locks : Has(held'[t], k) <=> Has(held[t], k) /\ k # l
    BY <2>2, <2>3
  <2>5. \A u \in Threads, k \in Locks : Claims(u, k)' => Claims(u, k)
    BY <1>2, <2>3, <2>4 DEF Claims
  <2>6. \A u, v \in Threads, k \in Locks :
          u[1] = v[1] /\ Claims(u, k)' /\ Claims(v, k)' => u = v
    BY <2>5 DEF LockInv
  <2>7. ASSUME NEW p \in Procs, NEW k \in Locks
        PROVE  mutex'[p][k] = 0 <=> \E n \in Numbers : Has(held'[<<p, n>>], k)
    <3>1. CASE p # t[1]
      <4>1. mutex'[p][k] = mutex[p][k]
        BY <1>1, <2>3, <3>1 DEF TypeOK
      <4> QED
        BY <1>4, <3>1, <4>1 DEF LockInv
    <3>2. CASE p = t[1] /\ k = l
      <4>1. mutex'[p][k] # 0
        BY <1>1, <2>3, <3>2 DEF TypeOK
      <4>2. \A u \in Threads : u[1] = p /\ Has(held[u], k) => u = t
        BY <2>2, <3>2 DEF LockInv, Claims
      <4>3. \A n \in Numbers : ~Has(held'[<<p, n>>], k)
        BY <1>2, <2>2, <2>4, <3>2, <4>2, Pairs
      <4> QED
        BY <4>1, <4>3, Zenon
    <3>3. CASE p = t[1] /\ k # l
      <4>1. mutex'[p][k] = mutex[p][k]
        BY <1>1, <2>3, <3>3 DEF TypeOK
      <4>2. \A n \in Numbers : Has(held'[<<p, n>>], k) <=> Has(held[<<p, n>>], k)
        BY <1>3, <2>4, <3>3
      <4> QED
        BY <4>1, <4>2 DEF LockInv
    <3> QED
      BY <3>1, <3>2, <3>3
  <2>8. \A u \in Threads : /\ pc'[u] = "store" => tmp'[u] = 1
                           /\ pc'[u] = "signal" => tmp'[u] = 0
    BY <1>2, <2>3 DEF LockInv
  <2> QED
    BY <2>6, <2>7, <2>8 DEF LockInv
<1> QED
  BY <1>5, <1>6, <1>7, <1>8, <1>9, <1>10 DEF ThreadStep

\* The steps of the main threads and the clock touch no lock.
LEMMA MainAlone ==
  ASSUME Shapes, [Next]_vars, \A t \in Threads : ~(ThreadStep(t) \/ Getchar(t))
  PROVE  /\ UNCHANGED <<mutex, held, tmp>>
         /\ \A t \in Threads : pc'[t] \in {"load", "store", "signal"} => pc'[t] = pc[t]
<1>1. TypeOK
  BY DEF Shapes
<1>2. ASSUME NEW p \in Procs, NEW n \in Numbers, CreateThread(p, n)
      PROVE  /\ UNCHANGED <<mutex, held, tmp>>
             /\ \A t \in Threads : pc'[t] \in {"load", "store", "signal"} => pc'[t] = pc[t]
  BY <1>1, <1>2 DEF CreateThread, TypeOK
<1>3. CASE Second
  BY <1>1, <1>3 DEF Second, TypeOK
<1>4. ASSUME NEW p \in Procs, NEW n \in Numbers, JoinThread(p, n)
      PROVE  UNCHANGED <<mutex, threadVars>>
  BY <1>4 DEF JoinThread
<1>5. ASSUME NEW p \in Procs, Abort(p) \/ Exit(p) PROVE UNCHANGED <<mutex, threadVars>>
  BY <1>5 DEF Abort, Exit
<1>6. CASE ChildStep \/ Fork \/ Exec \/ EchoGetchar \/ MainGetchar
  BY <1>6 DEF ChildStep, Look, LookDone, CreateEcho, JoinEcho, Fork, Exec, EchoGetchar, MainGetchar
<1>7. CASE UNCHANGED vars
  BY <1>7 DEF vars
<1> QED
  BY <1>2, <1>3, <1>4, <1>5, <1>6, <1>7 DEF Next, MainStep

\* Every step keeps the locks.
LEMMA LocksKept ==
  ASSUME Shapes, LockInv, InStep, [Next]_vars
  PROVE  LockInv'
<1>1. CASE \E t \in Threads : ThreadStep(t) \/ Getchar(t)
  BY <1>1, LockStep
<1>2. CASE \A t \in Threads : ~(ThreadStep(t) \/ Getchar(t))
  BY <1>2, MainAlone, LocksAlone
<1> QED
  BY <1>1, <1>2

-----------------------------------------------------------------------------
(* InStep.                                                                 *)

\* What the steps do to the time slept.
LEMMA SleptGrows ==
  ASSUME Shapes, [Next]_vars, NEW t \in Threads
  PROVE  /\ slept[t] \in 0 .. 2 + Work
         /\ slept'[t] = slept[t] \/ (slept'[t] = slept[t] + 1 /\ pc[t] = "sleep" /\ Second)
         /\ slept[t] = 2 + Work => slept'[t] = 2 + Work
<1> USE ConstantsOK
<1>1. TypeOK /\ slept[t] \in 0 .. 2 + Work /\ Shape(t)
  BY DEF Shapes, TypeOK
<1>2. CASE Second
  <2>1. slept'[t] = IF pc[t] = "sleep" THEN slept[t] + 1 ELSE slept[t]
    BY <1>2 DEF Second
  <2>2. pc[t] = "sleep" => slept[t] < 2 + Work
    BY <1>1 DEF Shape
  <2> QED
    BY <1>1, <1>2, <2>1, <2>2
<1>3. CASE ~Second
  <2>1. ASSUME NEW u \in Threads, ThreadStep(u) \/ Getchar(u) PROVE UNCHANGED slept
    BY <2>1 DEF ThreadStep, Test, Load, Store, Sleep, Signal, SignalStore, ToGetchar, Getchar
  <2>2. ASSUME NEW p \in Procs, MainStep(p) \/ Abort(p) PROVE UNCHANGED slept
    BY <2>2 DEF MainStep, CreateThread, JoinThread, Exit, Abort
  <2>3. ASSUME ChildStep \/ Fork \/ Exec \/ EchoGetchar \/ MainGetchar PROVE UNCHANGED slept
    BY <2>3 DEF ChildStep, Look, LookDone, CreateEcho, JoinEcho, Fork, Exec, EchoGetchar, MainGetchar
  <2>4. UNCHANGED slept
    BY <1>3, <2>1, <2>2, <2>3 DEF Next, vars
  <2> QED
    BY <1>1, <2>4
<1> QED
  BY <1>2, <1>3

\* A thread that has got its first lock stays so.
LEMMA PassedKept ==
  ASSUME Shapes, [Next]_vars, NEW t \in Threads, Passed(t)
  PROVE  Passed(t)'
<1> USE ConstantsOK
<1>1. TypeOK /\ slept[t] \in 0 .. 2 + Work /\ t[2] \in Numbers /\ Shape(t)
  BY Pairs DEF Shapes, TypeOK
<1>2. CASE slept[t] >= t[2]
  BY <1>1, <1>2, SleptGrows DEF Passed, Numbers
<1>3. CASE slept[t] = t[2] - 1 /\ held[t] # <<>>
  <2>1. CASE slept'[t] # slept[t]
    BY <1>1, <1>3, <2>1, SleptGrows DEF Passed, Numbers
  <2>2. CASE slept'[t] = slept[t]
    <3>1. held'[t] # <<>>
      <4>1. CASE Store(t)
        <5>1. pc[t] = "store" /\ held'[t] = Append(held[t], NextLock(t))
          BY <1>1, <4>1 DEF Store, TypeOK
        <5>2. WantsLocks(t)
          BY <1>1, <5>1 DEF Shape
        <5> QED
          BY <5>1, <5>2, Wanting, Zenon
      <4>2. ~SignalStore(t)
        BY <1>1, <1>3 DEF SignalStore, Shape, Numbers
      <4>3. CASE ThreadStep(t) \/ Getchar(t)
        <5>1. CASE UNCHANGED held
          BY <1>3, <5>1
        <5> QED
          BY <4>1, <4>2, <4>3, <5>1
             DEF ThreadStep, Test, Load, Sleep, Signal, ToGetchar, Getchar
      <4>4. CASE \E u \in Threads : u # t /\ (ThreadStep(u) \/ Getchar(u))
        BY <1>3, <4>4, Others
      <4>5. CASE \A u \in Threads : ~(ThreadStep(u) \/ Getchar(u))
        BY <1>3, <4>5, MainAlone
      <4> QED
        BY <4>3, <4>4, <4>5
    <3> QED
      BY <1>3, <2>2, <3>1 DEF Passed
  <2> QED
    BY <2>1, <2>2
<1> QED
  BY <1>2, <1>3 DEF Passed

\* Only fork brings a process to life.
LEMMA Revived ==
  ASSUME Shapes, [Next]_vars, NEW p \in Procs, life'[p] = "runs", life[p] # "runs"
  PROVE  Fork /\ p = "child"
<1>1. TypeOK
  BY DEF Shapes
<1>2. ASSUME NEW t \in Threads, ThreadStep(t) \/ Getchar(t) PROVE UNCHANGED life
  BY <1>2 DEF ThreadStep, Test, Load, Store, Sleep, Signal, SignalStore, ToGetchar, Getchar
<1>3. ASSUME NEW q \in Procs, MainStep(q) \/ Abort(q)
      PROVE  life' = life \/ \E how \in {"exited", "aborted"} : life' = [life EXCEPT ![q] = how]
  BY <1>3 DEF MainStep, CreateThread, JoinThread, Exit, Abort
<1>4. CASE ChildStep \/ EchoGetchar \/ MainGetchar \/ Second
  BY <1>4 DEF ChildStep, Look, LookDone, CreateEcho, JoinEcho, EchoGetchar, MainGetchar, Second
<1>5. CASE Exec
  BY <1>1, <1>5 DEF Exec, TypeOK
<1>6. CASE Fork
  BY <1>1, <1>6 DEF Fork, TypeOK
<1>7. ~\E q \in Procs : MainStep(q) \/ Abort(q)
  BY <1>1, <1>3 DEF TypeOK
<1> QED
  BY <1>2, <1>4, <1>5, <1>6, <1>7 DEF Next, vars

\* At the end of a second a thread that does not sleep has its first lock:
\* it is created, it is not on its way, and if it waits for its first lock
\* another one that has slept longer has the lock.
LEMMA AwakePassed ==
  ASSUME Shapes, Created, LockInv, InStep, Prompt, Second,
         NEW u \in Threads, Alive(u), pc[u] # "sleep"
  PROVE  Passed(u)
<1> USE ConstantsOK
<1>1. TypeOK /\ Shape(u) /\ u[1] \in Procs /\ u[2] \in Numbers /\ u = <<u[1], u[2]>>
  BY Pairs DEF Shapes
<1>2. ~ThreadBusy(u) /\ ~MainBusy(u[1])
  BY <1>1 DEF Second
<1>3. pc[u] # "off"
  <2>1. main[u[1]] \notin Creating
    BY <1>2 DEF MainBusy, Alive, Creating
  <2> QED
    BY <1>1, <2>1 DEF Created, Creating, Create
<1>4. pc[u] \in {"run", "getchar", "done"}
  BY <1>1, <1>2, <1>3 DEF TypeOK, ThreadBusy
<1>5. CASE pc[u] \in {"getchar", "done"}
  BY <1>1, <1>5 DEF Shape, Passed, Numbers
<1>6. CASE pc[u] = "run"
  <2>1. WantsLocks(u) /\ ~(mutex[u[1]][NextLock(u)] > 0)
    BY <1>2, <1>6 DEF ThreadBusy
  <2>2. slept[u] = u[2] - 1 /\ NextLock(u) \in Locks /\ ~Has(held[u], NextLock(u))
    BY <2>1, Wanting DEF Locks
  <2>3. SUFFICES ASSUME held[u] = <<>> PROVE Passed(u)
    BY <2>2 DEF Passed
  <2>4. NextLock(u) = u[2] - 1
    BY <2>1, <2>3, Wanting
  <2>5. mutex[u[1]][NextLock(u)] = 0
    BY <1>1, <2>1, <2>2 DEF TypeOK
  <2>6. PICK m \in Numbers : Has(held[<<u[1], m>>], NextLock(u))
    BY <1>1, <2>2, <2>5 DEF LockInv
  <2>7. <<u[1], m>> \in Threads /\ <<u[1], m>>[1] = u[1] /\ <<u[1], m>>[2] = m
    BY <1>1, Pairs
  <2>8. slept[<<u[1], m>>] >= m - 1 /\ u[2] - 1 < m
    BY <2>2, <2>4, <2>6, <2>7, Holding
  <2>9. m # u[2]
    BY <1>1, <2>2, <2>6
  <2>10. slept[<<u[1], m>>] > slept[u]
    <3>1. slept[<<u[1], m>>] \in 0 .. 2 + Work
      BY <1>1, <2>7 DEF TypeOK
    <3> QED
      BY <1>1, <2>2, <2>8, <2>9, <3>1 DEF Numbers
  <2>11. Alive(<<u[1], m>>)
    BY <2>7 DEF Alive
  <2> QED
    BY <2>7, <2>10, <2>11 DEF InStep
<1> QED
  BY <1>4, <1>5, <1>6

\* Every step keeps the threads in step.
LEMMA InStepKept ==
  ASSUME Shapes, Created, LockInv, InStep, Prompt, [Next]_vars
  PROVE  InStep'
<1> USE ConstantsOK
<1>1. SUFFICES ASSUME NEW t \in Threads, NEW u \in Threads, Alive(t)', t[1] = u[1],
                      slept'[t] > slept'[u]
               PROVE  Passed(u)'
  BY DEF InStep
<1>2. /\ slept[t] \in 0 .. 2 + Work /\ slept[u] \in 0 .. 2 + Work
      /\ slept'[t] = slept[t] \/ (slept'[t] = slept[t] + 1 /\ pc[t] = "sleep" /\ Second)
      /\ slept'[u] = slept[u] \/ (slept'[u] = slept[u] + 1 /\ pc[u] = "sleep" /\ Second)
  BY SleptGrows
<1>3. CASE ~Alive(t)
  <2>1. Fork /\ t[1] = "child"
    BY <1>1, <1>3, Pairs, Revived DEF Alive
  <2>2. main["child"] = "fork"
    BY <2>1 DEF Fork, Created
  <2>3. pc[t] = "off" /\ pc[u] = "off"
    <3>1. \A n \in Numbers : pc[<<"child", n>>] = "off"
      BY <2>2 DEF Created, Procs
    <3>2. t = <<"child", t[2]>> /\ u = <<"child", u[2]>> /\ t[2] \in Numbers /\ u[2] \in Numbers
      BY <1>1, <2>1, Pairs
    <3> QED
      BY <3>1, <3>2
  <2>4. slept[t] = 0 /\ slept[u] = 0
    BY <2>3 DEF Shapes, Shape
  <2> QED
    BY <1>1, <1>2, <2>3, <2>4
<1>4. CASE Alive(t) /\ slept[t] > slept[u]
  BY <1>1, <1>4, PassedKept DEF InStep
<1>5. CASE Alive(t) /\ ~(slept[t] > slept[u])
  <2>1. Second /\ slept'[u] = slept[u]
    BY <1>1, <1>2, <1>5
  <2>2. pc[u] # "sleep"
    BY <1>2, <2>1 DEF Second
  <2>3. Alive(u)
    BY <1>1, <1>5 DEF Alive
  <2> QED
    BY <2>1, <2>2, <2>3, AwakePassed, PassedKept
<1> QED
  BY <1>3, <1>4, <1>5

-----------------------------------------------------------------------------
(* LookInv.                                                                *)

\* What a thread of the child has slept it has slept.
LEMMA FinishedKept ==
  ASSUME Shapes, [Next]_vars, NEW n \in Numbers
  PROVE  /\ Finished(n) => Finished(n)'
         /\ slept[<<"child", n>>] >= 1 => slept'[<<"child", n>>] >= 1
<1>1. <<"child", n>> \in Threads
  BY DEF Threads, Procs
<1> DEFINE t == <<"child", n>>
<1>2. /\ slept[t] \in 0 .. 2 + Work
      /\ slept'[t] = slept[t] \/ slept'[t] = slept[t] + 1
      /\ slept[t] = 2 + Work => slept'[t] = 2 + Work
  BY <1>1, SleptGrows
<1>3. slept[t] >= 1 => slept'[t] >= 1
  BY <1>2, ConstantsOK
<1> QED
  BY <1>2, <1>3 DEF Finished

\* Steps that leave the main thread of the child where it was.
LEMMA LookAlone ==
  ASSUME Shapes, LookInv, [Next]_vars, UNCHANGED <<main["child"], seen>>,
         life'["child"] = "runs" => life["child"] = "runs",
         echo' # "none" => echo # "none"
  PROVE  LookInv'
<1> USE ConstantsOK
<1>1. \A n \in Numbers : /\ Finished(n) => Finished(n)'
                         /\ slept[<<"child", n>>] >= 1 => slept'[<<"child", n>>] >= 1
  BY FinishedKept
<1> QED
  BY <1>1 DEF LookInv

\* The main thread of the child sees lock n - 1 free only after thread n has
\* worked: the thread asked for it in step with those already found free.
LEMMA FoundFree ==
  ASSUME Shapes, LockInv, InStep, LookInv, life["child"] = "runs",
         main["child"] = "look1", seen \in Locks, ~(mutex["child"][seen] <= 0)
  PROVE  Finished(seen + 1)
<1> USE ConstantsOK
<1> DEFINE n == seen + 1
           u == <<"child", n>>
<1>1. n \in Numbers /\ n - 1 = seen /\ n - 1 \in Locks
  BY DEF Numbers, Locks
<1>2. u \in Threads /\ u[1] = "child" /\ u[2] = n
  BY <1>1, Pairs DEF Procs
<1>3. ~Has(held[u], n - 1)
  <2>1. mutex["child"][n - 1] # 0
    BY <1>1
  <2> QED
    BY <1>1, <2>1 DEF LockInv, Procs
<1> HIDE DEF n, u
<1>4. slept[u] \in 0 .. 2 + Work
  BY <1>2 DEF Shapes, TypeOK
<1>5. SUFFICES ASSUME slept[u] # 2 + Work PROVE FALSE
  BY DEF Finished, n, u
<1>6. ~Passed(u)
  BY <1>2, <1>3, <1>5, Keeping
<1>7. n # 1
  <2>1. slept[u] >= 1
    BY <1>1 DEF LookInv, Creating, Create, u
  <2> QED
    BY <1>2, <1>6, <2>1 DEF Passed
<1>8. Finished(1)
  BY <1>1, <1>7 DEF LookInv, Numbers
<1>9. <<"child", 1>> \in Threads /\ <<"child", 1>>[1] = "child"
  BY Pairs DEF Procs, Numbers
<1>10. Alive(<<"child", 1>>)
  BY <1>9 DEF Alive
<1>11. slept[<<"child", 1>>] > slept[u]
  BY <1>4, <1>5, <1>8 DEF Finished
<1> QED
  BY <1>2, <1>6, <1>9, <1>10, <1>11 DEF InStep

\* Every step keeps what the main thread of the child has found out.
LEMMA LookKept ==
  ASSUME Shapes, Created, LockInv, InStep, LookInv, Prompt, [Next]_vars
  PROVE  LookInv'
<1> USE ConstantsOK
<1>1. TypeOK /\ main \in [Procs -> Places] /\ "child" \in Procs
  BY DEF Shapes, Procs
<1>2. \A n \in Numbers : /\ Finished(n) => Finished(n)'
                         /\ slept[<<"child", n>>] >= 1 => slept'[<<"child", n>>] >= 1
  BY FinishedKept
<1>3. ASSUME NEW t \in Threads, ThreadStep(t) \/ Getchar(t) PROVE LookInv'
  <2>1. UNCHANGED <<life, main, seen, echo>>
    BY <1>3 DEF ThreadStep, Test, Load, Store, Sleep, Signal, SignalStore, ToGetchar, Getchar
  <2> QED
    BY <2>1, LookAlone
<1>4. ASSUME NEW n \in Numbers, CreateThread("child", n) PROVE LookInv'
  <2>1. UNCHANGED <<life, seen, echo>> /\ main["child"] \in Create
    BY <1>4 DEF CreateThread, Create, Numbers
  <2>2. main'["child"] \in {"create2", "create3", "sleep1"}
    BY <1>1, <1>4 DEF CreateThread, Numbers
  <2>3. seen = 0
    BY <2>1 DEF LookInv, Create
  <2> QED
    BY <1>2, <2>1, <2>2, <2>3 DEF LookInv, Creating, Create
<1>5. ASSUME NEW n \in Numbers, CreateThread("parent", n) \/ JoinThread("parent", n) PROVE LookInv'
  <2>1. UNCHANGED <<life, main["child"], seen, echo>>
    BY <1>1, <1>5 DEF CreateThread, JoinThread
  <2> QED
    BY <2>1, LookAlone
<1>6. ASSUME NEW p \in Procs, Abort(p) \/ Exit(p) PROVE LookInv'
  <2>1. UNCHANGED <<main, seen, echo>> /\ (life'["child"] = "runs" => life["child"] = "runs")
    BY <1>1, <1>6 DEF Abort, Exit, TypeOK
  <2> QED
    BY <2>1, LookAlone
<1>7. CASE Fork
  <2>1. main["child"] = "fork" /\ UNCHANGED <<seen, echo>> /\ main'["child"] \in {"fork", "create1"}
    BY <1>1, <1>7 DEF Fork, Created
  <2>2. seen = 0
    BY <2>1 DEF LookInv
  <2> QED
    BY <1>2, <2>1, <2>2 DEF LookInv, Creating, Create
<1>8. ASSUME main["child"] \notin Creating \cup {"sleep1", "look1"}, life["child"] = "runs",
             main'["child"] \notin Creating \cup {"sleep1", "look1"},
             main'["child"] \notin {"look1", "look2"} => seen' = 0
      PROVE  LookInv'
  <2>1. \A n \in Numbers : Finished(n)
    BY <1>8 DEF LookInv
  <2>2. \A n \in Numbers : Finished(n)' /\ slept'[<<"child", n>>] >= 1
    <3>1. 2 + Work >= 1
      OBVIOUS
    <3> QED
      BY <1>2, <2>1, <3>1 DEF Finished
  <2> QED
    BY <1>8, <2>2 DEF LookInv
<1>9. ASSUME NEW n \in Numbers, JoinThread("child", n) PROVE LookInv'
  <2>1. main["child"] \in Join /\ life["child"] = "runs" /\ UNCHANGED seen
    BY <1>9 DEF JoinThread, Join, Numbers
  <2>2. main'["child"] \in {"join2", "join3", "sleep2"}
    BY <1>1, <1>9 DEF JoinThread, Numbers
  <2>3. seen = 0
    BY <2>1 DEF LookInv, Join
  <2> QED
    BY <1>8, <2>1, <2>2, <2>3 DEF Join, Creating, Create
<1>10. CASE CreateEcho \/ JoinEcho \/ MainGetchar
  <2>1. main["child"] \in {"createEcho", "joinEcho", "getchar"} /\ life["child"] = "runs" /\ UNCHANGED seen
    BY <1>10 DEF CreateEcho, JoinEcho, MainGetchar
  <2>2. main'["child"] \in {"join1", "getchar", "exit"}
    BY <1>1, <1>10 DEF CreateEcho, JoinEcho, MainGetchar
  <2>3. seen = 0
    BY <2>1 DEF LookInv
  <2> QED
    BY <1>8, <2>1, <2>2, <2>3 DEF Creating, Create
<1>11. CASE Exec \/ EchoGetchar
  <2>1. /\ UNCHANGED <<main, seen>> /\ echo # "none" /\ life["child"] = "runs"
    BY <1>11 DEF Exec, EchoGetchar
  <2> QED
    BY <2>1, LookAlone
<1>12. CASE Look("look1")
  <2>1. /\ life["child"] = "runs" /\ main["child"] = "look1" /\ seen \in Locks
        /\ seen' = (IF mutex["child"][seen] <= 0 THEN 0 ELSE seen + 1)
        /\ UNCHANGED <<life, main, echo>>
    BY <1>12 DEF Look
  <2>2. ASSUME NEW n \in Numbers, seen' >= n PROVE Finished(n)'
    <3>1. CASE seen >= n
      BY <1>2, <2>1, <3>1 DEF LookInv
    <3>2. CASE ~(seen >= n)
      <4>1. ~(mutex["child"][seen] <= 0) /\ n = seen + 1
        BY <2>1, <2>2, <3>2 DEF Numbers, Locks
      <4> QED
        BY <1>2, <2>1, <4>1, FoundFree
    <3> QED
      BY <3>1, <3>2
  <2>3. \A n \in Numbers : slept'[<<"child", n>>] >= 1
    BY <1>2, <2>1 DEF LookInv, Creating, Create
  <2> QED
    BY <1>2, <2>1, <2>2, <2>3 DEF LookInv
<1>13. CASE Look("look2")
  BY <1>8, <1>13 DEF Look, Creating, Create
<1>14. CASE LookDone("look1")
  <2>1. /\ life["child"] = "runs" /\ main["child"] = "look1" /\ seen = 3 /\ seen' = 0
        /\ UNCHANGED <<life, echo>> /\ main'["child"] = "createEcho"
    BY <1>1, <1>14 DEF LookDone, AfterLoop
  <2>2. \A n \in Numbers : Finished(n)
    BY <2>1 DEF LookInv, Numbers
  <2>3. \A n \in Numbers : Finished(n)' /\ slept'[<<"child", n>>] >= 1
    <3>1. 2 + Work >= 1
      OBVIOUS
    <3> QED
      BY <1>2, <2>2, <3>1 DEF Finished
  <2> QED
    BY <2>1, <2>3 DEF LookInv
<1>15. CASE LookDone("look2")
  <2>1. main["child"] = "look2" /\ life["child"] = "runs" /\ seen' = 0 /\ main'["child"] = "sleep3"
    BY <1>1, <1>15 DEF LookDone, AfterLoop
  <2> QED
    BY <1>8, <2>1 DEF Creating, Create
<1>16. CASE Second
  <2>1. UNCHANGED <<life, seen, echo>>
    BY <1>16 DEF Second
  <2>2. CASE ~MainSleeps
    BY <1>16, <2>1, <2>2, LookAlone DEF Second
  <2>3. CASE main["child"] \in {"sleep2", "sleep3"}
    <3>1. main'["child"] \in {"look2", "joinEcho"}
      BY <1>1, <1>16, <2>3 DEF Second, MainSleeps, AfterSleep
    <3>2. seen = 0
      BY <2>3 DEF LookInv
    <3>3. CASE life["child"] = "runs"
      BY <1>8, <2>1, <2>3, <3>1, <3>2, <3>3 DEF Creating, Create
    <3>4. CASE life["child"] # "runs"
      BY <1>2, <2>1, <3>1, <3>2, <3>4 DEF LookInv
    <3> QED
      BY <3>3, <3>4
  <2>4. CASE main["child"] = "sleep1"
    <3>1. main'["child"] = "look1" /\ seen' = 0
      BY <1>1, <1>16, <2>1, <2>4 DEF Second, MainSleeps, AfterSleep, LookInv
    <3>2. ASSUME life["child"] = "runs", NEW n \in Numbers PROVE slept'[<<"child", n>>] >= 1
      <4> DEFINE u == <<"child", n>>
      <4>1. u \in Threads /\ u[1] = "child" /\ u[2] = n
        BY Pairs DEF Procs
      <4>2. Alive(u)
        BY <3>2, <4>1 DEF Alive
      <4>3. slept[u] \in 0 .. 2 + Work
        BY <1>1, <4>1 DEF TypeOK
      <4> HIDE DEF u
      <4>4. CASE pc[u] = "sleep"
        <5>1. slept'[u] = slept[u] + 1
          BY <1>16, <4>1, <4>4 DEF Second
        <5> QED
          BY <4>3, <5>1 DEF u
      <4>5. CASE pc[u] # "sleep"
        <5>1. Passed(u)
          BY <1>16, <4>1, <4>2, <4>5, AwakePassed
        <5>2. slept'[u] = slept[u]
          BY <1>16, <4>1, <4>5 DEF Second
        <5>3. slept[u] >= 1
          <6>1. SUFFICES ASSUME slept[u] = 0 PROVE FALSE
            BY <4>3
          <6>2. n = 1 /\ held[u] # <<>>
            BY <4>1, <5>1, <6>1 DEF Passed, Numbers
          <6>3. held[u] \in Prefixes(n)
            BY <4>1, <6>1, <6>2 DEF Shapes, Shape
          <6>4. held[u] = <<0>>
            BY <6>2, <6>3 DEF Prefixes
          <6>5. ~WantsLocks(u)
            BY <4>1, <6>2, <6>4 DEF WantsLocks, Needs
          <6>6. ~ThreadBusy(u)
            BY <1>16, <4>1 DEF Second
          <6>7. pc[u] \notin {"off", "getchar", "done", "signal"}
            BY <4>1, <6>1, <6>2 DEF Shapes, Shape
          <6>8. pc[u] \notin {"run", "load", "store"}
            BY <4>2, <6>5, <6>6 DEF ThreadBusy
          <6> QED
            BY <1>1, <4>1, <4>5, <6>7, <6>8 DEF TypeOK
        <5> QED
          BY <5>2, <5>3 DEF u
      <4> QED
        BY <4>4, <4>5
    <3>3. \A n \in Numbers : ~(seen' >= n)
      BY <3>1 DEF Numbers
    <3> QED
      BY <1>2, <2>1, <3>1, <3>2, <3>3 DEF LookInv
  <2> QED
    BY <2>2, <2>3, <2>4 DEF MainSleeps
<1>17. CASE UNCHANGED vars
  BY <1>17, LookAlone DEF vars
<1> QED
  BY <1>3, <1>4, <1>5, <1>6, <1>7, <1>9, <1>10, <1>11, <1>12, <1>13, <1>14, <1>15, <1>16, <1>17
     DEF Next, MainStep, ChildStep, Procs

-----------------------------------------------------------------------------
(* The invariant and the theorems.                                         *)

ThreadInv == Shapes /\ Created /\ LockInv /\ InStep /\ LookInv

\* The initial state satisfies the invariant.
LEMMA ThreadInit == ASSUME Init PROVE ThreadInv
<1> USE ConstantsOK DEF Init
<1>1. <<>> \in Seq(Locks) /\ \A n \in Numbers : <<>> \in Prefixes(n)
  BY NeedsAll
<1>2. \A t \in Threads : t[2] \in Numbers /\ slept[t] = 0 /\ held[t] = <<>> /\ pc[t] = "off"
  BY DEF Threads
<1>3. TypeOK
  BY <1>1 DEF TypeOK, Procs, Locks
<1>4. ASSUME NEW t \in Threads PROVE Shape(t)
  BY <1>1, <1>2 DEF Shape, Numbers
<1>5. Shapes
  BY <1>3, <1>4 DEF Shapes, Places, Creating
<1>6. \A p \in Procs, n \in Numbers : <<p, n>> \in Threads
  BY Pairs
<1>7. Created
  BY <1>2, <1>6 DEF Created, Procs
<1>8. \A t \in Threads, l \in Locks : ~Claims(t, l)
  BY <1>2, NoneHeld DEF Claims
<1>9. \A p \in Procs, l \in Locks : mutex[p][l] = 1 /\ \A n \in Numbers : ~Has(held[<<p, n>>], l)
  BY <1>2, <1>6, NoneHeld
<1>10. LockInv
  <2>1. \A p \in Procs, l \in Locks : ~(mutex[p][l] = 0)
    BY <1>9
  <2> QED
    BY <1>2, <1>8, <1>9, <2>1, Zenon DEF LockInv
<1>11. InStep
  BY <1>2 DEF InStep
<1>12. LookInv
  BY DEF LookInv, Creating, Procs
<1> QED
  BY <1>5, <1>7, <1>10, <1>11, <1>12 DEF ThreadInv

\* If a second is longer than the instructions between two sleeps, the
\* invariant holds in every state of thread.c.
LEMMA ThreadInvariant == ASSUME Prompt PROVE Spec => []ThreadInv
<1>1. Init => ThreadInv
  BY ThreadInit
<1>2. ThreadInv /\ [Next]_vars => ThreadInv'
  BY ShapesKept, CreatedKept, LocksKept, InStepKept, LookKept DEF ThreadInv
<1> QED
  BY <1>1, <1>2, PTL DEF Spec

\* A lock of thread.c is 0 or 1 in every state, for any number of rounds of
\* work, although waiting() and signaling() read and write it in separate
\* instructions.
THEOREM TypeCorrect == ASSUME Prompt PROVE Spec => []TypeOK
<1>1. ThreadInv => TypeOK
  BY DEF ThreadInv, Shapes
<1> QED
  BY <1>1, ThreadInvariant, PTL

\* The threads of a process work one after the other: each of them has
\* lock 0 while it works, and no other thread has it then.
THEOREM WorkOneAtATime == ASSUME Prompt PROVE Spec => []OneAtATime
<1>1. ASSUME ThreadInv PROVE OneAtATime
  <2>1. SUFFICES ASSUME NEW t \in Threads, NEW u \in Threads, t # u, t[1] = u[1],
                        Working(t), Working(u)
                 PROVE  FALSE
    BY DEF OneAtATime
  <2>2. 0 \in Locks /\ t[2] \in Numbers /\ u[2] \in Numbers
    BY Pairs DEF Locks
  <2>3. Has(held[t], 0) /\ Has(held[u], 0)
    BY <2>1, <2>2, NeedsAll DEF Working, Numbers
  <2> QED
    BY <1>1, <2>1, <2>2, <2>3 DEF ThreadInv, LockInv, Claims
<1> QED
  BY <1>1, ThreadInvariant, PTL

\* The integer of a lock and the threads that have the lock add up to one:
\* waiting() and signaling() lose no update.
THEOREM NoUpdateLost == ASSUME Prompt PROVE Spec => []LocksCount
<1>1. ASSUME ThreadInv PROVE LocksCount
  <2>1. SUFFICES ASSUME NEW p \in Procs, NEW l \in Locks
                 PROVE  mutex[p][l] + Cardinality(Holders(p, l)) = 1
    BY DEF LocksCount
  <2>2. LockInv /\ mutex[p][l] \in {0, 1}
    BY <1>1 DEF ThreadInv, Shapes, TypeOK
  <2>3. \A t : t \in Holders(p, l) <=> t \in Threads /\ t[1] = p /\ Has(held[t], l)
    BY DEF Holders, Has
  <2>4. CASE mutex[p][l] = 0
    <3>1. PICK n \in Numbers : Has(held[<<p, n>>], l)
      BY <2>2, <2>4 DEF LockInv
    <3>2. <<p, n>> \in Holders(p, l)
      BY <2>3, <3>1, Pairs
    <3>3. \A t \in Holders(p, l) : t = <<p, n>>
      BY <2>2, <2>3, <3>2 DEF LockInv, Claims
    <3>4. Holders(p, l) = {<<p, n>>}
      BY <3>2, <3>3
    <3>5. Cardinality(Holders(p, l)) = 1
      BY <3>4, FS_Singleton, Zenon
    <3> QED
      BY <2>4, <3>5
  <2>5. CASE mutex[p][l] = 1
    <3>1. \A t : t \notin Holders(p, l)
      <4>1. ~(mutex[p][l] = 0)
        BY <2>5
      <4> QED
        BY <2>2, <2>3, <4>1, Pairs DEF LockInv
    <3>2. Holders(p, l) = {}
      BY <3>1
    <3> QED
      BY <2>5, <3>2, FS_EmptySet
  <2> QED
    BY <2>2, <2>4, <2>5
<1> QED
  BY <1>1, ThreadInvariant, PTL

\* execl is reached only after the three threads of the child have done
\* their work, although its main thread reads the locks one by one.
THEOREM ExecLast == ASSUME Prompt PROVE Spec => []ExecAfterWork
<1>1. ThreadInv => ExecAfterWork
  BY DEF ThreadInv, LookInv, ExecAfterWork, Finished
<1> QED
  BY <1>1, ThreadInvariant, PTL
=============================================================================
