------------------------- MODULE Fat16Mount_proofs -------------------------
(***************************************************************************)
(* Proofs about Fat16Mount, for any boot sector, word width, number of     *)
(* threads and any times from 1980 to 2107.                                *)
(***************************************************************************)
EXTENDS Fat16Mount, FiniteSetTheorems, TLAPS

LEMMA DivMod == ASSUME NEW a \in Int, NEW b \in Int, b > 0 PROVE b * (a \div b) + (a % b) = a
BY SMTT(20)

LEMMA DivType ==
    ASSUME NEW a \in Nat, NEW b \in Nat, b > 0
    PROVE  a \div b \in Nat /\ a % b \in Nat /\ a % b < b
OBVIOUS

LEMMA ModSmall == ASSUME NEW a \in Nat, NEW b \in Nat, a < b PROVE a % b = a
OBVIOUS

LEMMA Product == ASSUME NEW a \in Nat, NEW b \in Nat PROVE a * b \in Nat
OBVIOUS

\* Rounding up: whole sectors that hold n bytes, and less than one to spare.
LEMMA RoundUp ==
    ASSUME NEW n \in Nat, NEW b \in Nat, b > 0
    PROVE  LET q == (n + (b - 1)) \div b
           IN q \in Nat /\ q * b >= n /\ q * b < n + b
<1> DEFINE q == (n + (b - 1)) \div b
           r == (n + (b - 1)) % b
<1>1. q \in Nat /\ r \in Nat /\ r < b BY DivType
<1>2. b * q + r = n + (b - 1) BY DivMod
<1>3. q * b = b * q BY <1>1
<1>4. q * b \in Nat BY <1>1, Product
<1> HIDE DEF q, r
<1>5. q * b >= n /\ q * b < n + b BY <1>1, <1>2, <1>3, <1>4
<1> QED BY <1>1, <1>5 DEF q

\* The words that Stamp makes of a date and of a time.
DateWord(y, m, d) == ((y - 2000) * 512 + m * 32 + d) % WORD
TimeWord(h, m, s) == (h * 2048 + m * 32 + s \div 2) % WORD

IsWord(w) == w \in Nat /\ w < WORD

\* The fields that Decoded takes out of them.
SecOf(w) == w % 32
MinOf(w) == (w \div 32) % 64
HourOf(w) == w \div 2048
DayOf(w) == w % 32
MonOf(w) == (w \div 32) % 16
YearOf(w) == w \div 512 + 80

Half(s) == s \div 2

\* The year reduced by 2000 and by 80 is the same in seven bits.
LEMMA DateFields ==
    ASSUME NEW y \in 80 .. 207, NEW m \in 0 .. 11, NEW d \in 1 .. 31
    PROVE  /\ IsWord(DateWord(y, m, d)) /\ DayOf(DateWord(y, m, d)) = d
           /\ MonOf(DateWord(y, m, d)) = m /\ YearOf(DateWord(y, m, d)) = y
<1> DEFINE z == (y - 80) * 512 + m * 32 + d
<1>1. (y - 2000) * 512 + m * 32 + d = z - 15 * 65536 OBVIOUS
<1>2. z \in Int /\ 0 <= z /\ z <= 65535 OBVIOUS
<1>3. \A x \in Int : 0 <= x /\ x <= 65535 => (x - 983040) % 65536 = x OBVIOUS
<1>4. 15 * 65536 = 983040 OBVIOUS
<1>5. DayOf(z) = d BY DEF DayOf
<1>6. MonOf(z) = m BY SMTT(30) DEF MonOf
<1>7. YearOf(z) = y BY DEF YearOf
<1> HIDE DEF z
<1>8. DateWord(y, m, d) = z BY <1>1, <1>2, <1>3, <1>4 DEF DateWord, WORD
<1>9. IsWord(z) BY <1>2 DEF IsWord, WORD
<1> QED BY ONLY <1>5, <1>6, <1>7, <1>8, <1>9

LEMMA TimeFields ==
    ASSUME NEW h \in 0 .. 23, NEW m \in 0 .. 59, NEW s \in 0 .. 59
    PROVE  /\ IsWord(TimeWord(h, m, s)) /\ SecOf(TimeWord(h, m, s)) = Half(s)
           /\ MinOf(TimeWord(h, m, s)) = m /\ HourOf(TimeWord(h, m, s)) = h
<1> DEFINE e == s \div 2
           z == h * 2048 + m * 32 + e
<1>1. e \in 0 .. 29 OBVIOUS
<1> HIDE DEF e
<1>2. z \in Nat /\ z < WORD BY <1>1 DEF WORD
<1>3. SecOf(z) = e BY <1>1 DEF SecOf
<1>4. MinOf(z) = m BY <1>1 DEF MinOf
<1>5. HourOf(z) = h BY <1>1 DEF HourOf
<1>6. TimeWord(h, m, s) = z % WORD BY DEF TimeWord, e
<1> HIDE DEF z
<1>7. TimeWord(h, m, s) = z BY ONLY <1>2, <1>6, ModSmall, WORD \in Nat DEF WORD
<1> QED BY ONLY <1>2, <1>3, <1>4, <1>5, <1>7 DEF e, IsWord, Half

-----------------------------------------------------------------------------
Layout ==
    /\ up = "no" => \A t \in Threads : pc[t] = "idle"
    /\ up # "no" => \/ up = "gone"
                    \/ /\ FirstRootDirSecNum = rsvd + fatsz * numfats
                       /\ FirstDataSector = rsvd + numfats * fatsz + RootDirSectors

\* The words on the volume decode to the time they were made from.
StampInv ==
    /\ SecOf(wtime) = Half(given[1]) /\ MinOf(wtime) = given[2] /\ HourOf(wtime) = given[3]
    /\ DayOf(wdate) = given[4] /\ MonOf(wdate) = given[5] /\ YearOf(wdate) = given[6]

Reading(t) == pc[t] \in {"fatread", "dataread"}

\* The threads between their fseek and their fread.
Readers == {t \in Threads : Reading(t)}

\* Since the last fseek the FILE* has moved by k sectors, for k threads at most
\* that have read since and are not about to read.
Moved ==
    /\ 0 \in seeks
    /\ \E s \in seeks, k \in Nat : pos = s + k /\ k + Cardinality(Readers) <= Cardinality(Threads)

IInv == TypeOK /\ Layout /\ StampInv /\ StampKept /\ Moved /\ ReadNear

\* The words of a time, which Stamp computes, give the time back.
LEMMA StampWords ==
    ASSUME NEW tm \in Times, Stamp(tm)
    PROVE  StampInv' /\ wtime' \in 0 .. WORD - 1 /\ wdate' \in 0 .. WORD - 1
<1>1. /\ tm[1] \in 0 .. 59 /\ tm[2] \in 0 .. 59 /\ tm[3] \in 0 .. 23
      /\ tm[4] \in 1 .. 31 /\ tm[5] \in 0 .. 11 /\ tm[6] \in 80 .. 207
  BY TimesAssumption
<1>2. /\ wtime' = TimeWord(tm[3], tm[2], tm[1])
      /\ wdate' = DateWord(tm[6], tm[5], tm[4]) /\ given' = tm
  BY DEF Stamp, TimeWord, DateWord
<1>3. /\ IsWord(wtime') /\ SecOf(wtime') = Half(tm[1])
      /\ MinOf(wtime') = tm[2] /\ HourOf(wtime') = tm[3]
  BY ONLY <1>1, <1>2, TimeFields, Zenon
<1>4. /\ IsWord(wdate') /\ DayOf(wdate') = tm[4]
      /\ MonOf(wdate') = tm[5] /\ YearOf(wdate') = tm[6]
  BY ONLY <1>1, <1>2, DateFields, Zenon
<1>5. StampInv' BY ONLY <1>2, <1>3, <1>4, Zenon DEF StampInv
<1>6. \A x : IsWord(x) => x \in 0 .. WORD - 1
  <2>1. WORD \in Nat BY DEF WORD
  <2> QED BY <2>1 DEF IsWord
<1> QED BY ONLY <1>3, <1>4, <1>5, <1>6

LEMMA ThreadCount ==
    /\ Cardinality(Threads) \in Nat /\ Cardinality(Threads) >= 1
    /\ IsFiniteSet(Readers) /\ Cardinality(Readers) \in Nat
    /\ Cardinality(Readers) <= Cardinality(Threads)
<1>1. Cardinality(Threads) \in Nat /\ Cardinality(Threads) # 0
  BY ThreadsAssumption, FS_CardinalityType, FS_EmptySet
<1>2. Readers \in SUBSET Threads BY DEF Readers
<1>3. IsFiniteSet(Readers) /\ Cardinality(Readers) <= Cardinality(Threads)
  BY <1>2, ThreadsAssumption, FS_Subset
<1>4. Cardinality(Readers) \in Nat BY <1>3, FS_CardinalityType
<1> QED BY <1>1, <1>3, <1>4

\* Steps outside of fseek and fread leave the FILE* and the readers alone.
LEMMA MovedKept ==
    ASSUME Moved, UNCHANGED <<pos, seeks>>, Readers' = Readers
    PROVE  Moved'
BY DEF Moved

LEMMA InitIInv == Init => IInv
<1> SUFFICES ASSUME Init PROVE IInv OBVIOUS
<1>1. TypeOK BY MountAssumption DEF Init, TypeOK, Phases, WORD
<1>2. Layout /\ ReadNear BY DEF Init, Layout, ReadNear
<1>5. Moved
  <2>1. Readers = {} BY DEF Init, Readers, Reading
  <2>2. Cardinality(Readers) = 0 /\ Cardinality(Threads) \in Nat
    BY <2>1, ThreadsAssumption, FS_EmptySet, FS_CardinalityType
  <2>3. 0 \in seeks /\ pos = 0 + 0 BY DEF Init
  <2> QED BY <2>2, <2>3 DEF Moved
<1>3. StampInv BY DEF Init, StampInv, Zero, SecOf, MinOf, HourOf, DayOf, MonOf, YearOf, Half
<1>4. StampKept BY DEF Init, StampKept, Zero
<1> QED BY <1>1, <1>2, <1>3, <1>4, <1>5 DEF IInv

\* Where things are depends on the boot sector alone.
LEMMA PlacesKept ==
    ASSUME UNCHANGED layout
    PROVE  /\ \A c : FatSector(c)' = FatSector(c) /\ TableSize(c)' = TableSize(c)
           /\ \A c : FirstSectorOf(c)' = FirstSectorOf(c)
           /\ RootDirSectors' = RootDirSectors
BY DEF layout, bpb, FatSector, TableSize, Offset, FirstSectorOf, RootDirSectors

LEMMA PlaceTypes ==
    ASSUME TypeOK, NEW c \in Nat \ {0, 1}
    PROVE  FatSector(c) \in Nat /\ TableSize(c) \in Nat /\ FirstSectorOf(c) \in Nat
<1> USE MountAssumption
<1>1. Word \in Nat /\ Word > 0 /\ byts \in Nat /\ byts > 0 /\ spc \in Nat /\ rsvd \in Nat
      /\ FirstDataSector \in Nat /\ c * 2 \in Nat /\ c - 2 \in Nat
  BY DEF TypeOK
<1>2. Offset(c) \in Nat BY <1>1, DivType DEF Offset
<1>3. Offset(c) \div byts \in Nat /\ TableSize(c) \in Nat BY <1>1, <1>2, DivType DEF TableSize
<1>4. rsvd + Offset(c) \div byts \in Nat BY <1>1, <1>3
<1>5. (c - 2) * spc + FirstDataSector \in Nat BY <1>1, Product
<1> QED BY <1>1, <1>3, <1>4, <1>5, DivType DEF FatSector, FirstSectorOf

LEMMA LayoutTypes ==
    ASSUME TypeOK
    PROVE  RootDirSectors \in Nat /\ fatsz * numfats \in Nat /\ numfats * fatsz \in Nat
<1>1. rootent * DirBytes \in Nat /\ byts \in Nat /\ byts > 0 BY DEF TypeOK, DirBytes
<1>2. RootDirSectors \in Nat BY <1>1, RoundUp DEF RootDirSectors
<1> QED BY <1>2, Product DEF TypeOK

LEMMA MountStep == IInv /\ (Mount \/ MountFails \/ Destroy) => IInv'
<1> SUFFICES ASSUME IInv, Mount \/ MountFails \/ Destroy PROVE IInv' OBVIOUS
<1>0. TypeOK BY DEF IInv
<1>1. CASE Mount
  <2>1. RootDirSectors \in Nat /\ fatsz * numfats \in Nat /\ numfats * fatsz \in Nat
    BY <1>0, LayoutTypes
  <2>2. FirstRootDirSecNum' \in Nat /\ FirstDataSector' \in Nat
    BY <1>0, <1>1, <2>1 DEF Mount, TypeOK
  <2>3. TypeOK' BY <1>0, <1>1, <2>2 DEF Mount, TypeOK, bpb, stamps
  <2>4. RootDirSectors' = RootDirSectors BY <1>1 DEF Mount, bpb, RootDirSectors
  <2>5. Layout' BY <1>1, <2>4 DEF Mount, Layout, bpb
  <2>6. \A t \in Threads : pc'[t] = "idle" BY <1>1 DEF IInv, Layout, Mount
  <2>7. ReadNear' BY <2>6 DEF ReadNear
  <2>9. Moved'
    <3>1. Readers' = {} BY <2>6 DEF Readers, Reading
    <3>2. Cardinality(Readers)' = 0 BY <3>1, FS_EmptySet
    <3>3. 0 \in seeks' /\ pos' = 0 + 1 BY <1>1 DEF Mount, IInv, Moved
    <3> QED BY <3>2, <3>3, ThreadCount DEF Moved
  <2>8. StampInv' /\ StampKept' BY <1>1 DEF Mount, stamps, IInv, StampInv, StampKept
  <2> QED BY <2>3, <2>5, <2>7, <2>8, <2>9 DEF IInv
<1>2. CASE MountFails \/ Destroy
  <2>1. /\ UNCHANGED <<bpb, FirstRootDirSecNum, FirstDataSector, reads, stamps>>
        /\ up' = "gone"
    BY <1>2 DEF MountFails, Destroy
  <2>3. TypeOK' BY <1>0, <2>1 DEF TypeOK, bpb, reads, stamps
  <2>4. Layout' BY <2>1 DEF Layout
  <2>5. Moved'
    <3>1. Readers' = Readers BY <2>1 DEF reads, Readers, Reading
    <3> QED BY <2>1, <3>1, MovedKept DEF IInv, reads
  <2>6. ReadNear' BY <2>1 DEF IInv, ReadNear, reads
  <2>7. StampInv' /\ StampKept' BY <2>1 DEF stamps, IInv, StampInv, StampKept
  <2> QED BY <2>3, <2>4, <2>5, <2>6, <2>7 DEF IInv
<1> QED BY <1>1, <1>2

LEMMA StampStep == IInv /\ ((\E tm \in Times : Stamp(tm)) \/ GetAttr \/ UNCHANGED vars) => IInv'
<1> SUFFICES ASSUME IInv, (\E tm \in Times : Stamp(tm)) \/ GetAttr \/ UNCHANGED vars PROVE IInv'
  OBVIOUS
<1>0. TypeOK BY DEF IInv
<1>1. UNCHANGED <<layout, reads>> BY DEF Stamp, GetAttr, vars
<1>2. Layout' /\ Moved' /\ ReadNear'
  <2>1. UNCHANGED layout BY <1>1
  <2>2. Layout' BY <1>1, <2>1, PlacesKept DEF IInv, Layout, layout, bpb, reads
  <2>3. Readers' = Readers BY <1>1 DEF reads, Readers, Reading
  <2>4. Moved' BY <1>1, <2>3, MovedKept DEF IInv, reads
  <2>5. ReadNear' BY <1>1 DEF IInv, ReadNear, reads
  <2> QED BY <2>2, <2>4, <2>5
<1>3. CASE \E tm \in Times : Stamp(tm)
  <2>1. PICK tm \in Times : Stamp(tm) BY <1>3
  <2>2. StampInv' /\ wtime' \in 0 .. WORD - 1 /\ wdate' \in 0 .. WORD - 1 BY <2>1, StampWords
  <2>3. StampKept' BY <2>1 DEF Stamp, IInv, StampKept
  <2>4. TypeOK' BY <1>0, <1>1, <2>2 DEF TypeOK, layout, bpb, reads
  <2> QED BY <1>2, <2>2, <2>3, <2>4 DEF IInv
<1>4. CASE GetAttr
  <2>1. TypeOK' BY <1>0, <1>1, <1>4 DEF GetAttr, TypeOK, layout, bpb, reads
  <2>2. StampInv' BY <1>4 DEF GetAttr, IInv, StampInv
  <2>3. stat' = <<SecOf(wtime), MinOf(wtime), HourOf(wtime), DayOf(wdate), MonOf(wdate), YearOf(wdate)>>
    BY <1>4 DEF GetAttr, Decoded, SecOf, MinOf, HourOf, DayOf, MonOf, YearOf
  <2>4. StampKept' BY <1>4, <2>3 DEF GetAttr, IInv, StampInv, StampKept, Half
  <2> QED BY <1>2, <2>1, <2>2, <2>4 DEF IInv
<1>5. CASE UNCHANGED vars
  <2>1. UNCHANGED stamps BY <1>5 DEF vars
  <2>2. TypeOK' BY <1>0, <1>1, <2>1 DEF TypeOK, layout, bpb, reads, stamps
  <2>3. StampInv' /\ StampKept' BY <2>1 DEF IInv, StampInv, StampKept, stamps
  <2> QED BY <1>2, <2>2, <2>3 DEF IInv
<1> QED BY <1>3, <1>4, <1>5

\* What the steps of reading have in common.
LEMMA ReadFrame ==
    ASSUME IInv, UNCHANGED <<layout, stamps>>, pc' \in [Threads -> Phases], up = "yes"
    PROVE  Layout' /\ StampInv' /\ StampKept'
<1>1. StampInv' /\ StampKept' BY DEF IInv, StampInv, StampKept, stamps
<1>2. UNCHANGED layout OBVIOUS
<1>3. Layout' BY <1>2, PlacesKept DEF IInv, Layout, layout, bpb
<1> QED BY <1>1, <1>3

LEMMA AskStep ==
    ASSUME NEW t \in Threads
    PROVE  IInv /\ ((\E c \in Clusters : Ask(t, c)) \/ Done(t)) => IInv'
<1> USE MountAssumption
<1> SUFFICES ASSUME IInv, (\E c \in Clusters : Ask(t, c)) \/ Done(t) PROVE IInv' OBVIOUS
<1>0. TypeOK /\ Moved /\ ReadNear BY DEF IInv
<1>1. UNCHANGED <<layout, stamps>> /\ up = "yes" /\ pos' = pos /\ seeks' = seeks
  BY DEF Ask, Done
<1>2. /\ pc[t] \in {"idle", "done"}
      /\ \E ph \in {"fat", "idle"} : pc' = [pc EXCEPT ![t] = ph]
  BY DEF Ask, Done
<1>3. pc' \in [Threads -> Phases] BY <1>0, <1>2 DEF TypeOK, Phases
<1>4. Layout' /\ StampInv' /\ StampKept' BY <1>1, <1>3, ReadFrame
<1>5. TypeOK'
  <2>1. /\ cluster' \in [Threads -> Nat \ {0, 1}] /\ got' \in [Threads -> Nat]
        /\ entry' \in [Threads -> Nat]
    BY <1>0 DEF Ask, Done, TypeOK
  <2> QED BY <1>0, <1>1, <1>3, <2>1 DEF TypeOK, layout, bpb, stamps
<1>6. ASSUME NEW u \in Threads, u # t PROVE pc'[u] = pc[u] /\ got'[u] = got[u]
  BY <1>0, <1>6 DEF Ask, Done, TypeOK
<1>7. pc'[t] \in {"fat", "idle"} BY <1>0, <1>2 DEF TypeOK
<1>8. Readers' = Readers
  <2>1. \A u \in Threads : Reading(u)' <=> Reading(u) BY <1>2, <1>6, <1>7 DEF Reading
  <2> QED BY <2>1 DEF Readers
<1>9. Moved' BY <1>0, <1>1, <1>8, MovedKept
<1>10. ReadNear' BY <1>0, <1>1, <1>6, <1>7 DEF ReadNear
<1> QED BY <1>4, <1>5, <1>9, <1>10 DEF IInv

\* A fseek puts the FILE* where one thread wants it.
LEMMA SeekStep == ASSUME NEW t \in Threads PROVE IInv /\ (FatSeek(t) \/ DataSeek(t)) => IInv'
<1> SUFFICES ASSUME IInv, FatSeek(t) \/ DataSeek(t) PROVE IInv' OBVIOUS
<1>0. TypeOK /\ Moved /\ ReadNear BY DEF IInv
<1>1. /\ UNCHANGED <<layout, stamps>> /\ up = "yes"
      /\ seeks' = seeks \cup {pos'} /\ UNCHANGED <<cluster, got, entry>>
  BY DEF FatSeek, DataSeek, Seek
<1>2. \/ /\ pc[t] = "fat" /\ pc' = [pc EXCEPT ![t] = "fatread"] /\ pos' = FatSector(cluster[t])
      \/ /\ pc[t] = "data" /\ pc' = [pc EXCEPT ![t] = "dataread"] /\ pos' = FirstSectorOf(cluster[t])
  BY DEF FatSeek, DataSeek, Seek
<1>3. pc' \in [Threads -> Phases] BY <1>0, <1>2 DEF TypeOK, Phases
<1>4. Layout' /\ StampInv' /\ StampKept' BY <1>1, <1>3, ReadFrame
<1>5. pos' \in Nat
  <2>1. cluster[t] \in Nat \ {0, 1} BY <1>0 DEF TypeOK
  <2> QED BY <1>0, <1>2, <2>1, PlaceTypes
<1>6. TypeOK' BY <1>0, <1>1, <1>3, <1>5 DEF TypeOK, layout, bpb, stamps
<1>7. \A u \in Threads : pc'[u] = pc[u] \/ (u = t /\ pc[t] = "fat" /\ pc'[t] = "fatread")
                         \/ (u = t /\ pc[t] = "data" /\ pc'[t] = "dataread")
  BY <1>0, <1>2 DEF TypeOK
<1>8. Moved'
  <2>1. 0 \in seeks' /\ pos' \in seeks' BY <1>0, <1>1 DEF Moved
  <2>2. Readers' \in SUBSET Threads BY DEF Readers
  <2>3. Cardinality(Readers') \in Nat /\ Cardinality(Readers') <= Cardinality(Threads)
    BY <2>2, ThreadsAssumption, FS_Subset, FS_CardinalityType
  <2>4. PICK n \in Nat : n = Cardinality(Readers') BY <2>3
  <2>5. \A p \in Nat : p = p + 0 OBVIOUS
  <2>6. 0 + n <= Cardinality(Threads) BY <2>3, <2>4
  <2> QED BY <1>5, <2>1, <2>4, <2>5, <2>6 DEF Moved
<1>9. ReadNear' BY <1>0, <1>1, <1>7 DEF ReadNear
<1> QED BY <1>4, <1>6, <1>8, <1>9 DEF IInv

\* A fread moves the FILE* by one sector, and its thread is done with it.
LEMMA ReadStep == ASSUME NEW t \in Threads PROVE IInv /\ (FatRead(t) \/ DataRead(t)) => IInv'
<1> USE MountAssumption
<1> SUFFICES ASSUME IInv, FatRead(t) \/ DataRead(t) PROVE IInv' OBVIOUS
<1>0. TypeOK /\ Moved /\ ReadNear BY DEF IInv
<1>1. /\ UNCHANGED <<layout, stamps>> /\ up = "yes" /\ UNCHANGED <<cluster, seeks>>
      /\ got' = [got EXCEPT ![t] = pos] /\ pos' = pos + 1
  BY DEF FatRead, DataRead, Read
<1>2. \/ /\ pc[t] = "fatread" /\ pc' = [pc EXCEPT ![t] = "data"]
         /\ entry' = [entry EXCEPT ![t] = pos * Sector + TableSize(cluster[t])]
      \/ /\ pc[t] = "dataread" /\ pc' = [pc EXCEPT ![t] = "done"] /\ entry' = entry
  BY DEF FatRead, DataRead, Read
<1>3. pc' \in [Threads -> Phases] BY <1>0, <1>2 DEF TypeOK, Phases
<1>4. Layout' /\ StampInv' /\ StampKept' BY <1>1, <1>3, ReadFrame
<1>5. entry' \in [Threads -> Nat]
  <2>1. TableSize(cluster[t]) \in Nat BY <1>0, PlaceTypes DEF TypeOK
  <2>2. pos * Sector \in Nat BY <1>0, Product DEF TypeOK
  <2>3. pos * Sector + TableSize(cluster[t]) \in Nat BY <2>1, <2>2
  <2> QED BY <1>0, <1>2, <2>3 DEF TypeOK
<1>6. TypeOK'
  <2>1. got' \in [Threads -> Nat] /\ pos' \in Nat BY <1>0, <1>1 DEF TypeOK
  <2> QED BY <1>0, <1>1, <1>3, <1>5, <2>1 DEF TypeOK, layout, bpb, stamps
<1>7. \A u \in Threads : u # t => pc'[u] = pc[u] /\ got'[u] = got[u]
  BY <1>0, <1>1, <1>2 DEF TypeOK
<1>8. t \in Readers /\ Readers' = Readers \ {t}
  <2>1. Reading(t) BY <1>2 DEF Reading
  <2>2. ~Reading(t)' BY <1>0, <1>2 DEF Reading, TypeOK
  <2>3. \A u \in Threads : u # t => (Reading(u)' <=> Reading(u)) BY <1>7 DEF Reading
  <2> QED BY <2>1, <2>2, <2>3, Zenon DEF Readers
<1>9. Cardinality(Readers') = Cardinality(Readers) - 1
  BY <1>8, ThreadCount, FS_RemoveElement
<1>10. PICK s \in seeks, k \in Nat : pos = s + k /\ k + Cardinality(Readers) <= Cardinality(Threads)
  BY <1>0 DEF Moved
<1>11. s \in Nat /\ seeks' = seeks BY <1>0, <1>1 DEF TypeOK
<1>12. 0 \in seeks' /\ Cardinality(Readers)' = Cardinality(Readers) - 1
  BY <1>0, <1>9, <1>11 DEF Moved
<1>13. pos' = s + (k + 1) /\ (k + 1) + (Cardinality(Readers) - 1) <= Cardinality(Threads)
  BY <1>1, <1>10, <1>11, ThreadCount
<1>14. Moved' BY <1>11, <1>12, <1>13 DEF Moved
<1>15. ReadNear'
  <2>1. Cardinality(Readers) >= 1
    <3>1. Cardinality(Readers) # 0 BY <1>8, ThreadCount, FS_EmptySet
    <3> QED BY <3>1, ThreadCount
  <2>2. s <= pos /\ pos < s + Cardinality(Threads) BY <1>10, <1>11, <2>1, ThreadCount
  <2>3. got'[t] = pos BY <1>0, <1>1 DEF TypeOK
  <2>4. ASSUME NEW u \in Threads, pc'[u] \in {"data", "dataread", "done"}
        PROVE  \E r \in seeks' : r <= got'[u] /\ got'[u] < r + Cardinality(Threads)
    BY <1>0, <1>7, <1>11, <2>2, <2>3, <2>4 DEF ReadNear
  <2> QED BY <2>4 DEF ReadNear
<1> QED BY <1>4, <1>6, <1>14, <1>15 DEF IInv

LEMMA Inductive == Spec => []IInv
<1>1. IInv /\ [Next]_vars => IInv'
  BY MountStep, StampStep, AskStep, SeekStep, ReadStep DEF Next
<1> QED BY InitIInv, <1>1, PTL DEF Spec

-----------------------------------------------------------------------------
\* Places are naturals, and the stamps of an entry fit in their words.
THEOREM TypeCorrect == Spec => []TypeOK
<1>1. IInv => TypeOK BY DEF IInv
<1> QED BY Inductive, <1>1, PTL

\* getattr gives back the time an entry was stamped with, from 1980 to 2107.
THEOREM StampsKept == Spec => []StampKept
<1>1. IInv => StampKept BY DEF IInv
<1> QED BY Inductive, <1>1, PTL

\* The root directory fits between the FATs and the data on every volume.
THEOREM RootDirFits == Spec => []RootFits
<1>1. IInv => RootFits
  <2> SUFFICES ASSUME IInv, up = "yes" PROVE RootFits BY DEF RootFits
  <2>0. TypeOK /\ Layout BY DEF IInv
  <2>1. rootent * DirBytes \in Nat /\ byts \in Nat /\ byts > 0 BY <2>0 DEF TypeOK, DirBytes
  <2>2. /\ RootDirSectors \in Nat /\ RootDirSectors * byts >= rootent * DirBytes
        /\ RootDirSectors * byts < rootent * DirBytes + byts
    BY <2>1, RoundUp DEF RootDirSectors
  <2>3. fatsz * numfats = numfats * fatsz /\ numfats * fatsz \in Nat /\ rsvd \in Nat
    BY <2>0, Product DEF TypeOK
  <2>4. /\ FirstRootDirSecNum = rsvd + numfats * fatsz
        /\ FirstDataSector = rsvd + numfats * fatsz + RootDirSectors
    BY <2>0, <2>3 DEF Layout
  <2>5. FirstDataSector - FirstRootDirSecNum = RootDirSectors BY <2>2, <2>3, <2>4
  <2> QED BY <2>2, <2>4, <2>5 DEF RootFits
<1> QED BY Inductive, <1>1, PTL

\* Any number of threads that share the FILE*: a read gives a sector that one
\* of them sought, or one less than as many sectors behind it as there are
\* threads.
THEOREM ReadsNear == Spec => []ReadNear
<1>1. IInv => ReadNear BY DEF IInv
<1> QED BY Inductive, <1>1, PTL
=============================================================================
