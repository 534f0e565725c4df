------------------------------ MODULE Fat16Dir ------------------------------
(***************************************************************************)
(* Directories in the FAT16 driver lab4/simple_fat16_new.c: which slot     *)
(* fat16_mknod puts an entry into, which one fat16_unlink erases, and what *)
(* find_root, find_subdir and fat16_readdir see.                           *)
(*                                                                         *)
(* Operations on one directory are serialised by the kernel's lock on it,  *)
(* so each is one step.  Names are FAT names, spelled as they decode; the  *)
(* clusters of the files are the subject of Fat16Volume.                   *)
(***************************************************************************)
EXTENDS Integers, Sequences, FiniteSets

CONSTANTS
  Dirs,         \* the directories used: "root", "sub"
  Names,        \* names of files
  RootEntCnt,   \* slots of the root directory
  PerSec,       \* slots in a sector (16)
  SecPerClus,   \* sectors in a cluster
  MaxClus,      \* last cluster of the volume
  SubChain      \* the clusters of the subdirectory, in order

ASSUME DirAssumption ==
  /\ Dirs \subseteq {"root", "sub"}
  /\ RootEntCnt \in Nat \ {0} /\ PerSec \in Nat \ {0} /\ SecPerClus \in Nat \ {0}
  /\ MaxClus \in Nat
  /\ SubChain \in Seq(2 .. MaxClus) /\ SubChain # <<>>

PerClus == PerSec * SecPerClus
Base(c) == RootEntCnt + (c - 2) * PerClus   \* first slot of a cluster
Image == 0 .. Base(MaxClus + 1) - 1         \* root directory, then data area

VARIABLE slot    \* what each 32 bytes of the image hold

\* The slots of a directory in the order the loops visit them.
Order(d) ==
  IF d = "root" THEN [p \in 1 .. RootEntCnt |-> p - 1]
  ELSE [p \in 1 .. PerClus * Len(SubChain) |->
          Base(SubChain[(p - 1) \div PerClus + 1]) + ((p - 1) % PerClus)]

Places(d) == DOMAIN Order(d)
Entry(d, p) == slot[Order(d)[p]]

SubSlots == {Order("sub")[p] : p \in Places("sub")}

\* "end" is 0x00 and "erased" 0xe5 in the first byte of the name; "other" is
\* an entry the operations here leave alone (a label, a directory, a file),
\* "data" 32 bytes of some file.
Contents == Names \cup {"end", "erased", "other", "data"}

\* Outside of the directories nothing is ever written.
DataIntact ==
  \A a \in Image : slot[a] = "data" <=> a >= RootEntCnt /\ a \notin SubSlots

\* Type invariant: entries lie in directories and data outside of them.
TypeOK ==
  /\ slot \in [Image -> Contents]
  /\ DataIntact

\* Some entries, then free slots to the end, as mkfs.fat and cp leave them.
Init ==
  \E r \in 0 .. RootEntCnt, s \in 1 .. PerClus * Len(SubChain) :
    slot = [a \in Image |->
              IF a < RootEntCnt THEN IF a < r THEN "other" ELSE "end"
              ELSE IF a \notin SubSlots THEN "data"
              ELSE IF \E p \in 1 .. s : Order("sub")[p] = a THEN "other"
              ELSE "end"]

-----------------------------------------------------------------------------
(* Looking for names.                                                      *)

\* find_root and find_subdir visit the slots up to the first one with 0x00.
Seen(d) == {p \in Places(d) : \A q \in 1 .. p : Entry(d, q) # "end"}

Found(d, n) == \E p \in Seen(d) : Entry(d, p) = n

\* What fat16_readdir fills in.
Listed(d) == {p \in Seen(d) : Entry(d, p) # "erased"}

-----------------------------------------------------------------------------
(* fat16_mknod                                                             *)

IsFree(e) == e \in {"end", "erased"}

NoSlot == -1

\* Mutant of RootSlot: i is not counted down to an offset.
RootSlotNext ==
  LET free == {p \in Places("root") : IsFree(Entry("root", p))}
  IN IF free = {} THEN NoSlot ELSE CHOOSE p \in free : \A q \in free : p <= q

\* The root directory: the first free slot, if there is one.
RootSlot ==
  LET free == {p \in Places("root") : IsFree(Entry("root", p))}
  IN IF free = {} THEN NoSlot
     ELSE Order("root")[CHOOSE p \in free : \A q \in free : p <= q]

\* A round of the loop over a subdirectory, on i, DirSecCnt (sec), the cluster
\* (k, its place in the chain) and findFlag: look at slot i of the sector in
\* the buffer; after the last slot of a sector load the next sector, after the
\* last sector the next cluster.
Round(s) ==
  LET e == slot[Base(SubChain[s.k]) + (s.sec - 1) * PerSec + ((s.i - 1) % PerSec)]
      t == [s EXCEPT !.free = IsFree(e)]
  IN IF s.i % PerSec # 0 THEN [t EXCEPT !.i = @ + 1]
     ELSE IF s.sec < SecPerClus THEN [t EXCEPT !.i = @ + 1, !.sec = @ + 1]
     ELSE IF s.k = Len(SubChain) THEN [t EXCEPT !.findFlag = 0]
     ELSE [t EXCEPT !.i = 1, !.sec = 1, !.k = @ + 1]

\* The loop after at most j rounds.
Scan[j \in 0 .. PerClus * Len(SubChain)] ==
  IF j = 0 THEN [i |-> 1, sec |-> 1, k |-> 1, findFlag |-> 1, free |-> FALSE]
  ELSE IF Scan[j - 1].free \/ Scan[j - 1].findFlag = 0 THEN Scan[j - 1]
  ELSE Round(Scan[j - 1])

\* Mutant of SubSlot: the slot behind the one the loop stopped at.
SubSlotNext ==
  LET s == Scan[PerClus * Len(SubChain)] IN
  IF s.findFlag = 0 THEN NoSlot
  ELSE Base(SubChain[s.k]) + (s.sec - 1) * PerSec + ((s.i - 1) % PerSec)

\* sectorNum and offset after the loop.  The slot it stopped at is i - 1; the
\* remainder keeps the sign of i - 2.
SubSlot ==
  LET s == Scan[PerClus * Len(SubChain)]
      offset == IF s.i = 1 THEN -1 ELSE (s.i - 2) % PerSec
  IN IF s.findFlag = 0 THEN NoSlot
     ELSE Base(SubChain[s.k]) + (s.sec - 1) * PerSec + offset

Target(d) == IF d = "root" THEN RootSlot ELSE SubSlot

\* The kernel asks for a name only after a lookup failed.  When no slot is
\* found fat16_mknod returns 0 all the same.
Mknod(d, n) ==
  /\ ~Found(d, n)
  /\ slot' = IF Target(d) = NoSlot THEN slot ELSE [slot EXCEPT ![Target(d)] = n]

-----------------------------------------------------------------------------
(* fat16_unlink                                                            *)

\* Mutant of Erase: the entry is cleared to 0x00 instead of marked 0xe5.
EraseEnd(a) == [slot EXCEPT ![a] = "end"]

Erase(a) == [slot EXCEPT ![a] = "erased"]

\* The first slot with the name; the loop over the root directory does not
\* stop at 0x00.
Unlink(d, n) ==
  LET range == IF d = "root" THEN Places(d) ELSE Seen(d)
      match == {p \in range : Entry(d, p) = n}
  IN /\ Found(d, n)
     /\ \E p \in match :
          /\ \A q \in match : p <= q
          /\ slot' = Erase(Order(d)[p])

-----------------------------------------------------------------------------
Next == \E d \in Dirs, n \in Names : Mknod(d, n) \/ Unlink(d, n)

Spec == Init /\ [][Next]_slot

-----------------------------------------------------------------------------
(* Properties.                                                             *)

\* fat16_readdir lists every entry: none lies behind the first slot with 0x00,
\* where find_root and find_subdir would never look either ("If the directory
\* entry is free, all the next directory entries are also free").
NothingHidden ==
  \A d \in Dirs : \A p \in Places(d) : p \in Listed(d) \/ IsFree(Entry(d, p))

Kept(a) ==
  \/ IsFree(slot[a]) \/ slot'[a] = slot[a]
  \/ slot[a] \in Names /\ slot'[a] = "erased"

\* fat16_mknod writes over free slots only: neither another entry nor the data
\* of a file is lost.
NothingLost == [][\A a \in Image : Kept(a)]_slot

\* The first free slot of d is place p.
FirstFree(d, p) ==
  IsFree(Entry(d, p)) /\ \A q \in 1 .. p - 1 : ~IsFree(Entry(d, q))

\* Whatever was created and removed before, and however full a directory is,
\* fat16_mknod takes its first free slot, in a subdirectory of many sectors and
\* clusters too, unless that is the last one of a sector.
FirstFreeTaken ==
  \A d \in Dirs : \A p \in Places(d) :
    FirstFree(d, p) => \/ Target(d) = Order(d)[p]
                       \/ d = "sub" /\ p % PerSec = 0

InnerBorder ==
  \E p \in Places("sub") :
    FirstFree("sub", p) /\ p % PerSec = 0 /\ p # PerClus * Len(SubChain)

\* Harm is done in one situation only, when the first free slot of the
\* subdirectory is the last one of a sector that another follows: every other
\* creation and every removal overwrites nothing, and hides no entry behind a
\* slot with 0x00, since fat16_unlink leaves a mark and no hole.
HarmAtBorder ==
  [][\/ InnerBorder
     \/ (\A a \in Image : Kept(a)) /\ (NothingHidden => NothingHidden')]_slot

Directory == INSTANCE DirNames WITH
               present <- [d \in Dirs |-> {n \in Names : Found(d, n)}]

\* The driver implements DirNames, where directories are sets of names, as long
\* as it has not come to that situation: every write to an entry makes exactly
\* one name appear or disappear for the searches, and none without effect.
NamesKept ==
  /\ Directory!Init
  /\ [][NothingHidden /\ ~InnerBorder => Directory!Next]_slot
=============================================================================
