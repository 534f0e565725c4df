---------------------------- MODULE Fat16Mount ----------------------------
(***************************************************************************)
(* The layout of the volume and the access to its sectors, and the         *)
(* attributes of a file, in simple_fat16_new.c: pre_init_fat16 takes the   *)
(* boot sector and finds the root directory and the data, then the threads *)
(* of FUSE read FAT entries and clusters through one FILE*, with fseek and *)
(* fread as two steps, and stamp entries and stat them.                    *)
(***************************************************************************)
EXTENDS Integers, FiniteSets

CONSTANTS
    Threads,
    Sector,    \* BYTES_PER_SECTOR
    Word,      \* values of a WORD of sectors and offsets: 2^16
    Rsvd, NumFATs, FATSz, RootEnt, BytsPerSec, SecPerClus,  \* choices for the boot sector
    Clusters,  \* cluster numbers that are asked for
    Times      \* times of day: <<sec, min, hour, mday, mon, year>> of struct tm

DirBytes == 32
WORD == 65536

ASSUME MountAssumption ==
    /\ Sector \in Nat \ {0} /\ Word \in Nat \ {0} /\ Clusters \subseteq Nat \ {0, 1}
    /\ Rsvd \subseteq Nat /\ NumFATs \subseteq Nat /\ FATSz \subseteq Nat
    /\ RootEnt \subseteq Nat /\ BytsPerSec \subseteq Nat \ {0} /\ SecPerClus \subseteq Nat \ {0}

\* FUSE has at least one thread.
ASSUME ThreadsAssumption == IsFiniteSet(Threads) /\ Threads # {}

\* Times from 1980 to 2107.
ASSUME TimesAssumption ==
    \A tm \in Times :
        /\ tm[1] \in 0 .. 59 /\ tm[2] \in 0 .. 59 /\ tm[3] \in 0 .. 23
        /\ tm[4] \in 1 .. 31 /\ tm[5] \in 0 .. 11 /\ tm[6] \in 80 .. 207

VARIABLES
    up,        \* the driver: "no", "yes" or "gone"
    rsvd, numfats, fatsz, rootent, byts, spc,   \* Bpb
    FirstRootDirSecNum, FirstDataSector,
    pos,       \* the place of the FILE*, in sectors
    pc,        \* of a thread
    cluster,   \* the cluster it asks about
    got,       \* the sector it read last
    entry,     \* the byte of the volume from where it took the FAT entry
    seeks,     \* history: the sectors the FILE* was put to by fopen and fseek
    wtime, wdate,  \* DIR_WrtTime and DIR_WrtDate of the entry stamped last
    given,     \* history: the time it was stamped with
    stat,      \* the time that the last getattr has returned
    asked      \* history: the time its entry had been stamped with

bpb == <<rsvd, numfats, fatsz, rootent, byts, spc>>
layout == <<up, bpb, FirstRootDirSecNum, FirstDataSector>>
reads == <<pos, pc, cluster, got, entry, seeks>>
stamps == <<wtime, wdate, given, stat, asked>>
vars == <<layout, reads, stamps>>

-----------------------------------------------------------------------------
Zero == <<0, 0, 0, 1, 0, 80>>

Init ==
    /\ up = "no" /\ rsvd \in Rsvd /\ numfats \in NumFATs /\ fatsz \in FATSz
    /\ rootent \in RootEnt /\ byts \in BytsPerSec /\ spc \in SecPerClus
    /\ FirstRootDirSecNum = 0 /\ FirstDataSector = 0 /\ pos = 0
    /\ pc = [t \in Threads |-> "idle"] /\ cluster = [t \in Threads |-> 2]
    /\ got = [t \in Threads |-> 0] /\ entry = [t \in Threads |-> 0]
    /\ seeks = {0} /\ wtime = 0 /\ wdate = 1 /\ given = Zero /\ stat = Zero /\ asked = Zero

RootDirSectors == (rootent * DirBytes + (byts - 1)) \div byts

\* pre_init_fat16 reads sector 0 and computes where the regions begin.
Mount ==
    /\ up = "no" /\ up' = "yes" /\ pos' = 1
    /\ FirstRootDirSecNum' = rsvd + fatsz * numfats
    /\ FirstDataSector' = rsvd + numfats * fatsz + RootDirSectors
    /\ UNCHANGED <<bpb, pc, cluster, got, entry, seeks, stamps>>

\* No image file: the driver exits.
MountFails == up = "no" /\ up' = "gone" /\ UNCHANGED <<bpb, FirstRootDirSecNum, FirstDataSector, reads, stamps>>

\* fat16_destroy, when FUSE is done with all requests.
Destroy ==
    /\ up = "yes" /\ (\A t \in Threads : pc[t] = "idle") /\ up' = "gone"
    /\ UNCHANGED <<bpb, FirstRootDirSecNum, FirstDataSector, reads, stamps>>

-----------------------------------------------------------------------------
(* fat_entry_by_cluster and first_sector_by_cluster *)

Offset(c) == (c * 2) % Word
FatSector(c) == (rsvd + Offset(c) \div byts) % Word
TableSize(c) == Offset(c) % byts

FirstSectorOf(c) == ((c - 2) * spc + FirstDataSector) % Word

\* fseek of sector_read.
Seek(t, from, to, secnum) ==
    /\ up = "yes" /\ pc[t] = from /\ pc' = [pc EXCEPT ![t] = to]
    /\ pos' = secnum /\ seeks' = seeks \cup {secnum}
    /\ UNCHANGED <<layout, cluster, got, entry, stamps>>

\* fread of sector_read: what it reads is where the FILE* stands.
Read(t, from, to) ==
    /\ up = "yes" /\ pc[t] = from /\ pc' = [pc EXCEPT ![t] = to]
    /\ got' = [got EXCEPT ![t] = pos] /\ pos' = pos + 1
    /\ UNCHANGED <<layout, cluster, seeks, stamps>>

Ask(t, c) ==
    /\ up = "yes" /\ pc[t] = "idle" /\ pc' = [pc EXCEPT ![t] = "fat"]
    /\ cluster' = [cluster EXCEPT ![t] = c]
    /\ got' = [got EXCEPT ![t] = 0] /\ entry' = [entry EXCEPT ![t] = 0]
    /\ UNCHANGED <<layout, pos, seeks, stamps>>

FatSeek(t) == Seek(t, "fat", "fatread", FatSector(cluster[t]))

\* The entry is taken out of the sector in the buffer.
FatRead(t) ==
    /\ Read(t, "fatread", "data")
    /\ entry' = [entry EXCEPT ![t] = pos * Sector + TableSize(cluster[t])]

\* Mutant of DataSeek: the sector is expected right behind the FAT entry's.
DataSeekSkipped(t) ==
    /\ up = "yes" /\ pc[t] = "data" /\ pc' = [pc EXCEPT ![t] = "dataread"]
    /\ UNCHANGED <<layout, pos, seeks, cluster, got, entry, stamps>>

DataSeek(t) == Seek(t, "data", "dataread", FirstSectorOf(cluster[t]))

DataRead(t) == Read(t, "dataread", "done") /\ UNCHANGED entry

Done(t) ==
    /\ up = "yes" /\ pc[t] = "done" /\ pc' = [pc EXCEPT ![t] = "idle"]
    /\ UNCHANGED <<layout, pos, cluster, got, entry, seeks, stamps>>

-----------------------------------------------------------------------------
(* dir_entry_create and fat16_getattr *)

\* Mutant of Stamp: the year is counted from 1900.
StampFrom1900(tm) ==
    /\ up = "yes"
    /\ wtime' = (tm[3] * 2048 + tm[2] * 32 + tm[1] \div 2) % WORD
    /\ wdate' = (tm[6] * 512 + tm[5] * 32 + tm[4]) % WORD
    /\ given' = tm /\ UNCHANGED <<layout, reads, stat, asked>>

\* tm_year counts from 1900, and 2000 is taken from it: the negative year is
\* reduced to its seven bits by the conversion to WORD.
Stamp(tm) ==
    /\ up = "yes"
    /\ wtime' = (tm[3] * 2048 + tm[2] * 32 + tm[1] \div 2) % WORD
    /\ wdate' = ((tm[6] - 2000) * 512 + tm[5] * 32 + tm[4]) % WORD
    /\ given' = tm /\ UNCHANGED <<layout, reads, stat, asked>>

\* The fields that getattr takes out of the two words; the seconds are not
\* doubled again.
Decoded ==
    <<wtime % 32, (wtime \div 32) % 64, wtime \div 2048,
      wdate % 32, (wdate \div 32) % 16, wdate \div 512 + 80>>

GetAttr ==
    /\ up = "yes" /\ stat' = Decoded /\ asked' = given
    /\ UNCHANGED <<layout, reads, wtime, wdate, given>>

-----------------------------------------------------------------------------
Next ==
    \/ Mount \/ MountFails \/ Destroy
    \/ \E t \in Threads :
          \/ \E c \in Clusters : Ask(t, c)
          \/ FatSeek(t) \/ FatRead(t) \/ DataSeek(t) \/ DataRead(t) \/ Done(t)
    \/ \E tm \in Times : Stamp(tm)
    \/ GetAttr

Spec == Init /\ [][Next]_vars

-----------------------------------------------------------------------------
Phases == {"idle", "fat", "fatread", "data", "dataread", "done"}

\* Places in the volume are naturals, and words are words.
TypeOK ==
    /\ up \in {"no", "yes", "gone"}
    /\ rsvd \in Nat /\ numfats \in Nat /\ fatsz \in Nat /\ rootent \in Nat
    /\ byts \in Nat \ {0} /\ spc \in Nat \ {0}
    /\ FirstRootDirSecNum \in Nat /\ FirstDataSector \in Nat /\ pos \in Nat
    /\ pc \in [Threads -> Phases] /\ cluster \in [Threads -> Nat \ {0, 1}]
    /\ got \in [Threads -> Nat] /\ entry \in [Threads -> Nat]
    /\ seeks \in SUBSET Nat
    /\ wtime \in 0 .. WORD - 1 /\ wdate \in 0 .. WORD - 1

\* sector_read and first_sector_by_cluster do what their comments say: a thread
\* gets the FAT entry and the first sector of the cluster that it asked about.
\* Two threads, and volumes that are too large for a WORD, break it.
ReadRight ==
    \A t \in Threads :
        LET c == cluster[t]
        IN /\ (pc[t] \in {"data", "dataread", "done"} => entry[t] = rsvd * Sector + 2 * c)
           /\ (pc[t] = "done" => got[t] = (c - 2) * spc + FirstDataSector)

\* However the fseek and fread calls of the threads fall between each other,
\* sector_read gives a sector that some thread sought, or one so close behind
\* it that each of the other threads can have moved the FILE* by one sector.
ReadNear ==
    \A t \in Threads :
        pc[t] \in {"data", "dataread", "done"} =>
            \E s \in seeks : s <= got[t] /\ got[t] < s + Cardinality(Threads)

\* The root directory has room for all of its entries, and less than one
\* sector more, between the last FAT and the first data.
RootFits ==
    up = "yes" =>
        /\ FirstRootDirSecNum = rsvd + numfats * fatsz
        /\ (FirstDataSector - FirstRootDirSecNum) * byts >= rootent * DirBytes
        /\ (FirstDataSector - FirstRootDirSecNum) * byts < rootent * DirBytes + byts

\* getattr returns the time that the entry was stamped with to the minute,
\* and half its seconds: the year comes back although 2000 and not 80 was
\* taken from it.
StampKept ==
    /\ stat[1] = asked[1] \div 2 /\ stat[2] = asked[2] /\ stat[3] = asked[3]
    /\ stat[4] = asked[4] /\ stat[5] = asked[5] /\ stat[6] = asked[6]
=============================================================================
