---------------------------- MODULE Fat16Volume ----------------------------
(***************************************************************************)
(* Cluster allocation in the FAT16 FUSE driver lab4/simple_fat16_new.c:    *)
(* how fat16_mknod, fat16_unlink and the allocation loop of write_path     *)
(* read and change the two copies of the file allocation table and the     *)
(* directory entries of an image.                                          *)
(*                                                                         *)
(* fuse_main runs the handlers on several threads and the driver takes no  *)
(* lock, so every read of a table entry that a decision hangs on and every *)
(* flushed write is a step of its own, and the steps of different threads  *)
(* interleave.  One such access (fseek, then fread or fwrite) is atomic    *)
(* here.  The bytes of the files are left to Fat16Content, and a mknod     *)
(* that finds no slot in its directory changes nothing and is left out.    *)
(***************************************************************************)
EXTENDS Integers

CONSTANTS
  Threads,     \* FUSE worker threads
  Names,       \* files, by the FAT name of their directory entry
  NoName,      \* name[t] of an idle thread
  MaxClus,     \* number of the last cluster of the volume
  MaxGrow,     \* bound: clusters one write may add to a file
  Spellings,   \* "exact": the last path component is the decoded FAT name;
               \* "other": another spelling that find_root accepts too
  EmptyImage,  \* files the image holds with no cluster at all (size 0)
  MaxCrashes   \* bound: how often the driver is killed and remounted

Clusters == 2 .. MaxClus
Entries == 0 .. MaxClus      \* entries of one copy of the table
EOC == 65535                 \* 0xffff, end of a chain
LastLink == 65528            \* 0xfff8, values from here on end a chain
Media == 65528               \* entry 0 of a formatted volume

ASSUME ConstantsAssumption ==
  /\ MaxClus \in Nat /\ 2 <= MaxClus /\ MaxClus < 32768
  /\ MaxGrow \in Nat /\ MaxCrashes \in Nat
  /\ NoName \notin Names
  /\ Spellings \subseteq {"exact", "other"}
  /\ EmptyImage \subseteq Names

VARIABLES
  fat1,     \* first copy of the table, the one the driver reads
  fat2,     \* second copy
  live,     \* names whose entry is neither 0x00 nor marked 0xe5
  first,    \* DIR_FstClusLO of the entry of a name, kept when it is erased
  pc,       \* what each thread does next
  name,     \* the file its handler was called for
  clus,     \* ClusterN of fat16_mknod and fat16_unlink, ClusterLast of write_path
  next,     \* what freeCluster has read; ClusterLast + b of write_path
  left,     \* clusters of ClusterRequired still to be linked
  edge,     \* "past" once a search has run past the last cluster
  crashes   \* number of restarts so far

image == <<fat1, fat2, live, first>>
locals == <<pc, name, clus, next, left>>
vars == <<image, locals, edge, crashes>>

Overrun == edge = "past"

Steps == {"idle", "search", "entry", "mark",      \* fat16_mknod
          "load", "clear1", "clear2", "erase",    \* fat16_unlink
          "walk", "grow", "probe", "link", "follow"}  \* write_path, then "mark"

Word == {0, Media, EOC} \cup Clusters

\* Type invariant: entries hold 0, a mark or a cluster of the volume, and a
\* thread between two steps of a handler holds cluster numbers of the volume.
TypeOK ==
  /\ fat1 \in [Entries -> Word]
  /\ fat2 \in [Entries -> Word]
  /\ live \subseteq Names
  /\ first \in [Names -> Entries]
  /\ pc \in [Threads -> Steps]
  /\ name \in [Threads -> Names \cup {NoName}]
  /\ clus \in [Threads -> Entries]
  /\ next \in [Threads -> Word \cup Entries]
  /\ left \in [Threads -> 0 .. MaxGrow]
  /\ edge \in {"inside", "past"}
  /\ crashes \in 0 .. MaxCrashes

-----------------------------------------------------------------------------
(* What a sound volume looks like.                                         *)

\* No cluster is referred to twice by the directory entries and the links of
\* the table: the chains fat16_unlink frees and write_path extends never meet.
NoCrossLink ==
  /\ \A m, n \in live : first[m] = first[n] /\ first[m] \in Clusters => m = n
  /\ \A c, d \in Clusters : fat1[c] = fat1[d] /\ fat1[c] \in Clusters => c = d
  /\ \A n \in live, c \in Clusters : fat1[c] \in Clusters => fat1[c] # first[n]

\* What an entry or a link refers to is in use in fat1.
Backed ==
  /\ \A n \in live : first[n] \in Clusters => fat1[first[n]] # 0
  /\ \A c \in Clusters : fat1[c] \in Clusters => fat1[fat1[c]] # 0

\* Every cluster in use in fat1 is referred to.
Reached ==
  \A c \in Clusters : fat1[c] # 0 =>
    \/ \E n \in live : first[n] = c
    \/ \E d \in Clusters : fat1[d] = c

\* Links lead to higher clusters, so that the loops of write_path and
\* fat16_unlink, which stop only at an end mark, come to an end whatever the
\* threads and the crashes did before.
LinksAscend ==
  \A c \in Clusters : fat1[c] \in Clusters => c < fat1[c]

\* The image: any sound volume whose files were laid out in ascending order,
\* both copies of the table equal, as mkfs.fat and a first copy of files leave
\* it.  A file of size 0 may have no cluster.
Init ==
  /\ \E links \in [Clusters -> Clusters \cup {0, EOC}] :
       fat1 = [c \in Entries |-> IF c = 0 THEN Media
                                 ELSE IF c = 1 THEN EOC ELSE links[c]]
  /\ fat2 = fat1
  /\ live \in SUBSET Names
  /\ \E heads \in [Names -> Clusters] :
       first = [n \in Names |-> IF n \in live \ EmptyImage THEN heads[n] ELSE 0]
  /\ NoCrossLink /\ Backed /\ Reached /\ LinksAscend
  /\ pc = [t \in Threads |-> "idle"]
  /\ name = [t \in Threads |-> NoName]
  /\ clus = [t \in Threads |-> 0]
  /\ next = [t \in Threads |-> 0]
  /\ left = [t \in Threads |-> 0]
  /\ edge = "inside"
  /\ crashes = 0

-----------------------------------------------------------------------------
\* The kernel serialises the calls on one name (lock of the directory, lock
\* of the inode); calls on different names run side by side.
Enter(t, n, s, c, k) ==
  /\ ~Overrun
  /\ pc[t] = "idle"
  /\ \A u \in Threads : name[u] # n
  /\ pc' = [pc EXCEPT ![t] = s]
  /\ name' = [name EXCEPT ![t] = n]
  /\ clus' = [clus EXCEPT ![t] = c]
  /\ left' = [left EXCEPT ![t] = k]

At(t, s) == ~Overrun /\ pc[t] = s

Goto(t, s) == pc' = [pc EXCEPT ![t] = s] /\ UNCHANGED name

Return(t) ==
  /\ pc' = [pc EXCEPT ![t] = "idle"]
  /\ name' = [name EXCEPT ![t] = NoName]
  /\ clus' = [clus EXCEPT ![t] = 0]
  /\ next' = [next EXCEPT ![t] = 0]
  /\ left' = [left EXCEPT ![t] = 0]

\* The loop conditions "> 1 && < 0xfff8" of write_path and fat16_unlink.
IsLink(v) == v > 1 /\ v < LastLink

\* The search goes on past the end of the volume, and the model stops.
RunPast == edge' = "past" /\ UNCHANGED locals

-----------------------------------------------------------------------------
(* fat16_mknod: FindEmptyCluster, then the entry, then the table.          *)

\* Mutant of MknodStart: FindEmptyCluster begins at cluster 3.
MknodStartThird(t, n) ==
  /\ n \notin live
  /\ Enter(t, n, "search", 3, 0)
  /\ UNCHANGED <<image, next, edge, crashes>>

MknodStart(t, n) ==
  /\ n \notin live
  /\ Enter(t, n, "search", 2, 0)
  /\ UNCHANGED <<image, next, edge, crashes>>

\* Mutant of Search: ClusterEmpty, which returns 0 for an empty cluster, is
\* read the other way round.
SearchInverted(t) ==
  LET c == clus[t] IN
  /\ At(t, "search")
  /\ \/ fat1[c] # 0 /\ Goto(t, "entry") /\ UNCHANGED <<clus, next, left, edge>>
     \/ fat1[c] = 0 /\ c < MaxClus /\ clus' = [clus EXCEPT ![t] = c + 1]
                    /\ UNCHANGED <<pc, name, next, left, edge>>
     \/ fat1[c] = 0 /\ c = MaxClus /\ RunPast
  /\ UNCHANGED <<image, crashes>>

\* while (ClusterEmpty(ClusterN)) ClusterN++, and no other end.
Search(t) ==
  LET c == clus[t] IN
  /\ At(t, "search")
  /\ \/ fat1[c] = 0 /\ Goto(t, "entry") /\ UNCHANGED <<clus, next, left, edge>>
     \/ fat1[c] # 0 /\ c < MaxClus /\ clus' = [clus EXCEPT ![t] = c + 1]
                    /\ UNCHANGED <<pc, name, next, left, edge>>
     \/ fat1[c] # 0 /\ c = MaxClus /\ RunPast
  /\ UNCHANGED <<image, crashes>>

\* dir_entry_create
MknodEntry(t) ==
  /\ At(t, "entry")
  /\ live' = live \cup {name[t]}
  /\ first' = [first EXCEPT ![name[t]] = clus[t]]
  /\ Goto(t, "mark")
  /\ UNCHANGED <<fat1, fat2, clus, next, left, edge, crashes>>

\* Mutant of MarkEnd: the cluster is handed out and not marked.
MarkEndForgotten(t) ==
  /\ At(t, "mark")
  /\ Return(t)
  /\ UNCHANGED <<image, edge, crashes>>

\* ClusterIsEmpty(clus, 0xffff), the last step of mknod and of an extension:
\* the first copy of the table only.
MarkEnd(t) ==
  /\ At(t, "mark")
  /\ fat1' = [fat1 EXCEPT ![clus[t]] = EOC]
  /\ Return(t)
  /\ UNCHANGED <<fat2, live, first, edge, crashes>>

-----------------------------------------------------------------------------
(* fat16_unlink: free the chain from its head, then mark the entry.        *)

UnlinkStart(t, n) ==
  /\ n \in live
  /\ Enter(t, n, "load", first[n], 0)
  /\ UNCHANGED <<image, next, edge, crashes>>

\* freeCluster reads the entry of the cluster, clears it in the first copy,
\* clears it in the second and returns what it read.
FreeLoad(t) ==
  /\ At(t, "load")
  /\ next' = [next EXCEPT ![t] = fat1[clus[t]]]
  /\ Goto(t, "clear1")
  /\ UNCHANGED <<image, clus, left, edge, crashes>>

FreeClear1(t) ==
  /\ At(t, "clear1")
  /\ fat1' = [fat1 EXCEPT ![clus[t]] = 0]
  /\ Goto(t, "clear2")
  /\ UNCHANGED <<fat2, live, first, clus, next, left, edge, crashes>>

\* Mutant of FreeClear2: one cluster is freed instead of the chain.
FreeClear2Head(t) ==
  /\ At(t, "clear2")
  /\ fat2' = [fat2 EXCEPT ![clus[t]] = 0]
  /\ Goto(t, "erase")
  /\ UNCHANGED <<fat1, live, first, clus, next, left, edge, crashes>>

FreeClear2(t) ==
  /\ At(t, "clear2")
  /\ fat2' = [fat2 EXCEPT ![clus[t]] = 0]
  /\ \/ IsLink(next[t]) /\ Goto(t, "load")
                        /\ clus' = [clus EXCEPT ![t] = next[t]]
     \/ ~IsLink(next[t]) /\ Goto(t, "erase") /\ UNCHANGED clus
  /\ UNCHANGED <<fat1, live, first, next, left, edge, crashes>>

\* Mutant of UnlinkErase: the entry is never marked 0xe5.
UnlinkEraseForgotten(t) ==
  /\ At(t, "erase")
  /\ Return(t)
  /\ UNCHANGED <<image, edge, crashes>>

\* The entry is searched by comparing path_decode of each slot with the path
\* as the caller spelled it; when nothing matches, findFlag stays 0.
UnlinkErase(t) ==
  /\ At(t, "erase")
  /\ \E spelt \in Spellings :
       live' = IF spelt = "exact" THEN live \ {name[t]} ELSE live
  /\ Return(t)
  /\ UNCHANGED <<fat1, fat2, first, edge, crashes>>

-----------------------------------------------------------------------------
(* write_path, the table side: walk to the end of the chain, then link     *)
(* ClusterRequired clusters one by one.                                    *)

WriteStart(t, n) ==
  /\ n \in live /\ IsLink(first[n])
  /\ \E k \in 0 .. MaxGrow : Enter(t, n, "walk", first[n], k)
  /\ UNCHANGED <<image, next, edge, crashes>>

\* With no cluster to walk ClusterLast is never assigned: it may be any number,
\* of this table or far beyond it.
WriteUnset(t, n) ==
  /\ n \in live /\ ~IsLink(first[n])
  /\ \/ /\ \E last \in Entries, k \in 1 .. MaxGrow : Enter(t, n, "grow", last, k)
        /\ UNCHANGED <<next, edge>>
     \/ At(t, "idle") /\ (\A u \in Threads : name[u] # n) /\ RunPast
  /\ UNCHANGED <<image, crashes>>

\* Mutant of Walk: ClusterNPre = ClusterTmp is missing.
WalkStuck(t) ==
  /\ At(t, "walk") /\ ~IsLink(fat1[clus[t]])
  /\ \/ left[t] > 0 /\ Goto(t, "grow") /\ UNCHANGED <<clus, next, left>>
     \/ left[t] = 0 /\ Return(t)
  /\ UNCHANGED <<image, edge, crashes>>

\* At the end of the chain, clusters are added unless the file has enough.
Walk(t) ==
  LET v == fat1[clus[t]] IN
  /\ At(t, "walk")
  /\ \/ /\ IsLink(v)
        /\ clus' = [clus EXCEPT ![t] = v]
        /\ UNCHANGED <<pc, name, next, left>>
     \/ ~IsLink(v) /\ left[t] > 0 /\ Goto(t, "grow")
                   /\ UNCHANGED <<clus, next, left>>
     \/ ~IsLink(v) /\ left[t] = 0 /\ Return(t)
  /\ UNCHANGED <<image, edge, crashes>>

\* Mutant of Grow: the search begins at cluster 2, as in FindEmptyCluster.
GrowFromStart(t) ==
  /\ At(t, "grow")
  /\ next' = [next EXCEPT ![t] = 2]
  /\ Goto(t, "probe")
  /\ UNCHANGED <<image, clus, left, edge, crashes>>

\* b = 1: the search for a successor begins at ClusterLast + 1.
Grow(t) ==
  /\ At(t, "grow")
  /\ \/ /\ clus[t] < MaxClus
        /\ next' = [next EXCEPT ![t] = clus[t] + 1]
        /\ Goto(t, "probe")
        /\ UNCHANGED <<clus, left, edge>>
     \/ clus[t] = MaxClus /\ RunPast
  /\ UNCHANGED <<image, crashes>>

\* while (ClusterIsEmpty(ClusterLast, ClusterLast + b)) b++, the reads ...
Probe(t) ==
  LET c == next[t] IN
  /\ At(t, "probe")
  /\ \/ fat1[c] = 0 /\ Goto(t, "link") /\ UNCHANGED <<clus, next, left, edge>>
     \/ fat1[c] # 0 /\ c < MaxClus /\ next' = [next EXCEPT ![t] = c + 1]
                    /\ UNCHANGED <<pc, name, clus, left, edge>>
     \/ fat1[c] # 0 /\ c = MaxClus /\ RunPast
  /\ UNCHANGED <<image, crashes>>

\* ... and the write of the link, in the first copy only.
Link(t) ==
  /\ At(t, "link")
  /\ fat1' = [fat1 EXCEPT ![clus[t]] = next[t]]
  /\ Goto(t, "follow")
  /\ UNCHANGED <<fat2, live, first, clus, next, left, edge, crashes>>

\* ClusterLast is read back from the table.  Without another thread it is the
\* cluster just linked; a mark instead would index far beyond the table.
Follow(t) ==
  LET c == fat1[clus[t]] IN
  /\ At(t, "follow")
  /\ \/ /\ c \in Entries
        /\ clus' = [clus EXCEPT ![t] = c]
        /\ left' = [left EXCEPT ![t] = left[t] - 1]
        /\ Goto(t, IF left[t] > 1 THEN "grow" ELSE "mark")
        /\ UNCHANGED <<next, edge>>
     \/ c \notin Entries /\ RunPast
  /\ UNCHANGED <<image, crashes>>

-----------------------------------------------------------------------------
\* The driver is killed; every step was flushed, and main mounts the image
\* again with no operation in progress.
Crash ==
  /\ ~Overrun /\ crashes < MaxCrashes
  /\ crashes' = crashes + 1
  /\ pc' = [t \in Threads |-> "idle"]
  /\ name' = [t \in Threads |-> NoName]
  /\ clus' = [t \in Threads |-> 0]
  /\ next' = [t \in Threads |-> 0]
  /\ left' = [t \in Threads |-> 0]
  /\ UNCHANGED <<image, edge>>

\* Past the last cluster the driver takes whatever follows (unused entries,
\* the second copy, the root directory) for the table; the model stops there.
Beyond == Overrun /\ UNCHANGED vars

Step(t) ==
  \/ Search(t) \/ MknodEntry(t) \/ MarkEnd(t)
  \/ FreeLoad(t) \/ FreeClear1(t) \/ FreeClear2(t) \/ UnlinkErase(t)
  \/ Walk(t) \/ Grow(t) \/ Probe(t) \/ Link(t) \/ Follow(t)

Begin(t, n) ==
  \/ MknodStart(t, n) \/ UnlinkStart(t, n)
  \/ WriteStart(t, n) \/ WriteUnset(t, n)

Next ==
  \/ \E t \in Threads : Step(t)
  \/ \E t \in Threads, n \in Names : Begin(t, n)
  \/ Crash
  \/ Beyond

Spec == Init /\ [][Next]_vars

\* A thread inside a handler is scheduled again; nobody has to call one.
Fairness == \A t \in Threads : WF_vars(Step(t))

-----------------------------------------------------------------------------
(* Properties.                                                             *)

Quiet == ~Overrun /\ \A t \in Threads : pc[t] = "idle"

\* Between operations every entry and every link of fat1 leads to a cluster
\* in use: fat16_unlink, which frees the chain before it marks the entry, and
\* fat16_mknod, which writes the entry before it marks the cluster, leave no
\* name whose clusters FindEmptyCluster may give away.
NoDangling == Quiet => Backed

\* Between operations every cluster in use belongs to a chain: the loops of
\* fat16_unlink and write_path leave no cluster behind.
NoLeak == Quiet => Reached

\* fat16_unlink gives back the clusters of the file it removes and nothing
\* else: the two entries of the table that belong to no file stay as they are.
ReservedIntact == fat1[0] = Media /\ fat1[1] = EOC

\* The searches, which know no end of the volume, run past it only for want of
\* a free cluster: FindEmptyCluster when all are in use, write_path, which looks
\* upwards from the end of its chain only, when all above that are.
PastOnlyWhenFull ==
  Overrun => \E t \in Threads :
    \/ pc[t] = "search" /\ \A c \in Clusters : fat1[c] # 0
    \/ pc[t] \in {"grow", "probe"} /\ \A c \in Clusters : clus[t] < c => fat1[c] # 0

\* References to a free cluster, by entries and by links, and clusters in use
\* that nothing refers to.
BadEntries == {n \in live : first[n] \in Clusters /\ fat1[first[n]] = 0}
BadLinks == {c \in Clusters : fat1[c] \in Clusters /\ fat1[fat1[c]] = 0}
LostChains ==
  {c \in Clusters : /\ fat1[c] # 0
                    /\ \A n \in live : first[n] # c
                    /\ \A d \in Clusters : fat1[d] # c}

\* Whenever the driver is killed, in whatever order fat16_mknod, fat16_unlink
\* and write_path make their writes, the image left behind has at most one
\* reference to a free cluster, an entry only of the file the handler was called
\* for, and at most one chain that is lost.
HarmBounded ==
  /\ \A n \in BadEntries : BadLinks = {} /\ \E t \in Threads : name[t] = n
  /\ \A c, d \in BadLinks : c = d
  /\ \A c, d \in LostChains : c = d

Advance ==
  \A t \in Threads :
    clus'[t] # clus[t] /\ pc'[t] # "idle" /\ pc[t] \in {"walk", "clear2"}
      => clus[t] < clus'[t]

\* While fat16_unlink or write_path follows a chain, every cluster it moves
\* to is higher than the one before, whatever the other threads write.
ChainLoopsAdvance == [][Advance]_vars

\* Every handler returns, unless a search has left the table.
OpCompletes ==
  \A t \in Threads : pc[t] # "idle" ~> pc[t] = "idle" \/ Overrun

\* Between operations the two copies of the table are equal.
FatCopiesAgree == Quiet => fat1 = fat2
=============================================================================
