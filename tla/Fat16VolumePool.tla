-------------------------- MODULE Fat16VolumePool --------------------------
(***************************************************************************)
(* The mapping under which Fat16Volume, with one thread, implements        *)
(* ClusterPool: the clusters of a file are those on the chain from its     *)
(* first cluster, or on what its removal has left of that chain.           *)
(***************************************************************************)
EXTENDS Fat16VolumeInv

\* What a cluster that is in use but on no chain maps to: no value of owner.
Lost == "lost"

\* In the table f, links lead from the set into the set.
LinksWithin(f, S) == \A d \in S : f[d] \in Clusters => f[d] \in S

\* The clusters on the chain that begins at c: those in all such sets with c.
ChainFrom(f, c) ==
  {d \in Clusters : \A S \in SUBSET Clusters : c \in S /\ LinksWithin(f, S) => d \in S}

Unlinking == {t \in Threads : pc[t] \in Unlinks}

\* A file in removal owns what is left of its chain: from the cluster the
\* loop of fat16_unlink is at, or from the one freeCluster has read.
Start(n) ==
  IF \E t \in Unlinking : name[t] = n
  THEN LET t == CHOOSE t \in Unlinking : name[t] = n
       IN CASE pc[t] \in {"load", "clear1"} -> clus[t]
            [] pc[t] = "clear2" -> next[t]
            [] OTHER -> 0
  ELSE first[n]

Holds(n) == IF Start(n) \in Clusters THEN ChainFrom(fat1, Start(n)) ELSE {}

\* No link leads to where the clusters of a file begin, no two files begin at
\* one cluster, and a cluster in use is led to or begins a file.
StartsApart ==
  /\ \A n \in live : Start(n) \in Clusters => \A c \in Clusters : fat1[c] # Start(n)
  /\ \A m, n \in live : Start(m) = Start(n) /\ Start(m) \in Clusters => m = n
  /\ \A c \in Clusters : fat1[c] # 0 =>
       \/ \E n \in live : Start(n) = c
       \/ \E d \in Clusters : fat1[d] = c

\* No cluster is on the chains of two files, and no cluster in use is on none.
Partition ==
  /\ \A m, n \in live : \A c \in Holds(m) \cap Holds(n) : m = n
  /\ \A c \in Clusters : fat1[c] # 0 => \E n \in live : c \in Holds(n)

OneOf(S) == CHOOSE n \in S : TRUE
Holders(c) == {n \in live : c \in Holds(n)}

Owner(c) ==
  LET holders == Holders(c)
  IN IF fat1[c] = 0 THEN NoName
     ELSE IF holders = {} THEN Lost ELSE OneOf(holders)

Owners == [c \in Clusters |-> Owner(c)]
Dying == {name[t] : t \in Unlinking}

Pool == INSTANCE ClusterPool WITH
          Free <- NoName, files <- live, dying <- Dying, owner <- Owners

\* One thread at a time, the driver's steps on the table and the directory are
\* steps of ClusterPool: every cluster has one owner, is taken only when it is
\* free, is given back only by the removal of its owner, and none is lost.
PoolSpec == Pool!Spec
=============================================================================
