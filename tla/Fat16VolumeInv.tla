--------------------------- MODULE Fat16VolumeInv ---------------------------
(***************************************************************************)
(* Inductive invariants of Fat16Volume: SharedInv for any number of        *)
(* threads and crashes, SerialInv for one handler at a time.               *)
(***************************************************************************)
EXTENDS Fat16Volume

Unlinks == {"load", "clear1", "clear2", "erase"}

\* What a thread knows of the numbers it holds.
Numbers(t) ==
  /\ pc[t] # "idle" => name[t] \in Names
  /\ pc[t] \in {"search", "entry", "walk"} => clus[t] \in Clusters
  /\ pc[t] \in {"load", "clear1", "clear2"} => clus[t] # 1
  /\ pc[t] \in {"clear1", "clear2"} /\ IsLink(next[t]) => clus[t] < next[t]
  /\ pc[t] \in {"probe", "link"} => next[t] \in Entries /\ clus[t] < next[t]
  /\ pc[t] = "link" => next[t] # 1
  /\ pc[t] \in {"grow", "probe", "link", "follow"} => left[t] > 0

SharedInv ==
  /\ TypeOK
  /\ LinksAscend
  /\ fat1[1] # 0
  /\ \A n \in Names : first[n] # 1
  /\ \A t \in Threads : Numbers(t)

-----------------------------------------------------------------------------
\* One handler runs at a time, callers spell names as path_decode does, no file
\* of the image is without a cluster, and the driver is not killed.
Alone ==
  /\ \A t, u \in Threads : t = u
  /\ Spellings \subseteq {"exact"}
  /\ EmptyImage = {}
  /\ MaxCrashes = 0

\* Something refers to cluster c.
Referred(c) ==
  \/ \E n \in live : first[n] = c
  \/ \E d \in Clusters : fat1[d] = c

\* Only the file a thread is removing, or has just created, may have an entry
\* whose cluster is free ...
EntriesBacked ==
  \A n \in live : fat1[first[n]] = 0 =>
    \E t \in Threads :
      /\ name[t] = n
      /\ pc[t] \in Unlinks \/ (pc[t] = "mark" /\ clus[t] = first[n])

\* ... only the link a thread has just written may lead to a free cluster ...
LinksBacked ==
  \A c \in Clusters : fat1[c] \in Clusters /\ fat1[fat1[c]] = 0 =>
    \E t \in Threads :
      \/ pc[t] = "follow" /\ clus[t] = c
      \/ pc[t] \in {"grow", "probe", "link", "mark"} /\ clus[t] = fat1[c]

\* ... and only the cluster the loop of fat16_unlink has come to, or is about
\* to move to, may be in use with nothing referring to it.
UsedReferred ==
  \A c \in Clusters : fat1[c] # 0 =>
    \/ Referred(c)
    \/ \E t \in Threads :
         \/ pc[t] \in {"load", "clear1"} /\ clus[t] = c
         \/ pc[t] = "clear2" /\ next[t] = c

\* Nothing refers to c, but for the entry of the file n.
OnlyFrom(n, c) ==
  /\ \A d \in Clusters : fat1[d] # c
  /\ \A m \in live : first[m] = c => m = n

Position(t) ==
  /\ pc[t] \in {"search", "entry"} => name[t] \notin live
  /\ pc[t] \in {"entry", "mark"} => fat1[clus[t]] = 0
  /\ pc[t] \in Unlinks => name[t] \in live
  /\ pc[t] \in {"load", "clear1"} =>
       /\ clus[t] \in Clusters /\ fat1[clus[t]] # 0 /\ OnlyFrom(name[t], clus[t])
       /\ fat1[first[name[t]]] # 0 => first[name[t]] = clus[t]
  /\ pc[t] = "clear1" => next[t] = fat1[clus[t]]
  /\ pc[t] \in {"clear2", "erase"} => fat1[first[name[t]]] = 0
  /\ pc[t] = "clear2" /\ next[t] \in Clusters =>
       fat1[next[t]] # 0 /\ OnlyFrom(name[t], next[t])
  /\ pc[t] \in {"mark", "walk", "grow", "probe", "link", "follow"} =>
       clus[t] \in Clusters /\ Referred(clus[t])
  /\ pc[t] \in {"grow", "probe", "link"} => fat1[clus[t]] \notin Clusters
  /\ pc[t] \in {"link", "follow"} => fat1[next[t]] = 0
  /\ pc[t] = "follow" => next[t] \in Clusters /\ fat1[clus[t]] = next[t]

\* Every file has a first cluster.
HeadsInVolume == \A n \in live : first[n] \in Clusters

SerialInv ==
  /\ SharedInv
  /\ ReservedIntact
  /\ HeadsInVolume
  /\ NoCrossLink
  /\ EntriesBacked
  /\ LinksBacked
  /\ UsedReferred
  /\ \A t \in Threads : Position(t)

\* What the searches of a thread have left behind is in use.
Scanned(t) ==
  /\ pc[t] = "search" => \A c \in Clusters : c < clus[t] => fat1[c] # 0
  /\ pc[t] = "probe" => \A c \in Clusters : clus[t] < c /\ c < next[t] => fat1[c] # 0

FullInv == PastOnlyWhenFull /\ \A t \in Threads : Scanned(t)
=============================================================================
