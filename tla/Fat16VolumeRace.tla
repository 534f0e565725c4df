-------------------------- MODULE Fat16VolumeRace --------------------------
(***************************************************************************)
(* Which overlaps of handlers do harm to the table.  The steps are those   *)
(* of Fat16Volume; a behaviour is told apart by whether two handlers that  *)
(* take clusters (fat16_mknod, or write_path while it extends a chain)     *)
(* are ever under way together.                                            *)
(***************************************************************************)
EXTENDS Fat16Volume

FairSpec == Spec /\ Fairness

\* From the first look at a free cluster to the mark in the table.
Takes(t) == pc[t] \in {"search", "entry", "mark", "grow", "probe", "link", "follow"}

Together == \E t, u \in Threads : t # u /\ Takes(t) /\ Takes(u)

\* A file whose extension begins at an unset ClusterLast.
Bare == \E n \in live : ~IsLink(first[n])

Sound == Quiet => NoCrossLink /\ Backed /\ Reached

\* Two handlers that take the same free cluster, neither of which has marked it
\* yet, are the only harm that threads do to each other in the table: if no two
\* handlers ever take clusters at the same time, the driver is not killed and
\* no file of the image lacks a cluster, the chains are sound whenever no
\* handler is under way, whatever fat16_unlink and other writes ran beside
\* them.
SoundApart == ~Bare /\ [](~Together /\ crashes = 0) => []Sound
=============================================================================
