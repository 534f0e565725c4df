---------------------------- MODULE ClusterPool ----------------------------
(***************************************************************************)
(* What the users of the FAT16 driver may rely on: a cluster is free or    *)
(* belongs to one file; a file grows by taking free clusters, keeps them   *)
(* until it is removed, and gives all of them back before its name goes.   *)
(***************************************************************************)
EXTENDS Integers

CONSTANTS Names, Clusters, Free

VARIABLES
  files,   \* names that exist
  dying,   \* files whose removal has begun
  owner    \* the file a cluster belongs to, or Free

vars == <<files, dying, owner>>

Init ==
  /\ files \in SUBSET Names
  /\ dying = {}
  /\ owner \in [Clusters -> files \cup {Free}]

Create(n) ==
  /\ n \notin files
  /\ files' = files \cup {n}
  /\ UNCHANGED <<dying, owner>>

Take(n, c) ==
  /\ n \in files \ dying
  /\ owner[c] = Free
  /\ owner' = [owner EXCEPT ![c] = n]
  /\ UNCHANGED <<files, dying>>

BeginRemove(n) ==
  /\ n \in files \ dying
  /\ dying' = dying \cup {n}
  /\ UNCHANGED <<files, owner>>

Drop(n, c) ==
  /\ n \in dying
  /\ owner[c] = n
  /\ owner' = [owner EXCEPT ![c] = Free]
  /\ UNCHANGED <<files, dying>>

Remove(n) ==
  /\ n \in dying
  /\ \A c \in Clusters : owner[c] # n
  /\ files' = files \ {n}
  /\ dying' = dying \ {n}
  /\ UNCHANGED owner

Next ==
  \E n \in Names :
    \/ Create(n) \/ BeginRemove(n) \/ Remove(n)
    \/ \E c \in Clusters : Take(n, c) \/ Drop(n, c)

Spec == Init /\ [][Next]_vars
=============================================================================
