------------------------------ MODULE DirNames ------------------------------
(***************************************************************************)
(* What a directory promises: a name is there from its creation to its     *)
(* removal, and creating or removing one name leaves the others alone.     *)
(***************************************************************************)
CONSTANTS Dirs, Names

VARIABLE present   \* the names in each directory

Create(d, n) ==
  /\ n \notin present[d]
  /\ present' = [present EXCEPT ![d] = @ \cup {n}]

Remove(d, n) ==
  /\ n \in present[d]
  /\ present' = [present EXCEPT ![d] = @ \ {n}]

Init == present \in [Dirs -> SUBSET Names]

Next == \E d \in Dirs, n \in Names : Create(d, n) \/ Remove(d, n)

Spec == Init /\ [][Next]_present
=============================================================================
