----------------------------- MODULE MCFat16Dir -----------------------------
(***************************************************************************)
(* Fat16Dir for model checking.                                            *)
(***************************************************************************)
EXTENDS Fat16Dir, TLC

NameSymmetry == Permutations(Names)

\* The chain of the subdirectory: two clusters with the cluster of another
\* file between them.
Apart == <<2, 4>>
=============================================================================
