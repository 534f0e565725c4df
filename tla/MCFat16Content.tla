--------------------------- MODULE MCFat16Content ---------------------------
(***************************************************************************)
(* Fat16Content for model checking: clusters of two sectors, pages of two  *)
(* clusters, sectors of one or two bytes.                                  *)
(***************************************************************************)
EXTENDS Fat16Content, TLC

\* Files in the root directory are interchangeable, and so are bytes.
DataSymmetry == Permutations(Files \ SubFiles) \cup Permutations(Bytes)
=============================================================================
