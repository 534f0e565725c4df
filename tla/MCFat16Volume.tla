--------------------------- MODULE MCFat16Volume ---------------------------
(***************************************************************************)
(* Fat16Volume for model checking.                                         *)
(***************************************************************************)
EXTENDS Fat16VolumePool, TLC

\* The threads are interchangeable (used where only safety is checked).
ThreadSymmetry == Permutations(Threads)
=============================================================================
