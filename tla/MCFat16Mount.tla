---------------------------- MODULE MCFat16Mount ----------------------------
(***************************************************************************)
(* Bounds for Fat16Mount: a WORD of 32 values, which the larger of the two *)
(* cluster sizes overflows, and the corners of the calendar.               *)
(***************************************************************************)
EXTENDS Fat16Mount

MCTimes == {<<59, 59, 23, 31, 11, 207>>, <<31, 7, 16, 31, 1, 121>>, <<58, 32, 1, 16, 8, 99>>}
=============================================================================
