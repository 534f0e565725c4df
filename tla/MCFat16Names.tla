---------------------------- MODULE MCFat16Names ----------------------------
(***************************************************************************)
(* Bounds for Fat16Names: every path of one component of up to six         *)
(* characters and every path of two shorter ones, for entries of two and   *)
(* two characters.                                                         *)
(***************************************************************************)
EXTENDS Fat16Names

Words(chars, n) == UNION {[1 .. m -> chars] : m \in 1 .. n}

MCTexts ==
    {<<"/">> \o c : c \in Words({"a", "A", "."}, 6) \cup Words({"1", ".", " "}, 4)}
    \cup {<<"/">> \o c \o <<"/">> \o d : c \in Words({"a", "."}, 4), d \in Words({"1", "."}, 4)}
=============================================================================
