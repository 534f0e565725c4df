------------------------------ MODULE FileBytes ------------------------------
(***************************************************************************)
(* What a caller of mknod, write and unlink may rely on: a file is a       *)
(* sequence of bytes, a write replaces or extends exactly the range it     *)
(* names, and no operation on a file changes another one.                  *)
(***************************************************************************)
EXTENDS Integers, Sequences

CONSTANT Files

VARIABLES
  files,     \* the files that exist
  content,   \* the bytes of each file, <<>> of one that does not exist
  call       \* the write just reported as done, if any

vars == <<files, content, call>>

None == [op |-> "none"]

Init == files = {} /\ content = [f \in Files |-> <<>>] /\ call = None

Create(f) ==
  /\ f \notin files
  /\ files' = files \cup {f}
  /\ call' = None
  /\ UNCHANGED content

Remove(f) ==
  /\ f \in files
  /\ files' = files \ {f}
  /\ content' = [content EXCEPT ![f] = <<>>]
  /\ call' = None

\* The bytes before and behind the range of the call stay as they are.
Write ==
  /\ call'.op = "write"
  /\ LET f == call'.file
         old == content[f]
         end == call'.offset + Len(call'.data)
     IN /\ f \in files
        /\ call'.offset <= Len(old)
        /\ content' = [content EXCEPT ![f] =
             SubSeq(old, 1, call'.offset) \o call'.data \o SubSeq(old, end + 1, Len(old))]
  /\ UNCHANGED files

Next == Write \/ \E f \in Files : Create(f) \/ Remove(f)

Spec == Init /\ [][Next]_vars
=============================================================================
