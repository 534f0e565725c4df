---------------------------- MODULE Fat16Names ----------------------------
(***************************************************************************)
(* Names and paths of simple_fat16_new.c: path_split cuts a path at its    *)
(* slashes, in place, and turns every component into the fixed-length form *)
(* of a directory entry, one character a step; path_decode turns an entry  *)
(* back into a name; get_prt_path takes the last component off a path.     *)
(*                                                                         *)
(* The caller looks a path up and may then do one of three things: look    *)
(* the same string up again, which is cut now (write_path), look up the    *)
(* parent (mknod), or look up the name that readdir shows for the entry.   *)
(*                                                                         *)
(* A text is a sequence of characters that begins with a slash.  "a" is a  *)
(* lower case letter, "A" its upper case, "1" any other character.         *)
(***************************************************************************)
EXTENDS Naturals, Sequences, FiniteSets

CONSTANTS
    NameLen, ExtLen,  \* characters of the base and of the extension: 8 and 3
    Texts             \* paths that FUSE may hand over

\* path_decode tells "." from ".." by the first three characters.
ASSUME LenAssumption == NameLen \in Nat \ {0} /\ ExtLen \in Nat \ {0} /\ NameLen + ExtLen > 2

Chars == {"a", "A", "1", ".", "/", " "}

IsPath(t) == t \in Seq(Chars) /\ Len(t) > 0 /\ t[1] = "/"

\* FUSE hands over no empty component; the root "/" itself is answered before
\* its path is split.
ASSUME TextsAssumption ==
    \A t \in Texts :
        IsPath(t) /\ \A p \in 1 .. Len(t) : t[p] = "/" => p < Len(t) /\ t[p + 1] # "/"

Total == NameLen + ExtLen

VARIABLES
    whole,     \* the path of the request (callers keep copies of it)
    text,      \* the string handed to path_split, which it cuts
    path,      \* its components, as strtok finds them
    i, j, k,   \* component, character in it, place in the entry
    flag,      \* a dot was seen, in this component or in an earlier one
    name_len, ext_len,
    entries,   \* path_transform
    pc,        \* "call", "run", "done", or "exit" (the driver has exited)
    round,     \* 1 or 2
    kept       \* history: the entries that the second lookup should give

loop == <<i, j, k, flag, name_len, ext_len>>
vars == <<whole, text, path, loop, entries, pc, round, kept>>

-----------------------------------------------------------------------------
(* Strings *)

Upper(c) == IF c = "a" THEN "A" ELSE c
Lower(c) == IF c = "A" THEN "a" ELSE c

Slashes(t) == {p \in 1 .. Len(t) : t[p] = "/"}

depth(t) == Cardinality(Slashes(t))

\* The nth of a set of places, counted from below.
Nth(S, n) == CHOOSE p \in S : Cardinality({q \in S : q <= p}) = n

\* The place of the nth slash, or the end of the text.
Slash(t, n) == IF n > depth(t) THEN Len(t) + 1 ELSE Nth(Slashes(t), n)

\* What strtok and org_path_split find.
org_path_split(t) == [n \in 1 .. depth(t) |-> SubSeq(t, Slash(t, n) + 1, Slash(t, n + 1) - 1)]

\* strtok ends the first component where the second began.
Cut(t) == SubSeq(t, 1, Slash(t, 2) - 1)

get_prt_path(t) ==
    IF depth(t) = 1 THEN <<"/">>
    ELSE SubSeq(t, 1, Len(t) - Len(org_path_split(t)[depth(t)]) - 1)

\* Characters of an entry from one place to another, blanks left out.
Letters(e, from, to) ==
    LET shown == {p \in from .. to : e[p] # " "}
    IN [n \in 1 .. Cardinality(shown) |-> Lower(e[Nth(shown, n)])]

IsDots(e) == e[0] = "." /\ e[1] = "." /\ e[2] = " "
IsDot(e) == e[0] = "." /\ e[1] = " "

\* Mutant of path_decode: no dot.
PathDecodeBare(e) == Letters(e, 0, NameLen - 1) \o Letters(e, NameLen, Total - 1)

path_decode(e) ==
    IF IsDots(e) THEN <<".", ".">>
    ELSE IF IsDot(e) THEN <<".">>
    ELSE Letters(e, 0, NameLen - 1) \o (IF e[NameLen] # " " THEN <<".">> ELSE <<>>)
         \o Letters(e, NameLen, Total - 1)

-----------------------------------------------------------------------------
(* path_split *)

Init ==
    /\ whole \in Texts /\ text = whole /\ path = <<>>
    /\ i = 1 /\ j = 0 /\ k = 0 /\ flag = 0 /\ name_len = 0 /\ ext_len = 0
    /\ entries = <<>> /\ pc = "call" /\ round = 1 /\ kept = <<>>

\* The entries come from malloc: "?" is whatever they hold.
Split ==
    /\ pc = "call" /\ pc' = "run" /\ path' = org_path_split(text) /\ text' = Cut(text)
    /\ i' = 1 /\ j' = 0 /\ k' = 0 /\ flag' = 0 /\ name_len' = 0 /\ ext_len' = 0
    /\ entries' = [n \in 1 .. depth(text) |-> [p \in 0 .. Total - 1 |-> "?"]]
    /\ UNCHANGED <<whole, round, kept>>

Running == pc = "run" /\ i <= Len(path)

\* The character under j: "" is the end of the component.
Char == IF j < Len(path[i]) THEN path[i][j + 1] ELSE ""

Plain == Running /\ Char \notin {".", ""}

\* The entry of this component with blanks in the places from..to.
Padded(from, to) ==
    [entries EXCEPT ![i] = [p \in 0 .. Total - 1 |->
                                IF p \in from .. to THEN " " ELSE entries[i][p]]]

\* The next component; flag keeps its value.
Break ==
    /\ i' = i + 1 /\ j' = 0 /\ k' = 0 /\ name_len' = 0 /\ ext_len' = 0
    /\ UNCHANGED <<flag, whole, text, path, pc, round, kept>>

\* The components "." and "..".
Special == path[i] \in {<<".">>, <<".", ".">>}

Dots ==
    /\ Running /\ Char = "." /\ Special
    /\ entries' = [entries EXCEPT ![i] = [p \in 0 .. Total - 1 |->
                       IF p < Len(path[i]) THEN "." ELSE " "]]
    /\ Break

\* Mutant of DotExit: a dot in front ends the driver too.
DotExitFirst ==
    /\ Running /\ Char = "." /\ ~Special
    /\ flag = 1 \/ j + 1 = Len(path[i]) \/ j = 0
    /\ pc' = "exit"
    /\ UNCHANGED <<whole, text, path, loop, entries, round, kept>>

\* A dot at the end, or after another dot, ends the whole driver: exit(1).
DotExit ==
    /\ Running /\ Char = "." /\ ~(j = 0 /\ Special)
    /\ flag = 1 \/ j + 1 = Len(path[i])
    /\ pc' = "exit"
    /\ UNCHANGED <<whole, text, path, loop, entries, round, kept>>

\* Mutant of DotPad: k is set one too far.
DotPadOff ==
    /\ Running /\ Char = "." /\ ~Special /\ flag = 0 /\ j + 1 # Len(path[i])
    /\ flag' = 1 /\ entries' = Padded(k, NameLen - 1) /\ k' = NameLen + 1 /\ j' = j + 1
    /\ UNCHANGED <<i, name_len, ext_len, whole, text, path, pc, round, kept>>

\* The first dot fills the base with blanks and goes on with the extension.
DotPad ==
    /\ Running /\ Char = "." /\ ~(j = 0 /\ Special)
    /\ flag = 0 /\ j + 1 # Len(path[i])
    /\ flag' = 1 /\ entries' = Padded(k, NameLen - 1) /\ k' = NameLen /\ j' = j + 1
    /\ UNCHANGED <<i, name_len, ext_len, whole, text, path, pc, round, kept>>

\* The end of the component fills the rest with blanks.
End == Running /\ Char = "" /\ entries' = Padded(k, Total - 1) /\ Break

\* Mutant of Skip: k is not set back.
SkipForward ==
    /\ Plain /\ name_len = NameLen /\ flag = 0
    /\ k' = k + 1 /\ j' = j + 1
    /\ UNCHANGED <<i, flag, name_len, ext_len, entries, whole, text, path, pc, round, kept>>

\* A base that is too long loses the rest of its characters.
Skip ==
    /\ Plain /\ name_len = NameLen /\ flag = 0
    /\ k' = NameLen /\ j' = j + 1
    /\ UNCHANGED <<i, flag, name_len, ext_len, entries, whole, text, path, pc, round, kept>>

\* An extension that is too long ends the component.
Full ==
    /\ Plain /\ ~(name_len = NameLen /\ flag = 0) /\ ext_len = ExtLen
    /\ Break /\ UNCHANGED entries

Writes == Plain /\ ~(name_len = NameLen /\ flag = 0) /\ ext_len # ExtLen

Store ==
    /\ Writes
    /\ entries' = [entries EXCEPT ![i][k] = Upper(Char)]
    /\ k' = k + 1 /\ j' = j + 1
    /\ IF flag = 1 THEN ext_len' = ext_len + 1 /\ UNCHANGED name_len
                   ELSE name_len' = name_len + 1 /\ UNCHANGED ext_len
    /\ UNCHANGED <<i, flag, whole, text, path, pc, round, kept>>

Return ==
    /\ pc = "run" /\ i > Len(path) /\ pc' = "done"
    /\ UNCHANGED <<whole, text, path, loop, entries, round, kept>>

-----------------------------------------------------------------------------
(* What the callers do next *)

Second(t, e) ==
    /\ pc = "done" /\ round = 1 /\ round' = 2 /\ pc' = "call" /\ text' = t /\ kept' = e
    /\ UNCHANGED <<whole, path, loop, entries>>

\* write_path looks the string up that find_root has cut.
Again == Second(text, <<entries[1]>>)

\* mknod, unlink and edit_size look for the parent, with a copy of the path.
Parent ==
    /\ depth(whole) > 1
    /\ Second(get_prt_path(whole), SubSeq(entries, 1, Len(entries) - 1))

\* The name that readdir shows comes back in a path, unless nothing is left
\* of it.
Listed ==
    LET e == entries[Len(entries)]
    IN /\ pc = "done" /\ \A p \in 0 .. Total - 1 : e[p] # "?"
       /\ path_decode(e) # <<>>
       /\ Second(<<"/">> \o path_decode(e), <<e>>)

Stop == (pc = "exit" \/ (pc = "done" /\ round = 2)) /\ UNCHANGED vars

Next ==
    \/ Split \/ Dots \/ DotExit \/ DotPad \/ End \/ Skip \/ Full \/ Store \/ Return
    \/ Again \/ Parent \/ Listed \/ Stop

Spec == Init /\ [][Next]_vars

-----------------------------------------------------------------------------
\* The counters of path_split stay in the entry and in the component.
TypeOK ==
    /\ i \in Nat /\ j \in Nat /\ k \in 0 .. Total /\ flag \in {0, 1}
    /\ name_len \in 0 .. NameLen /\ ext_len \in 0 .. ExtLen
    /\ pc \in {"call", "run", "done", "exit"} /\ round \in {1, 2}

\* No character is stored outside of the entry of 11 bytes, whatever the
\* lengths of the names and wherever their dots are.
InBounds == Writes => k \in 0 .. Total - 1

Dotted(c) == \E n \in 1 .. Len(c) : c[n] = "."

\* Components before n have no dot, so that flag is 0 when n begins.
NoDotBefore(p, n) == \A m \in 1 .. n - 1 : ~Dotted(p[m]) \/ p[m] \in {<<".">>, <<".", ".">>}

\* A name in the form of the FAT documents: base and extension are cut or
\* filled with blanks to their lengths, and in upper case.
DotAt(c) == IF Dotted(c) THEN CHOOSE n \in 1 .. Len(c) : c[n] = "." /\ \A m \in 1 .. n - 1 : c[m] # "."
            ELSE Len(c) + 1
Place(c, n) == IF n <= Len(c) THEN Upper(c[n]) ELSE " "
FatName(c) ==
    [p \in 0 .. Total - 1 |->
        IF c \in {<<".">>, <<".", ".">>} THEN Place(c, p + 1)
        ELSE IF p < NameLen THEN Place(SubSeq(c, 1, DotAt(c) - 1), p + 1)
        ELSE Place(SubSeq(c, DotAt(c) + 1, Len(c)), p - NameLen + 1)]

\* path_split gives every component the name of its entry, if no component
\* before it has a dot: flag is never reset, so dir.d/file is looked up wrong.
Encoded ==
    pc = "done" /\ round = 1 =>
        \A n \in 1 .. Len(path) : NoDotBefore(path, n) => entries[n] = FatName(path[n])

\* Every component of a path is turned into the name of its entry, as the
\* comment above path_split says, whatever the components before it are.
EncodedAll ==
    pc = "done" /\ round = 1 => \A n \in 1 .. Len(path) : entries[n] = FatName(path[n])

\* The driver exits only on a name that has two dots or ends in one, or on a
\* dot after a component with a dot.
ExitIllFormed ==
    pc = "exit" =>
        LET c == path[i]
            dots == {n \in 1 .. Len(c) : c[n] = "."}
        IN Cardinality(dots) > 1 \/ c[Len(c)] = "." \/ ~NoDotBefore(path, i)

\* A second lookup finds the entries of the first: of the cut string the
\* first component (not the file, which write_path means), of the parent all
\* but the last, and of the name listed by readdir the entry it came from --
\* unless a name has a blank in it, which path_decode drops.
LookupAgrees ==
    round = 2 /\ (\A n \in 1 .. Len(whole) : whole[n] # " ") =>
        pc # "exit" /\ (pc = "done" => entries = kept)
=============================================================================
