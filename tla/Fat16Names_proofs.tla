------------------------- MODULE Fat16Names_proofs -------------------------
(***************************************************************************)
(* Proofs about Fat16Names, for entries and paths of any length.  IInv     *)
(* ties the place k to the characters counted: k is name_len up to the     *)
(* first dot, and after it ext_len places into the extension -- or into    *)
(* the entry, when the dot was in an earlier component.  From it follows   *)
(* that no store of path_split is outside of the entry.  NamesInv adds     *)
(* what the entry under way holds up to k; from it follow that the entries *)
(* are the FAT forms of the names, and what makes the driver exit.         *)
(***************************************************************************)
EXTENDS Fat16Names, FiniteSetTheorems, SequenceTheorems, TLAPS

Place0 == flag = 0 => ext_len = 0 /\ k = name_len
Place1 == flag = 1 => k = NameLen + ext_len \/ k = ext_len

IInv == TypeOK /\ Place0 /\ Place1

-----------------------------------------------------------------------------
(* What the entries hold *)

NameSet == Seq(Chars)
EntrySet == [0 .. Total - 1 -> Chars \cup {"?"}]

\* The strings are paths, and path_split makes one entry per component.
Shapes ==
    /\ i >= 1 /\ IsPath(whole) /\ IsPath(text)
    /\ pc # "call" =>
        /\ path \in Seq(NameSet) /\ entries \in Seq(EntrySet)
        /\ Len(path) = Len(entries) /\ Len(path) >= 1

FirstDot(c, d) == c[d] = "." /\ \A m \in 1 .. d - 1 : c[m] # "."

\* The loop is in the component, and not beyond the first dot before flag is set.
Within ==
    Running =>
        /\ j <= Len(path[i])
        /\ Special => j = 0
        /\ flag = 0 => \A m \in 1 .. j : path[i][m] # "."

\* Up to the first dot the entry has the characters of the base.
BaseInv ==
    Running /\ flag = 0 /\ NoDotBefore(path, i) =>
        /\ name_len = IF j < NameLen THEN j ELSE NameLen
        /\ \A p \in 0 .. name_len - 1 : entries[i][p] = Upper(path[i][p + 1])

\* With its first dot at d, the entry e has the base of c and the first m
\* characters of its extension.
Filled(c, d, e, m) ==
    /\ FirstDot(c, d)
    /\ \A p \in 0 .. NameLen - 1 : e[p] = IF p < d - 1 THEN Upper(c[p + 1]) ELSE " "
    /\ \A q \in 0 .. m - 1 : e[NameLen + q] = Upper(c[d + q + 1])

\* flag was set by an earlier component, or by the dot d of this one; then
\* the base is finished and the extension is filled up to k.
ExtInv ==
    pc = "run" /\ flag = 1 /\ NoDotBefore(path, i) =>
        /\ i <= Len(path)
        /\ \E d \in 1 .. j :
            ext_len = j - d /\ k = NameLen + ext_len /\ Filled(path[i], d, entries[i], ext_len)

\* The components before i are encoded.
DoneInv ==
    pc \in {"run", "done"} =>
        /\ \A n \in 1 .. Len(path) :
            n < i /\ NoDotBefore(path, n) => entries[n] = FatName(path[n])
        /\ pc = "done" => i > Len(path)

NamesInv == IInv /\ Shapes /\ Within /\ BaseInv /\ ExtInv /\ DoneInv /\ ExitIllFormed

-----------------------------------------------------------------------------
LEMMA InitIInv == Init => IInv
BY LenAssumption DEF Init, IInv, TypeOK, Place0, Place1, Total

LEMMA NextIInv == IInv /\ [Next]_vars => IInv'
<1> USE LenAssumption DEF IInv, TypeOK, Place0, Place1, Total
<1> SUFFICES ASSUME IInv, [Next]_vars PROVE IInv' OBVIOUS
<1>b. Break => IInv' BY DEF Break
<1>1. CASE Split BY <1>1 DEF Split
<1>2. CASE Dots BY <1>2, <1>b DEF Dots
<1>3. CASE DotExit BY <1>3 DEF DotExit, loop
<1>4. CASE DotPad BY <1>4 DEF DotPad
<1>5. CASE End BY <1>5, <1>b DEF End
<1>6. CASE Skip BY <1>6 DEF Skip
<1>7. CASE Full BY <1>7, <1>b DEF Full
<1>8. CASE Store
  <2>1. CASE flag = 1 BY <1>8, <2>1 DEF Store, Writes
  <2>2. CASE flag = 0 BY <1>8, <2>2 DEF Store, Writes
  <2> QED BY <2>1, <2>2
<1>9. CASE Return BY <1>9 DEF Return, loop
<1>10. CASE Again \/ Parent \/ Listed BY <1>10 DEF Again, Parent, Listed, Second, loop
<1>11. CASE Stop \/ UNCHANGED vars BY <1>11 DEF Stop, vars, loop
<1> QED BY <1>1, <1>2, <1>3, <1>4, <1>5, <1>6, <1>7, <1>8, <1>9, <1>10, <1>11 DEF Next

LEMMA Inductive == Spec => []IInv
BY InitIInv, NextIInv, PTL DEF Spec

\* The counters of path_split stay in their ranges.
THEOREM TypeCorrect == Spec => []TypeOK
<1>1. IInv => TypeOK BY DEF IInv
<1> QED BY Inductive, <1>1, PTL

\* path_split never stores a character outside of the entry.
THEOREM StoresInBounds == Spec => []InBounds
<1>1. IInv => InBounds
  <2> SUFFICES ASSUME IInv, Writes PROVE k \in 0 .. Total - 1 BY DEF InBounds
  <2> USE LenAssumption DEF IInv, TypeOK, Place0, Place1, Total, Writes
  <2>1. CASE flag = 0 BY <2>1
  <2>2. CASE flag = 1 BY <2>2
  <2> QED BY <2>1, <2>2
<1> QED BY Inductive, <1>1, PTL

-----------------------------------------------------------------------------
(* Strings *)

LEMMA CharsHas == "." \in Chars /\ "/" \in Chars /\ "a" \in Chars /\ "A" \in Chars /\ " " \in Chars
BY DEF Chars

LEMMA ShortSeq ==
    ASSUME NEW S, NEW x \in S
    PROVE  <<x>> \in Seq(S) /\ <<x, x>> \in Seq(S) /\ Len(<<x>>) = 1 /\ <<x>>[1] = x
OBVIOUS

\* A finite set of places has an nth one, up to its size.
LEMMA NthIn ==
    ASSUME NEW S \in SUBSET Nat, IsFiniteSet(S), NEW n \in 1 .. Cardinality(S)
    PROVE  /\ Nth(S, n) \in S
           /\ Cardinality({q \in S : q <= Nth(S, n)}) = n
<1> DEFINE Below(p) == {q \in S : q <= p}
           f == [p \in S |-> Cardinality(Below(p))]
<1>0. Cardinality(S) \in Nat BY FS_CardinalityType
<1>1. ASSUME NEW p \in S PROVE IsFiniteSet(Below(p)) /\ Cardinality(Below(p)) \in 1 .. Cardinality(S)
  <2>1. Below(p) \in SUBSET S /\ p \in Below(p) OBVIOUS
  <2>2. IsFiniteSet(Below(p)) /\ Cardinality(Below(p)) <= Cardinality(S) BY <2>1, FS_Subset
  <2>3. Cardinality(Below(p)) \in Nat BY <2>2, FS_CardinalityType
  <2>4. Cardinality(Below(p)) # 0 BY <2>1, <2>2, FS_EmptySet
  <2> QED BY <1>0, <2>2, <2>3, <2>4
<1>2. ASSUME NEW p \in S, NEW r \in S, p < r PROVE Cardinality(Below(p)) # Cardinality(Below(r))
  <2>0. p \in Nat /\ r \in Nat /\ ~(r <= p) BY <1>2
  <2>1. Below(p) \in SUBSET Below(r) /\ r \in Below(r) /\ r \notin Below(p)
    <3>1. \A q \in S : q <= p => q <= r BY <1>2, <2>0
    <3>2. r <= r BY <2>0
    <3> QED BY <2>0, <3>1, <3>2, Zenon
  <2>2. IsFiniteSet(Below(r)) BY <1>1
  <2> HIDE DEF Below
  <2>3. Below(p) # Below(r) BY <2>1
  <2> QED BY <2>1, <2>2, <2>3, FS_Subset
<1> HIDE DEF Below
<1>3. f \in [S -> 1 .. Cardinality(S)] BY <1>1
<1>4. \A p, r \in S : f[p] = f[r] => p = r
  <2> SUFFICES ASSUME NEW p \in S, NEW r \in S, p # r PROVE f[p] # f[r] OBVIOUS
  <2>1. p < r \/ r < p OBVIOUS
  <2> QED BY <1>2, <2>1
<1>5. f \in Injection(S, 1 .. Cardinality(S)) BY <1>3, <1>4 DEF Injection, IsInjective
<1>6. IsFiniteSet(1 .. Cardinality(S)) /\ Cardinality(1 .. Cardinality(S)) = Cardinality(S)
  BY <1>0, FS_Interval
<1>7. f \in Surjection(S, 1 .. Cardinality(S)) BY <1>5, <1>6, FS_Injection
<1>8. \E p \in S : f[p] = n BY <1>7 DEF Surjection
<1>9. \E p \in S : Cardinality({q \in S : q <= p}) = n BY <1>8 DEF Below
<1> QED BY <1>9 DEF Nth

\* The slashes of a path, and where the nth one is.
LEMMA SlashPlace ==
    ASSUME NEW t, IsPath(t)
    PROVE  /\ depth(t) \in Nat \ {0}
           /\ \A n \in Nat \ {0} : Slash(t, n) \in 1 .. Len(t) + 1
           /\ \A n \in Nat : n > 1 => Slash(t, n) > 1
           /\ Slash(t, depth(t)) <= Len(t)
<1>1. Len(t) \in Nat \ {0} BY LenProperties DEF IsPath
<1>2. Slashes(t) \in SUBSET (1 .. Len(t)) /\ 1 \in Slashes(t) BY <1>1 DEF Slashes, IsPath
<1>3. IsFiniteSet(Slashes(t))
  <2>1. IsFiniteSet(1 .. Len(t)) BY <1>1, FS_Interval
  <2> QED BY <1>2, <2>1, FS_Subset
<1>4. depth(t) \in Nat \ {0} BY <1>2, <1>3, FS_CardinalityType, FS_EmptySet DEF depth
<1>5. Slashes(t) \in SUBSET Nat BY <1>1, <1>2
<1>6. ASSUME NEW n \in 1 .. depth(t)
      PROVE  /\ Slash(t, n) = Nth(Slashes(t), n) /\ Slash(t, n) \in Slashes(t)
             /\ Cardinality({q \in Slashes(t) : q <= Slash(t, n)}) = n
  <2>1. Slash(t, n) = Nth(Slashes(t), n) BY <1>4 DEF Slash
  <2> QED BY <1>3, <1>5, <2>1, NthIn DEF depth
<1>7. ASSUME NEW n \in Nat, n > depth(t) PROVE Slash(t, n) = Len(t) + 1 BY <1>7 DEF Slash
<1>8. ASSUME NEW n \in Nat \ {0} PROVE Slash(t, n) \in 1 .. Len(t) + 1
  <2>1. CASE n \in 1 .. depth(t)
    <3>1. Slash(t, n) \in 1 .. Len(t) BY <1>2, <1>6, <2>1
    <3> QED BY <1>1, <3>1
  <2>2. CASE n > depth(t) BY <1>1, <1>7, <2>2
  <2> QED BY <1>4, <2>1, <2>2
<1>9. ASSUME NEW n \in Nat, n > 1 PROVE Slash(t, n) > 1
  <2>1. CASE n \in 1 .. depth(t)
    <3>1. SUFFICES ASSUME Slash(t, n) = 1 PROVE FALSE BY <1>1, <1>8, <1>9
    <3>2. {q \in Slashes(t) : q <= Slash(t, n)} = {1} BY <1>1, <1>2, <3>1
    <3>3. n = 1 BY <1>6, <2>1, <3>2, FS_Singleton
    <3> QED BY <1>9, <3>3
  <2>2. CASE n > depth(t) BY <1>1, <1>7, <2>2
  <2> QED BY <1>4, <1>9, <2>1, <2>2
<1>10. Slash(t, depth(t)) <= Len(t)
  <2>1. depth(t) \in 1 .. depth(t) BY <1>4
  <2>2. Slash(t, depth(t)) \in 1 .. Len(t) BY <1>2, <1>6, <2>1
  <2> QED BY <1>1, <2>2
<1> QED BY <1>4, <1>8, <1>9, <1>10

\* The components that strtok finds are texts.
LEMMA Components ==
    ASSUME NEW t, IsPath(t)
    PROVE  /\ org_path_split(t) \in Seq(NameSet)
           /\ Len(org_path_split(t)) = depth(t)
           /\ Len(org_path_split(t)[depth(t)]) = Len(t) - Slash(t, depth(t))
<1> USE DEF NameSet
<1>1. Len(t) \in Nat \ {0} /\ t \in [1 .. Len(t) -> Chars] BY LenProperties DEF IsPath
<1>2. depth(t) \in Nat \ {0} BY SlashPlace
<1>3. ASSUME NEW n \in 1 .. depth(t)
      PROVE  LET c == SubSeq(t, Slash(t, n) + 1, Slash(t, n + 1) - 1)
                 m == Slash(t, n + 1) - 1 - Slash(t, n)
             IN c \in Seq(Chars) /\ Len(c) = IF m >= 0 THEN m ELSE 0
  <2>1. Slash(t, n) \in 1 .. Len(t) + 1 /\ Slash(t, n + 1) \in 1 .. Len(t) + 1
    <3>1. n \in Nat \ {0} /\ n + 1 \in Nat \ {0} BY <1>2
    <3>2. \A m \in Nat \ {0} : Slash(t, m) \in 1 .. Len(t) + 1 BY SlashPlace
    <3> QED BY <3>1, <3>2
  <2> HIDE DEF Slash
  <2>2. \A p \in Slash(t, n) + 1 .. Slash(t, n + 1) - 1 : t[p] \in Chars BY <1>1, <2>1
  <2> DEFINE a == Slash(t, n) + 1
             b == Slash(t, n + 1) - 1
  <2>3. a \in Int /\ b \in Int BY <1>1, <2>1
  <2>4. \A p \in a .. b : t[p] \in Chars BY <2>2
  <2> HIDE DEF a, b
  <2>5. SubSeq(t, a, b) \in Seq(Chars) /\ Len(SubSeq(t, a, b)) = IF a <= b THEN b - a + 1 ELSE 0
    BY <2>3, <2>4, SubSeqProperties
  <2>6. (IF a <= b THEN b - a + 1 ELSE 0) =
            IF Slash(t, n + 1) - 1 - Slash(t, n) >= 0 THEN Slash(t, n + 1) - 1 - Slash(t, n) ELSE 0
    BY <1>1, <2>1 DEF a, b
  <2> QED BY <2>5, <2>6 DEF a, b
<1>4. org_path_split(t) \in [1 .. depth(t) -> Seq(Chars)] BY <1>3 DEF org_path_split
<1>5. org_path_split(t) \in Seq(Seq(Chars)) /\ Len(org_path_split(t)) = depth(t)
  BY <1>2, <1>4
<1>6. Slash(t, depth(t) + 1) = Len(t) + 1 BY <1>2 DEF Slash
<1>7. Slash(t, depth(t)) \in 1 .. Len(t) BY <1>1, <1>2, SlashPlace
<1>8. Len(org_path_split(t)[depth(t)]) = Len(t) - Slash(t, depth(t))
  <2> HIDE DEF Slash, depth
  <2>1. depth(t) \in 1 .. depth(t) BY <1>2
  <2>2. org_path_split(t)[depth(t)] = SubSeq(t, Slash(t, depth(t)) + 1, Slash(t, depth(t) + 1) - 1)
    BY <2>1 DEF org_path_split
  <2> QED BY <1>1, <1>3, <1>6, <1>7, <2>1, <2>2
<1> QED BY <1>5, <1>8

\* A prefix of a path is a path, if it has a character at all.
LEMMA PrefixIsPath ==
    ASSUME NEW t, IsPath(t), NEW n \in 1 .. Len(t)
    PROVE  IsPath(SubSeq(t, 1, n))
<1>1. Len(t) \in Nat /\ t \in [1 .. Len(t) -> Chars] BY LenProperties DEF IsPath
<1>2. \A p \in 1 .. n : t[p] \in Chars BY <1>1
<1>3. SubSeq(t, 1, n) \in Seq(Chars) /\ Len(SubSeq(t, 1, n)) = n
      /\ \A p \in 1 .. n : SubSeq(t, 1, n)[p] = t[p]
  <2>1. 1 \in Int /\ n \in Int /\ 1 <= n BY <1>1
  <2>2. SubSeq(t, 1, n) \in Seq(Chars) /\ Len(SubSeq(t, 1, n)) = (IF 1 <= n THEN n - 1 + 1 ELSE 0)
        /\ \A p \in 1 .. n - 1 + 1 : SubSeq(t, 1, n)[p] = t[1 + p - 1]
    BY <1>2, <2>1, SubSeqProperties
  <2>3. n - 1 + 1 = n BY <2>1
  <2>4. \A p \in 1 .. n : 1 + p - 1 = p BY <2>1
  <2> QED BY <2>1, <2>2, <2>3, <2>4
<1> QED BY <1>1, <1>3 DEF IsPath

\* What strtok leaves of a path, and its parent, are paths.
LEMMA CutIsPath == ASSUME NEW t, IsPath(t) PROVE IsPath(Cut(t))
<1>1. Len(t) \in Nat BY LenProperties DEF IsPath
<1>2. Slash(t, 2) - 1 \in 1 .. Len(t)
  <2>1. 2 \in Nat \ {0} /\ 2 \in Nat /\ 2 > 1 OBVIOUS
  <2>2. Slash(t, 2) \in 1 .. Len(t) + 1 BY <2>1, SlashPlace
  <2>3. Slash(t, 2) > 1 BY <2>1, SlashPlace
  <2> QED BY <1>1, <2>2, <2>3
<1> QED BY <1>2, PrefixIsPath DEF Cut

LEMMA ParentIsPath == ASSUME NEW t, IsPath(t) PROVE IsPath(get_prt_path(t))
<1>1. CASE depth(t) = 1 BY <1>1 DEF get_prt_path, IsPath
<1>2. CASE depth(t) # 1
  <2>1. Len(t) \in Nat BY LenProperties DEF IsPath
  <2>2. depth(t) \in Nat /\ depth(t) > 1 BY <1>2, SlashPlace
  <2>3. Slash(t, depth(t)) - 1 \in 1 .. Len(t)
    <3>1. Slash(t, depth(t)) \in 1 .. Len(t) + 1 BY <2>2, SlashPlace
    <3>2. Slash(t, depth(t)) > 1 BY <2>2, SlashPlace
    <3> QED BY <2>1, <3>1, <3>2
  <2>4. Len(t) - Len(org_path_split(t)[depth(t)]) - 1 = Slash(t, depth(t)) - 1
    <3>1. Len(org_path_split(t)[depth(t)]) = Len(t) - Slash(t, depth(t)) BY Components
    <3>2. Slash(t, depth(t)) \in Int BY <2>1, <2>2, SlashPlace
    <3> QED BY <2>1, <3>1, <3>2
  <2> QED BY <1>2, <2>3, <2>4, PrefixIsPath DEF get_prt_path
<1> QED BY <1>1, <1>2

\* path_decode gives a string.
LEMMA LettersText ==
    ASSUME NEW e \in [0 .. Total - 1 -> Chars], NEW a \in Nat, NEW b \in Int, b <= Total - 1
    PROVE  Letters(e, a, b) \in Seq(Chars)
<1> DEFINE S == {p \in a .. b : e[p] # " "}
<1>1. S \in SUBSET (a .. b) OBVIOUS
<1> HIDE DEF S
<1>2. S \in SUBSET Nat /\ S \in SUBSET (0 .. Total - 1) BY <1>1, LenAssumption DEF Total
<1>3. IsFiniteSet(S)
  <2>1. IsFiniteSet(a .. b) BY FS_Interval
  <2> QED BY <1>1, <2>1, FS_Subset
<1>4. Cardinality(S) \in Nat BY <1>3, FS_CardinalityType
<1>5. \A n \in 1 .. Cardinality(S) : Lower(e[Nth(S, n)]) \in Chars
  <2> SUFFICES ASSUME NEW n \in 1 .. Cardinality(S) PROVE Lower(e[Nth(S, n)]) \in Chars OBVIOUS
  <2>1. Nth(S, n) \in 0 .. Total - 1 BY <1>2, <1>3, NthIn
  <2>2. e[Nth(S, n)] \in Chars BY <2>1
  <2> QED BY <2>2, CharsHas DEF Lower
<1>6. [n \in 1 .. Cardinality(S) |-> Lower(e[Nth(S, n)])] \in Seq(Chars) BY <1>4, <1>5
<1> QED BY <1>6 DEF Letters, S

LEMMA DecodeIsPath == ASSUME NEW e \in [0 .. Total - 1 -> Chars] PROVE IsPath(<<"/">> \o path_decode(e))
<1>1. Letters(e, 0, NameLen - 1) \in Seq(Chars) /\ Letters(e, NameLen, Total - 1) \in Seq(Chars)
  <2>1. 0 \in Nat /\ NameLen \in Nat /\ NameLen - 1 \in Int /\ Total - 1 \in Int
        /\ NameLen - 1 <= Total - 1 /\ Total - 1 <= Total - 1
    BY LenAssumption DEF Total
  <2> QED BY <2>1, LettersText
<1>2. path_decode(e) \in Seq(Chars)
  <2> DEFINE dot == IF e[NameLen] # " " THEN <<".">> ELSE <<>>
  <2>1. dot \in Seq(Chars) /\ <<".">> \in Seq(Chars) /\ <<".", ".">> \in Seq(Chars)
    <3>1. <<".">> \in Seq(Chars) /\ <<".", ".">> \in Seq(Chars) BY CharsHas, ShortSeq
    <3>2. <<>> \in Seq(Chars) OBVIOUS
    <3> QED BY <3>1, <3>2
  <2> HIDE DEF dot
  <2>2. Letters(e, 0, NameLen - 1) \o dot \o Letters(e, NameLen, Total - 1) \in Seq(Chars)
    BY <1>1, <2>1
  <2> QED BY <2>1, <2>2 DEF path_decode, dot
<1> DEFINE c == path_decode(e)
<1>3. c \in Seq(Chars) BY <1>2
<1> HIDE DEF c
<1>4. IsPath(<<"/">> \o c)
  <2>1. <<"/">> \in Seq(Chars) /\ Len(<<"/">>) = 1 /\ <<"/">>[1] = "/" BY CharsHas, ShortSeq
  <2> QED BY <1>3, <2>1, ConcatProperties DEF IsPath
<1> QED BY <1>4 DEF c

-----------------------------------------------------------------------------
(* The FAT form of a name, place by place *)

\* A name without a dot.
LEMMA FatPlain ==
    ASSUME NEW c \in NameSet, ~Dotted(c)
    PROVE  FatName(c) = [p \in 0 .. Total - 1 |->
                            IF p < NameLen /\ p < Len(c) THEN Upper(c[p + 1]) ELSE " "]
<1>1. Len(c) \in Nat /\ c \in [1 .. Len(c) -> Chars] BY LenProperties DEF NameSet
<1>2. c \notin {<<".">>, <<".", ".">>}
  <2>1. Len(<<".">>) = 1 /\ <<".">>[1] = "." OBVIOUS
  <2>2. Len(<<".", ".">>) = 2 /\ <<".", ".">>[1] = "." OBVIOUS
  <2>3. 1 \in 1 .. 1 /\ 1 \in 1 .. 2 OBVIOUS
  <2> QED BY <2>1, <2>2, <2>3 DEF Dotted
<1>3. DotAt(c) = Len(c) + 1 BY DEF DotAt
<1> DEFINE base == SubSeq(c, 1, Len(c))
           rest == SubSeq(c, Len(c) + 2, Len(c))
<1>4. base = c BY SubSeqFull DEF NameSet
<1>5. rest = <<>>
  <2>1. Len(c) + 2 \in Int /\ Len(c) \in Int /\ Len(c) < Len(c) + 2 BY <1>1
  <2> QED BY <2>1, SubSeqEmpty
<1>6. DotAt(c) - 1 = Len(c) /\ DotAt(c) + 1 = Len(c) + 2 BY <1>1, <1>3
<1> HIDE DEF base, rest
<1>7. FatName(c) = [p \in 0 .. Total - 1 |->
          IF p < NameLen THEN Place(base, p + 1) ELSE Place(rest, p - NameLen + 1)]
  BY <1>2, <1>6 DEF FatName, base, rest
<1>8. \A p \in 0 .. Total - 1 :
          (IF p < NameLen THEN Place(base, p + 1) ELSE Place(rest, p - NameLen + 1)) =
          IF p < NameLen /\ p < Len(c) THEN Upper(c[p + 1]) ELSE " "
  <2> SUFFICES ASSUME NEW p \in 0 .. Total - 1
               PROVE  (IF p < NameLen THEN Place(base, p + 1) ELSE Place(rest, p - NameLen + 1)) =
                      IF p < NameLen /\ p < Len(c) THEN Upper(c[p + 1]) ELSE " " OBVIOUS
  <2> USE LenAssumption DEF Total
  <2>1. CASE p < NameLen
    <3>1. p + 1 <= Len(c) <=> p < Len(c) BY <1>1
    <3> QED BY <1>4, <2>1, <3>1 DEF Place
  <2>2. CASE ~(p < NameLen)
    <3>1. ~(p - NameLen + 1 <= Len(rest)) BY <1>5, <2>2
    <3> QED BY <2>2, <3>1 DEF Place
  <2> QED BY <2>1, <2>2
<1> QED BY <1>7, <1>8, Zenon

\* A name with a dot that is neither "." nor "..".
LEMMA FatDotted ==
    ASSUME NEW c \in NameSet, NEW d \in 1 .. Len(c), FirstDot(c, d),
           c \notin {<<".">>, <<".", ".">>}
    PROVE  FatName(c) = [p \in 0 .. Total - 1 |->
               IF p < NameLen THEN (IF p < d - 1 THEN Upper(c[p + 1]) ELSE " ")
               ELSE IF d + 1 + (p - NameLen) <= Len(c) THEN Upper(c[d + 1 + (p - NameLen)]) ELSE " "]
<1>1. Len(c) \in Nat /\ c \in [1 .. Len(c) -> Chars] /\ d \in Nat BY LenProperties DEF NameSet
<1>2. DotAt(c) = d
  <2>1. Dotted(c) BY DEF Dotted, FirstDot
  <2>2. \A n \in 1 .. Len(c) : c[n] = "." /\ (\A m \in 1 .. n - 1 : c[m] # ".") => n = d
    <3> SUFFICES ASSUME NEW n \in 1 .. Len(c), c[n] = ".", \A m \in 1 .. n - 1 : c[m] # ".", n # d
                 PROVE  FALSE OBVIOUS
    <3>1. n \in 1 .. d - 1 \/ d \in 1 .. n - 1 BY <1>1
    <3> QED BY <3>1 DEF FirstDot
  <2>3. DotAt(c) = CHOOSE n \in 1 .. Len(c) : c[n] = "." /\ \A m \in 1 .. n - 1 : c[m] # "."
    BY <2>1 DEF DotAt
  <2>4. \E n \in 1 .. Len(c) : c[n] = "." /\ \A m \in 1 .. n - 1 : c[m] # "." BY DEF FirstDot
  <2> QED BY <2>2, <2>3, <2>4
<1> DEFINE base == SubSeq(c, 1, d - 1)
           rest == SubSeq(c, d + 1, Len(c))
<1>4. Len(base) = d - 1 /\ \A n \in 1 .. d - 1 : base[n] = c[n]
  <2>1. 1 \in Int /\ d - 1 \in Int /\ \A n \in 1 .. d - 1 : c[n] \in Chars BY <1>1
  <2>2. Len(base) = (IF 1 <= d - 1 THEN d - 1 - 1 + 1 ELSE 0)
        /\ \A n \in 1 .. d - 1 - 1 + 1 : base[n] = c[1 + n - 1]
    BY <2>1, SubSeqProperties
  <2> HIDE DEF base
  <2>3. \A n \in 1 .. d - 1 : 1 + n - 1 = n BY <1>1
  <2>4. d - 1 - 1 + 1 = d - 1 /\ (~(1 <= d - 1) => d - 1 = 0) BY <1>1
  <2> QED BY <2>2, <2>3, <2>4
<1>5. Len(rest) = Len(c) - d /\ \A n \in 1 .. Len(c) - d : rest[n] = c[d + n]
  <2>1. d + 1 \in Int /\ Len(c) \in Int /\ \A n \in d + 1 .. Len(c) : c[n] \in Chars BY <1>1
  <2>2. Len(rest) = (IF d + 1 <= Len(c) THEN Len(c) - (d + 1) + 1 ELSE 0)
        /\ \A n \in 1 .. Len(c) - (d + 1) + 1 : rest[n] = c[d + 1 + n - 1]
    BY <2>1, SubSeqProperties
  <2> HIDE DEF rest
  <2>3. \A n \in 1 .. Len(c) - d : d + 1 + n - 1 = d + n BY <1>1
  <2>4. Len(c) - (d + 1) + 1 = Len(c) - d /\ (~(d + 1 <= Len(c)) => Len(c) - d = 0)
    <3>1. Len(c) \in Nat /\ d \in Nat /\ d <= Len(c) BY <1>1
    <3> QED BY <3>1
  <2> QED BY <2>2, <2>3, <2>4
<1> HIDE DEF base, rest
<1>7. FatName(c) = [p \in 0 .. Total - 1 |->
          IF p < NameLen THEN Place(base, p + 1) ELSE Place(rest, p - NameLen + 1)]
  BY <1>2 DEF FatName, base, rest
<1>8. \A p \in 0 .. Total - 1 :
          (IF p < NameLen THEN Place(base, p + 1) ELSE Place(rest, p - NameLen + 1)) =
          IF p < NameLen THEN (IF p < d - 1 THEN Upper(c[p + 1]) ELSE " ")
          ELSE IF d + 1 + (p - NameLen) <= Len(c) THEN Upper(c[d + 1 + (p - NameLen)]) ELSE " "
  <2> TAKE p \in 0 .. Total - 1
  <2> USE LenAssumption DEF Total
  <2>1. CASE p < NameLen
    <3>1. CASE p < d - 1
      <4>1. p + 1 \in 1 .. d - 1 /\ p + 1 <= d - 1 BY <1>1, <3>1
      <4> QED BY <1>4, <2>1, <3>1, <4>1 DEF Place
    <3>2. CASE ~(p < d - 1)
      <4>1. ~(p + 1 <= d - 1) BY <1>1, <3>2
      <4> QED BY <1>4, <2>1, <3>2, <4>1 DEF Place
    <3> QED BY <3>1, <3>2
  <2>2. CASE ~(p < NameLen)
    <3> DEFINE q == p - NameLen + 1
    <3>0. q \in Nat /\ q >= 1 /\ d + 1 + (p - NameLen) = d + q BY <1>1, <2>2
    <3> HIDE DEF q
    <3>1. CASE q <= Len(c) - d
      <4>1. q \in 1 .. Len(c) - d /\ d + q <= Len(c) BY <1>1, <3>0, <3>1
      <4> QED BY <1>5, <2>2, <3>0, <3>1, <4>1 DEF Place, q
    <3>2. CASE ~(q <= Len(c) - d)
      <4>1. ~(d + q <= Len(c)) BY <1>1, <3>0, <3>2
      <4> QED BY <1>5, <2>2, <3>0, <3>2, <4>1 DEF Place, q
    <3> QED BY <3>1, <3>2
  <2> QED BY <2>1, <2>2
<1> QED BY <1>7, <1>8, Zenon

-----------------------------------------------------------------------------
(* The steps of path_split *)

Parts == Shapes /\ Within /\ BaseInv /\ ExtInv /\ DoneInv /\ ExitIllFormed

\* Inside of the loop: the types of what it works on.
LEMMA InLoop ==
    ASSUME NamesInv, Running
    PROVE  /\ i \in 1 .. Len(path) /\ i \in 1 .. Len(entries) /\ Len(path) \in Nat
           /\ path[i] \in NameSet /\ Len(path[i]) \in Nat
           /\ entries[i] \in EntrySet /\ j \in 0 .. Len(path[i])
           /\ path \in Seq(NameSet) /\ entries \in Seq(EntrySet)
<1>1. path \in Seq(NameSet) /\ entries \in Seq(EntrySet) /\ Len(path) = Len(entries) /\ i >= 1
      /\ i <= Len(path) /\ i \in Nat /\ j \in Nat /\ j <= Len(path[i])
  BY DEF NamesInv, IInv, TypeOK, Shapes, Within, Running
<1>2. Len(path) \in Nat BY <1>1, LenProperties
<1>3. i \in 1 .. Len(path) /\ i \in 1 .. Len(entries) BY <1>1, <1>2
<1>4. path[i] \in NameSet /\ entries[i] \in EntrySet BY <1>1, <1>3
<1>5. Len(path[i]) \in Nat BY <1>4, LenProperties DEF NameSet
<1> QED BY <1>1, <1>2, <1>3, <1>4, <1>5

\* The end of a component whose entry is right, if its name had to be.
LEMMA Breaks ==
    ASSUME NamesInv, Running, Break,
           entries' \in Seq(EntrySet), Len(entries') = Len(entries),
           \A n \in 1 .. Len(path) : n # i => entries'[n] = entries[n],
           NoDotBefore(path, i) => entries'[i] = FatName(path[i])
    PROVE  Parts'
<1>0. /\ path' = path /\ pc' = pc /\ pc = "run" /\ i' = i + 1 /\ j' = 0 /\ flag' = flag
      /\ name_len' = 0 /\ whole' = whole /\ text' = text
  BY DEF Break, Running
<1>1. i \in 1 .. Len(path) /\ Len(path) \in Nat /\ Len(path[i]) \in Nat /\ j \in 0 .. Len(path[i])
      /\ path \in Seq(NameSet)
  BY InLoop
<1>2. Shapes' BY <1>0, <1>1 DEF NamesInv, Shapes
<1>3. Within'
  <2> SUFFICES ASSUME Running' PROVE j' <= Len(path'[i']) /\ j' = 0 BY <1>0 DEF Within
  <2>1. i + 1 \in 1 .. Len(path) BY <1>0, <1>1 DEF Running
  <2>2. path[i + 1] \in NameSet BY <1>1, <2>1
  <2>3. Len(path[i + 1]) \in Nat BY <2>2, LenProperties DEF NameSet
  <2> QED BY <1>0, <2>3
<1>4. BaseInv' BY <1>0, LenAssumption DEF BaseInv
<1>5. ExtInv'
  <2> SUFFICES ASSUME flag = 1, NoDotBefore(path, i + 1) PROVE FALSE BY <1>0 DEF ExtInv
  <2>1. NoDotBefore(path, i) BY <1>1 DEF NoDotBefore
  <2>2. PICK d \in 1 .. j : FirstDot(path[i], d) BY <1>0, <2>1 DEF NamesInv, ExtInv, Filled
  <2>3. Dotted(path[i]) BY <1>1, <2>2 DEF Dotted, FirstDot
  <2>4. ~Special BY <1>1, <2>2 DEF NamesInv, Within
  <2>5. i \in 1 .. i + 1 - 1 BY <1>1
  <2> QED BY <2>3, <2>4, <2>5 DEF NoDotBefore, Special
<1>6. DoneInv'
  <2> SUFFICES ASSUME NEW n \in 1 .. Len(path), n < i + 1, NoDotBefore(path, n)
               PROVE  entries'[n] = FatName(path[n])
    BY <1>0 DEF DoneInv
  <2>1. CASE n = i BY <2>1
  <2>2. CASE n # i
    <3>1. n < i BY <1>1, <2>2
    <3> QED BY <1>0, <2>2, <3>1 DEF NamesInv, DoneInv
  <2> QED BY <2>1, <2>2
<1>7. ExitIllFormed' BY <1>0 DEF ExitIllFormed
<1> QED BY <1>2, <1>3, <1>4, <1>5, <1>6, <1>7 DEF Parts

\* A change of the entry under way.
LEMMA EntryChanged ==
    ASSUME NamesInv, Running, NEW e \in EntrySet, entries' = [entries EXCEPT ![i] = e]
    PROVE  /\ entries' \in Seq(EntrySet) /\ Len(entries') = Len(entries)
           /\ entries'[i] = e
           /\ \A n \in 1 .. Len(path) : n # i => entries'[n] = entries[n]
<1>1. i \in 1 .. Len(entries) /\ entries \in Seq(EntrySet) BY InLoop
<1>2. Len(path) = Len(entries) BY DEF NamesInv, Shapes, Running
<1> QED BY <1>1, <1>2

\* The entry with blanks in some places.
LEMMA PaddedEntry ==
    ASSUME NamesInv, Running, NEW a \in Int, NEW b \in Int, entries' = Padded(a, b)
    PROVE  /\ entries' \in Seq(EntrySet) /\ Len(entries') = Len(entries)
           /\ entries'[i] = [p \in 0 .. Total - 1 |-> IF p \in a .. b THEN " " ELSE entries[i][p]]
           /\ \A n \in 1 .. Len(path) : n # i => entries'[n] = entries[n]
<1> DEFINE e == [p \in 0 .. Total - 1 |-> IF p \in a .. b THEN " " ELSE entries[i][p]]
<1>1. entries[i] \in EntrySet BY InLoop
<1>2. e \in EntrySet BY <1>1, CharsHas DEF EntrySet
<1> HIDE DEF e
<1>3. entries' = [entries EXCEPT ![i] = e] BY DEF Padded, e
<1> QED BY <1>2, <1>3, EntryChanged DEF e

IsSpecial(c) == c \in {<<".">>, <<".", ".">>}

\* What path_split stores for "." and ".." is their FAT form.
LEMMA DotsIs ==
    ASSUME NEW c, IsSpecial(c)
    PROVE  [p \in 0 .. Total - 1 |-> IF p < Len(c) THEN "." ELSE " "] = FatName(c)
<1>1. c \in {<<".">>, <<".", ".">>} BY DEF IsSpecial
<1>2. Len(c) \in Nat /\ \A n \in 1 .. Len(c) : c[n] = "."
  <2>1. CASE c = <<".">> BY <2>1
  <2>2. CASE c = <<".", ".">> BY <2>2
  <2> QED BY <1>1, <2>1, <2>2
<1>4. FatName(c) = [p \in 0 .. Total - 1 |-> Place(c, p + 1)] BY <1>1 DEF FatName
<1>5. \A p \in 0 .. Total - 1 : Place(c, p + 1) = IF p < Len(c) THEN "." ELSE " "
  <2> TAKE p \in 0 .. Total - 1
  <2> USE LenAssumption DEF Total
  <2>1. CASE p < Len(c)
    <3>1. p + 1 \in 1 .. Len(c) /\ p + 1 <= Len(c) BY <1>2, <2>1
    <3> QED BY <1>2, <2>1, <3>1 DEF Place, Upper
  <2>2. CASE ~(p < Len(c))
    <3>1. ~(p + 1 <= Len(c)) BY <1>2, <2>2
    <3> QED BY <2>2, <3>1 DEF Place
  <2> QED BY <2>1, <2>2
<1> QED BY <1>4, <1>5, Zenon

LEMMA StepDots == ASSUME NamesInv, Dots PROVE Parts'
<1> DEFINE c == path[i]
           e == [p \in 0 .. Total - 1 |-> IF p < Len(c) THEN "." ELSE " "]
<1>1. Running /\ IsSpecial(c) /\ Break /\ entries' = [entries EXCEPT ![i] = e]
  BY DEF Dots, Special, IsSpecial
<1>2. e \in EntrySet BY CharsHas DEF EntrySet
<1>3. e = FatName(c) BY <1>1, DotsIs
<1> HIDE DEF e
<1>4. /\ entries' \in Seq(EntrySet) /\ Len(entries') = Len(entries) /\ entries'[i] = e
      /\ \A n \in 1 .. Len(path) : n # i => entries'[n] = entries[n]
  BY <1>1, <1>2, EntryChanged
<1> QED BY <1>1, <1>3, <1>4, Breaks

\* The entry of a component that is finished, in both of its cases.
LEMMA PlainFinished ==
    ASSUME NamesInv, Running, flag = 0, j = Len(path[i]), NoDotBefore(path, i)
    PROVE  [p \in 0 .. Total - 1 |-> IF p \in k .. Total - 1 THEN " " ELSE entries[i][p]]
           = FatName(path[i])
<1> DEFINE c == path[i]
<1>1. c \in NameSet /\ Len(c) \in Nat /\ j = Len(c) BY InLoop
<1>2. ~Dotted(c) BY <1>1 DEF NamesInv, Within, Dotted
<1>3. /\ k = (IF j < NameLen THEN j ELSE NameLen)
      /\ \A p \in 0 .. k - 1 : entries[i][p] = Upper(c[p + 1])
  BY DEF NamesInv, IInv, Place0, BaseInv
<1> HIDE DEF c
<1>4. \A p \in 0 .. Total - 1 :
          (IF p \in k .. Total - 1 THEN " " ELSE entries[i][p])
          = IF p < NameLen /\ p < Len(c) THEN Upper(c[p + 1]) ELSE " "
  <2> TAKE p \in 0 .. Total - 1
  <2> USE LenAssumption DEF Total
  <2>1. CASE p < k
    <3>1. p \in 0 .. k - 1 /\ p \notin k .. Total - 1 /\ p < NameLen /\ p < Len(c) BY <1>1, <1>3, <2>1
    <3> QED BY <1>3, <3>1
  <2>2. CASE ~(p < k)
    <3>1. p \in k .. Total - 1 /\ ~(p < NameLen /\ p < Len(c)) BY <1>1, <1>3, <2>2
    <3> QED BY <3>1
  <2> QED BY <2>1, <2>2
<1>5. FatName(c) = [p \in 0 .. Total - 1 |->
                        IF p < NameLen /\ p < Len(c) THEN Upper(c[p + 1]) ELSE " "]
  BY <1>1, <1>2, FatPlain
<1>6. [p \in 0 .. Total - 1 |-> IF p \in k .. Total - 1 THEN " " ELSE entries[i][p]] = FatName(c)
  BY <1>4, <1>5, Zenon
<1> QED BY <1>6 DEF c

LEMMA DottedFinished ==
    ASSUME NamesInv, Running, flag = 1, j = Len(path[i]) \/ ext_len = ExtLen, NoDotBefore(path, i)
    PROVE  [p \in 0 .. Total - 1 |-> IF p \in k .. Total - 1 THEN " " ELSE entries[i][p]]
           = FatName(path[i])
<1> DEFINE c == path[i]
<1>1. c \in NameSet /\ Len(c) \in Nat /\ j \in 0 .. Len(c) BY InLoop
<1>p. PICK d \in 1 .. j :
          ext_len = j - d /\ k = NameLen + ext_len /\ Filled(c, d, entries[i], ext_len)
  BY DEF NamesInv, ExtInv, Running
<1>2. /\ FirstDot(c, d)
      /\ \A p \in 0 .. NameLen - 1 : entries[i][p] = IF p < d - 1 THEN Upper(c[p + 1]) ELSE " "
      /\ \A q \in 0 .. ext_len - 1 : entries[i][NameLen + q] = Upper(c[d + q + 1])
  BY <1>p DEF Filled
<1>3. c \notin {<<".">>, <<".", ".">>}
  <2>1. j # 0 BY <1>1
  <2> QED BY <2>1 DEF NamesInv, Within, Special
<1>a. ext_len \in 0 .. ExtLen /\ (j = Len(c) \/ ext_len = ExtLen) BY DEF NamesInv, IInv, TypeOK
<1>b. k = NameLen + ext_len /\ ext_len = j - d /\ j \in Nat /\ d \in Nat BY <1>1, <1>p
<1> HIDE DEF c
<1>4. \A p \in 0 .. Total - 1 :
          (IF p \in k .. Total - 1 THEN " " ELSE entries[i][p])
          = IF p < NameLen THEN (IF p < d - 1 THEN Upper(c[p + 1]) ELSE " ")
            ELSE IF d + 1 + (p - NameLen) <= Len(c) THEN Upper(c[d + 1 + (p - NameLen)]) ELSE " "
  <2> TAKE p \in 0 .. Total - 1
  <2> USE LenAssumption DEF Total
  <2>1. CASE p < NameLen
    <3>1. p \in 0 .. NameLen - 1 /\ p \notin k .. Total - 1 BY <1>a, <1>b, <2>1
    <3> QED BY <1>2, <2>1, <3>1
  <2>2. CASE ~(p < NameLen)
    <3> DEFINE q == p - NameLen
    <3>0. q \in 0 .. ExtLen - 1 /\ p = NameLen + q /\ d + 1 + q = d + q + 1 BY <1>1, <2>2
    <3>1. CASE q < ext_len
      <4>1. q \in 0 .. ext_len - 1 /\ p \notin k .. Total - 1 /\ d + 1 + q <= Len(c)
        BY <1>1, <1>a, <1>b, <3>0, <3>1
      <4>2. entries[i][NameLen + q] = Upper(c[d + q + 1]) BY <1>2, <4>1
      <4> QED BY <2>2, <3>0, <4>1, <4>2
    <3>2. CASE ~(q < ext_len)
      <4>1. p \in k .. Total - 1 /\ ~(d + 1 + q <= Len(c)) BY <1>1, <1>a, <1>b, <3>0, <3>2
      <4> QED BY <2>2, <3>0, <4>1
    <3> QED BY <3>1, <3>2
  <2> QED BY <2>1, <2>2
<1>5. d \in 1 .. Len(c) BY <1>1
<1>6. FatName(c) = [p \in 0 .. Total - 1 |->
           IF p < NameLen THEN (IF p < d - 1 THEN Upper(c[p + 1]) ELSE " ")
           ELSE IF d + 1 + (p - NameLen) <= Len(c) THEN Upper(c[d + 1 + (p - NameLen)]) ELSE " "]
  BY <1>1, <1>2, <1>3, <1>5, FatDotted
<1>7. [p \in 0 .. Total - 1 |-> IF p \in k .. Total - 1 THEN " " ELSE entries[i][p]] = FatName(c)
  BY <1>4, <1>6, Zenon
<1> QED BY <1>7 DEF c

\* The character under j.
LEMMA CharUnder ==
    ASSUME NamesInv, Running
    PROVE  /\ Char = "" => j = Len(path[i])
           /\ Char # "" => j < Len(path[i]) /\ Char = path[i][j + 1] /\ Char \in Chars
<1>1. path[i] \in NameSet /\ Len(path[i]) \in Nat /\ j \in 0 .. Len(path[i]) BY InLoop
<1>2. CASE j < Len(path[i])
  <2>1. Char = path[i][j + 1] BY <1>2 DEF Char
  <2>2. path[i][j + 1] \in Chars
    <3>1. j + 1 \in 1 .. Len(path[i]) BY <1>1, <1>2
    <3>2. path[i] \in [1 .. Len(path[i]) -> Chars] BY <1>1, LenProperties DEF NameSet
    <3> QED BY <3>1, <3>2
  <2>3. Char # "" BY <2>1, <2>2 DEF Chars
  <2> QED BY <1>2, <2>1, <2>2, <2>3
<1>3. CASE ~(j < Len(path[i])) BY <1>1, <1>3 DEF Char
<1> QED BY <1>2, <1>3

LEMMA StepEnd == ASSUME NamesInv, End PROVE Parts'
<1>1. Running /\ Char = "" /\ entries' = Padded(k, Total - 1) /\ Break BY DEF End
<1>2. j = Len(path[i]) BY <1>1, CharUnder
<1>3. k \in Int /\ Total - 1 \in Int /\ flag \in {0, 1}
  BY LenAssumption DEF NamesInv, IInv, TypeOK, Total
<1>4. /\ entries' \in Seq(EntrySet) /\ Len(entries') = Len(entries)
      /\ entries'[i] = [p \in 0 .. Total - 1 |-> IF p \in k .. Total - 1 THEN " " ELSE entries[i][p]]
      /\ \A n \in 1 .. Len(path) : n # i => entries'[n] = entries[n]
  BY <1>1, <1>3, PaddedEntry
<1>5. NoDotBefore(path, i) => entries'[i] = FatName(path[i])
  BY <1>1, <1>2, <1>3, <1>4, PlainFinished, DottedFinished
<1> QED BY <1>1, <1>4, <1>5, Breaks

LEMMA StepFull == ASSUME NamesInv, Full PROVE Parts'
<1>1. Running /\ Break /\ entries' = entries /\ ext_len = ExtLen BY DEF Full, Plain
<1>2. flag = 1 BY <1>1, LenAssumption DEF NamesInv, IInv, TypeOK, Place0
<1>3. entries \in Seq(EntrySet) /\ entries[i] \in EntrySet BY <1>1, InLoop
<1>4. ASSUME NoDotBefore(path, i) PROVE entries[i] = FatName(path[i])
  <2>1. k = Total
    BY <1>1, <1>2, <1>4 DEF NamesInv, ExtInv, Running, Total
  <2>2. \A p \in 0 .. Total - 1 : p \notin k .. Total - 1 BY <2>1, LenAssumption DEF Total
  <2>3. [p \in 0 .. Total - 1 |-> IF p \in k .. Total - 1 THEN " " ELSE entries[i][p]] = entries[i]
    BY <1>3, <2>2 DEF EntrySet
  <2> QED BY <1>1, <1>2, <1>4, <2>3, DottedFinished
<1> QED BY <1>1, <1>3, <1>4, Breaks

\* The next character of the same component.
Advances ==
    /\ Running /\ ~Special /\ Char # ""
    /\ j' = j + 1 /\ UNCHANGED <<i, path, pc, whole, text>>
    /\ entries' \in Seq(EntrySet) /\ Len(entries') = Len(entries)
    /\ \A n \in 1 .. Len(path) : n # i => entries'[n] = entries[n]
    /\ flag' = 0 => flag = 0 /\ Char # "."

LEMMA Goes ==
    ASSUME NamesInv, Advances
    PROVE  Shapes' /\ Within' /\ DoneInv' /\ ExitIllFormed'
<1>r. Running /\ Char # "" BY DEF Advances
<1>0. pc = "run" /\ pc' = "run" /\ i' = i /\ path' = path /\ j' = j + 1 BY <1>r DEF Running, Advances
<1>1. Len(path[i]) \in Nat /\ j \in 0 .. Len(path[i]) /\ i \in 1 .. Len(path) BY <1>r, InLoop
<1>2. j < Len(path[i]) /\ Char = path[i][j + 1] BY <1>r, CharUnder
<1>3. Shapes' BY DEF NamesInv, Shapes, Advances
<1>4. Within'
  <2>1. j + 1 <= Len(path[i])
    <3>1. j < Len(path[i]) BY <1>2
    <3> QED BY <1>1, <3>1
  <2>2. ASSUME flag' = 0, NEW m \in 1 .. j + 1 PROVE path[i][m] # "."
    <3>0. flag = 0 /\ Char # "." BY <2>2 DEF Advances
    <3>1. CASE m = j + 1 BY <1>2, <3>0, <3>1
    <3>2. CASE m # j + 1
      <4>1. m \in 1 .. j BY <1>1, <3>2
      <4> QED BY <1>r, <3>0, <4>1 DEF NamesInv, Within
    <3> QED BY <3>1, <3>2
  <2>3. ~(Special') BY <1>0 DEF Special, Advances
  <2> QED BY <1>0, <2>1, <2>2, <2>3 DEF Within
<1>5. DoneInv'
  <2>1. ASSUME NEW n \in 1 .. Len(path), n < i, NoDotBefore(path, n)
        PROVE  entries'[n] = FatName(path[n])
    <3>1. n # i BY <1>1, <2>1
    <3>2. entries'[n] = entries[n] BY <3>1 DEF Advances
    <3> QED BY <1>0, <2>1, <3>2 DEF NamesInv, DoneInv
  <2> QED BY <1>0, <2>1 DEF DoneInv
<1>6. ExitIllFormed' BY <1>0 DEF ExitIllFormed
<1> QED BY <1>3, <1>4, <1>5, <1>6

\* A character that is stored or skipped is not of "." or "..".
LEMMA PlainNotSpecial == ASSUME NamesInv, Plain PROVE ~Special
<1>1. Running /\ Char # "" /\ Char # "." BY DEF Plain
<1>2. Char = path[i][j + 1] BY <1>1, CharUnder
<1>3. ASSUME Special PROVE FALSE
  <2>1. j = 0 BY <1>1, <1>3 DEF NamesInv, Within
  <2>2. path[i][1] = "."
    <3>1. CASE path[i] = <<".">> BY <3>1
    <3>2. CASE path[i] = <<".", ".">> BY <3>2
    <3> QED BY <1>3, <3>1, <3>2 DEF Special
  <2>3. j + 1 = 1 BY <2>1
  <2> QED BY <1>1, <1>2, <2>2, <2>3
<1> QED BY <1>3

LEMMA StepSkip == ASSUME NamesInv, Skip PROVE Parts'
<1>r. Running /\ Plain /\ Char # "" /\ Char # "." BY DEF Skip, Plain
<1>1. /\ flag = 0 /\ flag' = 0 /\ name_len = NameLen /\ name_len' = NameLen /\ j' = j + 1
      /\ i' = i /\ entries' = entries /\ path' = path
  BY DEF Skip
<1>2. entries \in Seq(EntrySet) /\ j \in 0 .. Len(path[i]) /\ Len(path[i]) \in Nat BY <1>r, InLoop
<1>3. ~Special BY <1>r, PlainNotSpecial
<1>4. Advances BY <1>r, <1>1, <1>2, <1>3 DEF Advances, Skip
<1>5. BaseInv'
  <2> SUFFICES ASSUME NoDotBefore(path, i)
               PROVE  /\ NameLen = IF j + 1 < NameLen THEN j + 1 ELSE NameLen
                      /\ \A p \in 0 .. NameLen - 1 : entries[i][p] = Upper(path[i][p + 1])
    BY <1>1 DEF BaseInv
  <2>1. NameLen = (IF j < NameLen THEN j ELSE NameLen)
    BY <1>r, <1>1 DEF NamesInv, BaseInv
  <2>2. \A p \in 0 .. NameLen - 1 : entries[i][p] = Upper(path[i][p + 1])
    BY <1>r, <1>1 DEF NamesInv, BaseInv
  <2>3. ~(j + 1 < NameLen) BY <1>2, <2>1, LenAssumption
  <2> QED BY <2>2, <2>3
<1>6. ExtInv'
  <2>1. flag' # 1 BY <1>1
  <2> QED BY <2>1 DEF ExtInv
<1> QED BY <1>4, <1>5, <1>6, Goes DEF Parts

LEMMA StepDotPad == ASSUME NamesInv, DotPad PROVE Parts'
<1> DEFINE c == path[i]
<1>r. Running /\ Char = "." /\ ~(j = 0 /\ Special) BY DEF DotPad
<1>1. /\ flag = 0 /\ flag' = 1 /\ entries' = Padded(k, NameLen - 1) /\ k' = NameLen /\ j' = j + 1
      /\ i' = i /\ ext_len' = ext_len /\ path' = path
  BY DEF DotPad
<1>2. c \in NameSet /\ j \in 0 .. Len(c) /\ Len(c) \in Nat /\ i <= Len(path) BY <1>r, InLoop DEF Running
<1>3. ~Special BY <1>r DEF NamesInv, Within
<1>4. k = name_len /\ ext_len = 0 /\ k \in Int /\ k \in 0 .. NameLen /\ NameLen - 1 \in Int
  BY <1>1, LenAssumption DEF NamesInv, IInv, TypeOK, Place0
<1>5. /\ entries' \in Seq(EntrySet) /\ Len(entries') = Len(entries)
      /\ entries'[i] = [p \in 0 .. Total - 1 |-> IF p \in k .. NameLen - 1 THEN " " ELSE entries[i][p]]
      /\ \A n \in 1 .. Len(path) : n # i => entries'[n] = entries[n]
  BY <1>r, <1>1, <1>4, PaddedEntry
<1>6. Advances
  <2>1. flag' # 0 /\ Char # "" BY <1>r, <1>1
  <2>2. UNCHANGED <<i, path, pc, whole, text>> BY DEF DotPad
  <2> QED BY <1>r, <1>1, <1>3, <1>5, <2>1, <2>2 DEF Advances
<1>7. BaseInv'
  <2>1. flag' # 0 BY <1>1
  <2> QED BY <2>1 DEF BaseInv
<1>8. ExtInv'
  <2>1. SUFFICES ASSUME NoDotBefore(path, i) PROVE Filled(c, j + 1, entries'[i], 0)
    <3>1. i <= Len(path) /\ j + 1 \in 1 .. j + 1 /\ 0 = j + 1 - (j + 1) /\ NameLen = NameLen + 0
      BY <1>2, LenAssumption
    <3> HIDE DEF c
    <3>2. Filled(c, j + 1, entries'[i], 0) =>
              \E d \in 1 .. j + 1 : 0 = j + 1 - d /\ NameLen = NameLen + 0 /\ Filled(c, d, entries'[i], 0)
      BY <3>1
    <3> QED BY <1>1, <1>4, <2>1, <3>1, <3>2 DEF ExtInv, c
  <2>2. FirstDot(c, j + 1)
    <3>1. c[j + 1] = "." BY <1>r, CharUnder
    <3>2. \A m \in 1 .. j + 1 - 1 : c[m] # "."
      <4>1. j + 1 - 1 = j BY <1>2
      <4> QED BY <1>r, <1>1, <4>1 DEF NamesInv, Within
    <3> DEFINE d == j + 1
    <3>3. c[d] = "." /\ \A m \in 1 .. d - 1 : c[m] # "." BY <1>2, <3>1, <3>2
    <3> HIDE DEF c, d
    <3>4. FirstDot(c, d) BY <3>3 DEF FirstDot
    <3> QED BY <3>4 DEF d
  <2>3. k = (IF j < NameLen THEN j ELSE NameLen)
        /\ \A p \in 0 .. k - 1 : entries[i][p] = Upper(c[p + 1])
    BY <1>r, <1>1, <1>4, <2>1 DEF NamesInv, BaseInv
  <2>4. ASSUME NEW p \in 0 .. NameLen - 1
        PROVE  entries'[i][p] = IF p < j + 1 - 1 THEN Upper(c[p + 1]) ELSE " "
    <3> HIDE DEF c
    <3> USE LenAssumption
    <3>0. p \in 0 .. Total - 1 BY DEF Total
    <3>1. CASE p < k
      <4>1. p \in 0 .. k - 1 /\ p \notin k .. NameLen - 1 /\ p < j + 1 - 1 BY <1>2, <1>4, <2>3, <3>1
      <4> QED BY <1>5, <2>3, <3>0, <4>1
    <3>2. CASE ~(p < k)
      <4>1. p \in k .. NameLen - 1 /\ ~(p < j + 1 - 1) BY <1>2, <1>4, <2>3, <3>2
      <4> QED BY <1>5, <3>0, <4>1
    <3> QED BY <3>1, <3>2
  <2>5. \A q \in 0 .. 0 - 1 : FALSE OBVIOUS
  <2> DEFINE d == j + 1
             e == entries'[i]
  <2>6. FirstDot(c, d) /\ \A p \in 0 .. NameLen - 1 : e[p] = IF p < d - 1 THEN Upper(c[p + 1]) ELSE " "
    <3>1. d - 1 = j + 1 - 1 BY <1>2
    <3> HIDE DEF c, e
    <3> QED BY <1>2, <2>2, <2>4, <3>1 DEF e
  <2> HIDE DEF c, d, e
  <2>7. Filled(c, d, e, 0) BY <2>5, <2>6 DEF Filled
  <2> QED BY <2>7 DEF d, e
<1> QED BY <1>6, <1>7, <1>8, Goes DEF Parts

LEMMA StepStore == ASSUME NamesInv, Store PROVE Parts'
<1> DEFINE c == path[i]
           e == [entries[i] EXCEPT ![k] = Upper(Char)]
<1>r. Running /\ Plain /\ Char # "" /\ Char # "." BY DEF Store, Writes, Plain
<1>1. i' = i /\ path' = path /\ pc' = pc /\ flag' = flag /\ j' = j + 1 /\ k' = k + 1
      /\ ext_len # ExtLen /\ ~(name_len = NameLen /\ flag = 0)
  BY DEF Store, Writes
<1>2. c \in NameSet /\ j \in 0 .. Len(c) /\ Len(c) \in Nat /\ entries[i] \in EntrySet /\ i <= Len(path)
      /\ entries \in Seq(EntrySet) /\ i \in 1 .. Len(entries)
  BY <1>r, InLoop DEF Running
<1>3. ~Special BY <1>r, PlainNotSpecial
<1>4. Char = c[j + 1] /\ Char \in Chars BY <1>r, CharUnder
<1>t. /\ k \in 0 .. Total /\ flag \in {0, 1} /\ name_len \in 0 .. NameLen /\ ext_len \in 0 .. ExtLen
      /\ flag = 0 => k = name_len
  BY DEF NamesInv, IInv, TypeOK, Place0
<1>5. e \in EntrySet
  <2>1. Upper(Char) \in Chars BY <1>4, CharsHas DEF Upper
  <2> QED BY <1>2, <2>1 DEF EntrySet
<1>6. entries' = [entries EXCEPT ![i] = e] BY <1>2 DEF Store
<1>7. /\ entries' \in Seq(EntrySet) /\ Len(entries') = Len(entries) /\ entries'[i] = e
      /\ \A n \in 1 .. Len(path) : n # i => entries'[n] = entries[n]
  <2> HIDE DEF e
  <2> QED BY <1>r, <1>5, <1>6, EntryChanged
<1>8. Advances
  <2>1. UNCHANGED <<i, path, pc, whole, text>> BY DEF Store
  <2> HIDE DEF e
  <2> QED BY <1>r, <1>1, <1>3, <1>7, <2>1 DEF Advances
<1>9. \A p \in 0 .. Total - 1 : p # k => e[p] = entries[i][p] BY <1>2 DEF EntrySet
<1>10. k \in 0 .. Total - 1 => e[k] = Upper(c[j + 1]) BY <1>2, <1>4 DEF EntrySet
<1> HIDE DEF c, e
<1>11. BaseInv'
  <2>1. SUFFICES ASSUME flag = 0, NoDotBefore(path, i)
        PROVE  /\ name_len' = IF j + 1 < NameLen THEN j + 1 ELSE NameLen
               /\ \A p \in 0 .. name_len' - 1 : e[p] = Upper(c[p + 1])
    BY <1>1, <1>7 DEF BaseInv, c
  <2>2. name_len = (IF j < NameLen THEN j ELSE NameLen)
        /\ \A p \in 0 .. name_len - 1 : entries[i][p] = Upper(c[p + 1])
    BY <1>r, <2>1 DEF NamesInv, BaseInv, c
  <2>3. name_len' = name_len + 1 BY <2>1 DEF Store
  <2>4. name_len # NameLen BY <1>1, <2>1
  <2>5. name_len = j /\ j < NameLen /\ k = j BY <1>2, <1>t, <2>1, <2>2, <2>4, LenAssumption
  <2>6. name_len' = IF j + 1 < NameLen THEN j + 1 ELSE NameLen BY <1>2, <2>3, <2>5, LenAssumption
  <2>7. ASSUME NEW p \in 0 .. name_len' - 1 PROVE e[p] = Upper(c[p + 1])
    <3>0. p \in 0 .. j BY <1>2, <2>3, <2>5
    <3>1. p \in 0 .. Total - 1 /\ k \in 0 .. Total - 1 BY <1>2, <2>5, <3>0, LenAssumption DEF Total
    <3>2. CASE p = j BY <1>10, <2>5, <3>1, <3>2
    <3>3. CASE p # j
      <4>1. p \in 0 .. name_len - 1 BY <1>2, <2>5, <3>0, <3>3
      <4> QED BY <1>9, <2>2, <2>5, <3>1, <3>3, <4>1
    <3> QED BY <3>2, <3>3
  <2> QED BY <2>6, <2>7
<1>12. ExtInv'
  <2>1. SUFFICES ASSUME flag = 1, NoDotBefore(path, i)
        PROVE  \E d \in 1 .. j + 1 :
                   ext_len' = j + 1 - d /\ k' = NameLen + ext_len' /\ Filled(c, d, e, ext_len')
    BY <1>1, <1>2, <1>7 DEF ExtInv, c
  <2>2. PICK d \in 1 .. j : ext_len = j - d /\ k = NameLen + ext_len /\ Filled(c, d, entries[i], ext_len)
    BY <1>r, <2>1 DEF NamesInv, ExtInv, Running, c
  <2>3. ext_len' = ext_len + 1 BY <2>1 DEF Store
  <2>4. /\ d \in 1 .. j + 1 /\ ext_len + 1 = j + 1 - d /\ k + 1 = NameLen + (ext_len + 1)
        /\ k \in 0 .. Total - 1 /\ d + ext_len + 1 = j + 1 /\ d \in Nat
    BY <1>1, <1>2, <1>t, <2>2, LenAssumption DEF Total
  <2>5. /\ FirstDot(c, d)
        /\ \A p \in 0 .. NameLen - 1 : entries[i][p] = IF p < d - 1 THEN Upper(c[p + 1]) ELSE " "
        /\ \A q \in 0 .. ext_len - 1 : entries[i][NameLen + q] = Upper(c[d + q + 1])
    BY <2>2 DEF Filled
  <2>6. ASSUME NEW p \in 0 .. NameLen - 1
        PROVE  e[p] = IF p < d - 1 THEN Upper(c[p + 1]) ELSE " "
    <3>1. p \in 0 .. Total - 1 /\ p # k BY <1>t, <2>2, LenAssumption DEF Total
    <3>2. e[p] = entries[i][p] BY <1>9, <3>1
    <3> QED BY <2>5, <3>2
  <2>7. ASSUME NEW q \in 0 .. ext_len + 1 - 1 PROVE e[NameLen + q] = Upper(c[d + q + 1])
    <3>1. CASE q = ext_len
      <4>1. NameLen + q = k /\ d + q + 1 = j + 1 BY <2>2, <2>4, <3>1
      <4> QED BY <1>10, <2>4, <4>1
    <3>2. CASE q # ext_len
      <4>1. q \in 0 .. ext_len - 1 BY <1>t, <3>2
      <4>2. NameLen + q \in 0 .. Total - 1 /\ NameLen + q # k
        BY <1>t, <2>2, <4>1, LenAssumption DEF Total
      <4>3. e[NameLen + q] = entries[i][NameLen + q] BY <1>9, <4>2
      <4> QED BY <2>5, <4>1, <4>3
    <3> QED BY <3>1, <3>2
  <2>8. Filled(c, d, e, ext_len + 1)
    <3>1. FirstDot(c, d) BY <2>5
    <3> DEFINE m == ext_len + 1
    <3>2. \A q \in 0 .. m - 1 : e[NameLen + q] = Upper(c[d + q + 1]) BY <1>t, <2>7
    <3> HIDE DEF m
    <3>3. Filled(c, d, e, m) BY <2>6, <3>1, <3>2 DEF Filled
    <3> QED BY <3>3 DEF m
  <2> QED BY <1>1, <2>3, <2>4, <2>8
<1> QED BY <1>8, <1>11, <1>12, Goes DEF Parts

\* Two places with a dot.
LEMMA TwoDots ==
    ASSUME NEW c \in NameSet, NEW m \in 1 .. Len(c), NEW n \in 1 .. Len(c), m # n,
           c[m] = ".", c[n] = "."
    PROVE  Cardinality({p \in 1 .. Len(c) : c[p] = "."}) > 1
<1> DEFINE S == {p \in 1 .. Len(c) : c[p] = "."}
<1>1. m \in S /\ n \in S /\ S \in SUBSET (1 .. Len(c)) OBVIOUS
<1>2. Len(c) \in Nat BY LenProperties DEF NameSet
<1> HIDE DEF S
<1>3. IsFiniteSet(1 .. Len(c)) BY <1>2, FS_Interval
<1>4. IsFiniteSet(S) BY <1>1, <1>3, FS_Subset
<1>5. Cardinality(S) \in Nat BY <1>4, FS_CardinalityType
<1>6. Cardinality(S) # 0 BY <1>1, <1>4, FS_EmptySet
<1>7. Cardinality(S) # 1
  <2>1. SUFFICES ASSUME Cardinality(S) = 1 PROVE FALSE OBVIOUS
  <2>2. \E x : S = {x} BY <1>4, <2>1, FS_Singleton
  <2> QED BY <1>1, <2>2
<1>8. Cardinality(S) > 1 BY <1>5, <1>6, <1>7
<1> QED BY <1>8 DEF S

LEMMA StepDotExit == ASSUME NamesInv, DotExit PROVE Parts'
<1> DEFINE c == path[i]
<1>r. Running /\ Char = "." BY DEF DotExit
<1>0. pc' = "exit" /\ path' = path /\ i' = i /\ pc = "run" BY <1>r DEF DotExit, loop, Running
<1>1. Shapes' BY <1>0 DEF NamesInv, Shapes, DotExit, loop
<1>2. ExitIllFormed'
  <2>1. c \in NameSet /\ j \in 0 .. Len(c) /\ Len(c) \in Nat BY <1>r, InLoop
  <2>2. j < Len(c) /\ c[j + 1] = "." BY <1>r, CharUnder
  <2>3. ASSUME flag = 1, NoDotBefore(path, i)
        PROVE  Cardinality({n \in 1 .. Len(c) : c[n] = "."}) > 1
    <3>1. PICK d \in 1 .. j : FirstDot(c, d) BY <1>0, <2>3 DEF NamesInv, ExtInv, Filled
    <3>2. d \in 1 .. Len(c) /\ j + 1 \in 1 .. Len(c) /\ d # j + 1
      <4>1. j < Len(c) BY <2>2
      <4> QED BY <2>1, <4>1
    <3>3. c[d] = "." BY <3>1 DEF FirstDot
    <3> QED BY <2>1, <2>2, <3>2, <3>3, TwoDots
  <2>4. flag = 1 \/ j + 1 = Len(c) BY DEF DotExit
  <2>5. Cardinality({n \in 1 .. Len(c) : c[n] = "."}) > 1 \/ c[Len(c)] = "." \/ ~NoDotBefore(path, i)
    <3>1. CASE flag = 1 BY <2>3, <3>1
    <3>2. CASE j + 1 = Len(c) BY <2>2, <3>2
    <3> QED BY <2>4, <3>1, <3>2
  <2> QED BY <1>0, <2>5 DEF ExitIllFormed
<1> QED BY <1>0, <1>1, <1>2 DEF Parts, Within, BaseInv, ExtInv, DoneInv, Running

LEMMA StepSplit == ASSUME NamesInv, Split PROVE Parts'
<1>0. /\ pc' = "run" /\ i' = 1 /\ j' = 0 /\ flag' = 0 /\ name_len' = 0
      /\ path' = org_path_split(text) /\ text' = Cut(text) /\ whole' = whole
      /\ entries' = [n \in 1 .. depth(text) |-> [p \in 0 .. Total - 1 |-> "?"]]
  BY DEF Split
<1>1. IsPath(whole) /\ IsPath(text) BY DEF NamesInv, Shapes
<1>2. /\ path' \in Seq(NameSet) /\ Len(path') = depth(text) /\ depth(text) \in Nat \ {0}
  BY <1>0, <1>1, Components, SlashPlace
<1>3. entries' \in Seq(EntrySet) /\ Len(entries') = depth(text)
  <2>1. [p \in 0 .. Total - 1 |-> "?"] \in EntrySet BY DEF EntrySet
  <2> DEFINE blank == [p \in 0 .. Total - 1 |-> "?"]
  <2>2. blank \in EntrySet BY <2>1
  <2>3. entries' = [n \in 1 .. depth(text) |-> blank] BY <1>0
  <2> HIDE DEF blank
  <2> QED BY <1>2, <2>2, <2>3
<1>4. Shapes' BY <1>0, <1>1, <1>2, <1>3, CutIsPath DEF Shapes
<1>5. Within'
  <2>1. path'[1] \in NameSet BY <1>2
  <2>2. Len(path'[1]) \in Nat BY <2>1, LenProperties DEF NameSet
  <2>3. j' <= Len(path'[i']) /\ j' = 0 BY <1>0, <2>2
  <2>4. \A m \in 1 .. j' : FALSE BY <1>0
  <2> QED BY <2>3, <2>4 DEF Within
<1>6. BaseInv'
  <2>1. name_len' = (IF j' < NameLen THEN j' ELSE NameLen) /\ \A p \in 0 .. name_len' - 1 : FALSE
    BY <1>0, LenAssumption
  <2> QED BY <2>1 DEF BaseInv
<1>7. ExtInv' BY <1>0 DEF ExtInv
<1>8. DoneInv'
  <2>1. \A n \in 1 .. Len(path') : ~(n < i') BY <1>0, <1>2
  <2> QED BY <1>0, <2>1 DEF DoneInv
<1>9. ExitIllFormed' BY <1>0 DEF ExitIllFormed
<1> QED BY <1>4, <1>5, <1>6, <1>7, <1>8, <1>9 DEF Parts

LEMMA StepReturn == ASSUME NamesInv, Return PROVE Parts'
<1>0. pc = "run" /\ pc' = "done" /\ i > Len(path)
      /\ UNCHANGED <<whole, text, path, i, entries>>
  BY DEF Return, loop
<1>1. Shapes' BY <1>0 DEF NamesInv, Shapes
<1>2. DoneInv' BY <1>0 DEF NamesInv, DoneInv
<1>3. ExitIllFormed' BY <1>0 DEF ExitIllFormed
<1> QED BY <1>0, <1>1, <1>2, <1>3 DEF Parts, Within, BaseInv, ExtInv, Running

\* A second lookup begins with a path.
LEMMA StepCaller == ASSUME NamesInv, Again \/ Parent \/ Listed PROVE Parts'
<1>0. pc = "done" /\ IsPath(whole) /\ IsPath(text) BY DEF NamesInv, Shapes, Again, Parent, Listed, Second
<1>1. pc' = "call" /\ whole' = whole /\ i' = i BY DEF Again, Parent, Listed, Second, loop
<1>2. IsPath(text')
  <2>1. CASE Again BY <1>0, <2>1 DEF Again, Second
  <2>2. CASE Parent BY <1>0, <2>2, ParentIsPath DEF Parent, Second
  <2>3. CASE Listed
    <3> DEFINE e == entries[Len(entries)]
    <3>1. entries \in Seq(EntrySet) /\ Len(entries) >= 1 BY <1>0 DEF NamesInv, Shapes
    <3>2. e \in EntrySet BY <3>1, LenProperties
    <3>3. (\A p \in 0 .. Total - 1 : e[p] # "?") /\ text' = <<"/">> \o path_decode(e)
      BY <2>3 DEF Listed, Second
    <3> HIDE DEF e
    <3>4. e \in [0 .. Total - 1 -> Chars] BY <3>2, <3>3 DEF EntrySet
    <3> QED BY <3>3, <3>4, DecodeIsPath
  <2> QED BY <2>1, <2>2, <2>3
<1>3. Shapes' BY <1>0, <1>1, <1>2 DEF NamesInv, Shapes
<1> QED BY <1>1, <1>3 DEF Parts, Within, BaseInv, ExtInv, DoneInv, ExitIllFormed, Running

LEMMA StepNone == ASSUME NamesInv, Stop \/ UNCHANGED vars PROVE Parts'
<1>1. UNCHANGED vars BY DEF Stop
<1> QED BY <1>1 DEF NamesInv, Parts, vars, loop, Shapes, Within, BaseInv, ExtInv, DoneInv,
                    ExitIllFormed, Running, Special

LEMMA NamesInductive == Spec => []NamesInv
<1>1. Init => NamesInv
  <2> SUFFICES ASSUME Init PROVE NamesInv OBVIOUS
  <2>1. IInv BY InitIInv
  <2>2. Shapes BY TextsAssumption DEF Init, Shapes
  <2> QED BY <2>1, <2>2 DEF Init, NamesInv, Within, BaseInv, ExtInv, DoneInv, ExitIllFormed, Running
<1>2. NamesInv /\ [Next]_vars => NamesInv'
  <2> SUFFICES ASSUME NamesInv, [Next]_vars PROVE NamesInv' OBVIOUS
  <2>1. IInv' BY NextIInv DEF NamesInv
  <2>2. Parts'
    BY StepSplit, StepDots, StepDotExit, StepDotPad, StepEnd, StepSkip, StepFull, StepStore,
       StepReturn, StepCaller, StepNone DEF Next
  <2> QED BY <2>1, <2>2 DEF NamesInv, Parts
<1> QED BY <1>1, <1>2, PTL DEF Spec

\* path_split gives every component the FAT form of its name, as long as no
\* component before it has a dot.
THEOREM NamesEncoded == Spec => []Encoded
<1>1. NamesInv => Encoded
  <2> SUFFICES ASSUME NamesInv, pc = "done", NEW n \in 1 .. Len(path), NoDotBefore(path, n)
               PROVE  entries[n] = FatName(path[n])
    BY DEF Encoded
  <2>1. path \in Seq(NameSet) /\ i \in Nat /\ i > Len(path) BY DEF NamesInv, IInv, TypeOK, Shapes, DoneInv
  <2>2. n < i BY <2>1, LenProperties
  <2> QED BY <2>2 DEF NamesInv, DoneInv
<1> QED BY NamesInductive, <1>1, PTL

\* The driver exits only on a name with two dots or a dot at its end, or on a
\* dot after a component with a dot.
THEOREM ExitsIllFormed == Spec => []ExitIllFormed
<1>1. NamesInv => ExitIllFormed BY DEF NamesInv
<1> QED BY NamesInductive, <1>1, PTL

-----------------------------------------------------------------------------
(* What a second lookup finds *)

\* From place d on, path_split meets no dot before it has ExtLen characters.
Clean(c, d) == \A m \in d + 1 .. Len(c) : m <= d + ExtLen + 1 => c[m] # "."

\* path_split gets through component n of p.
Accepted(p, n) ==
    LET c == p[n] IN
    \/ IsSpecial(c)
    \/ IF NoDotBefore(p, n)
       THEN ~Dotted(c) \/ \E d \in 1 .. Len(c) - 1 : FirstDot(c, d) /\ Clean(c, d)
       ELSE Clean(c, 0)

\* The entry of a component after one with a dot: ExtLen characters, then
\* blanks, or whatever was there when the component goes on.
Late(c) ==
    [p \in 0 .. Total - 1 |-> IF p < Len(c) /\ p < ExtLen THEN Upper(c[p + 1])
                              ELSE IF Len(c) > ExtLen THEN "?" ELSE " "]

Entry(p, n) == IF NoDotBefore(p, n) \/ IsSpecial(p[n]) THEN FatName(p[n]) ELSE Late(p[n])

\* The components before i were accepted, and have their entries.
PastInv ==
    pc \in {"run", "done"} =>
        \A n \in 1 .. Len(path) : n < i => Accepted(path, n) /\ entries[n] = Entry(path, n)

\* The entries of the components after i are as malloc gave them.
FreshInv == pc = "run" => \A n \in 1 .. Len(path) : n > i => entries[n] = [p \in 0 .. Total - 1 |-> "?"]

\* flag is set by the first component with a dot.
FlagInv == pc = "run" /\ flag = 0 => NoDotBefore(path, i)

\* After it, characters go to the front of the entry.
LateInv ==
    Running /\ flag = 1 /\ ~NoDotBefore(path, i) =>
        /\ j = ext_len /\ k = ext_len
        /\ \A m \in 1 .. j : path[i][m] # "."
        /\ \A p \in 0 .. k - 1 : entries[i][p] = Upper(path[i][p + 1])
        /\ \A p \in k .. Total - 1 : entries[i][p] = "?"

\* In the component with the first dot, that dot is not the last character and
\* no other dot was met.
CleanInv ==
    Running /\ flag = 1 /\ NoDotBefore(path, i) =>
        \A d \in 1 .. j : FirstDot(path[i], d) =>
            d < Len(path[i]) /\ \A m \in d + 1 .. j : path[i][m] # "."

NoBlanks(t) == \A n \in 1 .. Len(t) : t[n] # " "

Expected(p, e) ==
    /\ e \in Seq(EntrySet) /\ Len(e) = Len(p)
    /\ \A n \in 1 .. Len(p) : Accepted(p, n) /\ e[n] = Entry(p, n)

\* The first lookup is of the whole path; the second is of components that
\* path_split will accept and give the entries kept.
RoundInv ==
    /\ round = 1 => IF pc = "call" THEN text = whole
                    ELSE text = Cut(whole) /\ path = org_path_split(whole)
    /\ round = 2 /\ NoBlanks(whole) =>
        pc # "exit" /\ Expected(IF pc = "call" THEN org_path_split(text) ELSE path, kept)

LookInv == PastInv /\ FreshInv /\ FlagInv /\ LateInv /\ CleanInv /\ RoundInv

-----------------------------------------------------------------------------
(* Prefixes of a path *)

\* The places of a set up to p, and how many they are.
Below(S, p) == {q \in S : q <= p}

\* The rank of a place grows with it, so that Nth is the place of that rank.
LEMMA RankGrows ==
    ASSUME NEW S \in SUBSET Nat, IsFiniteSet(S), NEW p \in S, NEW r \in S
    PROVE  /\ Cardinality(Below(S, p)) \in Nat /\ Cardinality(Below(S, p)) <= Cardinality(S)
           /\ p < r <=> Cardinality(Below(S, p)) < Cardinality(Below(S, r))
<1>1. \A x : IsFiniteSet(Below(S, x)) /\ Cardinality(Below(S, x)) \in Nat
             /\ Cardinality(Below(S, x)) <= Cardinality(S)
  <2> SUFFICES ASSUME NEW x PROVE IsFiniteSet(Below(S, x)) /\ Cardinality(Below(S, x)) \in Nat
                                  /\ Cardinality(Below(S, x)) <= Cardinality(S) OBVIOUS
  <2>1. Below(S, x) \in SUBSET S BY DEF Below
  <2>2. IsFiniteSet(Below(S, x)) /\ Cardinality(Below(S, x)) <= Cardinality(S) BY <2>1, FS_Subset
  <2> QED BY <2>2, FS_CardinalityType
<1>2. ASSUME NEW x \in S, NEW y \in S, x < y PROVE Cardinality(Below(S, x)) < Cardinality(Below(S, y))
  <2>1. Below(S, x) \in SUBSET Below(S, y) /\ y \in Below(S, y) /\ y \notin Below(S, x)
    <3>1. \A q \in S : q <= x => q <= y BY <1>2
    <3>2. y <= y /\ ~(y <= x) BY <1>2
    <3> QED BY <3>1, <3>2, Zenon DEF Below
  <2>2. Below(S, x) # Below(S, y) BY <2>1
  <2>3. /\ Cardinality(Below(S, x)) <= Cardinality(Below(S, y))
        /\ Cardinality(Below(S, x)) # Cardinality(Below(S, y))
    BY <1>1, <2>1, <2>2, FS_Subset
  <2> QED BY <1>1, <2>3
<1>3. p < r \/ r < p \/ p = r OBVIOUS
<1> HIDE DEF Below
<1>4. p < r => Cardinality(Below(S, p)) < Cardinality(Below(S, r)) BY <1>2
<1>5. r < p => ~(Cardinality(Below(S, p)) < Cardinality(Below(S, r)))
  <2>1. ASSUME r < p PROVE Cardinality(Below(S, r)) < Cardinality(Below(S, p)) BY <1>2, <2>1
  <2> QED BY <1>1, <2>1
<1>6. p = r => ~(Cardinality(Below(S, p)) < Cardinality(Below(S, r))) BY <1>1
<1>7. r < p \/ p = r => ~(p < r) OBVIOUS
<1> QED BY <1>1, <1>3, <1>4, <1>5, <1>6, <1>7

\* The place of rank n is the nth.
LEMMA NthIs ==
    ASSUME NEW S \in SUBSET Nat, IsFiniteSet(S), NEW p \in S, NEW n, Cardinality(Below(S, p)) = n
    PROVE  Nth(S, n) = p
<1> DEFINE r == Nth(S, n)
<1>1. r \in S /\ Cardinality(Below(S, r)) = n BY DEF Nth, Below
<1> HIDE DEF r
<1>2. n \in Nat /\ ~(p < r) /\ ~(r < p)
  <2>1. n \in Nat BY RankGrows
  <2>2. p < r <=> n < n BY <1>1, RankGrows
  <2>3. r < p <=> n < n BY <1>1, RankGrows
  <2> QED BY <2>1, <2>2, <2>3
<1>3. r = p BY <1>1, <1>2
<1> QED BY <1>3 DEF r

\* The nth slash of a path has rank n, and is in the path.
LEMMA SlashRank ==
    ASSUME NEW t, IsPath(t)
    PROVE  /\ Slashes(t) \in SUBSET Nat /\ IsFiniteSet(Slashes(t)) /\ Len(t) \in Nat \ {0}
           /\ depth(t) \in Nat \ {0} /\ depth(t) = Cardinality(Slashes(t))
           /\ \A n \in 1 .. depth(t) : Slash(t, n) \in Slashes(t)
                                       /\ Cardinality(Below(Slashes(t), Slash(t, n))) = n
           /\ Slash(t, depth(t) + 1) = Len(t) + 1
<1>1. Len(t) \in Nat \ {0} BY LenProperties DEF IsPath
<1>2. Slashes(t) \in SUBSET (1 .. Len(t)) BY DEF Slashes
<1>3. IsFiniteSet(Slashes(t))
  <2>1. IsFiniteSet(1 .. Len(t)) BY <1>1, FS_Interval
  <2> QED BY <1>2, <2>1, FS_Subset
<1>4. Slashes(t) \in SUBSET Nat BY <1>1, <1>2
<1>5. depth(t) \in Nat \ {0} BY SlashPlace
<1>6. ASSUME NEW n \in 1 .. depth(t)
      PROVE  Slash(t, n) \in Slashes(t) /\ Cardinality(Below(Slashes(t), Slash(t, n))) = n
  <2>1. Slash(t, n) = Nth(Slashes(t), n) BY <1>5 DEF Slash
  <2> QED BY <1>3, <1>4, <2>1, NthIn DEF depth, Below
<1>7. Slash(t, depth(t) + 1) = Len(t) + 1 BY <1>5 DEF Slash
<1> QED BY <1>1, <1>3, <1>4, <1>5, <1>6, <1>7 DEF depth

\* Slashes are in order, and the component between two has none.
LEMMA SlashOrder ==
    ASSUME NEW t, IsPath(t), NEW n \in 1 .. depth(t)
    PROVE  /\ Slash(t, n) \in 1 .. Len(t) /\ Slash(t, n + 1) \in 1 .. Len(t) + 1
           /\ Slash(t, n) < Slash(t, n + 1)
           /\ \A q \in Slashes(t) : q <= Slash(t, n) \/ Slash(t, n + 1) <= q
<1> DEFINE S == Slashes(t)
           D == depth(t)
           R(p) == Cardinality(Below(S, p))
<1>1. /\ S \in SUBSET Nat /\ IsFiniteSet(S) /\ Len(t) \in Nat /\ D \in Nat /\ D = Cardinality(S)
      /\ \A m \in 1 .. D : Slash(t, m) \in S /\ R(Slash(t, m)) = m
      /\ Slash(t, D + 1) = Len(t) + 1
  BY SlashRank
<1>2. S \in SUBSET (1 .. Len(t)) BY DEF Slashes
<1>3. \A p, r \in S : R(p) \in Nat /\ R(p) <= D /\ (p < r <=> R(p) < R(r)) BY <1>1, RankGrows
<1> HIDE DEF S, D, R
<1>4. Slash(t, n) \in S /\ R(Slash(t, n)) = n /\ n \in Nat /\ n <= D BY <1>1 DEF D
<1>5. CASE n = D
  <2>1. Slash(t, n + 1) = Len(t) + 1 BY <1>1, <1>5
  <2>2. ASSUME NEW q \in S PROVE q <= Slash(t, n)
    <3>1. ~(R(Slash(t, n)) < R(q)) BY <1>3, <1>4, <1>5
    <3>2. ~(Slash(t, n) < q) BY <1>3, <1>4, <3>1
    <3>3. q \in Nat /\ Slash(t, n) \in Nat BY <1>1, <1>4
    <3> QED BY <3>2, <3>3
  <2>3. Slash(t, n) \in 1 .. Len(t) BY <1>2, <1>4
  <2> QED BY <1>1, <2>1, <2>2, <2>3 DEF S
<1>6. CASE n # D
  <2>1. n + 1 \in 1 .. D BY <1>1, <1>4, <1>6
  <2>2. Slash(t, n + 1) \in S /\ R(Slash(t, n + 1)) = n + 1 BY <1>1, <2>1
  <2>3. R(Slash(t, n)) < R(Slash(t, n + 1)) BY <1>4, <2>2
  <2>4. Slash(t, n) < Slash(t, n + 1) BY <1>3, <1>4, <2>2, <2>3
  <2>5. ASSUME NEW q \in S PROVE q <= Slash(t, n) \/ Slash(t, n + 1) <= q
    <3>1. R(q) \in Nat BY <1>3
    <3>2. ~(R(Slash(t, n)) < R(q)) \/ ~(R(q) < R(Slash(t, n + 1))) BY <1>4, <2>2, <3>1
    <3>3. ~(Slash(t, n) < q) \/ ~(q < Slash(t, n + 1)) BY <1>3, <1>4, <2>2, <3>2
    <3>4. q \in Nat /\ Slash(t, n) \in Nat /\ Slash(t, n + 1) \in Nat BY <1>1, <1>4, <2>2
    <3> QED BY <3>3, <3>4
  <2>6. Slash(t, n) \in 1 .. Len(t) /\ Slash(t, n + 1) \in 1 .. Len(t) BY <1>2, <1>4, <2>2
  <2> QED BY <1>1, <2>4, <2>5, <2>6 DEF S
<1> QED BY <1>5, <1>6

\* A component is the text between two slashes.
LEMMA ComponentIs ==
    ASSUME NEW t, IsPath(t), NEW n \in 1 .. depth(t)
    PROVE  LET c == org_path_split(t)[n] IN
           /\ c \in Seq(Chars) /\ Len(c) = Slash(t, n + 1) - Slash(t, n) - 1
           /\ \A x \in 1 .. Len(c) : /\ Slash(t, n) + x \in 1 .. Len(t)
                                     /\ c[x] = t[Slash(t, n) + x] /\ c[x] # "/"
<1> DEFINE a == Slash(t, n)
           b == Slash(t, n + 1)
<1>1. /\ a \in 1 .. Len(t) /\ b \in 1 .. Len(t) + 1 /\ a < b
      /\ \A q \in Slashes(t) : q <= a \/ b <= q
  BY SlashOrder
<1>2. org_path_split(t)[n] = SubSeq(t, a + 1, b - 1) BY DEF org_path_split
<1>3. Len(t) \in Nat /\ t \in [1 .. Len(t) -> Chars] BY LenProperties DEF IsPath
<1> DEFINE c == SubSeq(t, a + 1, b - 1)
<1> HIDE DEF a, b
<1>4. a + 1 \in Int /\ b - 1 \in Int /\ \A p \in a + 1 .. b - 1 : t[p] \in Chars BY <1>1, <1>3
<1>5. /\ c \in Seq(Chars) /\ Len(c) = IF a + 1 <= b - 1 THEN b - 1 - (a + 1) + 1 ELSE 0
      /\ \A x \in 1 .. b - 1 - (a + 1) + 1 : c[x] = t[a + 1 + x - 1]
  BY <1>4, SubSeqProperties
<1> HIDE DEF c
<1>6. Len(c) = b - a - 1 /\ b - 1 - (a + 1) + 1 = b - a - 1 BY <1>1, <1>5
<1>7. ASSUME NEW x \in 1 .. Len(c) PROVE a + x \in 1 .. Len(t) /\ c[x] = t[a + x] /\ c[x] # "/"
  <2>1. x \in 1 .. b - 1 - (a + 1) + 1 /\ x \in Int /\ a + 1 + x - 1 = a + x BY <1>1, <1>6
  <2>2. c[x] = t[a + x] BY <1>5, <2>1
  <2>3. a + x \in 1 .. Len(t) /\ ~(a + x <= a) /\ ~(b <= a + x) BY <1>1, <1>3, <1>6
  <2>4. t[a + x] # "/" BY <1>1, <2>3 DEF Slashes
  <2> QED BY <2>2, <2>3, <2>4
<1> QED BY <1>2, <1>5, <1>6, <1>7 DEF a, b, c

\* The first n components of a path are those of the path cut behind them.
LEMMA PrefixSplit ==
    ASSUME NEW t, IsPath(t), NEW n \in 1 .. depth(t)
    PROVE  LET u == SubSeq(t, 1, Slash(t, n + 1) - 1) IN
           /\ IsPath(u) /\ depth(u) = n
           /\ \A m \in 1 .. n : org_path_split(u)[m] = org_path_split(t)[m]
<1> DEFINE L == Slash(t, n + 1) - 1
           u == SubSeq(t, 1, L)
           S == Slashes(t)
           U == Slashes(u)
<1>1. Slash(t, n) \in 1 .. Len(t) /\ Slash(t, n + 1) \in 1 .. Len(t) + 1 /\ Slash(t, n) < Slash(t, n + 1)
      /\ \A q \in S : q <= Slash(t, n) \/ Slash(t, n + 1) <= q
  BY SlashOrder
<1>2. Len(t) \in Nat /\ t \in [1 .. Len(t) -> Chars] BY LenProperties DEF IsPath
<1>3. L \in 1 .. Len(t) BY <1>1, <1>2
<1> HIDE DEF L
<1>4. IsPath(u) BY <1>3, PrefixIsPath
<1>5. Len(u) = L /\ \A p \in 1 .. L : u[p] = t[p]
  <2>1. 1 \in Int /\ L \in Int /\ 1 <= L /\ \A p \in 1 .. L : t[p] \in Chars BY <1>2, <1>3
  <2>2. Len(u) = (IF 1 <= L THEN L - 1 + 1 ELSE 0)
        /\ \A p \in 1 .. L - 1 + 1 : u[p] = t[1 + p - 1]
    BY <2>1, SubSeqProperties
  <2>3. L - 1 + 1 = L BY <2>1
  <2>4. \A p \in 1 .. L : 1 + p - 1 = p BY <2>1
  <2> QED BY <2>1, <2>2, <2>3, <2>4
<1> HIDE DEF u
<1>6. U = {p \in S : p <= L}
  <2>1. \A p \in 1 .. L : p \in 1 .. Len(t) /\ p <= L BY <1>2, <1>3
  <2>2. \A p \in 1 .. Len(t) : p <= L => p \in 1 .. L BY <1>2, <1>3
  <2> QED BY <1>5, <2>1, <2>2 DEF Slashes
<1>7. /\ S \in SUBSET Nat /\ IsFiniteSet(S)
      /\ \A m \in 1 .. depth(t) : Slash(t, m) \in S /\ Cardinality(Below(S, Slash(t, m))) = m
  BY SlashRank
<1> HIDE DEF S, U
<1>8. U = Below(S, Slash(t, n))
  <2>1. \A p \in S : p <= L <=> p <= Slash(t, n)
    <3> SUFFICES ASSUME NEW p \in S PROVE p <= L <=> p <= Slash(t, n) OBVIOUS
    <3>1. p \in Nat /\ (p <= Slash(t, n) \/ Slash(t, n + 1) <= p) BY <1>1, <1>7
    <3> QED BY <1>1, <1>2, <3>1 DEF L
  <2> QED BY <1>6, <2>1 DEF Below
<1>9. depth(u) = n BY <1>7, <1>8 DEF depth, U
<1>10. U \in SUBSET Nat /\ IsFiniteSet(U)
  <2>1. U \in SUBSET S BY <1>6
  <2> QED BY <1>7, <2>1, FS_Subset
<1>11. n \in Nat /\ depth(t) \in Nat BY SlashRank
<1>12. ASSUME NEW m \in 1 .. n PROVE Slash(u, m) = Slash(t, m)
  <2>1. m \in 1 .. depth(t) /\ m \in Nat /\ m <= n BY <1>11
  <2>2. Slash(t, m) \in S /\ Cardinality(Below(S, Slash(t, m))) = m BY <1>7, <2>1
  <2>3. ~(Slash(t, n) < Slash(t, m))
    <3>1. Slash(t, n) \in S /\ Cardinality(Below(S, Slash(t, n))) = n BY <1>7
    <3>0. \A p, r \in S : p < r <=> Cardinality(Below(S, p)) < Cardinality(Below(S, r)) BY <1>7, RankGrows
    <3>2. Slash(t, n) < Slash(t, m) <=> n < m BY <2>2, <3>0, <3>1
    <3> QED BY <1>11, <2>1, <3>2
  <2>4. Slash(t, m) <= Slash(t, n) /\ Slash(t, m) \in Nat
    <3>1. Slash(t, m) \in Nat /\ Slash(t, n) \in Nat BY <1>7, <2>2
    <3> QED BY <2>3, <3>1
  <2>5. Slash(t, m) \in U BY <1>8, <2>2, <2>4 DEF Below
  <2>6. Below(U, Slash(t, m)) = Below(S, Slash(t, m))
    <3>1. \A q \in S : q <= Slash(t, m) => q <= Slash(t, n) BY <1>1, <1>2, <1>7, <2>4
    <3> QED BY <1>8, <3>1 DEF Below
  <2>7. Nth(U, m) = Slash(t, m) BY <1>10, <2>2, <2>5, <2>6, NthIs
  <2> QED BY <1>9, <1>11, <2>1, <2>7 DEF Slash, U
<1>13. Slash(u, n + 1) = Slash(t, n + 1)
  <2>1. Slash(u, n + 1) = L + 1 BY <1>4, <1>5, <1>9, SlashRank
  <2> QED BY <1>1, <1>2, <2>1 DEF L
<1>14. ASSUME NEW m \in 1 .. n PROVE org_path_split(u)[m] = org_path_split(t)[m]
  <2>1. m \in 1 .. depth(t) /\ m \in 1 .. depth(u) /\ m \in Nat BY <1>9, <1>11
  <2>2. Slash(u, m) = Slash(t, m) /\ Slash(u, m + 1) = Slash(t, m + 1)
    <3>1. CASE m = n BY <1>12, <1>13, <3>1
    <3>2. CASE m # n
      <4>1. m + 1 \in 1 .. n BY <1>11, <3>2
      <4> QED BY <1>12, <4>1
    <3> QED BY <3>1, <3>2
  <2> DEFINE c == org_path_split(u)[m]
             d == org_path_split(t)[m]
  <2>3. /\ c \in Seq(Chars) /\ Len(c) = Slash(u, m + 1) - Slash(u, m) - 1
        /\ \A x \in 1 .. Len(c) : Slash(u, m) + x \in 1 .. Len(u) /\ c[x] = u[Slash(u, m) + x]
    BY <1>4, <2>1, ComponentIs
  <2>4. /\ d \in Seq(Chars) /\ Len(d) = Slash(t, m + 1) - Slash(t, m) - 1
        /\ \A x \in 1 .. Len(d) : d[x] = t[Slash(t, m) + x]
    BY <2>1, ComponentIs
  <2> HIDE DEF c, d
  <2>5. Len(c) = Len(d) BY <2>2, <2>3, <2>4
  <2>6. \A x \in 1 .. Len(c) : c[x] = d[x] BY <1>5, <2>2, <2>3, <2>4, <2>5
  <2>7. c = d BY <2>3, <2>4, <2>5, <2>6, SeqEqual
  <2> QED BY <2>7 DEF c, d
<1> QED BY <1>4, <1>9, <1>14 DEF u, L

\* A name without a slash is the one component of its path.
LEMMA SingleSplit ==
    ASSUME NEW c \in Seq(Chars), \A x \in 1 .. Len(c) : c[x] # "/"
    PROVE  LET t == <<"/">> \o c IN IsPath(t) /\ depth(t) = 1 /\ org_path_split(t)[1] = c
<1> DEFINE t == <<"/">> \o c
<1>0. Len(c) \in Nat BY LenProperties
<1>1. t \in Seq(Chars) /\ Len(t) = 1 + Len(c) /\ t[1] = "/" /\ \A x \in 1 .. Len(c) : t[1 + x] = c[x]
  <2>1. <<"/">> \in Seq(Chars) /\ Len(<<"/">>) = 1 /\ <<"/">>[1] = "/" BY CharsHas, ShortSeq
  <2>2. /\ t \in Seq(Chars) /\ Len(t) = 1 + Len(c)
        /\ \A p \in 1 .. 1 + Len(c) : t[p] = IF p <= 1 THEN <<"/">>[p] ELSE c[p - 1]
    BY <2>1, ConcatProperties
  <2> HIDE DEF t
  <2>3. ASSUME NEW x \in 1 .. Len(c) PROVE t[1 + x] = c[x]
    <3>1. 1 + x \in 1 .. 1 + Len(c) /\ ~(1 + x <= 1) /\ 1 + x - 1 = x BY <1>0
    <3> QED BY <2>2, <3>1
  <2>4. t[1] = "/"
    <3>1. 1 \in 1 .. 1 + Len(c) BY <1>0
    <3> QED BY <2>1, <2>2, <3>1
  <2> QED BY <2>2, <2>3, <2>4
<1> HIDE DEF t
<1>2. IsPath(t) BY <1>0, <1>1 DEF IsPath
<1>3. Slashes(t) = {1}
  <2>1. ASSUME NEW p \in 1 .. Len(t), p # 1 PROVE t[p] # "/"
    <3>1. p - 1 \in 1 .. Len(c) /\ 1 + (p - 1) = p BY <1>0, <1>1, <2>1
    <3> QED BY <1>1, <3>1
  <2>2. 1 \in 1 .. Len(t) BY <1>0, <1>1
  <2> QED BY <1>1, <2>1, <2>2 DEF Slashes
<1>4. depth(t) = 1 BY <1>3, FS_Singleton DEF depth
<1>5. Slash(t, 1) = 1 /\ Slash(t, 2) = Len(t) + 1
  <2>1. Slash(t, 1) \in Slashes(t) BY <1>2, <1>4, SlashRank
  <2>2. Slash(t, 1 + 1) = Len(t) + 1 BY <1>2, <1>4, SlashRank
  <2> QED BY <1>3, <2>1, <2>2
<1> DEFINE d == org_path_split(t)[1]
<1>6. /\ d \in Seq(Chars) /\ Len(d) = Slash(t, 1 + 1) - Slash(t, 1) - 1
      /\ \A x \in 1 .. Len(d) : d[x] = t[Slash(t, 1) + x]
  <2>1. 1 \in 1 .. depth(t) BY <1>4
  <2> QED BY <1>2, <2>1, ComponentIs
<1> HIDE DEF d
<1>7. Len(d) = Len(c) BY <1>0, <1>1, <1>5, <1>6
<1>8. \A x \in 1 .. Len(d) : d[x] = c[x] BY <1>1, <1>5, <1>6, <1>7
<1>9. d = c BY <1>6, <1>7, <1>8, SeqEqual
<1> QED BY <1>2, <1>4, <1>9 DEF d, t

-----------------------------------------------------------------------------
(* An entry and the name that readdir shows for it *)

Solid(c) == c \in {"A", "1"}
Blank(c) == c = " "

\* The entry of a name with a characters before its dot and b after it.
Sound(e, a, b) ==
    /\ e \in [0 .. Total - 1 -> Chars] /\ a \in 0 .. NameLen /\ b \in 0 .. ExtLen
    /\ \A p \in 0 .. NameLen - 1 : IF p < a THEN Solid(e[p]) ELSE Blank(e[p])
    /\ \A q \in 0 .. ExtLen - 1 : IF q < b THEN Solid(e[NameLen + q]) ELSE Blank(e[NameLen + q])

LEMMA SolidNotBlank == \A c : Solid(c) => ~Blank(c) /\ c # "."
BY DEF Solid, Blank

\* Of the places from..to the first n have no blank, and what they show.
Run(e, from, n, to) ==
    from + n - 1 <= to /\ \A p \in from .. to : (~Blank(e[p])) <=> (p < from + n)
Shown(e, from, n) == [m \in 1 .. n |-> Lower(e[from + m - 1])]

\* Without blanks between them, path_decode takes the characters as they come.
LEMMA LettersRun ==
    ASSUME NEW e, NEW from \in Nat, NEW n \in Nat, NEW to \in Int, Run(e, from, n, to)
    PROVE  Letters(e, from, to) = Shown(e, from, n)
<1> DEFINE S == {p \in from .. to : ~Blank(e[p])}
<1>1. S = from .. from + n - 1 BY DEF Run
<1> HIDE DEF S
<1>2. IsFiniteSet(S) /\ Cardinality(S) = n
  <2>1. from \in Int /\ from + n - 1 \in Int OBVIOUS
  <2>2. IsFiniteSet(S) /\ Cardinality(S) = IF from > from + n - 1 THEN 0 ELSE from + n - 1 - from + 1
    BY <1>1, <2>1, FS_Interval
  <2>3. (IF from > from + n - 1 THEN 0 ELSE from + n - 1 - from + 1) = n OBVIOUS
  <2> QED BY <2>2, <2>3
<1>3. ASSUME NEW m \in 1 .. n PROVE Nth(S, m) = from + m - 1
  <2> DEFINE p == from + m - 1
  <2>1. p \in S BY <1>1
  <2>2. Below(S, p) = from .. p BY <1>1 DEF Below
  <2>3. from \in Int /\ p \in Int /\ ~(from > p) /\ p - from + 1 = m OBVIOUS
  <2>4. S \in SUBSET Nat BY <1>1
  <2> HIDE DEF p
  <2>5. Cardinality(from .. p) = m BY <2>3, FS_Interval
  <2>6. Nth(S, m) = p BY <1>2, <2>1, <2>2, <2>4, <2>5, NthIs
  <2> QED BY <2>6 DEF p
<1>4. Letters(e, from, to) = [m \in 1 .. Cardinality(S) |-> Lower(e[Nth(S, m)])] BY DEF Letters, S, Blank
<1> QED BY <1>2, <1>3, <1>4 DEF Shown

\* The name that readdir shows for such an entry.
LEMMA SoundDecode ==
    ASSUME NEW e, NEW a, NEW b, Sound(e, a, b)
    PROVE  LET w == path_decode(e) IN
           /\ w \in Seq(Chars) /\ Len(w) = IF b = 0 THEN a ELSE a + 1 + b
           /\ \A x \in 1 .. a : w[x] = Lower(e[x - 1])
           /\ b # 0 => w[a + 1] = "." /\ \A x \in 1 .. b : w[a + 1 + x] = Lower(e[NameLen + x - 1])
<1> USE LenAssumption DEF Total
<1>a. a \in 0 .. NameLen /\ b \in 0 .. ExtLen BY DEF Sound
<1>0. a \in Nat /\ b \in Nat /\ a <= NameLen /\ b <= ExtLen BY <1>a
<1> DEFINE A == Shown(e, 0, a)
           B == Shown(e, NameLen, b)
<1>1. \A p \in 0 .. NameLen - 1 : (~Blank(e[p])) <=> (p < 0 + a) BY <1>0, SolidNotBlank DEF Sound
<1>2. \A p \in NameLen .. Total - 1 : (~Blank(e[p])) <=> (p < NameLen + b)
  <2> SUFFICES ASSUME NEW p \in NameLen .. Total - 1 PROVE (~Blank(e[p])) <=> (p < NameLen + b) OBVIOUS
  <2>1. p - NameLen \in 0 .. ExtLen - 1 /\ NameLen + (p - NameLen) = p OBVIOUS
  <2>2. IF p - NameLen < b THEN Solid(e[p]) ELSE Blank(e[p]) BY <2>1 DEF Sound
  <2> QED BY <1>0, <2>2, SolidNotBlank
<1>3. Letters(e, 0, NameLen - 1) = A
  <2>1. 0 \in Nat /\ NameLen - 1 \in Int /\ 0 + a - 1 <= NameLen - 1 BY <1>0
  <2>2. Run(e, 0, a, NameLen - 1) BY <1>1, <2>1 DEF Run
  <2> QED BY <1>0, <2>1, <2>2, LettersRun
<1>4. Letters(e, NameLen, Total - 1) = B
  <2>1. NameLen \in Nat /\ Total - 1 \in Int /\ NameLen + b - 1 <= Total - 1 BY <1>0
  <2>2. Run(e, NameLen, b, Total - 1) BY <1>2, <2>1 DEF Run
  <2> QED BY <1>0, <2>1, <2>2, LettersRun
<1>5. e[0] # "."
  <2>1. 0 \in 0 .. NameLen - 1 OBVIOUS
  <2>2. IF 0 < a THEN Solid(e[0]) ELSE Blank(e[0]) BY <2>1 DEF Sound
  <2>3. Solid(e[0]) \/ Blank(e[0]) BY <2>2
  <2> QED BY <2>3, Zenon DEF Solid, Blank
<1>6. (e[NameLen] # " ") <=> (b # 0)
  <2>1. NameLen \in NameLen .. Total - 1 OBVIOUS
  <2>2. (~Blank(e[NameLen])) <=> (NameLen < NameLen + b) BY <1>2, <2>1
  <2>3. (NameLen < NameLen + b) <=> (b # 0) BY <1>0
  <2> QED BY <2>2, <2>3, Zenon DEF Blank
<1> DEFINE dot == IF b # 0 THEN <<".">> ELSE <<>>
<1>7. path_decode(e) = A \o dot \o B BY <1>3, <1>4, <1>5, <1>6 DEF path_decode, IsDots, IsDot
<1>8. A \in Seq(Chars) /\ Len(A) = a /\ B \in Seq(Chars) /\ Len(B) = b
  <2>1. ASSUME NEW x \in 1 .. a PROVE Lower(e[0 + x - 1]) \in Chars
    <3>1. 0 + x - 1 \in 0 .. Total - 1 BY <1>0
    <3>2. e[0 + x - 1] \in Chars BY <3>1 DEF Sound
    <3> QED BY <3>2 DEF Lower, Chars
  <2>2. ASSUME NEW x \in 1 .. b PROVE Lower(e[NameLen + x - 1]) \in Chars
    <3>1. NameLen + x - 1 \in 0 .. Total - 1 BY <1>0
    <3>2. e[NameLen + x - 1] \in Chars BY <3>1 DEF Sound
    <3> QED BY <3>2 DEF Lower, Chars
  <2> QED BY <1>0, <2>1, <2>2 DEF Shown
<1>9. \A x \in 1 .. a : A[x] = Lower(e[x - 1])
  <2>1. \A x \in 1 .. a : 0 + x - 1 = x - 1 BY <1>0
  <2> QED BY <2>1 DEF Shown
<1>10. \A x \in 1 .. b : B[x] = Lower(e[NameLen + x - 1]) BY DEF Shown
<1>d. (b = 0 => dot = <<>>) /\ (b # 0 => dot = <<".">>) OBVIOUS
<1> HIDE DEF A, B, dot
<1>11. CASE b = 0
  <2>1. dot = <<>> /\ B = <<>> BY <1>8, <1>11, <1>d, EmptySeq
  <2>2. A \o dot \o B = A BY <1>8, <2>1, ConcatEmptySeq
  <2>3. path_decode(e) = A BY <1>7, <2>2
  <2> QED BY <1>8, <1>9, <1>11, <2>3
<1>12. CASE b # 0
  <2>1. dot \in Seq(Chars) /\ Len(dot) = 1 /\ dot[1] = "." BY <1>12, <1>d, CharsHas, ShortSeq
  <2> DEFINE C == A \o dot
             w == C \o B
  <2>2. C \in Seq(Chars) /\ Len(C) = a + 1
        /\ \A x \in 1 .. a + 1 : C[x] = IF x <= a THEN A[x] ELSE dot[x - a]
    <3>1. C \in Seq(Chars) /\ Len(C) = Len(A) + Len(dot)
          /\ \A x \in 1 .. Len(A) + Len(dot) : C[x] = IF x <= Len(A) THEN A[x] ELSE dot[x - Len(A)]
      BY <1>8, <2>1, ConcatProperties
    <3> QED BY <1>8, <2>1, <3>1, Zenon
  <2> HIDE DEF C
  <2>3. w \in Seq(Chars) /\ Len(w) = a + 1 + b
        /\ \A x \in 1 .. a + 1 + b : w[x] = IF x <= a + 1 THEN C[x] ELSE B[x - (a + 1)]
    <3>1. w \in Seq(Chars) /\ Len(w) = Len(C) + Len(B)
          /\ \A x \in 1 .. Len(C) + Len(B) : w[x] = IF x <= Len(C) THEN C[x] ELSE B[x - Len(C)]
      BY <1>8, <2>2, ConcatProperties
    <3> QED BY <1>8, <2>2, <3>1, Zenon
  <2>4. w = path_decode(e) BY <1>7 DEF C
  <2> HIDE DEF w
  <2>5. ASSUME NEW x \in 1 .. a PROVE w[x] = Lower(e[x - 1])
    <3>1. x \in 1 .. a + 1 + b /\ x \in 1 .. a + 1 /\ x <= a + 1 /\ x <= a BY <1>0
    <3>2. w[x] = C[x] BY <2>3, <3>1
    <3>3. C[x] = A[x] BY <2>2, <3>1
    <3> QED BY <1>9, <3>2, <3>3
  <2>6. w[a + 1] = "."
    <3>1. PICK y \in Nat : y = a + 1 BY <1>0
    <3>2. y \in 1 .. a + 1 + b /\ y \in 1 .. a + 1 /\ y <= a + 1 /\ ~(y <= a) /\ y - a = 1 BY <1>0, <3>1
    <3>3. w[y] = C[y] BY <2>3, <3>2
    <3>4. C[y] = dot[y - a] BY <2>2, <3>2
    <3> QED BY <2>1, <3>1, <3>2, <3>3, <3>4, Zenon
  <2>7. ASSUME NEW x \in 1 .. b PROVE w[a + 1 + x] = Lower(e[NameLen + x - 1])
    <3>1. PICK y \in Nat : y = a + 1 + x BY <1>0
    <3>2. y \in 1 .. a + 1 + b /\ ~(y <= a + 1) /\ y - (a + 1) = x BY <1>0, <3>1
    <3>3. w[y] = B[y - (a + 1)] BY <2>3, <3>2
    <3> QED BY <1>10, <3>1, <3>2, <3>3, Zenon
  <2> QED BY <1>12, <2>3, <2>4, <2>5, <2>6, <2>7
<1> QED BY <1>11, <1>12

\* That name has no slash, is accepted, and leads back to the entry.
LEMMA SoundAgain ==
    ASSUME NEW e, NEW a, NEW b, Sound(e, a, b)
    PROVE  LET w == path_decode(e) IN
           /\ w \in Seq(Chars) /\ \A x \in 1 .. Len(w) : w[x] # "/"
           /\ Accepted(<<w>>, 1) /\ FatName(w) = e
<1> USE LenAssumption DEF Total
<1> DEFINE w == path_decode(e)
           Plainly == {"a", "1"}
<1>a. a \in 0 .. NameLen /\ b \in 0 .. ExtLen BY DEF Sound
<1>0. a \in Nat /\ b \in Nat /\ a <= NameLen /\ b <= ExtLen BY <1>a
<1>e. e \in [0 .. Total - 1 -> Chars] BY DEF Sound
<1>1. /\ w \in Seq(Chars) /\ Len(w) = IF b = 0 THEN a ELSE a + 1 + b
      /\ \A x \in 1 .. a : w[x] = Lower(e[x - 1])
      /\ b # 0 => w[a + 1] = "." /\ \A x \in 1 .. b : w[a + 1 + x] = Lower(e[NameLen + x - 1])
  BY SoundDecode
<1> HIDE DEF w
<1>2. ASSUME NEW x \in 1 .. a PROVE w[x] \in Plainly /\ Upper(w[x]) = e[x - 1]
  <2>1. x - 1 \in 0 .. NameLen - 1 /\ x - 1 < a BY <1>0
  <2>2. Solid(e[x - 1]) BY <2>1 DEF Sound
  <2>3. w[x] = Lower(e[x - 1]) BY <1>1
  <2> QED BY <2>2, <2>3, Zenon DEF Lower, Upper, Solid
<1>3. ASSUME b # 0, NEW x \in 1 .. b PROVE w[a + 1 + x] \in Plainly /\ Upper(w[a + 1 + x]) = e[NameLen + x - 1]
  <2>1. x - 1 \in 0 .. ExtLen - 1 /\ x - 1 < b /\ NameLen + (x - 1) = NameLen + x - 1 BY <1>0
  <2>2. Solid(e[NameLen + (x - 1)]) BY <2>1 DEF Sound
  <2>3. Solid(e[NameLen + x - 1]) BY <2>1, <2>2, Zenon
  <2>4. w[a + 1 + x] = Lower(e[NameLen + x - 1]) BY <1>1, <1>3
  <2> QED BY <2>3, <2>4, Zenon DEF Lower, Upper, Solid
<1>4. NoDotBefore(<<w>>, 1) /\ <<w>>[1] = w BY DEF NoDotBefore
<1>5. w \in NameSet BY <1>1 DEF NameSet
<1>6. CASE b = 0
  <2>1. Len(w) = a BY <1>1, <1>6
  <2>2. ~Dotted(w) /\ \A x \in 1 .. Len(w) : w[x] # "/" BY <1>2, <2>1 DEF Dotted
  <2>3. Accepted(<<w>>, 1) BY <1>4, <2>2 DEF Accepted
  <2>4. FatName(w) = [p \in 0 .. Total - 1 |-> IF p < NameLen /\ p < a THEN Upper(w[p + 1]) ELSE " "]
    BY <1>5, <2>1, <2>2, FatPlain
  <2>5. ASSUME NEW p \in 0 .. Total - 1
        PROVE  e[p] = IF p < NameLen /\ p < a THEN Upper(w[p + 1]) ELSE " "
    <3>1. CASE p < NameLen /\ p < a
      <4>1. p + 1 \in 1 .. a /\ p + 1 - 1 = p BY <1>0, <3>1
      <4> QED BY <1>2, <3>1, <4>1
    <3>2. CASE p < NameLen /\ ~(p < a)
      <4>1. p \in 0 .. NameLen - 1 BY <3>2
      <4>2. Blank(e[p]) BY <3>2, <4>1 DEF Sound
      <4> QED BY <3>2, <4>2, Zenon DEF Blank
    <3>3. CASE ~(p < NameLen)
      <4>1. p - NameLen \in 0 .. ExtLen - 1 /\ NameLen + (p - NameLen) = p /\ ~(p - NameLen < b) BY <1>6, <3>3
      <4>2. Blank(e[NameLen + (p - NameLen)]) BY <4>1 DEF Sound
      <4> QED BY <3>3, <4>1, <4>2, Zenon DEF Blank
    <3> QED BY <3>1, <3>2, <3>3
  <2>6. e = [p \in 0 .. Total - 1 |-> e[p]] BY <1>e
  <2>7. FatName(w) = e BY <2>4, <2>5, <2>6
  <2> QED BY <1>1, <2>2, <2>3, <2>7 DEF w
<1>7. CASE b # 0
  <2> DEFINE d == a + 1
  <2>1. Len(w) = d + b BY <1>1, <1>7
  <2>2. d \in 1 .. Len(w) /\ d \in 1 .. Len(w) - 1 /\ d \in Nat BY <1>0, <1>7, <2>1
  <2>3. ASSUME NEW x \in 1 .. Len(w) PROVE (x # d => w[x] \in Plainly)
    <3>1. CASE x <= a
      <4>1. x \in 1 .. a BY <1>0, <3>1
      <4> QED BY <1>2, <4>1
    <3>2. CASE x > a + 1
      <4>1. x - (a + 1) \in 1 .. b /\ a + 1 + (x - (a + 1)) = x BY <1>0, <2>1, <3>2
      <4> QED BY <1>3, <1>7, <4>1
    <3>3. x \in Int /\ (x <= a \/ x > a + 1 \/ x = d) BY <1>0
    <3> QED BY <3>1, <3>2, <3>3
  <2>4. w[d] = "." BY <1>1, <1>7
  <2>5. FirstDot(w, d)
    <3>1. \A m \in 1 .. d - 1 : m \in 1 .. Len(w) /\ m # d BY <1>0, <2>1
    <3> QED BY <2>3, <2>4, <3>1 DEF FirstDot
  <2>6. Clean(w, d)
    <3>1. \A m \in d + 1 .. Len(w) : m \in 1 .. Len(w) /\ m # d BY <1>0, <2>1
    <3> QED BY <2>3, <3>1 DEF Clean
  <2>7. \A x \in 1 .. Len(w) : w[x] # "/" BY <2>3, <2>4
  <2>8. Accepted(<<w>>, 1) BY <1>4, <2>2, <2>5, <2>6 DEF Accepted
  <2>9. w \notin {<<".">>, <<".", ".">>}
    <3>1. w # <<".">>
      <4>1. Len(<<".">>) = 1 OBVIOUS
      <4>2. Len(w) # 1 BY <1>0, <1>7, <2>1
      <4> QED BY <4>1, <4>2
    <3>2. w # <<".", ".">>
      <4>1. <<".", ".">>[1] = "." /\ <<".", ".">>[2] = "." OBVIOUS
      <4>2. 1 \in 1 .. Len(w) /\ 2 \in 1 .. Len(w) /\ (1 # d \/ 2 # d) BY <1>0, <1>7, <2>1
      <4>3. w[1] # "." \/ w[2] # "." BY <2>3, <4>2
      <4> QED BY <4>1, <4>3
    <3> QED BY <3>1, <3>2
  <2> HIDE DEF d
  <2>10. FatName(w) = [p \in 0 .. Total - 1 |->
             IF p < NameLen THEN (IF p < d - 1 THEN Upper(w[p + 1]) ELSE " ")
             ELSE IF d + 1 + (p - NameLen) <= Len(w) THEN Upper(w[d + 1 + (p - NameLen)]) ELSE " "]
    BY <1>5, <2>2, <2>5, <2>9, FatDotted
  <2>11. ASSUME NEW p \in 0 .. Total - 1
         PROVE  e[p] = IF p < NameLen THEN (IF p < d - 1 THEN Upper(w[p + 1]) ELSE " ")
                       ELSE IF d + 1 + (p - NameLen) <= Len(w) THEN Upper(w[d + 1 + (p - NameLen)]) ELSE " "
    <3>0. d - 1 = a BY <1>0 DEF d
    <3>1. CASE p < NameLen /\ p < a
      <4>1. p + 1 \in 1 .. a /\ p + 1 - 1 = p BY <1>0, <3>1
      <4>2. Upper(w[p + 1]) = e[p + 1 - 1] BY <1>2, <4>1
      <4>3. e[p + 1 - 1] = e[p] BY <4>1
      <4> QED BY <3>0, <3>1, <4>2, <4>3, Zenon
    <3>2. CASE p < NameLen /\ ~(p < a)
      <4>1. p \in 0 .. NameLen - 1 BY <3>2
      <4>2. Blank(e[p]) BY <3>2, <4>1 DEF Sound
      <4> QED BY <3>0, <3>2, <4>2, Zenon DEF Blank
    <3>3. CASE ~(p < NameLen)
      <4> DEFINE q == p - NameLen
      <4>1. q \in 0 .. ExtLen - 1 /\ NameLen + q = p /\ q \in Nat BY <3>3
      <4> HIDE DEF q
      <4>g. ASSUME IF d + 1 + q <= Len(w) THEN e[p] = Upper(w[d + 1 + q]) ELSE e[p] = " "
            PROVE  e[p] = IF p < NameLen THEN (IF p < d - 1 THEN Upper(w[p + 1]) ELSE " ")
                       ELSE IF d + 1 + (p - NameLen) <= Len(w) THEN Upper(w[d + 1 + (p - NameLen)]) ELSE " "
        BY <3>3, <4>g, Zenon DEF q
      <4>2. CASE q < b
        <5>1. q + 1 \in 1 .. b /\ NameLen + (q + 1) - 1 = p /\ a + 1 + (q + 1) = d + 1 + q /\ d + 1 + q <= Len(w)
          BY <1>0, <2>1, <4>1, <4>2 DEF d
        <5>2. Upper(w[a + 1 + (q + 1)]) = e[NameLen + (q + 1) - 1] BY <1>3, <1>7, <5>1
        <5>3. Upper(w[d + 1 + q]) = e[p] BY <5>1, <5>2, Zenon
        <5> QED BY <4>g, <5>1, <5>3, Zenon
      <4>3. CASE ~(q < b)
        <5>1. ~(d + 1 + q <= Len(w)) BY <1>0, <2>1, <2>2, <4>1, <4>3
        <5>2. Blank(e[NameLen + q]) BY <4>1, <4>3 DEF Sound
        <5>3. e[p] = " " BY <4>1, <5>2, Zenon DEF Blank
        <5> QED BY <4>g, <5>1, <5>3, Zenon
      <4> QED BY <4>2, <4>3
    <3> QED BY <3>1, <3>2, <3>3
  <2>12. e = [p \in 0 .. Total - 1 |-> e[p]] BY <1>e
  <2>13. FatName(w) = e BY <2>10, <2>11, <2>12
  <2> QED BY <1>1, <2>7, <2>8, <2>13 DEF w
<1> QED BY <1>6, <1>7

-----------------------------------------------------------------------------
(* The entries of the components path_split accepts *)

\* The entries of "." and ".." are shown as they are.
LEMMA DecodeSpecial ==
    ASSUME NEW c, IsSpecial(c)
    PROVE  path_decode(FatName(c)) = c /\ c \in Seq(Chars) /\ \A x \in 1 .. Len(c) : c[x] # "/"
<1> DEFINE e == FatName(c)
<1>1. 0 \in 0 .. Total - 1 /\ 1 \in 0 .. Total - 1 /\ 2 \in 0 .. Total - 1 BY LenAssumption DEF Total
<1>2. \A p \in 0 .. Total - 1 : e[p] = Place(c, p + 1) BY DEF FatName, IsSpecial
<1>3. e[0] = Place(c, 1) /\ e[1] = Place(c, 2) /\ e[2] = Place(c, 3)
  <2>1. e[0] = Place(c, 0 + 1) /\ e[1] = Place(c, 1 + 1) /\ e[2] = Place(c, 2 + 1) BY <1>1, <1>2, Zenon
  <2>2. 0 + 1 = 1 /\ 1 + 1 = 2 /\ 2 + 1 = 3 OBVIOUS
  <2> QED BY <2>1, <2>2
<1> HIDE DEF e
<1>4. <<".">> \in Seq(Chars) /\ <<".", ".">> \in Seq(Chars) BY CharsHas, ShortSeq
<1>5. CASE c = <<".">>
  <2>1. Len(c) = 1 /\ c[1] = "." BY <1>5
  <2>2. Place(c, 1) = Upper(c[1]) /\ Place(c, 2) = " " BY <2>1 DEF Place
  <2>3. e[0] = "." /\ e[1] = " " BY <1>3, <2>1, <2>2 DEF Upper
  <2>4. path_decode(e) = <<".">> BY <2>3 DEF path_decode, IsDots, IsDot
  <2>5. \A x \in 1 .. Len(c) : c[x] # "/" BY <2>1
  <2> QED BY <1>4, <1>5, <2>4, <2>5 DEF e
<1>6. CASE c = <<".", ".">>
  <2>1. Len(c) = 2 /\ c[1] = "." /\ c[2] = "." BY <1>6
  <2>2. Place(c, 1) = Upper(c[1]) /\ Place(c, 2) = Upper(c[2]) /\ Place(c, 3) = " " BY <2>1 DEF Place
  <2>3. e[0] = "." /\ e[1] = "." /\ e[2] = " " BY <1>3, <2>1, <2>2 DEF Upper
  <2>4. path_decode(e) = <<".", ".">> BY <2>3 DEF path_decode, IsDots
  <2>5. \A x \in 1 .. Len(c) : c[x] # "/" BY <2>1
  <2> QED BY <1>4, <1>6, <2>4, <2>5 DEF e
<1> QED BY <1>5, <1>6 DEF IsSpecial

\* A count cut at M.
LEMMA CutAt ==
    ASSUME NEW L \in Nat, NEW M \in Nat
    PROVE  \E a \in 0 .. M : (L = 0 => a = 0) /\ \A p \in 0 .. M - 1 : (p < a) <=> (p < L)
<1>1. CASE L <= M
  <2>1. L \in 0 .. M /\ \A p \in 0 .. M - 1 : (p < L) <=> (p < L) BY <1>1
  <2> QED BY <2>1
<1>2. CASE ~(L <= M)
  <2>1. M \in 0 .. M /\ L # 0 /\ \A p \in 0 .. M - 1 : (p < M) <=> (p < L) BY <1>2
  <2> QED BY <2>1
<1> QED BY <1>1, <1>2

\* A character that is neither dot nor slash nor blank is stored as it will be shown.
Letter(x) == x \in Chars /\ x \notin {".", "/", " "}

LEMMA LetterSolid == \A x : Letter(x) => Solid(Upper(x)) /\ Upper(x) \in Chars
BY DEF Letter, Solid, Upper, Chars

LEMMA BlankIs == Blank(" ") /\ " " \in Chars
BY DEF Blank, Chars

\* The first L characters of c, as far as M places go.
Front(c, M, L) == [p \in 0 .. Total - 1 |-> IF p < M /\ p < L THEN Upper(c[p + 1]) ELSE " "]

\* Such a front is an entry that is shown in full.
LEMMA EntryPlain ==
    ASSUME NEW c \in NameSet, NEW e, NEW M \in Nat, NEW L \in Nat,
           \A x \in 1 .. L : Letter(c[x]), e = Front(c, M, L),
           M = NameLen \/ M = Total
    PROVE  \E a, b : Sound(e, a, b)
<1> USE LenAssumption DEF Total
<1>a. PICK a \in 0 .. NameLen : \A p \in 0 .. NameLen - 1 : (p < a) <=> (p < L) BY CutAt
<1>b. PICK b \in 0 .. ExtLen : \A q \in 0 .. ExtLen - 1 : (q < b) <=> (M = Total /\ NameLen + q < L)
  <2>1. CASE M = Total /\ NameLen <= L
    <3>1. L - NameLen \in Nat BY <2>1
    <3>2. PICK b \in 0 .. ExtLen : \A q \in 0 .. ExtLen - 1 : (q < b) <=> (q < L - NameLen) BY <3>1, CutAt
    <3>3. \A q \in 0 .. ExtLen - 1 : (q < L - NameLen) <=> (NameLen + q < L) OBVIOUS
    <3> QED BY <2>1, <3>2, <3>3
  <2>2. CASE ~(M = Total /\ NameLen <= L)
    <3>1. \A q \in 0 .. ExtLen - 1 : ~(q < 0) /\ ~(M = Total /\ NameLen + q < L) BY <2>2
    <3>2. 0 \in 0 .. ExtLen OBVIOUS
    <3> QED BY <3>1, <3>2
  <2> QED BY <2>1, <2>2
<1>1. ASSUME NEW p \in 0 .. Total - 1
      PROVE  e[p] \in Chars /\ IF p < M /\ p < L THEN Solid(e[p]) ELSE Blank(e[p])
  <2>1. CASE p < M /\ p < L
    <3>1. p + 1 \in 1 .. L BY <2>1
    <3>2. e[p] = Upper(c[p + 1]) BY <2>1 DEF Front
    <3>3. Solid(Upper(c[p + 1])) /\ Upper(c[p + 1]) \in Chars BY <3>1, LetterSolid
    <3> QED BY <2>1, <3>2, <3>3
  <2>2. CASE ~(p < M /\ p < L)
    <3>1. e[p] = " " BY <2>2 DEF Front
    <3> QED BY <2>2, <3>1, BlankIs
  <2> QED BY <2>1, <2>2
<1>2. e \in [0 .. Total - 1 -> Chars]
  <2>1. e = [p \in 0 .. Total - 1 |-> e[p]] BY DEF Front
  <2> QED BY <1>1, <2>1
<1>3. ASSUME NEW p \in 0 .. NameLen - 1 PROVE IF p < a THEN Solid(e[p]) ELSE Blank(e[p])
  <2>1. p \in 0 .. Total - 1 /\ p < M OBVIOUS
  <2> QED BY <1>a, <1>1, <2>1
<1>4. ASSUME NEW q \in 0 .. ExtLen - 1 PROVE IF q < b THEN Solid(e[NameLen + q]) ELSE Blank(e[NameLen + q])
  <2>1. PICK y \in Nat : y = NameLen + q OBVIOUS
  <2>2. y \in 0 .. Total - 1 /\ (y < M <=> M = Total) BY <2>1
  <2>3. (q < b) <=> (y < M /\ y < L) BY <1>b, <2>1, <2>2
  <2>4. IF y < M /\ y < L THEN Solid(e[y]) ELSE Blank(e[y]) BY <1>1, <2>2
  <2>5. IF q < b THEN Solid(e[y]) ELSE Blank(e[y]) BY <2>3, <2>4
  <2> QED BY <2>1, <2>5
<1> QED BY <1>2, <1>3, <1>4 DEF Sound

\* Base and extension of c around the dot d.
Halves(c, d, L) ==
    [p \in 0 .. Total - 1 |->
        IF p < NameLen THEN (IF p < d - 1 THEN Upper(c[p + 1]) ELSE " ")
        ELSE IF d + 1 + (p - NameLen) <= L THEN Upper(c[d + 1 + (p - NameLen)]) ELSE " "]

\* So are the two halves of a name with one dot.
LEMMA EntryDotted ==
    ASSUME NEW c \in NameSet, NEW L \in Nat, NEW d \in 1 .. L, NEW e,
           \A x \in 1 .. d - 1 : Letter(c[x]),
           \A x \in d + 1 .. L : x <= d + ExtLen + 1 => Letter(c[x]),
           e = Halves(c, d, L)
    PROVE  \E a, b : Sound(e, a, b)
<1> USE LenAssumption DEF Total
<1>0. d \in Nat /\ d - 1 \in Nat /\ L - d \in Nat OBVIOUS
<1>a. PICK a \in 0 .. NameLen : \A p \in 0 .. NameLen - 1 : (p < a) <=> (p < d - 1) BY <1>0, CutAt
<1>b. PICK b \in 0 .. ExtLen : \A q \in 0 .. ExtLen - 1 : (q < b) <=> (q < L - d) BY <1>0, CutAt
<1>1. ASSUME NEW p \in 0 .. NameLen - 1
      PROVE  e[p] \in Chars /\ IF p < a THEN Solid(e[p]) ELSE Blank(e[p])
  <2>0. p \in 0 .. Total - 1 /\ p < NameLen OBVIOUS
  <2>1. CASE p < d - 1
    <3>1. p + 1 \in 1 .. d - 1 BY <2>1
    <3>2. e[p] = Upper(c[p + 1]) BY <2>0, <2>1 DEF Halves
    <3>3. Solid(Upper(c[p + 1])) /\ Upper(c[p + 1]) \in Chars BY <3>1, LetterSolid
    <3> QED BY <1>a, <2>1, <3>2, <3>3
  <2>2. CASE ~(p < d - 1)
    <3>1. e[p] = " " BY <2>0, <2>2 DEF Halves
    <3> QED BY <1>a, <2>2, <3>1, BlankIs
  <2> QED BY <2>1, <2>2
<1>2. ASSUME NEW q \in 0 .. ExtLen - 1
      PROVE  e[NameLen + q] \in Chars /\ IF q < b THEN Solid(e[NameLen + q]) ELSE Blank(e[NameLen + q])
  <2>0. PICK y \in Nat : y = NameLen + q OBVIOUS
  <2>3. y \in 0 .. Total - 1 /\ ~(y < NameLen) /\ y - NameLen = q BY <2>0
  <2>4. e[y] = IF d + 1 + q <= L THEN Upper(c[d + 1 + q]) ELSE " " BY <2>3 DEF Halves
  <2>1. CASE q < L - d
    <3>1. PICK x \in Nat : x = d + 1 + q OBVIOUS
    <3>2. x \in d + 1 .. L /\ x <= d + ExtLen + 1 /\ x <= L BY <2>1, <3>1
    <3>3. e[y] = Upper(c[x]) BY <2>4, <3>1, <3>2
    <3>4. Solid(Upper(c[x])) /\ Upper(c[x]) \in Chars BY <3>2, LetterSolid
    <3>5. q < b BY <1>b, <2>1
    <3> QED BY <2>0, <3>3, <3>4, <3>5, Zenon
  <2>2. CASE ~(q < L - d)
    <3>1. ~(d + 1 + q <= L) BY <2>2
    <3>2. e[y] = " " BY <2>4, <3>1
    <3>3. ~(q < b) BY <1>b, <2>2
    <3> QED BY <2>0, <3>2, <3>3, BlankIs, Zenon
  <2> QED BY <2>1, <2>2
<1>3. e \in [0 .. Total - 1 -> Chars]
  <2>1. e = [p \in 0 .. Total - 1 |-> e[p]] BY DEF Halves
  <2>2. ASSUME NEW p \in 0 .. Total - 1 PROVE e[p] \in Chars
    <3>1. CASE p < NameLen
      <4>1. p \in 0 .. NameLen - 1 BY <3>1
      <4> QED BY <1>1, <4>1
    <3>2. CASE ~(p < NameLen)
      <4>1. p - NameLen \in 0 .. ExtLen - 1 /\ NameLen + (p - NameLen) = p BY <3>2
      <4>2. e[NameLen + (p - NameLen)] \in Chars BY <1>2, <4>1
      <4> QED BY <4>1, <4>2, Zenon
    <3> QED BY <3>1, <3>2
  <2> QED BY <2>1, <2>2
<1> QED BY <1>1, <1>2, <1>3 DEF Sound

Legal(c) == \A x \in 1 .. Len(c) : c[x] # " " /\ c[x] # "/"
Written(e) == \A q \in 0 .. Total - 1 : e[q] # "?"

\* The entry of an accepted component without blanks is one that readdir shows
\* in full, if all of it was written.
LEMMA EntrySound ==
    ASSUME NEW p \in Seq(NameSet), NEW n \in 1 .. Len(p), Accepted(p, n), ~IsSpecial(p[n]),
           Legal(p[n]), Written(Entry(p, n))
    PROVE  \E a, b : Sound(Entry(p, n), a, b)
<1> DEFINE c == p[n]
           L == Len(c)
<1>1. c \in NameSet /\ L \in Nat /\ c \in [1 .. L -> Chars] BY LenProperties DEF NameSet
<1>2. \A x \in 1 .. L : c[x] # "." => Letter(c[x]) BY <1>1 DEF Letter, Legal
<1>3. CASE NoDotBefore(p, n) /\ ~Dotted(c)
  <2>1. Entry(p, n) = Front(c, NameLen, L) BY <1>1, <1>3, FatPlain DEF Entry, Front
  <2>2. \A x \in 1 .. L : Letter(c[x]) BY <1>2, <1>3 DEF Dotted
  <2> HIDE DEF c, L
  <2>3. NameLen \in Nat BY LenAssumption
  <2> QED BY <1>1, <2>1, <2>2, <2>3, EntryPlain
<1>4. CASE NoDotBefore(p, n) /\ Dotted(c)
  <2>1. PICK d \in 1 .. L - 1 : FirstDot(c, d) /\ Clean(c, d) BY <1>4 DEF Accepted
  <2>2. d \in 1 .. L /\ d \in Nat BY <1>1
  <2>3. Entry(p, n) = Halves(c, d, L) BY <1>1, <1>4, <2>1, <2>2, FatDotted DEF Entry, Halves, IsSpecial
  <2>4. \A x \in 1 .. d - 1 : Letter(c[x])
    <3>1. \A x \in 1 .. d - 1 : x \in 1 .. L BY <1>1, <2>2
    <3> QED BY <1>2, <2>1, <3>1 DEF FirstDot
  <2>5. \A x \in d + 1 .. L : x <= d + ExtLen + 1 => Letter(c[x])
    <3>1. \A x \in d + 1 .. L : x \in 1 .. L BY <1>1, <2>2
    <3> QED BY <1>2, <2>1, <3>1 DEF Clean
  <2> HIDE DEF c, L
  <2> QED BY <1>1, <2>2, <2>3, <2>4, <2>5, EntryDotted
<1>5. CASE ~NoDotBefore(p, n)
  <2>1. Entry(p, n) = Late(c) /\ Clean(c, 0) BY <1>5 DEF Entry, Accepted
  <2>2. L <= ExtLen
    <3> SUFFICES ASSUME ~(L <= ExtLen) PROVE FALSE OBVIOUS
    <3>1. ExtLen \in 0 .. Total - 1 /\ ~(ExtLen < ExtLen) /\ L > ExtLen BY <1>1, LenAssumption DEF Total
    <3>2. Late(c)[ExtLen] = "?" BY <3>1 DEF Late
    <3> QED BY <2>1, <3>1, <3>2 DEF Written
  <2>3. \A x \in 1 .. L : Letter(c[x])
    <3>1. \A x \in 1 .. L : x \in 0 + 1 .. Len(c) /\ x <= 0 + ExtLen + 1 BY <1>1, <2>2, LenAssumption
    <3> QED BY <1>2, <2>1, <3>1 DEF Clean
  <2>4. Late(c) = Front(c, Total, L)
    <3>1. \A q \in 0 .. Total - 1 : (q < L /\ q < ExtLen <=> q < Total /\ q < L) /\ ~(L > ExtLen)
      BY <1>1, <2>2, LenAssumption DEF Total
    <3> QED BY <3>1 DEF Late, Front
  <2>5. Total \in Nat BY LenAssumption DEF Total
  <2> HIDE DEF c, L
  <2> QED BY <1>1, <2>1, <2>3, <2>4, <2>5, EntryPlain
<1> QED BY <1>3, <1>4, <1>5

-----------------------------------------------------------------------------
(* The steps of a lookup *)

Fixed == UNCHANGED <<path, whole, text, round, kept>>

\* A step inside of a lookup keeps what is known of the two lookups.
LEMMA RoundKept == ASSUME RoundInv, Fixed, pc # "call", pc' \in {"run", "done"} PROVE RoundInv'
<1>1. path' = path /\ whole' = whole /\ text' = text /\ round' = round /\ kept' = kept BY DEF Fixed
<1>2. pc' # "call" /\ pc' # "exit" OBVIOUS
<1> QED BY <1>1, <1>2 DEF RoundInv

\* A component that is finished: accepted, with its entry.
LEMMA LookBreaks ==
    ASSUME NamesInv, LookInv, Running, Break,
           \A n \in 1 .. Len(path) : n # i => entries'[n] = entries[n],
           Accepted(path, i), entries'[i] = Entry(path, i),
           flag = 0 => ~Dotted(path[i]) \/ IsSpecial(path[i])
    PROVE  LookInv'
<1>0. /\ path' = path /\ pc' = pc /\ pc = "run" /\ i' = i + 1 /\ j' = 0 /\ k' = 0 /\ flag' = flag
      /\ ext_len' = 0 /\ Fixed
  BY DEF Break, Running, Fixed
<1>1. i \in 1 .. Len(path) /\ i \in Nat /\ Len(path) \in Nat BY InLoop
<1>2. PastInv'
  <2> SUFFICES ASSUME NEW n \in 1 .. Len(path), n < i + 1
               PROVE  Accepted(path, n) /\ entries'[n] = Entry(path, n)
    BY <1>0 DEF PastInv
  <2>1. CASE n = i BY <2>1
  <2>2. CASE n # i
    <3>1. n < i BY <1>1, <2>2
    <3>2. Accepted(path, n) /\ entries[n] = Entry(path, n) BY <1>0, <3>1 DEF LookInv, PastInv
    <3> QED BY <2>2, <3>2
  <2> QED BY <2>1, <2>2
<1>3. FreshInv'
  <2> SUFFICES ASSUME NEW n \in 1 .. Len(path), n > i + 1
               PROVE  entries'[n] = [p \in 0 .. Total - 1 |-> "?"]
    BY <1>0 DEF FreshInv
  <2>1. n > i /\ n # i BY <1>1
  <2> QED BY <1>0, <2>1 DEF LookInv, FreshInv
<1>4. FlagInv'
  <2> SUFFICES ASSUME flag = 0 PROVE NoDotBefore(path, i + 1) BY <1>0 DEF FlagInv
  <2>1. NoDotBefore(path, i) BY <1>0 DEF LookInv, FlagInv
  <2>2. \A m \in 1 .. (i + 1) - 1 : m = i \/ m \in 1 .. i - 1 BY <1>1
  <2>3. ~Dotted(path[i]) \/ path[i] \in {<<".">>, <<".", ".">>} BY DEF IsSpecial
  <2>4. ASSUME NEW m \in 1 .. (i + 1) - 1 PROVE ~Dotted(path[m]) \/ path[m] \in {<<".">>, <<".", ".">>}
    <3>1. CASE m = i BY <2>3, <3>1
    <3>2. CASE m \in 1 .. i - 1 BY <2>1, <3>2 DEF NoDotBefore
    <3> QED BY <2>2, <3>1, <3>2
  <2> QED BY <2>4, Zenon DEF NoDotBefore
<1>5. LateInv'
  <2> SUFFICES ASSUME Running'
               PROVE  /\ \A m \in 1 .. 0 : path[i + 1][m] # "."
                      /\ \A p \in 0 .. 0 - 1 : entries'[i + 1][p] = Upper(path[i + 1][p + 1])
                      /\ \A p \in 0 .. Total - 1 : entries'[i + 1][p] = "?"
    BY <1>0 DEF LateInv
  <2>1. i + 1 \in 1 .. Len(path) /\ i + 1 > i /\ i + 1 # i BY <1>0, <1>1 DEF Running
  <2>2. entries'[i + 1] = [p \in 0 .. Total - 1 |-> "?"] BY <1>0, <2>1 DEF LookInv, FreshInv
  <2>3. \A p \in 0 .. Total - 1 : entries'[i + 1][p] = "?" BY <2>2
  <2>4. (\A m \in 1 .. 0 : FALSE) /\ \A p \in 0 .. 0 - 1 : FALSE OBVIOUS
  <2> QED BY <2>3, <2>4
<1>6. CleanInv'
  <2>1. \A d \in 1 .. j' : FALSE BY <1>0
  <2> QED BY <2>1 DEF CleanInv
<1>7. RoundInv' BY <1>0, RoundKept DEF LookInv
<1> QED BY <1>2, <1>3, <1>4, <1>5, <1>6, <1>7 DEF LookInv

\* The next character of a component; what is left are the parts about it.
LEMMA LookGoes ==
    ASSUME NamesInv, LookInv, Advances, Fixed, LateInv', CleanInv'
    PROVE  LookInv'
<1>0. /\ Running /\ pc = "run" /\ pc' = "run" /\ i' = i /\ path' = path /\ (flag' = 0 => flag = 0)
      /\ \A n \in 1 .. Len(path) : n # i => entries'[n] = entries[n]
  BY DEF Running, Advances
<1>1. i \in 1 .. Len(path) /\ i \in Nat /\ Len(path) \in Nat BY <1>0, InLoop
<1>2. PastInv'
  <2> SUFFICES ASSUME NEW n \in 1 .. Len(path), n < i
               PROVE  Accepted(path, n) /\ entries'[n] = Entry(path, n)
    BY <1>0 DEF PastInv
  <2>1. n # i BY <1>1
  <2>2. Accepted(path, n) /\ entries[n] = Entry(path, n) BY <1>0 DEF LookInv, PastInv
  <2> QED BY <1>0, <2>1, <2>2
<1>3. FreshInv'
  <2> SUFFICES ASSUME NEW n \in 1 .. Len(path), n > i
               PROVE  entries'[n] = [p \in 0 .. Total - 1 |-> "?"]
    BY <1>0 DEF FreshInv
  <2>1. n # i BY <1>1
  <2> QED BY <1>0, <2>1 DEF LookInv, FreshInv
<1>4. FlagInv' BY <1>0 DEF LookInv, FlagInv
<1>7. RoundInv' BY <1>0, RoundKept DEF LookInv
<1> QED BY <1>2, <1>3, <1>4, <1>7 DEF LookInv

\* The component "." or "..".
LEMMA LookDots == ASSUME NamesInv, LookInv, Dots PROVE LookInv'
<1> DEFINE c == path[i]
           e == [p \in 0 .. Total - 1 |-> IF p < Len(c) THEN "." ELSE " "]
<1>1. Running /\ IsSpecial(c) /\ Break /\ entries' = [entries EXCEPT ![i] = e] BY DEF Dots, Special, IsSpecial
<1>2. e \in EntrySet BY CharsHas DEF EntrySet
<1>3. e = FatName(c) BY <1>1, DotsIs
<1> HIDE DEF e
<1>4. entries'[i] = e /\ \A n \in 1 .. Len(path) : n # i => entries'[n] = entries[n]
  BY <1>1, <1>2, EntryChanged
<1>5. Accepted(path, i) /\ entries'[i] = Entry(path, i) BY <1>1, <1>3, <1>4 DEF Accepted, Entry
<1> QED BY <1>1, <1>4, <1>5, LookBreaks

\* In the component with the first dot the extension has no other dot, up to
\* the character after its last place.
LEMMA AcceptDotted ==
    ASSUME NamesInv, LookInv, Running, flag = 1, NoDotBefore(path, i),
           j = Len(path[i]) \/ (ext_len = ExtLen /\ path[i][j + 1] # ".")
    PROVE  Accepted(path, i)
<1> DEFINE c == path[i]
           L == Len(c)
<1>0. L \in Nat /\ j \in 0 .. L BY InLoop
<1>1. PICK d \in 1 .. j : ext_len = j - d /\ FirstDot(c, d) BY DEF NamesInv, ExtInv, Filled, Running
<1>2. d < L /\ \A m \in d + 1 .. j : c[m] # "." BY <1>1 DEF LookInv, CleanInv
<1>3. d \in 1 .. L - 1 BY <1>0, <1>2
<1>4. Clean(c, d)
  <2> SUFFICES ASSUME NEW m \in d + 1 .. L, m <= d + ExtLen + 1 PROVE c[m] # "." BY DEF Clean
  <2>1. CASE m <= j
    <3>1. m \in d + 1 .. j BY <1>0, <1>3, <2>1
    <3> QED BY <1>2, <3>1
  <2>2. CASE ~(m <= j)
    <3>1. j # L BY <1>0, <1>3, <2>2
    <3>2. ext_len = ExtLen /\ c[j + 1] # "." BY <3>1
    <3>3. m = j + 1 BY <1>0, <1>1, <1>3, <2>2, <3>2, LenAssumption
    <3> QED BY <3>2, <3>3
  <2> QED BY <2>1, <2>2
<1> QED BY <1>1, <1>3, <1>4 DEF Accepted

\* After the component with a dot, the first ExtLen + 1 characters have none.
LEMMA AcceptLate ==
    ASSUME NamesInv, LookInv, Running, flag = 1, ~NoDotBefore(path, i),
           j = Len(path[i]) \/ (ext_len = ExtLen /\ path[i][j + 1] # ".")
    PROVE  Accepted(path, i)
<1> DEFINE c == path[i]
           L == Len(c)
<1>0. L \in Nat /\ j \in 0 .. L BY InLoop
<1>1. j = ext_len /\ \A m \in 1 .. j : c[m] # "." BY DEF LookInv, LateInv
<1>2. Clean(c, 0)
  <2> SUFFICES ASSUME NEW m \in 0 + 1 .. L, m <= 0 + ExtLen + 1 PROVE c[m] # "." BY DEF Clean
  <2>1. CASE m <= j
    <3>1. m \in 1 .. j BY <1>0, <2>1
    <3> QED BY <1>1, <3>1
  <2>2. CASE ~(m <= j)
    <3>1. j # L BY <1>0, <2>2
    <3>2. ext_len = ExtLen /\ c[j + 1] # "." BY <3>1
    <3>3. m = j + 1 BY <1>0, <1>1, <2>2, <3>2, LenAssumption
    <3> QED BY <3>2, <3>3
  <2> QED BY <2>1, <2>2
<1> QED BY <1>2 DEF Accepted

\* The end of a component, in each of its three cases.
LEMMA LookEnd == ASSUME NamesInv, LookInv, End PROVE LookInv'
<1> DEFINE c == path[i]
           pad == [p \in 0 .. Total - 1 |-> IF p \in k .. Total - 1 THEN " " ELSE entries[i][p]]
<1>1. Running /\ pc = "run" /\ Char = "" /\ entries' = Padded(k, Total - 1) /\ Break BY DEF End, Running
<1>2. j = Len(c) /\ j \in Nat BY <1>1, CharUnder, InLoop
<1>3. k \in Int /\ Total - 1 \in Int /\ flag \in {0, 1} BY LenAssumption DEF NamesInv, IInv, TypeOK, Total
<1>4. entries'[i] = pad /\ \A n \in 1 .. Len(path) : n # i => entries'[n] = entries[n]
  BY <1>1, <1>3, PaddedEntry
<1> DEFINE Goal == /\ Accepted(path, i) /\ entries'[i] = Entry(path, i)
                   /\ flag = 0 => ~Dotted(c) \/ IsSpecial(c)
<1> SUFFICES Goal
  <2> HIDE DEF pad
  <2> QED BY <1>1, <1>4, LookBreaks
<1>5. CASE flag = 0
  <2>1. NoDotBefore(path, i) BY <1>1, <1>5 DEF LookInv, FlagInv
  <2>2. ~Dotted(c) BY <1>1, <1>2, <1>5 DEF NamesInv, Within, Dotted
  <2>3. pad = FatName(c) BY <1>1, <1>2, <1>5, <2>1, PlainFinished
  <2>4. Accepted(path, i) /\ entries'[i] = Entry(path, i) BY <1>4, <2>1, <2>2, <2>3 DEF Accepted, Entry
  <2> QED BY <2>2, <2>4
<1>6. CASE flag = 1 /\ NoDotBefore(path, i)
  <2>1. Accepted(path, i) BY <1>1, <1>2, <1>6, AcceptDotted
  <2>2. pad = FatName(c) BY <1>1, <1>2, <1>6, DottedFinished
  <2>3. entries'[i] = Entry(path, i) BY <1>4, <1>6, <2>2 DEF Entry
  <2> QED BY <1>6, <2>1, <2>3
<1>7. CASE flag = 1 /\ ~NoDotBefore(path, i)
  <2>1. Accepted(path, i) BY <1>1, <1>2, <1>7, AcceptLate
  <2>2. ~IsSpecial(c)
    <3> SUFFICES ASSUME IsSpecial(c) PROVE FALSE OBVIOUS
    <3>1. Len(c) = 0 BY <1>1, <1>2 DEF NamesInv, Within, Special, IsSpecial
    <3>2. CASE c = <<".">> BY <3>1, <3>2
    <3>3. CASE c = <<".", ".">> BY <3>1, <3>3
    <3> QED BY <3>2, <3>3 DEF IsSpecial
  <2>3. /\ j = ext_len /\ k = ext_len /\ \A p \in 0 .. k - 1 : entries[i][p] = Upper(c[p + 1])
    BY <1>1, <1>7 DEF LookInv, LateInv
  <2>4. ext_len \in 0 .. ExtLen BY DEF NamesInv, IInv, TypeOK
  <2>5. pad = Late(c)
    <3> SUFFICES ASSUME NEW p \in 0 .. Total - 1
                 PROVE (IF p \in k .. Total - 1 THEN " " ELSE entries[i][p])
                       = IF p < Len(c) /\ p < ExtLen THEN Upper(c[p + 1])
                         ELSE IF Len(c) > ExtLen THEN "?" ELSE " "
      BY DEF Late
    <3>0. ~(Len(c) > ExtLen) /\ k = Len(c) /\ k \in Nat /\ k <= ExtLen BY <1>2, <2>3, <2>4, LenAssumption
    <3>1. CASE p < k
      <4>1. p < Len(c) /\ p < ExtLen /\ p \in 0 .. k - 1 /\ p \notin k .. Total - 1
        BY <3>0, <3>1, LenAssumption DEF Total
      <4> QED BY <2>3, <4>1
    <3>2. CASE ~(p < k)
      <4>1. ~(p < Len(c)) /\ p \in k .. Total - 1 BY <3>0, <3>2, LenAssumption DEF Total
      <4> QED BY <3>0, <4>1
    <3> QED BY <3>1, <3>2
  <2>6. entries'[i] = Entry(path, i) BY <1>4, <1>7, <2>2, <2>5 DEF Entry
  <2> QED BY <1>7, <2>1, <2>6
<1> QED BY <1>3, <1>5, <1>6, <1>7

\* An extension that is too long, or a later name that is longer than one.
LEMMA LookFull == ASSUME NamesInv, LookInv, Full PROVE LookInv'
<1> DEFINE c == path[i]
<1>1. Running /\ pc = "run" /\ Plain /\ Break /\ entries' = entries /\ ext_len = ExtLen BY DEF Full, Plain, Running
<1>2. flag = 1 BY <1>1, LenAssumption DEF NamesInv, IInv, TypeOK, Place0
<1>3. j < Len(c) /\ j \in Nat /\ Len(c) \in Nat /\ c[j + 1] # "."
  <2>1. Char # "" /\ Char # "." BY <1>1 DEF Plain
  <2>2. j < Len(c) /\ Char = c[j + 1] BY <1>1, <2>1, CharUnder
  <2>3. Len(c) \in Nat /\ j \in 0 .. Len(c) BY <1>1, InLoop
  <2>4. j \in Nat BY <2>3
  <2> QED BY <2>1, <2>2, <2>3, <2>4
<1>4. i \in 1 .. Len(path) /\ i \in Nat /\ entries[i] \in EntrySet BY <1>1, InLoop
<1> SUFFICES Accepted(path, i) /\ entries[i] = Entry(path, i) BY <1>1, <1>2, LookBreaks
<1>5. CASE NoDotBefore(path, i)
  <2>1. Accepted(path, i) BY <1>1, <1>2, <1>3, <1>5, AcceptDotted
  <2>2. entries[i] = FatName(c)
    <3>1. DoneInv' BY StepFull DEF Parts
    <3>2. i' = i + 1 /\ path' = path /\ pc' = "run" /\ i < i + 1 BY <1>1, <1>4 DEF Break
    <3> QED BY <1>1, <1>4, <1>5, <3>1, <3>2 DEF DoneInv
  <2> QED BY <1>5, <2>1, <2>2 DEF Entry
<1>6. CASE ~NoDotBefore(path, i)
  <2>1. Accepted(path, i) BY <1>1, <1>2, <1>3, <1>6, AcceptLate
  <2>2. ~IsSpecial(c) BY <1>1, PlainNotSpecial DEF Special, IsSpecial
  <2>3. /\ j = ext_len /\ k = ext_len /\ \A p \in 0 .. k - 1 : entries[i][p] = Upper(c[p + 1])
        /\ \A p \in k .. Total - 1 : entries[i][p] = "?"
    BY <1>1, <1>2, <1>6 DEF LookInv, LateInv
  <2>4. k = ExtLen /\ k \in Nat /\ Len(c) > ExtLen BY <1>1, <1>3, <2>3, LenAssumption
  <2>5. entries[i] = [p \in 0 .. Total - 1 |-> entries[i][p]] BY <1>4 DEF EntrySet
  <2>6. entries[i] = Late(c)
    <3> SUFFICES ASSUME NEW p \in 0 .. Total - 1
                 PROVE entries[i][p] = IF p < Len(c) /\ p < ExtLen THEN Upper(c[p + 1])
                         ELSE IF Len(c) > ExtLen THEN "?" ELSE " "
      BY <2>5 DEF Late
    <3>1. CASE p < k
      <4>1. p < Len(c) /\ p < ExtLen /\ p \in 0 .. k - 1 BY <1>3, <2>4, <3>1, LenAssumption DEF Total
      <4> QED BY <2>3, <4>1
    <3>2. CASE ~(p < k)
      <4>1. ~(p < ExtLen) /\ p \in k .. Total - 1 BY <2>4, <3>2, LenAssumption DEF Total
      <4> QED BY <2>3, <2>4, <4>1
    <3> QED BY <3>1, <3>2
  <2> QED BY <1>6, <2>1, <2>2, <2>6 DEF Entry
<1> QED BY <1>5, <1>6

LEMMA LookSkip == ASSUME NamesInv, LookInv, Skip PROVE LookInv'
<1>r. Running /\ Plain /\ Char # "" /\ Char # "." BY DEF Skip, Plain
<1>1. flag = 0 /\ flag' = 0 /\ entries' = entries /\ Fixed BY DEF Skip, Fixed
<1>2. entries \in Seq(EntrySet) BY <1>r, InLoop
<1>3. ~Special BY <1>r, PlainNotSpecial
<1>4. Advances BY <1>r, <1>1, <1>2, <1>3 DEF Advances, Skip
<1>5. flag' # 1 BY <1>1
<1>6. LateInv' /\ CleanInv' BY <1>5 DEF LateInv, CleanInv
<1> QED BY <1>1, <1>4, <1>6, LookGoes

\* The first dot.
LEMMA LookDotPad == ASSUME NamesInv, LookInv, DotPad PROVE LookInv'
<1> DEFINE c == path[i]
<1>r. Running /\ pc = "run" /\ Char = "." /\ ~(j = 0 /\ Special) BY DEF DotPad, Running
<1>1. /\ flag = 0 /\ flag' = 1 /\ entries' = Padded(k, NameLen - 1) /\ j' = j + 1 /\ j + 1 # Len(c)
      /\ i' = i /\ path' = path /\ pc' = pc /\ Fixed
  BY DEF DotPad, Fixed
<1>2. c \in NameSet /\ j \in 0 .. Len(c) /\ Len(c) \in Nat BY <1>r, InLoop
<1>3. ~Special BY <1>r DEF NamesInv, Within
<1>4. k \in Int /\ NameLen - 1 \in Int BY LenAssumption DEF NamesInv, IInv, TypeOK, Total
<1>5. /\ entries' \in Seq(EntrySet) /\ Len(entries') = Len(entries)
      /\ \A n \in 1 .. Len(path) : n # i => entries'[n] = entries[n]
  BY <1>r, <1>1, <1>4, PaddedEntry
<1>6. Advances BY <1>r, <1>1, <1>3, <1>5 DEF Advances, Fixed
<1>7. NoDotBefore(path, i) BY <1>r, <1>1 DEF LookInv, FlagInv
<1>8. LateInv' BY <1>1, <1>7 DEF LateInv
<1>9. j < Len(c) BY <1>r, CharUnder
<1>10. CleanInv'
  <2> SUFFICES ASSUME NEW d \in 1 .. j + 1, FirstDot(c, d)
               PROVE  d < Len(c) /\ \A m \in d + 1 .. j + 1 : c[m] # "."
    BY <1>1 DEF CleanInv
  <2>1. ~(d \in 1 .. j) BY <1>r, <1>1 DEF NamesInv, Within, FirstDot
  <2>2. d = j + 1 BY <1>2, <2>1
  <2>3. d < Len(c) /\ \A m \in d + 1 .. j + 1 : FALSE BY <1>1, <1>2, <1>9, <2>2
  <2> QED BY <2>3
<1> QED BY <1>1, <1>6, <1>8, <1>10, LookGoes

\* A character stored.
LEMMA LookStore == ASSUME NamesInv, LookInv, Store PROVE LookInv'
<1> DEFINE c == path[i]
           e == [entries[i] EXCEPT ![k] = Upper(Char)]
<1>r. Running /\ Plain /\ Char # "" /\ Char # "." BY DEF Store, Writes, Plain
<1>1. /\ i' = i /\ path' = path /\ pc' = pc /\ flag' = flag /\ j' = j + 1 /\ k' = k + 1 /\ Fixed
      /\ flag = 1 => ext_len' = ext_len + 1
  BY DEF Store, Fixed
<1>2. c \in NameSet /\ j \in 0 .. Len(c) /\ Len(c) \in Nat /\ entries[i] \in EntrySet
  BY <1>r, InLoop
<1>j. j \in Nat BY <1>2
<1>3. ~Special BY <1>r, PlainNotSpecial
<1>4. j < Len(c) /\ Char = c[j + 1] /\ Char \in Chars BY <1>r, CharUnder
<1>5. k \in 0 .. Total - 1
  <2>1. k \in 0 .. Total /\ Writes BY DEF Store, NamesInv, IInv, TypeOK
  <2> USE LenAssumption DEF Total
  <2>2. name_len \in 0 .. NameLen /\ ext_len \in 0 .. ExtLen /\ flag \in {0, 1}
        /\ ext_len # ExtLen /\ ~(name_len = NameLen /\ flag = 0)
        /\ (flag = 0 => k = name_len) /\ (flag = 1 => k = NameLen + ext_len \/ k = ext_len)
    BY <2>1 DEF Writes, NamesInv, IInv, TypeOK, Place0, Place1
  <2> QED BY <2>1, <2>2
<1>6. e \in EntrySet
  <2>1. Upper(Char) \in Chars BY <1>4 DEF Upper, Chars
  <2> QED BY <1>2, <2>1 DEF EntrySet
<1>7. entries' = [entries EXCEPT ![i] = e] BY DEF Store
<1>8. e[k] = Upper(c[j + 1]) /\ \A p \in 0 .. Total - 1 : p # k => e[p] = entries[i][p]
  BY <1>2, <1>4, <1>5 DEF EntrySet
<1> HIDE DEF e
<1>9. /\ entries' \in Seq(EntrySet) /\ Len(entries') = Len(entries) /\ entries'[i] = e
      /\ \A n \in 1 .. Len(path) : n # i => entries'[n] = entries[n]
  BY <1>r, <1>6, <1>7, EntryChanged
<1>10. Advances BY <1>r, <1>1, <1>3, <1>9 DEF Advances, Fixed
<1>d. c[j + 1] # "." BY <1>r, <1>4
<1>11. LateInv'
  <2> SUFFICES ASSUME flag = 1, ~NoDotBefore(path, i)
               PROVE  /\ j + 1 = ext_len' /\ k + 1 = ext_len'
                      /\ \A m \in 1 .. j + 1 : c[m] # "."
                      /\ \A p \in 0 .. (k + 1) - 1 : e[p] = Upper(c[p + 1])
                      /\ \A p \in k + 1 .. Total - 1 : e[p] = "?"
    <3>1. entries'[i'] = e /\ path'[i'] = c BY <1>1, <1>9
    <3> QED BY <1>1, <3>1 DEF LateInv
  <2>1. /\ j = ext_len /\ k = ext_len /\ \A m \in 1 .. j : c[m] # "."
        /\ \A p \in 0 .. k - 1 : entries[i][p] = Upper(c[p + 1])
        /\ \A p \in k .. Total - 1 : entries[i][p] = "?"
    BY <1>r DEF LookInv, LateInv
  <2>2. j + 1 = ext_len' /\ k + 1 = ext_len' /\ k = j BY <1>1, <1>j, <2>1
  <2>3. ASSUME NEW m \in 1 .. j + 1 PROVE c[m] # "."
    <3>1. CASE m = j + 1 BY <1>d, <3>1
    <3>2. CASE m # j + 1
      <4>1. m \in 1 .. j BY <1>2, <3>2
      <4> QED BY <2>1, <4>1
    <3> QED BY <3>1, <3>2
  <2>4. ASSUME NEW p \in 0 .. (k + 1) - 1 PROVE e[p] = Upper(c[p + 1])
    <3>1. CASE p = k
      <4>1. p + 1 = j + 1 BY <2>2, <3>1
      <4> QED BY <1>8, <3>1, <4>1
    <3>2. CASE p # k
      <4>1. p \in 0 .. k - 1 /\ p \in 0 .. Total - 1 BY <1>5, <3>2, LenAssumption DEF Total
      <4> QED BY <1>8, <2>1, <3>2, <4>1
    <3> QED BY <3>1, <3>2
  <2>5. ASSUME NEW p \in k + 1 .. Total - 1 PROVE e[p] = "?"
    <3>1. p # k /\ p \in k .. Total - 1 /\ p \in 0 .. Total - 1 BY <1>5, LenAssumption DEF Total
    <3> QED BY <1>8, <2>1, <3>1
  <2> QED BY <2>2, <2>3, <2>4, <2>5
<1>12. CleanInv'
  <2> SUFFICES ASSUME flag = 1, NoDotBefore(path, i), NEW d \in 1 .. j + 1, FirstDot(c, d)
               PROVE  d < Len(c) /\ \A m \in d + 1 .. j + 1 : c[m] # "."
    BY <1>1 DEF CleanInv
  <2>1. d # j + 1 BY <1>d DEF FirstDot
  <2>2. d \in 1 .. j BY <1>2, <2>1
  <2>3. d < Len(c) /\ \A m \in d + 1 .. j : c[m] # "." BY <1>r, <2>2 DEF LookInv, CleanInv
  <2>4. ASSUME NEW m \in d + 1 .. j + 1 PROVE c[m] # "."
    <3>1. CASE m = j + 1 BY <1>d, <3>1
    <3>2. CASE m # j + 1
      <4>1. m \in d + 1 .. j BY <1>2, <2>2, <3>2
      <4> QED BY <2>3, <4>1
    <3> QED BY <3>1, <3>2
  <2> QED BY <2>3, <2>4
<1> QED BY <1>1, <1>10, <1>11, <1>12, LookGoes

\* The driver does not exit in a component that path_split accepts.
LEMMA NoExit == ASSUME NamesInv, LookInv, DotExit, Accepted(path, i) PROVE FALSE
<1> DEFINE c == path[i]
           L == Len(c)
<1>r. Running /\ pc = "run" /\ Char = "." /\ ~(j = 0 /\ Special) /\ (flag = 1 \/ j + 1 = L)
  BY DEF DotExit, Running
<1>1. j < L /\ c[j + 1] = "." BY <1>r, CharUnder
<1>2. L \in Nat /\ j \in 0 .. L /\ j + 1 \in 1 .. L
  <2>1. L \in Nat /\ j \in 0 .. L BY <1>r, InLoop
  <2>2. j < L BY <1>1
  <2> QED BY <2>1, <2>2
<1>3. ~IsSpecial(c) BY <1>r DEF NamesInv, Within, Special, IsSpecial
<1>4. flag \in {0, 1} /\ ext_len \in 0 .. ExtLen BY DEF NamesInv, IInv, TypeOK
<1>5. CASE NoDotBefore(path, i)
  <2>1. Dotted(c) BY <1>1, <1>2 DEF Dotted
  <2>2. PICK d \in 1 .. L - 1 : FirstDot(c, d) /\ Clean(c, d) BY <1>3, <1>5, <2>1 DEF Accepted
  <2>3. CASE flag = 1
    <3>1. PICK f \in 1 .. j : ext_len = j - f /\ FirstDot(c, f)
      BY <1>r, <1>5, <2>3 DEF NamesInv, ExtInv, Filled
    <3>2. f = d
      <4>1. ~(f < d)
        <5> SUFFICES ASSUME f < d PROVE FALSE OBVIOUS
        <5>1. f \in 1 .. d - 1 BY <1>2
        <5> QED BY <2>2, <3>1, <5>1 DEF FirstDot
      <4>2. ~(d < f)
        <5> SUFFICES ASSUME d < f PROVE FALSE OBVIOUS
        <5>1. d \in 1 .. f - 1 BY <1>2
        <5> QED BY <2>2, <3>1, <5>1 DEF FirstDot
      <4> QED BY <1>2, <4>1, <4>2
    <3>3. j + 1 \in d + 1 .. L /\ j + 1 <= d + ExtLen + 1 BY <1>2, <1>4, <3>1, <3>2, LenAssumption
    <3> QED BY <1>1, <2>2, <3>3 DEF Clean
  <2>4. CASE flag = 0
    <3>1. d \in 1 .. j BY <1>2, <1>r, <2>4
    <3> QED BY <1>r, <2>2, <2>4, <3>1 DEF NamesInv, Within, FirstDot
  <2> QED BY <1>4, <2>3, <2>4
<1>6. CASE ~NoDotBefore(path, i)
  <2>1. flag = 1 BY <1>r, <1>4, <1>6 DEF LookInv, FlagInv
  <2>2. j = ext_len BY <1>r, <1>6, <2>1 DEF LookInv, LateInv
  <2>3. Clean(c, 0) BY <1>3, <1>6 DEF Accepted
  <2>4. j + 1 \in 0 + 1 .. L /\ j + 1 <= 0 + ExtLen + 1 BY <1>2, <1>4, <2>2, LenAssumption
  <2> QED BY <1>1, <2>3, <2>4 DEF Clean
<1> QED BY <1>5, <1>6

\* The driver exits, so this is not a second lookup.
LEMMA LookDotExit == ASSUME NamesInv, LookInv, DotExit PROVE LookInv'
<1>0. Running /\ pc = "run" /\ pc' = "exit" /\ Fixed BY DEF DotExit, Running, Fixed
<1>1. RoundInv'
  <2>1. path' = path /\ whole' = whole /\ text' = text /\ round' = round /\ kept' = kept BY <1>0 DEF Fixed
  <2>2. ~(round = 2 /\ NoBlanks(whole))
    <3> SUFFICES ASSUME round = 2, NoBlanks(whole) PROVE FALSE OBVIOUS
    <3>1. Expected(path, kept) BY <1>0 DEF LookInv, RoundInv
    <3>2. i \in 1 .. Len(path) BY <1>0, InLoop
    <3>3. Accepted(path, i) BY <3>1, <3>2 DEF Expected
    <3> QED BY <3>3, NoExit
  <2>3. round = 1 => text = Cut(whole) /\ path = org_path_split(whole) BY <1>0 DEF LookInv, RoundInv
  <2>4. pc' # "call" BY <1>0
  <2> QED BY <2>1, <2>2, <2>3, <2>4 DEF RoundInv
<1> QED BY <1>0, <1>1 DEF LookInv, PastInv, FreshInv, FlagInv, LateInv, CleanInv, Running

LEMMA LookReturn == ASSUME NamesInv, LookInv, Return PROVE LookInv'
<1>0. pc = "run" /\ pc' = "done" /\ Fixed /\ i' = i /\ entries' = entries BY DEF Return, Fixed, loop
<1>1. PastInv' BY <1>0 DEF LookInv, PastInv, Fixed
<1>2. RoundInv' BY <1>0, RoundKept DEF LookInv
<1> QED BY <1>0, <1>1, <1>2 DEF LookInv, FreshInv, FlagInv, LateInv, CleanInv, Running

LEMMA LookSplit == ASSUME NamesInv, LookInv, Split PROVE LookInv'
<1>0. /\ pc = "call" /\ pc' = "run" /\ i' = 1 /\ j' = 0 /\ flag' = 0
      /\ path' = org_path_split(text) /\ text' = Cut(text)
      /\ whole' = whole /\ round' = round /\ kept' = kept
      /\ entries' = [n \in 1 .. depth(text) |-> [p \in 0 .. Total - 1 |-> "?"]]
  BY DEF Split
<1>1. Len(path') = depth(text) /\ depth(text) \in Nat BY <1>0, Components, SlashPlace DEF NamesInv, Shapes
<1>2. PastInv'
  <2>1. \A n \in 1 .. Len(path') : ~(n < i') BY <1>0, <1>1
  <2> QED BY <2>1 DEF PastInv
<1>3. FreshInv' BY <1>0, <1>1 DEF FreshInv
<1>4. FlagInv'
  <2>1. \A m \in 1 .. i' - 1 : FALSE BY <1>0
  <2> QED BY <2>1 DEF FlagInv, NoDotBefore
<1>5. LateInv' /\ CleanInv' BY <1>0 DEF LateInv, CleanInv
<1>6. RoundInv'
  <2>1. round = 1 => text' = Cut(whole) /\ path' = org_path_split(whole) BY <1>0 DEF LookInv, RoundInv
  <2>2. round = 2 /\ NoBlanks(whole) => Expected(path', kept) BY <1>0 DEF LookInv, RoundInv
  <2> QED BY <1>0, <2>1, <2>2 DEF RoundInv
<1> QED BY <1>2, <1>3, <1>4, <1>5, <1>6 DEF LookInv

-----------------------------------------------------------------------------
(* The second lookup *)

\* What path_split does with a component depends on those up to it.
LEMMA SamePrefix ==
    ASSUME NEW p, NEW q, NEW n \in Nat \ {0}, \A m \in 1 .. n : p[m] = q[m], Accepted(p, n)
    PROVE  Accepted(q, n) /\ Entry(q, n) = Entry(p, n)
<1>1. p[n] = q[n] /\ \A m \in 1 .. n - 1 : p[m] = q[m] OBVIOUS
<1>2. NoDotBefore(p, n) <=> NoDotBefore(q, n) BY <1>1 DEF NoDotBefore
<1> QED BY <1>1, <1>2 DEF Accepted, Entry

\* After the first lookup.
LEMMA AfterFirst ==
    ASSUME NamesInv, LookInv, pc = "done", round = 1
    PROVE  /\ IsPath(whole) /\ text = Cut(whole) /\ path = org_path_split(whole)
           /\ Len(path) = depth(whole) /\ depth(whole) \in Nat \ {0}
           /\ path \in Seq(NameSet) /\ entries \in Seq(EntrySet) /\ Len(entries) = depth(whole)
           /\ \A n \in 1 .. depth(whole) : Accepted(path, n) /\ entries[n] = Entry(path, n)
<1>1. IsPath(whole) /\ path \in Seq(NameSet) /\ entries \in Seq(EntrySet) /\ Len(path) = Len(entries)
  BY DEF NamesInv, Shapes
<1>2. text = Cut(whole) /\ path = org_path_split(whole) BY DEF LookInv, RoundInv
<1>3. Len(path) = depth(whole) /\ depth(whole) \in Nat \ {0} BY <1>1, <1>2, Components, SlashPlace
<1>4. i \in Nat /\ i > Len(path) BY DEF NamesInv, IInv, TypeOK, DoneInv
<1>5. \A n \in 1 .. depth(whole) : n \in 1 .. Len(path) /\ n < i BY <1>3, <1>4
<1>6. \A n \in 1 .. depth(whole) : Accepted(path, n) /\ entries[n] = Entry(path, n)
  BY <1>5 DEF LookInv, PastInv
<1> QED BY <1>1, <1>2, <1>3, <1>6

\* The first n components of the path, looked up again.
LEMMA PrefixExpected ==
    ASSUME NamesInv, LookInv, pc = "done", round = 1, NEW n \in 1 .. depth(whole)
    PROVE  Expected(org_path_split(SubSeq(whole, 1, Slash(whole, n + 1) - 1)), SubSeq(entries, 1, n))
<1> DEFINE u == SubSeq(whole, 1, Slash(whole, n + 1) - 1)
           q == org_path_split(u)
           e == SubSeq(entries, 1, n)
<1>1. /\ IsPath(whole) /\ path = org_path_split(whole) /\ depth(whole) \in Nat \ {0}
      /\ entries \in Seq(EntrySet) /\ Len(entries) = depth(whole)
      /\ \A m \in 1 .. depth(whole) : Accepted(path, m) /\ entries[m] = Entry(path, m)
  BY AfterFirst
<1>2. IsPath(u) /\ depth(u) = n /\ \A m \in 1 .. n : org_path_split(u)[m] = org_path_split(whole)[m]
  BY <1>1, PrefixSplit
<1>3. Len(q) = n BY <1>2, Components
<1> HIDE DEF u, q
<1>4. \A m \in 1 .. n : q[m] = path[m] BY <1>1, <1>2 DEF q
<1>5. n \in Nat /\ n <= depth(whole) BY <1>1
<1>6. e \in Seq(EntrySet) /\ Len(e) = n /\ \A m \in 1 .. n : e[m] = entries[m]
  <2>1. 1 \in Int /\ n \in Int /\ 1 <= n /\ n - 1 + 1 = n BY <1>5
  <2>2. \A m \in 1 .. n : m \in 1 .. Len(entries) /\ 1 + m - 1 = m BY <1>1, <1>5
  <2>3. \A m \in 1 .. n : entries[m] \in EntrySet BY <1>1, <2>2
  <2>4. e \in Seq(EntrySet) /\ Len(e) = (IF 1 <= n THEN n - 1 + 1 ELSE 0)
        /\ \A m \in 1 .. n - 1 + 1 : e[m] = entries[1 + m - 1]
    BY <2>1, <2>3, SubSeqProperties
  <2> HIDE DEF e
  <2>5. \A m \in 1 .. n : e[m] = entries[1 + m - 1] BY <2>1, <2>4
  <2> QED BY <2>1, <2>2, <2>4, <2>5
<1> HIDE DEF e
<1>7. ASSUME NEW m \in 1 .. n PROVE Accepted(q, m) /\ e[m] = Entry(q, m)
  <2>1. m \in 1 .. depth(whole) /\ m \in Nat \ {0} BY <1>1, <1>5
  <2>2. \A x \in 1 .. m : path[x] = q[x]
    <3>1. \A x \in 1 .. m : x \in 1 .. n BY <1>5
    <3> QED BY <1>4, <3>1
  <2>3. Accepted(path, m) /\ entries[m] = Entry(path, m) BY <1>1, <2>1
  <2>4. Accepted(q, m) /\ Entry(q, m) = Entry(path, m) BY <2>1, <2>2, <2>3, SamePrefix
  <2> QED BY <1>6, <2>3, <2>4
<1>8. Expected(q, e) BY <1>3, <1>6, <1>7 DEF Expected
<1> QED BY <1>8 DEF q, u, e

\* A second lookup of t begins, of which e is expected.
LEMMA LookSecond ==
    ASSUME NamesInv, LookInv, NEW t, NEW e, Second(t, e),
           NoBlanks(whole) => Expected(org_path_split(t), e)
    PROVE  LookInv'
<1>0. pc' = "call" /\ round' = 2 /\ text' = t /\ kept' = e /\ whole' = whole BY DEF Second
<1>1. RoundInv' BY <1>0 DEF RoundInv
<1>2. pc' # "run" /\ pc' # "done" BY <1>0
<1> QED BY <1>1, <1>2 DEF LookInv, PastInv, FreshInv, FlagInv, LateInv, CleanInv, Running

\* write_path: the cut string has the first component.
LEMMA LookAgain == ASSUME NamesInv, LookInv, Again PROVE LookInv'
<1>0. pc = "done" /\ round = 1 /\ Second(text, <<entries[1]>>) BY DEF Again, Second
<1>1. /\ text = Cut(whole) /\ depth(whole) \in Nat \ {0}
      /\ entries \in Seq(EntrySet) /\ Len(entries) = depth(whole)
  BY <1>0, AfterFirst
<1>2. 1 \in 1 .. depth(whole) /\ 1 + 1 = 2 BY <1>1
<1>3. Expected(org_path_split(SubSeq(whole, 1, Slash(whole, 1 + 1) - 1)), SubSeq(entries, 1, 1))
  BY <1>0, <1>2, PrefixExpected
<1>4. SubSeq(whole, 1, Slash(whole, 1 + 1) - 1) = text BY <1>1, <1>2 DEF Cut
<1>5. SubSeq(entries, 1, 1) = <<entries[1]>>
  <2>1. entries[1] \in EntrySet BY <1>1, <1>2
  <2>2. <<entries[1]>> \in Seq(EntrySet) /\ Len(<<entries[1]>>) = 1 /\ <<entries[1]>>[1] = entries[1]
    BY <2>1, ShortSeq
  <2>3. 1 \in Int /\ 1 <= 1 /\ 1 - 1 + 1 = 1 /\ 1 + 1 - 1 = 1 /\ \A x \in 1 .. 1 : x = 1 OBVIOUS
  <2>4. SubSeq(entries, 1, 1) \in Seq(EntrySet) /\ Len(SubSeq(entries, 1, 1)) = (IF 1 <= 1 THEN 1 - 1 + 1 ELSE 0)
        /\ \A x \in 1 .. 1 - 1 + 1 : SubSeq(entries, 1, 1)[x] = entries[1 + x - 1]
    BY <2>1, <2>3, SubSeqProperties
  <2>5. Len(SubSeq(entries, 1, 1)) = 1 /\ SubSeq(entries, 1, 1)[1] = entries[1] BY <2>3, <2>4
  <2> QED BY <2>2, <2>3, <2>4, <2>5, SeqEqual
<1>6. Expected(org_path_split(text), <<entries[1]>>) BY <1>3, <1>4, <1>5
<1> QED BY <1>0, <1>6, LookSecond

\* mknod, unlink and edit_size: the parent has all but the last component.
LEMMA LookParent == ASSUME NamesInv, LookInv, Parent PROVE LookInv'
<1> DEFINE n == depth(whole) - 1
<1>0. /\ pc = "done" /\ round = 1 /\ depth(whole) > 1
      /\ Second(get_prt_path(whole), SubSeq(entries, 1, Len(entries) - 1))
  BY DEF Parent, Second
<1>1. IsPath(whole) /\ depth(whole) \in Nat \ {0} /\ Len(entries) = depth(whole) BY <1>0, AfterFirst
<1>2. n \in 1 .. depth(whole) /\ n + 1 = depth(whole) /\ depth(whole) # 1 BY <1>0, <1>1
<1>3. Expected(org_path_split(SubSeq(whole, 1, Slash(whole, n + 1) - 1)), SubSeq(entries, 1, n))
  BY <1>0, <1>2, PrefixExpected
<1>4. get_prt_path(whole) = SubSeq(whole, 1, Slash(whole, n + 1) - 1)
  <2>1. Len(org_path_split(whole)[depth(whole)]) = Len(whole) - Slash(whole, depth(whole)) BY <1>1, Components
  <2>2. Len(whole) \in Nat /\ Slash(whole, depth(whole)) \in 1 .. Len(whole) + 1
    BY <1>1, SlashPlace, LenProperties DEF IsPath
  <2>3. Len(whole) - (Len(whole) - Slash(whole, depth(whole))) - 1 = Slash(whole, depth(whole)) - 1 BY <2>2
  <2>4. get_prt_path(whole) = SubSeq(whole, 1, Len(whole) - Len(org_path_split(whole)[depth(whole)]) - 1)
    BY <1>2 DEF get_prt_path
  <2> HIDE DEF n
  <2> QED BY <1>2, <2>1, <2>3, <2>4
<1>5. Expected(org_path_split(get_prt_path(whole)), SubSeq(entries, 1, Len(entries) - 1)) BY <1>1, <1>3, <1>4
<1> QED BY <1>0, <1>5, LookSecond

\* The name that readdir shows leads back to the entry.
LEMMA ListedAgain ==
    ASSUME NEW p \in Seq(NameSet), NEW n \in 1 .. Len(p), Accepted(p, n), Legal(p[n]),
           Written(Entry(p, n)), Entry(p, n) \in EntrySet
    PROVE  Expected(org_path_split(<<"/">> \o path_decode(Entry(p, n))), <<Entry(p, n)>>)
<1> DEFINE e == Entry(p, n)
           w == path_decode(e)
           t == <<"/">> \o w
           s == org_path_split(t)
<1>1. /\ w \in Seq(Chars) /\ \A x \in 1 .. Len(w) : w[x] # "/"
      /\ Accepted(<<w>>, 1) /\ FatName(w) = e
  <2>1. CASE IsSpecial(p[n])
    <3>1. e = FatName(p[n]) BY <2>1 DEF Entry
    <3>2. w = p[n] /\ w \in Seq(Chars) /\ \A x \in 1 .. Len(w) : w[x] # "/" BY <2>1, <3>1, DecodeSpecial
    <3>3. Accepted(<<w>>, 1)
      <4>1. <<w>>[1] = w OBVIOUS
      <4> HIDE DEF w
      <4>2. IsSpecial(<<w>>[1]) BY <2>1, <3>2, <4>1
      <4> QED BY <4>2 DEF Accepted
    <3> QED BY <3>1, <3>2, <3>3
  <2>2. CASE ~IsSpecial(p[n])
    <3>1. PICK a, b : Sound(e, a, b) BY <2>2, EntrySound
    <3> QED BY <3>1, SoundAgain
  <2> QED BY <2>1, <2>2
<1> HIDE DEF w, e
<1>2. IsPath(t) /\ depth(t) = 1 /\ s[1] = w BY <1>1, SingleSplit
<1>3. Len(s) = 1 BY <1>2, Components
<1> HIDE DEF s, t
<1>4. \A m \in 1 .. 1 : <<w>>[m] = s[m]
  <2>1. <<w>>[1] = w /\ \A m \in 1 .. 1 : m = 1 OBVIOUS
  <2> QED BY <1>2, <2>1
<1>5. Accepted(s, 1) /\ Entry(s, 1) = Entry(<<w>>, 1)
  <2>1. 1 \in Nat \ {0} OBVIOUS
  <2> QED BY <1>1, <1>4, <2>1, SamePrefix
<1>6. Entry(<<w>>, 1) = e
  <2>1. NoDotBefore(<<w>>, 1) /\ <<w>>[1] = w BY DEF NoDotBefore
  <2> QED BY <1>1, <2>1 DEF Entry
<1>7. <<e>> \in Seq(EntrySet) /\ Len(<<e>>) = 1 /\ <<e>>[1] = e
  <2>1. e \in EntrySet BY DEF e
  <2> QED BY <2>1, ShortSeq
<1>8. \A m \in 1 .. Len(s) : Accepted(s, m) /\ <<e>>[m] = Entry(s, m)
  <2>1. \A m \in 1 .. Len(s) : m = 1 BY <1>3
  <2> QED BY <1>5, <1>6, <1>7, <2>1
<1>9. Expected(s, <<e>>) BY <1>3, <1>7, <1>8 DEF Expected
<1> QED BY <1>9 DEF s, t, w, e

\* readdir: the name shown has one component.
LEMMA LookListed == ASSUME NamesInv, LookInv, Listed PROVE LookInv'
<1> DEFINE n == Len(entries)
           e == entries[n]
<1>0. pc = "done" /\ round = 1 /\ Written(e) /\ Second(<<"/">> \o path_decode(e), <<e>>)
  BY DEF Listed, Second, Written
<1>1. /\ IsPath(whole) /\ path = org_path_split(whole) /\ Len(path) = depth(whole) /\ depth(whole) \in Nat \ {0}
      /\ path \in Seq(NameSet) /\ entries \in Seq(EntrySet) /\ Len(entries) = depth(whole)
      /\ \A m \in 1 .. depth(whole) : Accepted(path, m) /\ entries[m] = Entry(path, m)
  BY <1>0, AfterFirst
<1>2. n \in 1 .. depth(whole) /\ n \in 1 .. Len(path) BY <1>1
<1>3. e = Entry(path, n) /\ Accepted(path, n) /\ e \in EntrySet BY <1>1, <1>2
<1>4. ASSUME NoBlanks(whole) PROVE Expected(org_path_split(<<"/">> \o path_decode(e)), <<e>>)
  <2> HIDE DEF n, e
  <2>1. \A x \in 1 .. Len(path[n]) : /\ Slash(whole, n) + x \in 1 .. Len(whole)
                                     /\ path[n][x] = whole[Slash(whole, n) + x] /\ path[n][x] # "/"
    BY <1>1, <1>2, ComponentIs
  <2>2. Legal(path[n]) BY <1>4, <2>1, Zenon DEF NoBlanks, Legal
  <2>3. Expected(org_path_split(<<"/">> \o path_decode(Entry(path, n))), <<Entry(path, n)>>)
    BY <1>0, <1>1, <1>2, <1>3, <2>2, ListedAgain
  <2> QED BY <1>3, <2>3
<1> QED BY <1>0, <1>4, LookSecond

LEMMA LookNone == ASSUME NamesInv, LookInv, Stop \/ UNCHANGED vars PROVE LookInv'
<1>1. UNCHANGED vars BY DEF Stop
<1> QED BY <1>1 DEF vars, loop, LookInv, PastInv, FreshInv, FlagInv, LateInv, CleanInv, RoundInv, Running

LEMMA LookInit == Init => LookInv
<1> SUFFICES ASSUME Init PROVE LookInv OBVIOUS
<1>1. pc = "call" /\ round = 1 /\ text = whole BY DEF Init
<1> QED BY <1>1 DEF LookInv, PastInv, FreshInv, FlagInv, LateInv, CleanInv, RoundInv, Running

LEMMA LookNext == NamesInv /\ LookInv /\ [Next]_vars => LookInv'
<1> SUFFICES ASSUME NamesInv, LookInv, [Next]_vars PROVE LookInv' OBVIOUS
<1> QED BY LookSplit, LookDots, LookDotExit, LookDotPad, LookEnd, LookSkip, LookFull, LookStore,
           LookReturn, LookAgain, LookParent, LookListed, LookNone DEF Next

\* A second lookup, of the cut string, of the parent or of the name that readdir
\* shows, neither ends the driver nor finds other entries than the first.
THEOREM LookupsAgree == Spec => []LookupAgrees
<1>1. NamesInv /\ LookInv => LookupAgrees
  <2> SUFFICES ASSUME NamesInv, LookInv, round = 2, NoBlanks(whole)
               PROVE  pc # "exit" /\ (pc = "done" => entries = kept)
    BY DEF LookupAgrees, NoBlanks
  <2>1. pc # "exit" BY DEF LookInv, RoundInv
  <2>2. ASSUME pc = "done" PROVE entries = kept
    <3>1. /\ kept \in Seq(EntrySet) /\ Len(kept) = Len(path)
          /\ \A n \in 1 .. Len(path) : kept[n] = Entry(path, n)
      BY <2>2 DEF LookInv, RoundInv, Expected
    <3>2. path \in Seq(NameSet) /\ entries \in Seq(EntrySet) /\ Len(entries) = Len(path)
      BY <2>2 DEF NamesInv, Shapes
    <3>3. i \in Nat /\ i > Len(path) /\ Len(path) \in Nat
      BY <2>2, <3>2, LenProperties DEF NamesInv, IInv, TypeOK, DoneInv
    <3>4. \A n \in 1 .. Len(path) : n < i BY <3>3
    <3>5. \A n \in 1 .. Len(path) : entries[n] = Entry(path, n) BY <2>2, <3>4 DEF LookInv, PastInv
    <3>6. \A n \in 1 .. Len(entries) : entries[n] = kept[n] BY <3>1, <3>2, <3>5
    <3> QED BY <3>1, <3>2, <3>6, SeqEqual
  <2> QED BY <2>1, <2>2
<1>2. Spec => [](NamesInv /\ LookInv) BY NamesInductive, LookInit, LookNext, PTL DEF Spec
<1> QED BY <1>1, <1>2, PTL
=============================================================================
