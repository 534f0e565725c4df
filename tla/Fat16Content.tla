---------------------------- MODULE Fat16Content ----------------------------
(***************************************************************************)
(* The bytes of files in the FAT16 driver lab4/simple_fat16_new.c: where   *)
(* write_path puts a buffer, what edit_size records and what read_path     *)
(* returns.                                                                *)
(*                                                                         *)
(* One handler runs at a time here and chains are sequences of clusters;   *)
(* how the table represents them, and what several threads do to it, is    *)
(* the subject of Fat16Volume.  A write that would search past the last    *)
(* cluster is left to Fat16Volume as well.                                 *)
(***************************************************************************)
EXTENDS Integers, Sequences, FiniteSets, SequencesExt

CONSTANTS
  Files,        \* names of files
  SubFiles,     \* those whose path leads through a directory
  Bytes,        \* what a buffer holds
  SecBytes,     \* BPB_BytsPerSec, scaled down
  SecPerClus,   \* BPB_SecPerClus
  MaxClus,      \* number of the last cluster
  Page,         \* bound of FUSE on one request, which never crosses a multiple
  Kinds,        \* the kinds of writes that are made, see Kind
  Spellings,    \* as in Fat16Volume
  MaxSize,      \* bound: length of a file
  MaxWrites     \* bound: number of writes

Clusters == 2 .. MaxClus
ClusBytes == SecPerClus * SecBytes
Addr(c) == (c - 2) * ClusBytes          \* a cluster's place in the data area
DataArea == 0 .. Addr(MaxClus + 1) - 1
Junk == 0                               \* a byte nobody wrote

ASSUME ContentAssumption ==
  /\ SecBytes \in Nat \ {0} /\ SecPerClus \in Nat \ {0} /\ Page \in Nat \ {0}
  /\ MaxClus \in Nat /\ MaxSize \in Nat /\ MaxWrites \in Nat
  /\ SubFiles \subseteq Files
  /\ Junk \notin Bytes
  /\ Kinds \subseteq {"plain", "fill", "border", "inside"}
  /\ Spellings \subseteq {"exact", "other"}

VARIABLES
  chain,   \* the clusters of each file, <<>> for a file that does not exist
  size,    \* DIR_FileSize
  disk,    \* the data area
  call,    \* the write just made, if any
  writes   \* number of writes so far

vars == <<chain, size, disk, call, writes>>

Live == {f \in Files : chain[f] # <<>>}

\* Type invariant: chains lie in the volume, and a size is at most what a
\* request can ask for.
TypeOK ==
  /\ chain \in [Files -> Seq(Clusters)]
  /\ size \in [Files -> 0 .. MaxSize]
  /\ disk \in [DataArea -> Bytes \cup {Junk}]
  /\ call.op \in {"none", "write"}
  /\ writes \in 0 .. MaxWrites

None == [op |-> "none"]

Init ==
  /\ chain = [f \in Files |-> <<>>]
  /\ size = [f \in Files |-> 0]
  /\ disk = [a \in DataArea |-> Junk]
  /\ call = None
  /\ writes = 0

-----------------------------------------------------------------------------
Free == {c \in Clusters : \A f \in Files : c \notin ToSet(chain[f])}

\* FindEmptyCluster and dir_entry_create: the lowest free cluster, size 0.
Mknod(f) ==
  /\ f \notin Live /\ Free # {}
  /\ \E c \in Free :
       /\ \A d \in Free : c <= d
       /\ chain' = [chain EXCEPT ![f] = <<c>>]
  /\ size' = [size EXCEPT ![f] = 0]
  /\ call' = None
  /\ UNCHANGED <<disk, writes>>

\* fat16_unlink with the path spelled as the entry decodes.
Unlink(f) ==
  /\ f \in Live
  /\ chain' = [chain EXCEPT ![f] = <<>>]
  /\ size' = [size EXCEPT ![f] = 0]
  /\ call' = None
  /\ UNCHANGED <<disk, writes>>

-----------------------------------------------------------------------------
(* write_path                                                              *)

\* ClusterRequired
Required(f, o, n) == (n + o - 1) \div ClusBytes + 1 - Len(chain[f])

FreeAbove(c) == {d \in Free : c < d}

\* The allocation loop: each new cluster is the first free one above the last.
Extended(f, o, n) ==
  LET above == SetToSortSeq(FreeAbove(Last(chain[f])), <)
  IN chain[f] \o SubSeq(above, 1, Required(f, o, n))

\* Mutant of SizeSeen: every file is taken for a new one.
SizeSeenZero(f) == 0

\* The second find_root works on the path that the first one has cut at its
\* slashes: for a file in a directory it finds the directory, whose size is 0.
SizeSeen(f) == IF f \in SubFiles THEN 0 ELSE size[f]

\* len bytes of the buffer, from byte "from" on, go to disk address "at".
Piece(at, from, len) == [at |-> at, from |-> from, len |-> len]

\* The loop over ClustReqCnt clusters, beginning with the k-th of the chain;
\* the last of them takes size % bytes_per_cluster bytes.
ClusterPieces(ch, k, from, n) ==
  LET cnt == (n - 1) \div ClusBytes + 1
      len(i) == IF i = cnt - 1 THEN n % ClusBytes ELSE ClusBytes
  IN {Piece(Addr(ch[k + i]), from + i * ClusBytes, len(i)) : i \in 0 .. cnt - 1}

\* The place in the chain where that loop begins, and the bytes left to it.
LoopPlace(f, o) ==
  IF o % ClusBytes = 0 /\ SizeSeen(f) = 0 THEN Len(chain[f]) ELSE Len(chain[f]) + 1
LoopBytes(o, n) == IF o % ClusBytes = 0 THEN n ELSE n - (ClusBytes - (o % ClusBytes))

Pieces(f, o, n) ==
  LET ending == Addr(Last(chain[f])) + (o % ClusBytes)
      first == n - LoopBytes(o, n)
  IN IF Required(f, o, n) <= 0
     THEN {Piece(ending, 0, n)}
     ELSE {Piece(ending, 0, first)}
          \cup ClusterPieces(Extended(f, o, n), LoopPlace(f, o), first, LoopBytes(o, n))

\* The loop goes on past the end of the chain: it follows the end mark to a
\* stray sector.
Strays(f, o, n) ==
  /\ Required(f, o, n) > 0
  /\ LoopPlace(f, o) + (LoopBytes(o, n) - 1) \div ClusBytes
       > Len(chain[f]) + Required(f, o, n)

\* What the lengths of the pieces sum up to: edit_size is called with offset
\* plus this.
Written(f, o, n) ==
  LET m == LoopBytes(o, n)
  IN IF Required(f, o, n) <= 0 THEN n
     ELSE n - m + ((m - 1) \div ClusBytes) * ClusBytes + (m % ClusBytes)

\* Mutant of Stored: the buffer pointer is not moved on between two pieces.
StoredRewound(pieces, buf) ==
  [a \in DataArea |->
     IF \E p \in pieces : a \in p.at .. p.at + p.len - 1
     THEN LET p == CHOOSE p \in pieces : a \in p.at .. p.at + p.len - 1
          IN buf[a - p.at + 1]
     ELSE disk[a]]

\* The data area after the pieces are written.
Stored(pieces, buf) ==
  [a \in DataArea |->
     IF \E p \in pieces : a \in p.at .. p.at + p.len - 1
     THEN LET p == CHOOSE p \in pieces : a \in p.at .. p.at + p.len - 1
          IN buf[p.from + a - p.at + 1]
     ELSE disk[a]]

\* edit_size looks for the entry under the path as the caller spelled it, and
\* changes nothing when no entry decodes to that.
EditSize(f, filesize) ==
  \E spelt \in Spellings :
    size' = IF spelt = "exact" THEN [size EXCEPT ![f] = filesize] ELSE size

\* fat16_write returns the size it was given, whatever was stored.
Write(f, o, buf) ==
  LET n == Len(buf) IN
  /\ f \in Live /\ writes < MaxWrites
  /\ Required(f, o, n) <= Cardinality(FreeAbove(Last(chain[f])))
  /\ disk' = Stored(Pieces(f, o, n), buf)
  /\ chain' = [chain EXCEPT ![f] = Extended(f, o, n)]
  /\ EditSize(f, o + Written(f, o, n))
  /\ call' = [op |-> "write", file |-> f, offset |-> o, data |-> buf]
  /\ writes' = writes + 1

-----------------------------------------------------------------------------
(* read_path                                                               *)

\* Where the loop stands at sector s of its buffer: the cluster, by its place
\* in the chain, and j, the sector in the cluster.
At[s \in 0 .. MaxSize + Page] ==
  IF s = 0 THEN [place |-> 1, j |-> 0]
  ELSE IF (At[s - 1].j + 1) % SecPerClus = 0
  THEN [place |-> At[s - 1].place + 1, j |-> 0]
  ELSE [place |-> At[s - 1].place, j |-> At[s - 1].j + 1]

\* Mutant of Buffer: the loop stays in the first cluster.
BufferFirst(f, k) == disk[Addr(chain[f][1]) + (k % ClusBytes)]

\* Byte k of sector_buffer.  Behind the chain anything may be read.
Buffer(f, k) ==
  LET at == At[k \div SecBytes] IN
  IF at.place <= Len(chain[f])
  THEN disk[Addr(chain[f][at.place]) + at.j * SecBytes + (k % SecBytes)]
  ELSE Junk

\* What fat16_read answers; it changes nothing.  All that was asked for is
\* returned when the file reaches beyond offset.
ReadPath(f, o, n) ==
  IF o < size[f] THEN [i \in 1 .. n |-> Buffer(f, o + i - 1)] ELSE <<>>

-----------------------------------------------------------------------------
\* Requests lie within one page.
Request(o, n) == (o % Page) + n <= Page /\ o + n <= MaxSize

\* Writes are told apart by the branches of write_path they meet: those that
\* take new clusters and fill the last one, those that begin at the border of
\* a cluster of a file in a directory, those inside the file, all others.
\* What a stray write hits is not modelled: no instance makes one.
Kind(f, o, n) ==
  IF Strays(f, o, n) THEN "stray"
  ELSE IF Required(f, o, n) > 0 /\ (o + n) % ClusBytes = 0 THEN "fill"
  ELSE IF o < size[f] THEN "inside"
  ELSE IF Required(f, o, n) > 0 /\ f \in SubFiles /\ o > 0 /\ o % ClusBytes = 0 THEN "border"
  ELSE "plain"

Next ==
  \E f \in Files :
    \/ Mknod(f)
    \/ Unlink(f)
    \/ \E o \in 0 .. size[f], n \in 1 .. Page :
         /\ f \in Live /\ Request(o, n) /\ Kind(f, o, n) \in Kinds
         /\ \E buf \in [1 .. n -> Bytes] : Write(f, o, buf)

Spec == Init /\ [][Next]_vars

-----------------------------------------------------------------------------
(* Properties.                                                             *)

\* The contents of a file: the bytes up to its size, along its chain.
Content(f) ==
  [i \in 1 .. size[f] |->
     LET k == (i - 1) \div ClusBytes IN
     IF k < Len(chain[f])
     THEN disk[Addr(chain[f][k + 1]) + ((i - 1) % ClusBytes)]
     ELSE Junk]

\* What fat16_write has just reported as written is in the file.
WriteStored ==
  call.op = "write" =>
    LET end == call.offset + Len(call.data) IN
    /\ end <= size[call.file]
    /\ SubSeq(Content(call.file), call.offset + 1, end) = call.data

\* fat16_read returns the bytes of the file, in order and across the borders
\* of clusters, as far as the file reaches.
ReadStored ==
  \A f \in Live, o \in 0 .. MaxSize - 1, n \in 1 .. MaxSize :
    o + n <= size[f] => ReadPath(f, o, n) = SubSeq(Content(f), o + 1, o + n)

\* fat16_read returns no more bytes than there were to read.
ReadCount ==
  \A f \in Live, o \in 0 .. MaxSize - 1, n \in 1 .. Page :
    Request(o, n) => ReadPath(f, o, n) = <<>> \/ o + Len(ReadPath(f, o, n)) <= size[f]

Abstract == INSTANCE FileBytes WITH
              files <- Live,
              content <- [f \in Files |-> Content(f)]

\* The driver implements files of bytes: a write changes the named range of
\* the named file and nothing else, and sizes follow.
BytesSpec == Abstract!Spec
=============================================================================
