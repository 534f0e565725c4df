# TLA+ models of OS2021_labscript

The repository holds the programs of an operating systems course: a shell with
pipes (lab 2), two system calls added to Linux (lab 2), kernel modules and a
thread exercise (lab 3) and a FAT16 file system driver on FUSE (lab 4). The
driver is by far the largest program with state of its own, and most of this
development is about it.

## Inventory

| Part | State | Operations | What makes it hard | What makes it correct |
|---|---|---|---|---|
| FAT16 cluster allocation (`lab4/simple_fat16_new.c`: `ClusterEmpty`, `FindEmptyCluster`, `ClusterIsEmpty`, `freeCluster`) | two copies of the table, first clusters in directory entries | called by `fat16_mknod`, `fat16_unlink`, `write_path` | `fuse_main` runs handlers on several threads and the driver has no lock; kill and remount; searches without an end; unset `ClusterLast` | chains do not meet, entries lead to used clusters, none is lost, chains end |
| FAT16 contents (`read_path`, `write_path`, `edit_size`) | data area, file sizes | `fat16_read`, `fat16_write` | buffers cut at cluster borders, offsets relative to clusters, a path that changes under the caller | what is reported as written is in the file, reads return the file |
| FAT16 directories (`find_root`, `find_subdir`, `fat16_readdir`, slot searches) | slots of 32 bytes | `fat16_mknod`, `fat16_unlink`, lookups | slot numbers at the borders of sectors and clusters, 0x00 ends every search | no entry is hidden, none is overwritten, names are unique |
| FAT16 names (`path_split`, `path_decode`, `get_prt_path`) | none | conversion | not inverse to each other; `find_root` cuts the path it is given | both searches for one file agree |
| FAT16 geometry (`pre_init_fat16`, `sector_read`) | one `FILE*` | sector access | WORD arithmetic, `fseek` and `fread` are two calls on a shared stream | an access reaches its sector |
| Shell (`lab2/lab2.2/lab2_shell.c`) | descriptors, children | a line of 1, 2 or more commands | concurrent children, inherited descriptors, failing `pipe()` | the prompt comes back, descriptors are closed, no output is lost |
| Thread exercise (`lab3/EXP3.1/thread.c`) | an array of hand-made locks per process | `waiting`, `signaling`, the work of six threads, `execl` | test and decrement are separate instructions, order by `sleep`, the child's main looks at the locks one after the other | one thread works at a time, no update is lost, nobody spins for ever, `execl` comes after the work |
| Memory scanner (`lab3/EXP3.2/sec3.c`) | `/proc` entries and pointers to them, flags, sysfs variables | kernel thread, sysfs stores, load, unload | `pid` is read several times without a lock, pointers to removed entries, processes that exit, sleeping and waking | a stop is final, a start starts, the folder lock agrees with `/proc`, unload returns and leaves nothing |
| Timer module (`lab3/EXP3.1/sec2.c`) | a timer that rearms itself | load with a parameter, tick, unload | unload while the timer function runs; a load that dies | nothing runs after unload |
| Forced unload (`lab3/强制置模块被引用数为0模块/`) | count, state and exit function of the target | load | users, `init` and `rmmod` of the target at the same time | the target can be removed and is not freed under a user |
| `ps_counter`, `ps_state` (`lab2/lab2.1/linux/sys.c`, last 36 lines) | a kernel buffer | two system calls | two walks over a list that changes | who stays is listed, once, inside of the buffer |

The handlers of the driver share the table, the directories and the `FILE*`;
FUSE calls them, and the kernel serialises calls on one name by its locks on
directories and inodes. The shell and its children share pipes. The forcing
module changes the timer module under its users. The other parts do not
interact with each other.

## Modules

| Module | Models | Status |
|---|---|---|
| `Fat16Volume` | table, entries and the steps of the three handlers on several threads, with crashes | done |
| `ClusterPool` | abstract specification: every cluster free or owned by one file | done |
| `Fat16VolumeInv` | inductive invariants: `SharedInv` (any number of threads), `SerialInv` (one thread, `Alone`) | done |
| `Fat16VolumePool` | refinement mapping from `Fat16Volume` to `ClusterPool` | done |
| `Fat16Volume_proofs` | theorems about `Fat16Volume`, the refinement included | done |
| `Fat16VolumeRace` | the same steps under fairness, and which overlaps of handlers do harm | done |
| `MCFat16Volume` | symmetry of the threads | done |
| `Fat16Content`, `FileBytes`, `MCFat16Content` | bytes of files, the abstract files they implement | done |
| `Fat16Dir`, `DirNames`, `MCFat16Dir` | slots of directories, the abstract directories they implement | done |
| `Fat16Names`, `MCFat16Names`, `Fat16Names_proofs` | conversion of names and paths, one character a step | done |
| `Fat16Mount`, `MCFat16Mount`, `Fat16Mount_proofs` | layout, the shared `FILE*`, time stamps | done |
| `ShellPipes`, `ShellPipes_proofs` | pipelines, with the commands as environment | done |
| `ThreadLocks`, `ThreadLocks_proofs` | the thread exercise | done |
| `Kmscan`, `Kmscan_proofs` | the memory scanner | done |
| `ModuleRemoval`, `ModuleRemoval_proofs` | timer module and forced removal together | done |
| `PsState`, `PsState_proofs` | the two system calls and the program that calls one | done |

### Fat16Volume

`fat1` and `fat2` are the two copies of the table, `live` and `first` the
directory entries, and `pc`, `name`, `clus`, `next`, `left` the locals of each
thread. One action is one access to the image that matters: a read of a table
entry followed by a test, or one flushed write.

* `fat16_mknod`: `MknodStart`, then `Search` (`FindEmptyCluster`, one table
  entry per step), `MknodEntry` (`dir_entry_create`), `MarkEnd`.
* `fat16_unlink`: `UnlinkStart`, then per cluster `FreeLoad`, `FreeClear1`,
  `FreeClear2` (`freeCluster`), at the end `UnlinkErase`. The entry is looked
  up by the *decoded* name, the chain by the *encoded* one; the constant
  `Spellings` says whether callers use a spelling on which the two disagree
  (lower case and upper case, for instance).
* `write_path`: `WriteStart` or `WriteUnset` (no cluster, `ClusterLast` never
  assigned: any value), `Walk`, then per new cluster `Grow`, `Probe`, `Link`,
  `Follow`, at the end `MarkEnd`.
* `Crash`: the process is killed and the image mounted again.

The searches have no bound in the code. When one passes the last cluster,
`edge` becomes `"past"` and the model stops: the driver would then take unused
entries, the second copy or the root directory for the table. `PastOnlyWhenFull`
says when it comes to that. `Enter` is the
environment: one call per name at a time. Initial states are all sound volumes
with ascending chains, as `mkfs.fat` and `cp` leave them.

`Fat16VolumeRace` tells the behaviours apart in which two handlers that take
clusters are under way together (`Together`). `SoundApart` says that nothing else
does harm: removals, and an extension beside a removal, may overlap freely.

### Fat16Content

One call at a time; chains are sequences of clusters, and the data area is a
function from addresses to bytes. `Pieces` computes which part of the buffer
goes where, with the branches of `write_path` (new clusters or not, offset at a
cluster border or not, `size % bytes_per_cluster` for the last cluster, the
size the second `find_root` sees); `Stored` applies it; `EditSize` records
`offset + Written`. `At` and `Buffer` follow the loop of `read_path` sector by
sector. FUSE requests lie in one page. `Kind` tells the writes apart by the
branches they meet, so that the passing run can say exactly for which writes
the driver is right. A write whose loop over the clusters passes the end of the
chain (`Strays`: it begins in front of the last cluster and takes new ones) goes
to a stray sector; no run makes one.

### Fat16Dir

`slot` is the image in units of 32 bytes: root directory, then data area.
`Scan` is the loop of `fat16_mknod` over a subdirectory round by round, with
its habit of loading the next sector or cluster before it leaves the loop;
`Target` is the slot `fat16_mknod` writes to. A call is one step, since the kernel locks the directory.

### Fat16Names

`text` is the string handed to `path_split`, which `strtok` cuts at its second
slash; `i`, `j`, `k`, `flag`, `name_len`, `ext_len` are the variables of the
loop, and each action is one branch of a round: `Dots`, `DotExit`, `DotPad`,
`End`, `Skip`, `Full`, `Store`. `flag` is declared outside of the loop and keeps
its value from one component to the next, as in the code. The entries come from
`malloc`, so a place that is never written is `"?"` (an extension that is too
long leaves the loop without padding; the places are then all written, unless
the dot was in an earlier component). After a
lookup the caller makes one of the second lookups of the driver: the same
string again (`Again`, `write_path`), the parent (`Parent`, `get_prt_path`), or
the name `fat16_readdir` shows (`Listed`, `path_decode`). Paths have no empty
component, as FUSE hands them over (`TextsAssumption`); for one `strtok` would
give `NULL`, which the code follows. `malloc(sizeof(path))` is taken to be large
enough.

### Fat16Mount

`Mount` is `pre_init_fat16`. `FatSeek`, `FatRead`, `DataSeek` and `DataRead`
are the two `sector_read` of `first_sector_by_cluster`, with `fseek` and
`fread` as separate steps of several threads on one `pos`. Sector numbers and
offsets are reduced modulo `Word` where the code keeps them in a `WORD`.
`seeks` remembers the sectors any thread has moved the stream to. `Stamp` and `GetAttr` are the two conversions of time;
`mktime` is taken to keep the fields it is given.

### ShellPipes

`readers` and `writers` say which processes (0 is the shell) have which end of
a pipe open. The shell's steps are the system calls of `main` in order. A
source writes `MaxOut` items, a filter passes on what it reads, a command in
`early` may stop at any time. `ret` and `lastReadEnd` are declared inside the
loop and keep their place on the stack; using `lastReadEnd` before it was
assigned ends the model (`ForkWild`).

### ThreadLocks

`pc`, `slept`, `held` and `tmp` belong to the threads: `Test`, `Load`, `Store`
are the accesses of `waiting`, `Signal` and `SignalStore` those of `signaling`.
All sleeps last a second, and `Second` wakes all sleepers. With `Prompt` it
waits until nothing that runs has a step left, that is, the instructions between
two sleeps take less than a second; within a second they interleave freely.
`Look` is one read of the loop that waits for three locks. The volatile-less
loops are taken to read memory in every round, as they do without optimisation.
`Work` is at least 1 (10 in the program): `slept` could not tell a thread that
has slept twice and asks for its locks from one that has no round left.

### Kmscan

The kernel thread (`Loop` to `Woken`), the scans (`Name` to `PhysScan`), the
stores, load and unload. Every use of `pid` inside of a scan reads it anew, and
`Choose` every comparison of `func`. `WalkDies` is a process that exits while
one of the three walks is in its memory map.
A pointer to a `/proc` entry is the name of the directory it is or lies in and
becomes `Stale` when that directory is removed; using a stale one does nothing,
hits another entry, or kills the thread. `proc_mkdir` of a name that exists
returns `NULL`, and a `NULL` parent is `/proc` itself. A process that has exited
kills the thread in `Lookup`, with the lock held. `hist` remembers what the code
does not handle: `"raced"` (a `pid_store` during a scan), `"stale"`, `"oops"`,
`"loadfail"`.

### ModuleRemoval

The target's state, count, users, exit function and timer. `Rmmod`, `LabExit`
or `ForceExit`, and `Free` are the steps of one removal; `TimerFires` and
`TimerRearms` the two ends of `timer_function`, between which `del_timer_sync`
waits. `force_cleanup_module` is four steps, since it takes no lock:
`ForceFind`, `ForceState`, `ForceCount` and `ForceSwap`, with everything else in
between. `refcnt` is not a per-cpu variable in the kernels the module compiles
for (`atomic_set` on the same field), so the zeros of lines 87 to 93 go to stray
addresses: the kernel goes down (`"wild"`) or nothing that is modelled is hit.
If the target is freed in between, the rest of the stores goes to freed memory
(`ForceDangling`). One forcing module is loaded at a time. `hist` remembers
that a target was forced while in use, or lost its exit function.

### PsState

Processes are numbers in the order of birth, the list is a set, and an exited
process keeps its next pointer, which a walk that stands on it follows. Its
memory is taken not to be used again during a walk. `CountOne` and `CopyOne`
are rounds of the two walks. `ShowStates` is the loop of `test_syscall.c` over an
array whose other entries hold anything; without a pid of 0 in it the loop
passes the end (`"past"`).

## Runs

Passing runs:

* **VolumeSerial** (1 thread, 3 names, 4 clusters, up to 2 clusters per write,
  exact spellings, no empty files): `NoCrossLink`, `NoDangling`, `NoLeak`,
  `PastOnlyWhenFull`, `HarmBounded`, and the refinement `PoolSpec`. Four clusters
  let a chain of two grow past another file, let the search skip used clusters
  and let the volume fill up. `HarmBounded` is about every step, so it says what
  a kill at any moment leaves behind.
* **VolumeConcurrent** (module `Fat16VolumeRace`; 2 threads, 2 names, 2 clusters,
  1 crash, one empty file): `LinksAscend`, `SoundApart`, `ChainLoopsAdvance` and,
  under weak fairness of each thread's steps, `OpCompletes`. Two threads on two
  clusters already produce shared, dangling and lost clusters; what survives is
  that links ascend, and that volumes stay sound if no two handlers ever take
  clusters together. Safety is proved for all sizes, `SoundApart` excepted, which
  also holds with 5 clusters and no kill (1.8 million states), where both files
  grow and are removed beside each other.
* **ContentPlain** (2 files, one of them in a directory, clusters of 2 sectors,
  pages of 2 clusters, 4 writes): `WriteStored`, `ReadStored` and the
  refinement `BytesSpec`, for writes of kind `"plain"`. Files of three clusters
  and writes over two clusters occur, as do files removed and created again
  over stale data.
* **DirBorders** (root directory of 3 slots, subdirectory of two clusters apart,
  each of two sectors of 2 slots): `FirstFreeTaken`, `HarmAtBorder` and
  `NamesKept`, from every filling, up to full directories. Both kinds of borders,
  and a border at the end of the directory, are crossed. `NamesKept` is the
  refinement of `DirNames` step by step: it says that a creation or removal does
  what the abstract directory does unless it hits one of these borders.
* **ShellLines** (1 to 4 commands, pipes of one item, `pipe()` failing twice,
  early stops in lines of one and two commands): `FdsBalanced`,
  `EofAfterWriter`, `PromptReturns`. Deadlock is not checked: after
  a failed `pipe()` the shell itself keeps the last read end, and a writer that
  fills the pipe blocks for ever.
* **ThreadOrder** (2 rounds of work instead of 10, `Prompt`): `OneAtATime`,
  `LocksCount`, `ExecAfterWork`, and under fairness `WorkCompletes`. Two rounds
  are enough for every thread to wait through the work of another. Deadlock is
  not checked: threads wait for a character nobody may type.
* **KmscanScans** (2 processes, one of which may exit, 1 writer of `run`, 4
  stores to `pid` and `func`, at most one of them during a scan): `StopIsFinal`,
  `FolderLock`, `LeavesNothing`, and under fairness `UnloadEnds` and
  `StartScans`. Four stores give `func` 1, 2, 1 on one process and a change of
  process. Deadlock is not checked: a dead thread leaves the lock taken.
* **ModuleForce** (2 users): `TimerGone`, `CountRight`, and under fairness
  `RemovalCompletes`. Deadlock is not checked: a fault ends the model.
* **PathNames** (names of 2 and 2 characters, all paths of one component of up
  to 6 and of two of up to 4 over a few characters): `InBounds`, `Encoded`,
  `ExitIllFormed`, `LookupAgrees`. The components are longer than base, dot and
  extension together, so every branch of the loop is taken at its border.
* **Mount** (2 threads, sectors of 8 bytes, a `WORD` of 32 values, two sizes of
  sectors and of clusters): `ReadNear`, `StampKept`. Cluster 17
  overflows the offset and cluster 9 with clusters of 4 sectors the sector
  number; reads are torn apart in all ways. Deadlock is not checked: the driver may be stopped.
* **PsCopies** (3 processes, 2 more born): `SurvivorsListed`, `OverrunYoung`,
  `CountSpan`, with an array of 4 that 5 processes overrun.
  Deadlock is not checked: a fault ends the model.

Each module states its types in `TypeOK`. It is proved for every value of the
constants in all modules but `Fat16Content` and `Fat16Dir`, where it holds in
the runs above and can be added to their configurations; in `ThreadLocks` it
says that a lock is 0 or 1, and needs `Prompt`.

One run shows a disagreement between the code and a comment:
**ContentFullCluster** checks `WriteStored` for writes that fill their last new
cluster. Line 686 gives that cluster a length of 0, its bytes are lost, and the
count returned says that they were written.

Other statements in comments do not hold either. Each of these properties is
defined in its module and fails when it is checked with the constants of the run
named, changed as shown:

| Property | Run and constants | What happens | Statement |
|---|---|---|---|
| `NoCrossLink` | VolumeSerial, `Threads = {t1, t2}` | two threads take the cluster `FindEmptyCluster` gave to both | `simple_fat16_new.c:324` |
| `ReservedIntact` | VolumeSerial, `EmptyImage = {f1}` | removing an empty file clears entry 0 of the table | `:1193` |
| `NoDangling` | VolumeSerial, `Spellings` with `"other"` | removal under another spelling frees the clusters and keeps the entry: lookups encode the name, `fat16_unlink` compares decoded ones | `:1307` |
| `WriteStored` | ContentPlain, `Kinds` with `"border"` | an append at a cluster border of a file in a directory goes over its last cluster | `:579` |
| `WriteStored` | ContentPlain, `Kinds` with `"inside"` | a write that needs no new cluster goes to the last one whatever the offset | `:579` |
| `NothingLost` | DirBorders | with the first free slot at the end of a sector, an entry is written over another one or into the data of a file | `:1105` |
| `NothingHidden` | DirBorders | in the same situation, an entry is written behind a slot with 0x00 | `:401` |
| `EncodedAll` | PathNames | `dir.d/file` is looked up wrong, since `flag` stays set | `:33` |
| `ReadRight` | Mount, `Word = 64` | an `fseek` of another thread comes between `fseek` and `fread` | `:18` |
| `ReadRight` | Mount, one thread, `Word = 32` | the sector number overflows its `WORD` | `:362` |
| `ReadEndsClosed` | ShellLines | a failed `pipe()` leaves the read end of the round before open | `lab2_shell.c:218` |
| `FolderLockStores` | KmscanScans | a `pid_store` during a scan sets the lock of one process for the directory of another | `sec3.c:92` |
| `FolderLockReuse` | KmscanScans | `func` 1, 2, 1 on one process: the stray semicolon of `sec3.c:199` | `sec3.c:92` |
| `DependentsKeep` | ModuleForce | a target with users is forced, removed and freed | `forcermmod.c:67` |

Further limits of the code:

* `FatCopiesAgree` of `Fat16Volume` fails after the first `fat16_mknod`:
  `ClusterIsEmpty` writes one copy of the table, against line 1153.
* `ReadCount` of `Fat16Content` fails at the end of a file: the count returned
  is the count asked for, against line 528.
* `Stopping = {3}` in ShellLines breaks `PromptReturns`: with three commands the
  first keeps a read end of its own pipe, gets no SIGPIPE when the second stops
  early, and the wait of `lab2_shell.c:231` never ends.
* `Prompt = FALSE` in ThreadOrder breaks `OneAtATime` and `ExecAfterWork`: only
  time keeps the threads apart.
* `Spellings` with `"other"` in ContentPlain breaks `WriteStored`: the size is
  not recorded.

Bounds named in the models: `MaxGrow`, `MaxCrashes`, `MaxSize`, `MaxWrites`,
`MaxOut`, `MaxFails`, `Work`, `MaxStores`, `OneRace`, `MaxProcs`; `MaxClus`,
`RootEntCnt`, `Word`, `Sector`, `NameLen` and `ExtLen` are sizes.

Fairness: `Fairness` of `Fat16Volume`, which `FairSpec` of `Fat16VolumeRace` uses, is weak fairness for the steps of each
thread: a worker thread inside a handler waits for nobody, so the scheduler
runs it again. Nobody has to call a handler. `Spec` of `ShellPipes` has weak
fairness for the shell between two prompts and for each command; the user need
not type anything. `ThreadLocks` has it for every thread that can run and for
the passing of seconds, not for `getchar`. `Kmscan` has it for the kernel
thread, for a load or unload under way and for a store that finds the lock
free; nobody has to store or unload. `ModuleRemoval` has it for users dropping
references, for `init` of both modules, the timer function and the steps of a
removal, and
strong fairness for `rmmod` (tried again until it is accepted) and for
`lab3_exit` (`del_timer_sync` finds the timer function idle between two rounds,
which are five seconds apart).

## Proofs

`Fat16Volume_proofs`, for every set of threads and names and every size of the
volume (`ConstantsAssumption`):

* `TypeCorrect`: `Spec => []TypeOK`.
* `ChainsAscend`: `Spec => []LinksAscend`.
* `LoopsAdvance`: `Spec => ChainLoopsAdvance`.

`LinksAscend` alone is not inductive: `Link` writes `next[t]` at `clus[t]`, and
`clus[t] < next[t]` has to be known from `Grow` and `Probe`, which are earlier
steps. `SharedInv` adds this for threads at `"probe"` and `"link"`, and for
threads in `freeCluster` that the value just read still ascends, which other
threads cannot change because it is local. `SharedStep` proves it for each
step of a handler, `SharedBegin` for each beginning; a crash only resets
locals. No other relation between threads is needed, which is why the result
survives all the races that break `NoCrossLink`. `LoopsAdvance` follows from
the invariant by looking at `Walk` and `FreeClear2` (`StepAdvances`).

With one thread the same module proves `NeverCrossLinked`, `NeverDangling`,
`NeverLeaked`, `HarmedOnce` and `LeavesOnlyFull`, for every size of the volume
and every set of names. Their hypothesis `Alone` is one thread, exact spellings,
no empty file in the image and no kill; the section above shows what breaks
without the first three, and a kill in the middle of `fat16_unlink` leaves an
entry with a free cluster. `HarmedOnce` bounds that: it holds at every step, and
a kill changes nothing in the image. `LeavesOnlyFull` needs that the search has
seen every cluster below the one it looks at in use, and that no other step
frees one (`Scanned`, `FullInv`). `SerialInv` is the inductive invariant. In the middle of a handler an
entry or a link may lead to a free cluster and a used cluster may have nothing
that refers to it; `EntriesBacked`, `LinksBacked` and `UsedReferred` say that
this is the one cluster the thread has in its hands, and `Position` what is
known of that cluster at each step. That the cluster at `"entry"` and `"mark"`
is still free in the table is part of it: without this `MarkEnd` could cut a
chain, which no reachable state does. There is one lemma per action
(`Serial...`), each with one step per part of the invariant.

`PoolRefined` is the refinement: under `Alone`, `Spec => PoolSpec`, for every
size of the volume and every set of names. `Fat16VolumePool` maps a file to the
clusters reached from its entry, or, while the file is being removed, from where
the loop of `fat16_unlink` has got to (`Start`); a cluster counts as owned once
its table entry is not 0, so that an entry or a link written first, as
`fat16_mknod` and `write_path` do, takes nothing yet. The set reached is given
without recursion, as the least set that contains the start and the successor of
each member (`ChainFrom`). The argument has two halves. `SerialPartition` says that a
cluster in use is reached from exactly one start, from `SerialInv` alone: two
chains cannot meet because no two links lead to the same cluster, and a cluster
that nothing reaches would have a lowest one below it (`LowestCluster`) with a
link to it from a lower one, since links ascend. The lemmas about `ChainFrom`
(`ChainAgree`, `ChainLinked`, `ChainRest`) then say what one write to the table
does to what is reached: nothing, one more cluster, or one less. With them each
step of a handler is a `Create`, `Take`, `BeginRemove`, `Drop` or `Remove` of
the pool, or changes nothing there (`Pool...`, one lemma per kind of step).

`PsState_proofs`, for any number of processes: `TypeCorrect`,
`OverrunOnlyYoung`, `AllSurvivorsListed`, `CountedOnce`. The invariant is about
the walk under way: `StaleInv` says that a pointer left in a process that exited
after the walk began leads upwards and never past a process that has been in
the list for the whole walk, so the walk meets all of those (`CountInv`,
`CopyInv`). A process born before the call that the second walk meets was in the
list between the walks, hence counted: that is why only younger ones overrun.

`Fat16Names_proofs`, for names and paths of any length: `TypeCorrect`,
`StoresInBounds`, `NamesEncoded` and `ExitsIllFormed`. `IInv` ties `k` to the
characters counted: it is `name_len` before the first dot, and after it
`ext_len` places into the extension, or into the whole entry when the dot was in
an earlier component. `NamesInv` adds what the entry under way holds: the
characters of the base (`BaseInv`), and, once `flag` is set by a dot of this
component, the whole base and the extension up to `k` (`ExtInv`). No induction
over the name is needed, since the loop is the induction. If no earlier
component has a dot, a `flag` that is set has its dot in this component, so a
second dot makes two (`StepDotExit`). That a second lookup is given a path again
(`CutIsPath`, `ParentIsPath`, `DecodeIsPath`) is what extends both to it; it
rests on `NthIn`, that a finite set of places has an nth one.
`TextsAssumption` says that a path begins with a slash and has no empty
component.

`LookupsAgree` compares two runs of `path_split`, and its invariant `LookInv`
says what the first one leaves for the second: every component that is done is
`Accepted` and has its `Entry`, both functions of the components up to it. That
covers the components after one with a dot, which `NamesEncoded` says nothing
about: `flag` is still set, so at most `ExtLen` characters go to the front of
the entry (`LateInv`). `NoExit` shows that the driver does not exit in an
accepted component. What remains is about texts: the components of the cut
string and of the parent are the first components of the path (`PrefixSplit`,
from the ranks of the slashes, `RankGrows`), and an entry that is written
completely and has no blank inside is shown by `path_decode` as a name that
leads back to it (`SoundDecode`, `SoundAgain`, `EntrySound`). The last needs
entries of more than two characters: `path_decode` tells `.` from `..` by the
third (`LenAssumption`; 8 and 3 in the code).

`Fat16Mount_proofs`, for any boot sector, word width and number of threads and
any time from 1980 to 2107: `TypeCorrect`, `ReadsNear`, `RootDirFits`,
`StampsKept`. `ReadsNear` has no condition: a read that is torn apart may get a
sector other threads have read past, but each thread between its `fseek` and its
`fread` moves the stream on only once, so the sector is fewer steps behind one
that was asked for than there are threads. The invariant counts the threads that
have still to read. `StampsKept` rests on lemmas about
the fields of a word: 2000 and 80 differ by 15 times 128, which seven bits
cannot tell.

`ModuleRemoval_proofs`, for any finite set of users: `TypeCorrect`,
`CountsRight`, `TimersGone`. `CountRight` says nothing about a module that is
loading, so the invariant lists for each state of the target what the count,
the users, `init` and `rmmod` can be (`Coming`, `Live`, `Going`, `Absent`);
between the stores of `force_cleanup_module` a live target may still have the
count of its load, and `ForceInv` says that the target has not been freed.
`TimerInv` adds that between `lab3_exit` and the freeing of the memory there is
no timer either.

`Kmscan_proofs`, for any processes, writers and number of stores: `TypeCorrect`,
`StopsAreFinal`, `FoldersLocked`, `NothingLeft`. `ThreadInv` says that a scan
has the lock and saw `run` at 1, so that a `run_store`, which needs the lock,
cannot come between; and that there is no thread before it is created or while
the group drains, and no store before the files of sysfs exist. `FolderInv` lets
the folder lock be wrong for the one process whose directory is being made or
removed, and ties `name`, `test` and the pointers to that process; it is kept as
long as no `pid_store` hit a scan and no stale entry was used (`Clean`), the two
conditions `FolderLock` has as well.

`ThreadLocks_proofs`, for any number of rounds, under `Prompt` (a second is
longer than the instructions between two sleeps, without which the properties
fail): `TypeCorrect`, `WorkOneAtATime`, `NoUpdateLost`, `ExecLast`. That the
torn test and decrement never meet is a matter of time, so the invariant is
about time: by `InStep` a thread that has slept longer than another one finds
that the other has got its first lock. It is kept because at the end of a second
a thread that does not sleep either has its first lock or waits for one that a
higher thread has, and that one has slept longer (`AwakePassed`). Thread n asks
for lock n - 1 after n - 1 seconds and then for the ones below in order: two
threads that want the same lock would be the lower one at its first lock and the
higher one a second later, or both have the lock above it (`Rivals`). `LockInv`
follows, and with it that the registers hold 1 and 0. `LookInv` is what the main
thread of the child knows after each lock it has read: a free lock n - 1 means
that thread n is done, because thread 1 was, with which it was in step
(`FoundFree`).

`ShellPipes_proofs`, for lines of any length, any capacity and any number of
failures: `TypeCorrect`, `FdsClosed`, `EofLast`. `WriteEnds` and `ReadEnds` say
which ends the shell has at each place of its loop; `KidsInv` and `PipeInv` that
the pipe a command reads belongs to a command started before and that a command
that runs has the write end of its own pipe. After a failure `ReadEnds` says
nothing, since a read end then stays behind.

Only model-checked: everything about contents and directories (`WriteStored`,
`ReadStored`, `FirstFreeTaken`, `HarmAtBorder`, the refinement of `FileBytes` and
`NamesKept`), because the loops over sectors and slots are recursive definitions,
about which the provers cannot reason by induction. `SoundApart` is model-checked as
well: its invariant would have to say what two threads have in their hands.
Liveness under fairness is out of the prover's reach and stays with TLC.

## Not modelled

Mode, size and block count of `fat16_getattr` are copied from the entry;
`fat16_utimens` is empty. Debugging output, the counts the scanner makes and
the lists the timer module and `lab3_init` print have no effect on other state.
A failing `fork` of the shell, `malloc` or `fwrite` is not modelled, nor are
memory accesses outside of a buffer: the 8-byte copies of paths
(`simple_fat16_new.c:1017`), `sector_buffer` (`:540`), `physinfo`, which has
2048 lines for any number of pages (`sec3.c:340`), `proc_test_const` and `mutex`,
which a `pid` past 32766 overruns (`sec3.c:90`), and the stack variables shown
by `test_show`. The page references `FOLL_GET` takes and the buffer of
`ps_state` are never given back; lost memory is not counted. `bench.h` and the
files under `fat_dir` are test programs, `lab1.sh` is a list of commands typed
once, and the rest of `sys.c`, `syscalls.h` and `syscall_64.tbl` is the kernel's
own code.

## Plan

All components with state of their own are modelled, and every safety invariant
outside of contents, directories and `SoundApart` is proved. Open are proofs
about these: `FirstFreeTaken` of `Fat16Dir`, then the two of `Fat16Content`, once
their scans are stated without recursion.
