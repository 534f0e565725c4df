------------------------ MODULE ModuleRemoval_proofs ------------------------
(***************************************************************************)
(* Proofs about ModuleRemoval, for any finite set of users: the reference  *)
(* count is right, and no timer outlives the module, as long as the target *)
(* is not forced while in use (nor its exit function replaced).  The       *)
(* invariant says for each state of the target what the count, the users,  *)
(* init and rmmod can be, between the stores of force_cleanup_module too;  *)
(* only its stores to a target in use break it.                            *)
(***************************************************************************)
EXTENDS ModuleRemoval, FiniteSetTheorems, TLAPS

\* The count never passes its users and the load, and a module that is gone has none.
CountBound == refcnt <= 2 + Cardinality(holders) /\ (state = "absent" => refcnt = 0)

\* What goes with each state of the target.
Coming == state = "coming" => init \in {"runs", "dead"} /\ refcnt = 2 /\ holders = {} /\ remover = "none"
Live == state = "live" =>
            /\ init \in {"none", "dead"} /\ remover = "none"
            /\ refcnt = 1 + Cardinality(holders) \/ (force = "live" /\ refcnt = 2 + Cardinality(holders))
Going == state = "going" => init \in {"none", "dead"} /\ holders = {} /\ remover \in {"exit", "free"}
Absent == state = "absent" => init = "none" /\ holders = {} /\ remover = "none"

CountInv == "inuse" \notin hist => Coming /\ Live /\ Going /\ Absent /\ fault \notin {"use", "bug"}

\* With its own exit function, a module about to be freed has no timer.
TimerInv ==
    hist = {} => /\ exit = "own" /\ fault # "timer"
                 /\ (state = "absent" \/ remover = "free") => armed = FALSE /\ running = FALSE

\* The target under force_cleanup_module has not been freed.
ForceInv ==
    /\ force \in {"found", "live", "counted"} => state # "absent"
    /\ force = "live" => state \in {"live", "going"}

IInv == TypeOK /\ ForceInv /\ CountBound /\ CountInv /\ TimerInv

LEMMA CardFacts ==
    ASSUME TypeOK
    PROVE  /\ Cardinality({}) = 0 /\ Cardinality(holders) \in Nat
           /\ Cardinality(holders) <= Cardinality(Users) /\ Cardinality(Users) \in Nat
           /\ \A u \in Users : u \notin holders =>
                 /\ Cardinality(holders \cup {u}) = Cardinality(holders) + 1
                 /\ Cardinality(holders) + 1 <= Cardinality(Users)
           /\ \A u \in holders : Cardinality(holders \ {u}) = Cardinality(holders) - 1
<1>1. holders \in SUBSET Users /\ IsFiniteSet(Users) BY UsersAssumption DEF TypeOK
<1>2. IsFiniteSet(holders) /\ Cardinality(holders) <= Cardinality(Users) BY <1>1, FS_Subset
<1>3. Cardinality(holders) \in Nat /\ Cardinality(Users) \in Nat BY <1>1, <1>2, FS_CardinalityType
<1>4. ASSUME NEW u \in Users, u \notin holders
      PROVE  /\ Cardinality(holders \cup {u}) = Cardinality(holders) + 1
             /\ Cardinality(holders) + 1 <= Cardinality(Users)
  <2>1. Cardinality(holders \cup {u}) = Cardinality(holders) + 1 BY <1>2, <1>4, FS_AddElement
  <2>2. holders \cup {u} \in SUBSET Users BY <1>1
  <2> QED BY <2>1, <2>2, <1>1, FS_Subset
<1>5. \A u \in holders : Cardinality(holders \ {u}) = Cardinality(holders) - 1
  BY <1>2, FS_RemoveElement
<1> QED BY <1>2, <1>3, <1>4, <1>5, FS_EmptySet

LEMMA InitIInv == Init => IInv
<1> SUFFICES ASSUME Init PROVE IInv OBVIOUS
<1>1. Cardinality(Users) \in Nat /\ Cardinality({}) = 0
  BY UsersAssumption, FS_CardinalityType, FS_EmptySet
<1>2. TypeOK
  <2>1. refcnt \in 0 .. Cardinality(Users) + 2 /\ loop \in 0 .. 3 BY <1>1 DEF Init
  <2>2. armed \in BOOLEAN /\ running \in BOOLEAN /\ repl \in BOOLEAN BY Zenon DEF Init
  <2>3. /\ state = "absent" /\ init = "none" /\ holders = {} /\ exit = "own"
        /\ remover = "none" /\ fault = "none" /\ hist = {} /\ force = "no"
    BY DEF Init
  <2> QED BY <2>1, <2>2, <2>3, Zenon DEF TypeOK
<1>3. CountBound BY <1>1 DEF Init, CountBound
<1>4. ForceInv /\ CountInv /\ TimerInv BY DEF Init, ForceInv, CountInv, Coming, Live, Going, Absent, TimerInv
<1> QED BY <1>2, <1>3, <1>4 DEF IInv

LEMMA LoadStep == IInv /\ ((\E l \in 0 .. 3 : Insmod(l)) \/ InitReturns \/ InitDies) => IInv'
<1> SUFFICES ASSUME IInv, (\E l \in 0 .. 3 : Insmod(l)) \/ InitReturns \/ InitDies PROVE IInv'
  OBVIOUS
<1>0. TypeOK BY DEF IInv
<1>c. Cardinality({}) = 0 /\ Cardinality(holders) \in Nat /\ Cardinality(Users) \in Nat
      /\ Cardinality(holders) <= Cardinality(Users)
  BY <1>0, CardFacts
<1> USE DEF IInv, TypeOK, ForceInv, CountBound, CountInv, Coming, Live, Going, Absent, TimerInv, Up
<1>1. CASE \E l \in 0 .. 3 : Insmod(l) BY <1>1, <1>c DEF Insmod, timer, forcing
<1>2. CASE InitReturns /\ state = "absent" BY <1>2, <1>c DEF InitReturns, forcing
<1>3. CASE InitReturns /\ state # "absent"
  <2>1. armed' \in BOOLEAN BY <1>3 DEF InitReturns, forcing
  <2>2. refcnt' \in Nat /\ refcnt' <= refcnt /\ (refcnt > 0 => refcnt' = refcnt - 1)
    BY <1>3 DEF InitReturns, forcing
  <2>3. /\ state' = "live" /\ init = "runs" /\ init' = "none" /\ fault' = fault
        /\ UNCHANGED <<loop, holders, exit, remover, running, force, repl, hist>>
    BY <1>3 DEF InitReturns, forcing
  <2>4. TypeOK' /\ ForceInv' /\ CountBound' BY <2>1, <2>2, <2>3, <1>c
  <2>5. CountInv' BY <1>3, <2>2, <2>3, <1>c
  <2>6. TimerInv' BY <1>3, <2>3
  <2> QED BY <2>4, <2>5, <2>6
<1>4. CASE InitDies BY <1>4, <1>c DEF InitDies, timer, forcing
<1> QED BY <1>1, <1>2, <1>3, <1>4

LEMMA TimerStep == IInv /\ (TimerFires \/ TimerRearms) => IInv'
<1> SUFFICES ASSUME IInv, TimerFires \/ TimerRearms PROVE IInv'
  OBVIOUS
<1>1. UNCHANGED <<state, init, loop, refcnt, holders, exit, remover, force, repl, hist>>
  BY DEF TimerFires, TimerRearms, forcing
<1>2. armed' \in BOOLEAN /\ running' \in BOOLEAN
  BY DEF TimerFires, TimerRearms, IInv, TypeOK
<1>3. (armed = TRUE \/ running = TRUE) /\ (fault' = fault \/ (fault' = "timer" /\ state = "absent"))
  BY DEF TimerFires, TimerRearms, IInv, TypeOK
<1>4. TypeOK' BY <1>1, <1>2, <1>3 DEF IInv, TypeOK
<1>5. ForceInv' /\ CountBound' /\ CountInv'
  BY <1>1, <1>3 DEF IInv, ForceInv, CountBound, CountInv, Coming, Live, Going, Absent
<1>6. TimerInv' BY <1>1, <1>3 DEF IInv, TimerInv
<1> QED BY <1>4, <1>5, <1>6 DEF IInv

LEMMA UserStep == IInv /\ (\E u \in Users : Get(u) \/ Put(u)) => IInv'
<1> SUFFICES ASSUME IInv, NEW u \in Users, Get(u) \/ Put(u) PROVE IInv'
  OBVIOUS
<1>0. TypeOK BY DEF IInv
<1>c. /\ Cardinality(holders) \in Nat /\ Cardinality(Users) \in Nat
      /\ Cardinality(holders) <= Cardinality(Users)
  BY <1>0, CardFacts
<1>1. CASE Get(u)
  <2>1. /\ Cardinality(holders \cup {u}) = Cardinality(holders) + 1
        /\ Cardinality(holders) + 1 <= Cardinality(Users)
    BY <1>0, <1>1, CardFacts DEF Get
  <2>2. /\ state = "live" /\ refcnt' = refcnt + 1 /\ holders' = holders \cup {u}
        /\ UNCHANGED <<state, init, loop, exit, remover, armed, running, force, repl, fault, hist>>
    BY <1>1 DEF Get, timer, forcing
  <2>3. ForceInv' /\ CountBound' BY <2>1, <2>2, <1>c DEF IInv, TypeOK, ForceInv, CountBound
  <2>4. refcnt' \in 0 .. Cardinality(Users) + 2
    BY <2>1, <2>2, <1>c DEF IInv, TypeOK, ForceInv, CountBound
  <2>5. TypeOK' BY <2>2, <2>4 DEF IInv, TypeOK
  <2>6. CountInv'
    BY <2>1, <2>2, <1>c DEF IInv, TypeOK, CountInv, Coming, Live, Going, Absent
  <2>7. TimerInv' BY <2>2 DEF IInv, TimerInv
  <2> QED BY <2>3, <2>5, <2>6, <2>7 DEF IInv
<1>2. CASE Put(u)
  <2>1. Cardinality(holders \ {u}) = Cardinality(holders) - 1 BY <1>0, <1>2, CardFacts DEF Put
  <2>2. /\ u \in holders /\ holders' = holders \ {u}
        /\ UNCHANGED <<state, init, loop, exit, remover, armed, running, force, repl, hist>>
    BY <1>2 DEF Put, timer, forcing
  <2>3. /\ state = "absent" => refcnt' = refcnt /\ fault' = "use"
        /\ state # "absent" => fault' = fault /\ refcnt' = IF refcnt > 0 THEN refcnt - 1 ELSE 0
    BY <1>2 DEF Put
  <2>4. TypeOK'
    <3>1. refcnt' \in 0 .. Cardinality(Users) + 2 BY <2>3, <1>c DEF IInv, TypeOK
    <3>2. fault' \in {"none", "timer", "use", "bug", "exit", "wild"} BY <2>3 DEF IInv, TypeOK
    <3> QED BY <2>2, <3>1, <3>2 DEF IInv, TypeOK
  <2>5. CASE state = "absent"
    <3>1. "inuse" \in hist BY <2>2, <2>5 DEF IInv, CountInv, Absent
    <3>2. CountInv' BY <2>2, <3>1 DEF CountInv
    <3>3. TimerInv' BY <2>2, <3>1 DEF TimerInv
    <3>4. ForceInv' /\ CountBound' BY <2>1, <2>2, <2>3, <2>5, <1>c DEF IInv, TypeOK, ForceInv, CountBound
    <3> QED BY <2>4, <3>2, <3>3, <3>4 DEF IInv
  <2>6. CASE state # "absent"
    <3>1. ForceInv' /\ CountBound' BY <2>1, <2>2, <2>3, <2>6, <1>c DEF IInv, TypeOK, ForceInv, CountBound
    <3>2. CountInv'
      BY <2>1, <2>2, <2>3, <2>6, <1>c DEF IInv, TypeOK, CountInv, Coming, Live, Going, Absent
    <3>3. TimerInv' BY <2>2, <2>3, <2>6 DEF IInv, TimerInv
    <3> QED BY <2>4, <3>1, <3>2, <3>3 DEF IInv
  <2> QED BY <2>5, <2>6
<1> QED BY <1>1, <1>2

LEMMA RemoveStep == IInv /\ (Rmmod \/ LabExit \/ ForceExit \/ Free) => IInv'
<1> SUFFICES ASSUME IInv, Rmmod \/ LabExit \/ ForceExit \/ Free PROVE IInv'
  OBVIOUS
<1>0. TypeOK BY DEF IInv
<1>c. Cardinality({}) = 0 /\ Cardinality(holders) \in Nat /\ Cardinality(Users) \in Nat
  BY <1>0, CardFacts
<1>e. Cardinality(holders) = 0 => holders = {}
  <2>1. IsFiniteSet(holders) BY <1>0, UsersAssumption, FS_Subset DEF TypeOK
  <2> QED BY <2>1, FS_EmptySet
<1>1. CASE Rmmod /\ refcnt = 1
  <2>1. /\ state = "live" /\ refcnt' = 0 /\ state' = "going" /\ remover' = "exit"
        /\ UNCHANGED <<fault, init, loop, holders, exit, armed, running, force, repl, hist>>
    BY <1>1 DEF Rmmod, timer, forcing
  <2>2. TypeOK' BY <2>1, <1>c DEF IInv, TypeOK
  <2>3. ForceInv' /\ CountBound' BY <2>1, <1>c DEF IInv, ForceInv, CountBound
  <2>4. "inuse" \notin hist => holders = {}
    BY <1>1, <2>1, <1>c, <1>e DEF IInv, CountInv, Live
  <2>5. CountInv' BY <2>1, <2>4 DEF IInv, CountInv, Coming, Live, Going, Absent
  <2>6. TimerInv' BY <2>1 DEF IInv, TimerInv
  <2> QED BY <2>2, <2>3, <2>5, <2>6 DEF IInv
<1>2. CASE Rmmod /\ refcnt # 1
  <2>1. /\ state = "live" /\ refcnt = 0 /\ fault' = "bug"
        /\ UNCHANGED <<state, remover, refcnt, init, loop, holders, exit, armed, running, force, repl, hist>>
    BY <1>2 DEF Rmmod, timer, forcing
  <2>2. "inuse" \in hist BY <2>1, <1>c DEF IInv, CountInv, Live
  <2>3. TypeOK' BY <2>1 DEF IInv, TypeOK
  <2>4. ForceInv' /\ CountBound' /\ CountInv' BY <2>1, <2>2 DEF IInv, ForceInv, CountBound, CountInv
  <2>5. TimerInv' BY <2>1, <2>2 DEF TimerInv
  <2> QED BY <2>3, <2>4, <2>5 DEF IInv
<1>3. CASE LabExit
  <2>1. /\ remover = "exit" /\ exit = "own" /\ running = FALSE /\ armed' = FALSE /\ remover' = "free"
        /\ UNCHANGED <<state, init, loop, refcnt, holders, exit, running, force, repl, fault, hist>>
    BY <1>0, <1>3 DEF LabExit, TypeOK, forcing
  <2>2. armed' \in BOOLEAN BY <2>1, Zenon
  <2>3. TypeOK' BY <2>1, <2>2 DEF IInv, TypeOK
  <2>4. ForceInv' /\ CountBound' /\ CountInv'
    BY <2>1 DEF IInv, ForceInv, CountBound, CountInv, Coming, Live, Going, Absent
  <2>5. TimerInv' BY <2>1 DEF IInv, TimerInv
  <2> QED BY <2>3, <2>4, <2>5 DEF IInv
<1>4. CASE ForceExit
  <2>1. /\ remover = "exit" /\ exit # "own"
        /\ (fault' = "exit" /\ remover' = remover) \/ (fault' = fault /\ remover' = "free")
        /\ UNCHANGED <<state, init, loop, refcnt, holders, exit, armed, running, force, repl, hist>>
    BY <1>4 DEF ForceExit, timer, forcing
  <2>2. hist # {} BY <2>1 DEF IInv, TimerInv
  <2>3. TypeOK' BY <2>1 DEF IInv, TypeOK
  <2>4. ForceInv' /\ CountBound' /\ CountInv'
    BY <2>1 DEF IInv, ForceInv, CountBound, CountInv, Coming, Live, Going, Absent
  <2>5. TimerInv' BY <2>1, <2>2 DEF TimerInv
  <2> QED BY <2>3, <2>4, <2>5 DEF IInv
<1>5. CASE Free
  <2>1. /\ remover = "free" /\ remover' = "none" /\ state' = "absent" /\ refcnt' = 0
        /\ (init = "dead" => init' = "none") /\ (init # "dead" => init' = init)
        /\ force' \in {"no", "yes", "dangling"}
        /\ UNCHANGED <<loop, holders, exit, armed, running, repl, fault, hist>>
    BY <1>0, <1>5 DEF Free, timer, TypeOK
  <2>2. TypeOK' BY <2>1, <1>c DEF IInv, TypeOK
  <2>3. ForceInv' /\ CountBound' BY <2>1, <1>c DEF IInv, ForceInv, CountBound
  <2>4. "inuse" \notin hist => state = "going"
    BY <2>1 DEF IInv, TypeOK, CountInv, Coming, Live, Absent
  <2>5. CountInv' BY <2>1, <2>4 DEF IInv, CountInv, Coming, Live, Going, Absent
  <2>6. TimerInv' BY <2>1 DEF IInv, TimerInv
  <2> QED BY <2>2, <2>3, <2>5, <2>6 DEF IInv
<1> QED BY <1>1, <1>2, <1>3, <1>4, <1>5

LEMMA ForceStep ==
    IInv /\ (ForceNotFound \/ ForceState \/ ForceCount \/ ForceSwap \/ ForceDangling \/ ForceRmmod
              \/ \E r \in BOOLEAN : ForceFind(r)) => IInv'
<1> SUFFICES ASSUME IInv,
                    ForceNotFound \/ ForceState \/ ForceCount \/ ForceSwap \/ ForceDangling \/ ForceRmmod
                    \/ \E r \in BOOLEAN : ForceFind(r)
             PROVE  IInv'
  OBVIOUS
<1>0. TypeOK BY DEF IInv
<1>c. Cardinality({}) = 0 /\ Cardinality(holders) \in Nat /\ Cardinality(Users) \in Nat
  BY <1>0, CardFacts
<1>1. CASE \E r \in BOOLEAN : ForceFind(r)
  <2>1. PICK r \in BOOLEAN : ForceFind(r) BY <1>1
  <2>2. repl' \in BOOLEAN BY <2>1, Zenon DEF ForceFind
  <2>3. /\ force = "no" /\ state # "absent" /\ force' = "found"
        /\ UNCHANGED <<state, init, loop, refcnt, holders, exit, remover, armed, running, fault, hist>>
    BY <2>1 DEF ForceFind, timer
  <2>4. TypeOK' BY <2>2, <2>3 DEF IInv, TypeOK
  <2>5. ForceInv' BY <2>3 DEF ForceInv
  <2>6. CountBound' /\ CountInv'
    BY <2>3 DEF IInv, CountBound, CountInv, Coming, Live, Going, Absent
  <2>7. TimerInv' BY <2>3 DEF IInv, TimerInv
  <2> QED BY <2>4, <2>5, <2>6, <2>7 DEF IInv
<1>2. CASE ForceNotFound
  BY <1>2 DEF ForceNotFound, vars, timer, forcing, IInv, TypeOK, ForceInv, CountBound, CountInv,
              Coming, Live, Going, Absent, TimerInv
<1>3. CASE ForceState
  <2>1. /\ force = "found" /\ force' = "live" /\ state' = "live"
        /\ UNCHANGED <<init, loop, refcnt, holders, exit, remover, armed, running, repl, fault>>
    BY <1>3 DEF ForceState, timer
  <2>2. /\ hist \subseteq hist' /\ hist' \subseteq hist \cup {"inuse", "replaced"}
        /\ InUse => "inuse" \in hist'
    BY <1>3 DEF ForceState
  <2>3. TypeOK' BY <2>1, <2>2 DEF IInv, TypeOK
  <2>4. ForceInv' /\ CountBound' BY <2>1 DEF IInv, ForceInv, CountBound
  <2>5. "inuse" \notin hist' => "inuse" \notin hist /\ holders = {} /\ remover = "none" /\ init # "runs"
    BY <2>2 DEF InUse
  <2>6. CountInv'
    BY <2>1, <2>5, <1>c DEF IInv, TypeOK, ForceInv, CountInv, Coming, Live, Going, Absent
  <2>7. hist' = {} => hist = {} /\ remover = "none" BY <2>2, <2>5
  <2>8. TimerInv' BY <2>1, <2>7 DEF IInv, TimerInv
  <2> QED BY <2>3, <2>4, <2>6, <2>8 DEF IInv
<1>4. CASE ForceCount /\ fault' = "wild"
  <2>1. UNCHANGED <<state, init, loop, refcnt, holders, exit, remover, armed, running, force, repl, hist>>
    BY <1>4 DEF ForceCount, timer, Up
  <2>2. TypeOK' BY <1>4, <2>1 DEF IInv, TypeOK
  <2>3. ForceInv' /\ CountBound' /\ CountInv'
    BY <1>4, <2>1 DEF IInv, ForceInv, CountBound, CountInv, Coming, Live, Going, Absent
  <2>4. TimerInv' BY <1>4, <2>1 DEF IInv, TimerInv
  <2> QED BY <2>2, <2>3, <2>4 DEF IInv
<1>5. CASE ForceCount /\ fault' # "wild"
  <2>1. /\ force = "live" /\ force' = "counted" /\ refcnt' = 1
        /\ UNCHANGED <<state, init, loop, holders, exit, remover, armed, running, repl, fault>>
    BY <1>5 DEF ForceCount, timer
  <2>2. /\ hist \subseteq hist' /\ hist' \subseteq hist \cup {"inuse", "replaced"}
        /\ InUse => "inuse" \in hist'
    BY <1>5 DEF ForceCount
  <2>3. TypeOK' BY <2>1, <2>2, <1>c DEF IInv, TypeOK
  <2>4. ForceInv' /\ CountBound' BY <2>1, <1>c DEF IInv, ForceInv, CountBound
  <2>5. "inuse" \notin hist' => "inuse" \notin hist /\ holders = {} /\ remover = "none" /\ init # "runs"
    BY <2>2 DEF InUse
  <2>6. CountInv'
    BY <2>1, <2>5, <1>c DEF IInv, TypeOK, ForceInv, CountInv, Coming, Live, Going, Absent
  <2>7. hist' = {} => hist = {} BY <2>2
  <2>8. TimerInv' BY <2>1, <2>7 DEF IInv, TimerInv
  <2> QED BY <2>3, <2>4, <2>6, <2>8 DEF IInv
<1>6. CASE ForceSwap
  <2>1. /\ force = "counted" /\ force' = "yes" /\ exit' \in {exit, "force"}
        /\ UNCHANGED <<state, init, loop, refcnt, holders, remover, armed, running, repl, fault>>
    BY <1>6 DEF ForceSwap, timer
  <2>2. /\ hist \subseteq hist' /\ hist' \subseteq hist \cup {"replaced"}
        /\ exit' # exit => "replaced" \in hist'
    BY <1>6 DEF ForceSwap
  <2>3. TypeOK' BY <2>1, <2>2 DEF IInv, TypeOK
  <2>4. ForceInv' BY <2>1 DEF ForceInv
  <2>5. "inuse" \notin hist' => "inuse" \notin hist BY <2>2
  <2>6. CountBound' /\ CountInv'
    BY <2>1, <2>5 DEF IInv, CountBound, CountInv, Coming, Live, Going, Absent
  <2>7. hist' = {} => hist = {} /\ exit' = exit BY <2>2
  <2>8. TimerInv' BY <2>1, <2>7 DEF IInv, TimerInv
  <2> QED BY <2>3, <2>4, <2>6, <2>8 DEF IInv
<1>7. CASE ForceDangling
  <2>1. /\ force = "dangling" /\ force' \in {"yes", "dangling"} /\ fault' \in {fault, "wild"}
        /\ UNCHANGED <<state, init, loop, refcnt, holders, exit, remover, armed, running, repl, hist>>
    BY <1>7 DEF ForceDangling, timer
  <2>2. TypeOK' BY <2>1 DEF IInv, TypeOK
  <2>3. ForceInv' BY <2>1 DEF ForceInv
  <2>4. CountBound' /\ CountInv'
    BY <2>1 DEF IInv, CountBound, CountInv, Coming, Live, Going, Absent
  <2>5. TimerInv' BY <2>1 DEF IInv, TimerInv
  <2> QED BY <2>2, <2>3, <2>4, <2>5 DEF IInv
<1>8. CASE ForceRmmod
  <2>1. /\ exit = "own" => exit' = "own"
        /\ exit' \in {exit, "gone"} /\ force = "yes" /\ force' = "no" /\ repl' = FALSE
        /\ UNCHANGED <<state, init, loop, refcnt, holders, remover, armed, running, fault, hist>>
    BY <1>8 DEF ForceRmmod, timer
  <2>2. repl' \in BOOLEAN BY <2>1, Zenon
  <2>3. TypeOK' BY <2>1, <2>2 DEF IInv, TypeOK
  <2>4. ForceInv' BY <2>1 DEF ForceInv
  <2>5. CountBound' /\ CountInv' BY <2>1 DEF IInv, CountBound, CountInv, Coming, Live, Going, Absent
  <2>6. TimerInv' BY <2>1 DEF IInv, TimerInv
  <2> QED BY <2>3, <2>4, <2>5, <2>6 DEF IInv
<1> QED BY <1>1, <1>2, <1>3, <1>4, <1>5, <1>6, <1>7, <1>8

LEMMA Inductive == IInv /\ [Next]_vars => IInv'
<1>1. IInv /\ Next => IInv'
  BY LoadStep, TimerStep, UserStep, RemoveStep, ForceStep DEF Next
<1>2. IInv /\ UNCHANGED vars => IInv'
  BY DEF vars, timer, forcing, IInv, TypeOK, ForceInv, CountBound, CountInv, Coming, Live, Going, Absent, TimerInv
<1> QED BY <1>1, <1>2

\* The states of the target and its reference count stay in range for any
\* finite number of users: neither forcermmod.c nor a late put of a reference
\* takes the count below 0 or past the users and the load.
THEOREM TypeCorrect == Spec => []TypeOK
<1>1. IInv => TypeOK BY DEF IInv
<1> QED BY InitIInv, Inductive, <1>1, PTL DEF Spec

\* As long as force_cleanup_module is not called on a target in use, its
\* reference count is one more than its users while it is live, and it is
\* never freed under a user, however many there are.
THEOREM CountsRight == Spec => []CountRight
<1>1. IInv => CountRight BY DEF IInv, CountInv, Live, Going, Absent, CountRight
<1> QED BY InitIInv, Inductive, <1>1, PTL DEF Spec

\* lab3_exit leaves no timer behind although timer_function rearms it, if the
\* module is not forced while in use and keeps its own exit function.
THEOREM TimersGone == Spec => []TimerGone
<1>1. IInv => TimerGone BY DEF IInv, TimerInv, TimerGone
<1> QED BY InitIInv, Inductive, <1>1, PTL DEF Spec
=============================================================================
