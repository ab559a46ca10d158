---------------------------- MODULE LibraryProofs ----------------------------
(***************************************************************************)
(* Theorems about futures, allocators, memory objects, descriptors and     *)
(* events: a result is moved out once, for any states, promises and        *)
(* threads; a block is handed out once, for any blocks, size of the pool   *)
(* and number of regions; every memory object has its own block, for any   *)
(* host, sizes and size of pages, and every descriptor its one owner; a    *)
(* call of an event visits its callbacks in order and once each, for any   *)
(* callbacks and calls.                                                    *)
(***************************************************************************)
EXTENDS MCLibrary, SequenceTheorems, FiniteSetTheorems, NaturalsInduction, WellFoundedInduction, TLAPS

-----------------------------------------------------------------------------
(* Future                                                                  *)

\* No state is None.
NoneIsNoState == NoState \notin States

-----------------------------------------------------------------------------
(* The inductive invariant                                                 *)

FutureTypes ==
    /\ promise \in [Promises -> States \cup {NoState}] /\ retrieved \in [Promises -> BOOLEAN]
    /\ future \in [FuThreads -> States \cup {NoState}] /\ kind \in [FuThreads -> {"future", "shared"}]
    /\ doing \in [FuThreads -> {"runs", "waits", "gets"}]
    /\ taken \subseteq States

\* A state has one promise, and before get_future() no future and its result.
OnePromise ==
    /\ \A q, r \in Promises : promise[q] = promise[r] => q = r \/ promise[q] = NoState
    /\ \A q \in Promises : promise[q] # NoState /\ ~retrieved[q] =>
          promise[q] \notin taken /\ \A t \in FuThreads : future[t] # promise[q]

\* Who waits has a future.
WaitsForState == \A t \in FuThreads : doing[t] # "runs" => future[t] # NoState

FutureInv == FutureTypes /\ OnePromise /\ WaitsForState /\ TakenOnce

-----------------------------------------------------------------------------
(* The actions                                                             *)

LEMMA NewPromiseStep ==
    ASSUME FutureInv, NoneIsNoState, NEW q \in Promises, NewPromise(q) PROVE FutureInv'
<1> USE DEF FutureInv, NoneIsNoState
<1>1. PICK s \in States \ Referenced :
        /\ promise' = [promise EXCEPT ![q] = s] /\ taken' = taken \ {s}
        /\ retrieved' = [retrieved EXCEPT ![q] = FALSE]
        /\ UNCHANGED <<atexit, future, kind, doing>>
  BY DEF NewPromise
<1>2. s # NoState /\ (\A r \in Promises : promise[r] # s) /\ (\A t \in FuThreads : future[t] # s)
  BY <1>1 DEF Referenced
<1>3. FutureTypes'
  BY <1>1 DEF FutureTypes
<1>4. OnePromise'
  BY <1>1, <1>2 DEF FutureTypes, OnePromise
<1>5. WaitsForState' /\ TakenOnce'
  BY <1>1 DEF WaitsForState, TakenOnce
<1> QED  BY <1>3, <1>4, <1>5

LEMMA MoveStep ==
    ASSUME FutureInv, NEW q \in Promises, NEW r \in Promises, MovePromise(q, r) PROVE FutureInv'
<1> USE DEF FutureInv
<1>1. /\ q # r /\ promise[r] # NoState
      /\ promise' = [promise EXCEPT ![q] = promise[r], ![r] = NoState]
      /\ retrieved' = [retrieved EXCEPT ![q] = retrieved[r]]
      /\ UNCHANGED <<future, kind, doing, taken>>
  BY DEF MovePromise, futureVars
<1>2. FutureTypes'
  BY <1>1 DEF FutureTypes
<1>3. OnePromise'
  BY <1>1 DEF FutureTypes, OnePromise
<1>4. WaitsForState' /\ TakenOnce'
  BY <1>1 DEF WaitsForState, TakenOnce
<1> QED  BY <1>2, <1>3, <1>4

LEMMA GetFutureStep ==
    ASSUME FutureInv, NEW q \in Promises, NEW t \in FuThreads, GetFuture(q, t) PROVE FutureInv'
<1> USE DEF FutureInv
<1>1. /\ ~retrieved[q] /\ promise[q] # NoState /\ future[t] = NoState
      /\ retrieved' = [retrieved EXCEPT ![q] = TRUE]
      /\ future' = [future EXCEPT ![t] = promise[q]] /\ kind' = [kind EXCEPT ![t] = "future"]
      /\ UNCHANGED <<promise, doing, taken>>
  BY DEF GetFuture, Retrieve
<1>2. FutureTypes'
  BY <1>1 DEF FutureTypes
<1>3. OnePromise'
  BY <1>1 DEF FutureTypes, OnePromise
<1>4. WaitsForState'
  BY <1>1 DEF FutureTypes, WaitsForState
<1>5. TakenOnce'
  BY <1>1 DEF FutureTypes, OnePromise, TakenOnce
<1> QED  BY <1>2, <1>3, <1>4, <1>5

\* Setting results and breaking promises leave futures alone.
LEMMA PromiseStep ==
    ASSUME FutureInv,
           \/ \E q \in Promises : DestroyPromise(q) \/ \E k \in Kinds : Set(q, k) \/ SetAtExit(q, k)
           \/ ThreadExit
    PROVE  FutureInv'
<1> USE DEF FutureInv
<1>1. /\ \/ UNCHANGED promise
         \/ \E q \in Promises : promise' = [promise EXCEPT ![q] = NoState]
      /\ UNCHANGED <<retrieved, future, kind, doing, taken>>
  BY DEF DestroyPromise, Set, SetAtExit, ThreadExit, promiseVars, futureVars
<1>2. FutureTypes'
  BY <1>1 DEF FutureTypes
<1>3. OnePromise'
  BY <1>1 DEF FutureTypes, OnePromise
<1>4. WaitsForState' /\ TakenOnce'
  BY <1>1 DEF WaitsForState, TakenOnce
<1> QED  BY <1>2, <1>3, <1>4

LEMMA ShareStep ==
    ASSUME FutureInv, NEW t \in FuThreads, NEW u \in FuThreads, Share(t, u) PROVE FutureInv'
<1> USE DEF FutureInv
<1>1. /\ future[t] # NoState /\ doing[u] = "runs" /\ (t = u \/ kind[t] = "shared")
      /\ future' = [future EXCEPT ![u] = future[t]] /\ kind' = [kind EXCEPT ![u] = "shared"]
      /\ UNCHANGED <<promise, retrieved, doing, taken>>
  BY DEF Share, promiseVars
<1>2. FutureTypes'
  BY <1>1 DEF FutureTypes
<1>3. OnePromise'
  BY <1>1 DEF FutureTypes, OnePromise
<1>4. WaitsForState'
  BY <1>1 DEF FutureTypes, WaitsForState
<1>5. TakenOnce'
  BY <1>1 DEF FutureTypes, TakenOnce
<1> QED  BY <1>2, <1>3, <1>4, <1>5

LEMMA MoveFutureStep ==
    ASSUME FutureInv, NEW t \in FuThreads, NEW u \in FuThreads, MoveFuture(t, u) PROVE FutureInv'
<1> USE DEF FutureInv
<1>1. /\ t # u /\ future[t] # NoState /\ doing[t] = "runs" /\ doing[u] = "runs"
      /\ future' = [future EXCEPT ![u] = future[t], ![t] = NoState]
      /\ kind' = [kind EXCEPT ![u] = kind[t]]
      /\ UNCHANGED <<promise, retrieved, doing, taken>>
  BY DEF MoveFuture, promiseVars
<1>2. FutureTypes'
  BY <1>1 DEF FutureTypes
<1>3. OnePromise'
  BY <1>1 DEF FutureTypes, OnePromise
<1>4. WaitsForState'
  BY <1>1 DEF FutureTypes, WaitsForState
<1>5. TakenOnce'
  BY <1>1 DEF FutureTypes, TakenOnce
<1> QED  BY <1>2, <1>3, <1>4, <1>5

\* get() moves the result of a future that nobody shares.
LEMMA WaitReturnsStep ==
    ASSUME FutureInv, NEW t \in FuThreads, WaitReturns(t) PROVE FutureInv'
<1> USE DEF FutureInv
<1>1. /\ doing[t] # "runs" /\ future[t] # NoState /\ doing' = [doing EXCEPT ![t] = "runs"]
      /\ \/ /\ kind[t] = "future" /\ taken' = taken \cup {future[t]}
            /\ future' = [future EXCEPT ![t] = NoState]
         \/ UNCHANGED <<taken, future>>
      /\ UNCHANGED <<promise, retrieved, kind>>
  BY DEF WaitReturns, WaitsForState, promiseVars
<1>2. FutureTypes'
  BY <1>1 DEF FutureTypes
<1>3. OnePromise'
  BY <1>1 DEF FutureTypes, OnePromise
<1>4. WaitsForState'
  BY <1>1 DEF FutureTypes, WaitsForState
<1>5. TakenOnce'
  BY <1>1 DEF FutureTypes, TakenOnce
<1> QED  BY <1>2, <1>3, <1>4, <1>5

LEMMA WaitStep ==
    ASSUME FutureInv, NEW t \in FuThreads,
           DropFuture(t) \/ (\E how \in {"waits", "gets"} : Wait(t, how)) \/ TimedOut(t)
    PROVE  FutureInv'
<1> USE DEF FutureInv
<1>1. /\ \/ doing[t] = "runs" /\ future' = [future EXCEPT ![t] = NoState] /\ UNCHANGED doing
         \/ /\ future[t] # NoState /\ UNCHANGED future
            /\ \E how \in {"waits", "gets"} : doing' = [doing EXCEPT ![t] = how]
         \/ doing' = [doing EXCEPT ![t] = "runs"] /\ UNCHANGED future
      /\ UNCHANGED <<promise, retrieved, kind, taken>>
  BY DEF DropFuture, Wait, TimedOut, promiseVars
<1>2. FutureTypes'
  BY <1>1 DEF FutureTypes
<1>3. OnePromise'
  BY <1>1 DEF FutureTypes, OnePromise
<1>4. WaitsForState'
  BY <1>1 DEF FutureTypes, WaitsForState
<1>5. TakenOnce'
  BY <1>1 DEF FutureTypes, TakenOnce
<1> QED  BY <1>2, <1>3, <1>4, <1>5

\* However promises and futures are moved, shared and destroyed, also when a promise that was not
\* kept is assigned to: no thread has a future whose result was moved out, and two have the same
\* state only when it is shared.
THEOREM ResultsTakenOnce == NoneIsNoState => (FuSpec => []TakenOnce)
<1> SUFFICES ASSUME NoneIsNoState PROVE FuSpec => []TakenOnce
  OBVIOUS
<1>1. FuInit => FutureInv
  BY DEF FuInit, FutureInv, FutureTypes, OnePromise, WaitsForState, TakenOnce
<1>2. FutureInv /\ [FuNext]_fuVars => FutureInv'
  <2> SUFFICES ASSUME FutureInv, [FuNext]_fuVars PROVE FutureInv'
    OBVIOUS
  <2>1. CASE UNCHANGED fuVars
    BY <2>1 DEF fuVars, promiseVars, futureVars, FutureInv, FutureTypes, OnePromise, WaitsForState,
                TakenOnce
  <2>2. ASSUME NEW q \in Promises, NewPromise(q) PROVE FutureInv'
    BY <2>2, NewPromiseStep
  <2>3. ASSUME NEW q \in Promises, NEW r \in Promises, MovePromise(q, r) PROVE FutureInv'
    BY <2>3, MoveStep
  <2>4. ASSUME NEW q \in Promises, NEW t \in FuThreads, GetFuture(q, t) PROVE FutureInv'
    BY <2>4, GetFutureStep
  <2>5. CASE \/ \E q \in Promises :
                   DestroyPromise(q) \/ \E k \in Kinds \ {"broken_promise"} : Set(q, k) \/ SetAtExit(q, k)
             \/ ThreadExit
    BY <2>5, PromiseStep
  <2>6. ASSUME NEW t \in FuThreads, NEW u \in FuThreads, Share(t, u) PROVE FutureInv'
    BY <2>6, ShareStep
  <2>7. ASSUME NEW t \in FuThreads, NEW u \in FuThreads, MoveFuture(t, u) PROVE FutureInv'
    BY <2>7, MoveFutureStep
  <2>8. ASSUME NEW t \in FuThreads, WaitReturns(t) PROVE FutureInv'
    BY <2>8, WaitReturnsStep
  <2>9. ASSUME NEW t \in FuThreads, DropFuture(t) \/ Wait(t, "waits") \/ Wait(t, "gets") \/ TimedOut(t)
        PROVE  FutureInv'
    BY <2>9, WaitStep
  <2> QED  BY <2>1, <2>2, <2>3, <2>4, <2>5, <2>6, <2>7, <2>8, <2>9 DEF FuNext
<1>3. FutureInv => TakenOnce
  BY DEF FutureInv
<1> QED  BY <1>1, <1>2, <1>3, PTL DEF FuSpec

-----------------------------------------------------------------------------
(* LockedAlloc: exception handlers free nothing while the pool grows       *)

Restricted == PoolSize \in Nat /\ "trap" \notin PoolOps /\ "torn" \notin PoolOps

-----------------------------------------------------------------------------
(* The inductive invariant                                                 *)

CallKinds == {"none", "new", "malloc", "realloc", "locked"}
AllocPcs == {"idle", "resize", "growing", "alloc", "release", "min", "store"}

\* Only finitely many units are in a region: Chunk is the largest of them.
Bounded(r) == \E n \in Nat : \A k \in DOMAIN r : r[k] <= n

AllocTypes ==
    /\ regions \in Seq(Nat) /\ regions # <<>> /\ Bounded(regions)
    /\ irqAlloc \in BOOLEAN /\ inMalloc \in BOOLEAN /\ irq \in BOOLEAN /\ unseen \in BOOLEAN
    /\ minChunk \in Nat /\ nested \in Nat
    /\ place \in [Blocks -> {Nowhere, Heap} \cup DOMAIN regions]
    /\ step \in AllocPcs /\ op \in CallKinds
    /\ step \in {"min", "store"} => op = "locked"
    /\ step # "idle" /\ op = "realloc" => arg \in Blocks
    /\ step = "release" => op = "realloc"

\* While irq_alloc is null, and while an exception is allocated, handlers do not run.
MaskedApart ==
    /\ irqAlloc <=> step # "growing"
    /\ irq => step # "growing" /\ nested = 0 /\ step # "store"
    /\ nested > 0 => inMalloc /\ nested = 1
    /\ step = "idle" => nested = 0

\* min_chunk_size is not more than what is there, but for who has just allocated.
MinKnown ==
    /\ step \notin {"min", "store"} => minChunk <= Chunk(regions)
    /\ step = "store" => arg \in Nat /\ arg <= Chunk(regions)

\* What was not used since is still there.
Restored == ~unseen => Chunk(regions) >= PoolSize \div 4

AllocInv == AllocTypes /\ MaskedApart /\ ~misfreed /\ MinKnown /\ Restored

-----------------------------------------------------------------------------
(* The largest chunk                                                       *)

LEMMA ChunkMax ==
    ASSUME NEW r \in Seq(Nat), r # <<>>, Bounded(r)
    PROVE  Chunk(r) \in Nat /\ (\E k \in DOMAIN r : r[k] = Chunk(r)) /\ \A k \in DOMAIN r : r[k] <= Chunk(r)
<1>1. r \in [1..Len(r) -> Nat] /\ DOMAIN r = 1..Len(r) /\ Len(r) \in Nat \ {0}
  BY LenProperties, EmptySeq
<1>2. PICK n \in Nat : \A k \in DOMAIN r : r[k] <= n
  BY DEF Bounded
<1> DEFINE T == {n - r[k] : k \in DOMAIN r}
<1>3. T \subseteq Nat /\ T # {}
  <2>1. ASSUME NEW k \in DOMAIN r PROVE n - r[k] \in Nat
    BY <1>1, <1>2, <2>1
  <2>2. 1 \in DOMAIN r
    BY <1>1
  <2> QED  BY <2>1, <2>2
<1>4. PICK m \in T : \A y \in T : <<y, m>> \notin OpToRel(<, Nat)
  <2> HIDE DEF T
  <2> QED  BY <1>3, NatLessThanWellFounded, WFMin
<1>5. \A y \in T : m <= y
  <2> SUFFICES ASSUME NEW y \in T PROVE m <= y
    OBVIOUS
  <2>1. m \in Nat /\ y \in Nat
    BY <1>3
  <2>2. ~(y < m)
    BY <1>4, <2>1 DEF OpToRel
  <2> QED  BY <2>1, <2>2
<1>6. PICK k \in DOMAIN r : m = n - r[k]
  BY <1>4
<1>7. \A j \in DOMAIN r : r[j] <= r[k]
  <2> SUFFICES ASSUME NEW j \in DOMAIN r PROVE r[j] <= r[k]
    OBVIOUS
  <2>1. m <= n - r[j]
    BY <1>5
  <2>2. r[j] \in Nat /\ r[k] \in Nat
    BY <1>1
  <2> QED  BY <1>6, <2>1, <2>2
<1>8. ToSet(r) = {r[j] : j \in DOMAIN r}
  BY DEF ToSet
<1>9. r[k] \in ToSet(r) /\ \A y \in ToSet(r) : r[k] >= y
  BY <1>1, <1>7, <1>8
<1>10. Chunk(r) \in ToSet(r) /\ \A y \in ToSet(r) : Chunk(r) >= y
  BY <1>9 DEF Chunk, Max
<1> QED  BY <1>1, <1>8, <1>10

LEMMA MinOfTwo ==
    ASSUME NEW a \in Nat, NEW b \in Nat
    PROVE  Min({a, b}) \in Nat /\ Min({a, b}) <= a /\ Min({a, b}) <= b
<1>1. \E x \in {a, b} : \A y \in {a, b} : x <= y
  OBVIOUS
<1>2. Min({a, b}) \in {a, b} /\ \A y \in {a, b} : Min({a, b}) <= y
  BY <1>1 DEF Min
<1> QED  BY <1>2

\* What has more units in every region has the larger chunk.
LEMMA ChunkGrows ==
    ASSUME NEW r \in Seq(Nat), NEW q \in Seq(Nat), r # <<>>, q # <<>>, Bounded(r), Bounded(q),
           \A k \in DOMAIN r : k \in DOMAIN q /\ r[k] <= q[k]
    PROVE  Chunk(r) <= Chunk(q)
<1>1. PICK k \in DOMAIN r : r[k] = Chunk(r)
  BY ChunkMax
<1>2. Chunk(r) \in Nat /\ Chunk(q) \in Nat /\ r[k] <= q[k] /\ q[k] <= Chunk(q)
  BY <1>1, ChunkMax
<1>3. q[k] \in Nat /\ r[k] \in Nat
  BY LenProperties
<1> HIDE DEF Bounded
<1> QED  BY <1>1, <1>2, <1>3

\* One region with one unit more or less.
LEMMA RegionChanged ==
    ASSUME NEW r \in Seq(Nat), r # <<>>, Bounded(r), NEW k \in DOMAIN r, NEW n \in Nat
    PROVE  /\ [r EXCEPT ![k] = n] \in Seq(Nat) /\ [r EXCEPT ![k] = n] # <<>>
           /\ DOMAIN [r EXCEPT ![k] = n] = DOMAIN r
           /\ Bounded([r EXCEPT ![k] = n])
<1> DEFINE q == [r EXCEPT ![k] = n]
<1>1. r \in [1..Len(r) -> Nat] /\ DOMAIN r = 1..Len(r) /\ Len(r) \in Nat \ {0}
  BY LenProperties, EmptySeq
<1>2. q \in [1..Len(r) -> Nat] /\ DOMAIN q = DOMAIN r
  BY <1>1
<1>3. q \in Seq(Nat) /\ Len(q) = Len(r)
  BY <1>1, <1>2, IsASeq, LenProperties
<1>4. q # <<>>
  BY <1>1, <1>2, <1>3, EmptySeq
<1>5. PICK m \in Nat : \A j \in DOMAIN r : r[j] <= m
  BY DEF Bounded
<1>6. \A j \in DOMAIN q : q[j] <= m + n
  <2> SUFFICES ASSUME NEW j \in DOMAIN q PROVE q[j] <= m + n
    OBVIOUS
  <2>1. q[j] = (IF j = k THEN n ELSE r[j]) /\ j \in DOMAIN r
    BY <1>1, <1>2
  <2>2. r[j] \in Nat /\ r[j] <= m
    BY <1>1, <1>5, <2>1
  <2> HIDE DEF q
  <2> QED  BY <2>1, <2>2
<1>7. m + n \in Nat
  BY <1>5
<1> QED  BY <1>2, <1>3, <1>4, <1>6, <1>7 DEF Bounded

\* A block goes back to the pool while irq_alloc is set, or to the heap.
LEMMA RegionFreed ==
    ASSUME AllocInv, NEW b \in Blocks, Free(b), irqAlloc
    PROVE  /\ regions' \in Seq(Nat) /\ regions' # <<>> /\ Bounded(regions')
           /\ DOMAIN regions' = DOMAIN regions
           /\ Chunk(regions) <= Chunk(regions') /\ Chunk(regions) \in Nat /\ Chunk(regions') \in Nat
           /\ place' \in [Blocks -> {Nowhere, Heap} \cup DOMAIN regions']
           /\ misfreed' = misfreed
<1>1. /\ regions \in Seq(Nat) /\ regions # <<>> /\ Bounded(regions)
      /\ place \in [Blocks -> {Nowhere, Heap} \cup DOMAIN regions] /\ misfreed = FALSE
      /\ place[b] # Nowhere /\ place' = [place EXCEPT ![b] = Nowhere]
  BY DEF AllocInv, AllocTypes, Free
<1>2. Chunk(regions) \in Nat
  BY <1>1, ChunkMax
<1>3. CASE place[b] # Heap
  <2> DEFINE k == place[b]
  <2>1. k \in DOMAIN regions /\ regions[k] \in Nat /\ regions[k] + 1 \in Nat
    <3>1. k \in DOMAIN regions
      BY <1>1, <1>3
    <3> QED  BY <1>1, <3>1, LenProperties
  <2>2. regions' = [regions EXCEPT ![k] = regions[k] + 1] /\ misfreed' = misfreed
    BY <1>3 DEF Free
  <2> HIDE DEF k
  <2>3. /\ regions' \in Seq(Nat) /\ regions' # <<>> /\ Bounded(regions')
        /\ DOMAIN regions' = DOMAIN regions
    BY <1>1, <2>1, <2>2, RegionChanged
  <2>4. \A j \in DOMAIN regions : regions[j] <= regions'[j]
    <3> SUFFICES ASSUME NEW j \in DOMAIN regions PROVE regions[j] <= regions'[j]
      OBVIOUS
    <3>1. regions[j] \in Nat
      BY <1>1, LenProperties
    <3>2. regions'[j] = IF j = k THEN regions[k] + 1 ELSE regions[j]
      BY <1>1, <2>2
    <3> QED  BY <2>1, <3>1, <3>2
  <2>5. Chunk(regions) <= Chunk(regions') /\ Chunk(regions') \in Nat
    BY <1>1, <2>3, <2>4, ChunkGrows, ChunkMax
  <2>6. place' \in [Blocks -> {Nowhere, Heap} \cup DOMAIN regions']
    BY <1>1, <2>3
  <2> QED  BY <1>2, <2>2, <2>3, <2>5, <2>6
<1>4. CASE place[b] = Heap
  <2>1. regions' = regions /\ misfreed' = misfreed
    BY <1>1, <1>4 DEF Free
  <2>2. place' \in [Blocks -> {Nowhere, Heap} \cup DOMAIN regions]
    BY <1>1
  <2> QED  BY <1>1, <1>2, <2>1, <2>2
<1> QED  BY <1>3, <1>4

LEMMA Taken ==
    ASSUME AllocInv, NEW b \in Blocks, TakeLocked(b)
    PROVE  /\ regions' \in Seq(Nat) /\ regions' # <<>> /\ Bounded(regions')
           /\ DOMAIN regions' = DOMAIN regions /\ Chunk(regions') \in Nat
           /\ place' \in [Blocks -> {Nowhere, Heap} \cup DOMAIN regions']
           /\ unseen' = TRUE
<1>1. /\ regions \in Seq(Nat) /\ regions # <<>> /\ Bounded(regions) /\ unseen' = TRUE
      /\ place \in [Blocks -> {Nowhere, Heap} \cup DOMAIN regions]
  BY DEF AllocInv, AllocTypes, TakeLocked
<1>2. PICK k \in DOMAIN regions :
        /\ regions[k] > 0 /\ regions' = [regions EXCEPT ![k] = regions[k] - 1]
        /\ place' = [place EXCEPT ![b] = k]
  BY DEF TakeLocked
<1>3. regions[k] \in Nat
  BY <1>1, LenProperties
<1>4. regions[k] - 1 \in Nat
  BY <1>2, <1>3
<1>5. /\ regions' \in Seq(Nat) /\ regions' # <<>> /\ Bounded(regions')
      /\ DOMAIN regions' = DOMAIN regions
  BY <1>1, <1>2, <1>4, RegionChanged
<1>6. Chunk(regions') \in Nat
  BY <1>5, ChunkMax
<1>7. place' \in [Blocks -> {Nowhere, Heap} \cup DOMAIN regions']
  BY <1>1, <1>2, <1>5
<1> QED  BY <1>1, <1>5, <1>6, <1>7

-----------------------------------------------------------------------------
(* The actions                                                             *)

LEMMA Quarter == ASSUME NEW n \in Nat
                 PROVE  n \div 4 \in Nat /\ n \div 2 \in Nat /\ n \div 4 <= n \div 2 /\ n \div 4 <= n
OBVIOUS

LEMMA InitAlloc == ASSUME Restricted, PoolInit PROVE AllocInv
<1>1. /\ regions = <<PoolSize>> /\ regions \in Seq(Nat) /\ regions # <<>> /\ PoolSize \in Nat
      /\ DOMAIN regions = {1} /\ regions[1] = PoolSize
  BY DEF PoolInit, Restricted
<1>2. Bounded(regions)
  BY <1>1 DEF Bounded
<1>3. Chunk(regions) = PoolSize
  BY <1>1, <1>2, ChunkMax
<1>4. AllocTypes
  BY <1>1, <1>2 DEF AllocTypes, PoolInit, AllocPcs, CallKinds, Nowhere, Heap
<1>5. MaskedApart /\ ~misfreed
  BY DEF MaskedApart, PoolInit
<1>6. MinKnown /\ Restored
  BY <1>1, <1>3, Quarter DEF MinKnown, Restored, PoolInit
<1> QED  BY <1>4, <1>5, <1>6 DEF AllocInv

\* Steps that leave regions, blocks and what is known of them alone.
LEMMA CallStep == ASSUME AllocInv, NEW o \in {"new", "malloc", "realloc", "locked"}, Call(o) PROVE AllocInv'
<1>1. /\ ~irq /\ step = "idle" /\ op' = o /\ step' = "resize" /\ inMalloc' \in BOOLEAN
      /\ (o = "realloc" => arg' \in Blocks)
      /\ UNCHANGED <<regions, irqAlloc, minChunk, unseen, place, misfreed, nested, irq>>
  BY DEF Call, poolVars, blockVars
<1>2. AllocTypes'
  BY <1>1 DEF AllocInv, AllocTypes, AllocPcs, CallKinds
<1>3. MaskedApart' /\ ~misfreed'
  BY <1>1 DEF AllocInv, AllocTypes, MaskedApart
<1>4. MinKnown' /\ Restored'
  BY <1>1 DEF AllocInv, MinKnown, Restored
<1> QED  BY <1>2, <1>3, <1>4 DEF AllocInv

\* A block is freed: by the thread, at the end of realloc(), or by a handler.
LEMMA FreeStep ==
    ASSUME AllocInv, Restricted, NEW b \in Blocks, Free(b),
           Delete(b) \/ HandlerDelete(b) \/ (ReleaseOld /\ b = arg)
    PROVE  AllocInv'
<1>1. /\ UNCHANGED <<irqAlloc, minChunk, unseen, irq>>
      /\ \/ step # "growing" /\ (irq \/ step = "idle") /\ UNCHANGED <<inMalloc, step, op, arg, nested>>
         \/ ~irq /\ step = "release" /\ CallReturns
  BY DEF Delete, HandlerDelete, ReleaseOld, Restricted, AllocInv, MaskedApart
<1>2. irqAlloc
  BY <1>1 DEF AllocInv, MaskedApart
<1>3. /\ regions' \in Seq(Nat) /\ regions' # <<>> /\ Bounded(regions')
      /\ Chunk(regions) <= Chunk(regions') /\ Chunk(regions) \in Nat /\ Chunk(regions') \in Nat
      /\ place' \in [Blocks -> {Nowhere, Heap} \cup DOMAIN regions']
      /\ misfreed' = misfreed
  BY <1>2, RegionFreed
<1>4. AllocTypes'
  <2>1. AllocTypes
    BY DEF AllocInv
  <2>2. /\ irqAlloc' \in BOOLEAN /\ inMalloc' \in BOOLEAN /\ irq' \in BOOLEAN
        /\ unseen' \in BOOLEAN /\ minChunk' \in Nat /\ nested' \in Nat
    <3>1. CASE UNCHANGED <<inMalloc, step, op, arg, nested>>
      BY <1>1, <2>1, <3>1 DEF AllocTypes
    <3>2. CASE CallReturns
      BY <1>1, <2>1, <3>2 DEF AllocTypes, CallReturns
    <3> QED  BY <1>1, <3>1, <3>2
  <2>3. /\ step' \in AllocPcs /\ op' \in CallKinds /\ (step' \in {"min", "store"} => op' = "locked")
        /\ (step' # "idle" /\ op' = "realloc" => arg' \in Blocks)
        /\ (step' = "release" => op' = "realloc")
    BY <1>1, <2>1 DEF AllocTypes, CallReturns, AllocPcs, CallKinds
  <2> QED  BY <1>3, <2>2, <2>3 DEF AllocTypes
<1>5. MaskedApart' /\ ~misfreed'
  BY <1>1, <1>3 DEF AllocInv, MaskedApart, CallReturns
<1>6. MinKnown'
  BY <1>1, <1>3 DEF AllocInv, AllocTypes, MinKnown, CallReturns
<1>7. Restored'
  <2>1. PoolSize \div 4 \in Nat
    BY Quarter DEF Restricted
  <2> QED  BY <1>1, <1>3, <2>1 DEF AllocInv, Restored
<1> QED  BY <1>4, <1>5, <1>6, <1>7 DEF AllocInv

LEMMA ResizeStep == ASSUME AllocInv, Restricted, Resize PROVE AllocInv'
<1>1. /\ ~irq /\ step = "resize"
      /\ UNCHANGED <<regions, minChunk, place, misfreed, inMalloc, op, arg, nested, irq>>
      /\ \/ minChunk >= PoolSize \div 4 /\ step' = "alloc" /\ unseen' = FALSE /\ UNCHANGED irqAlloc
         \/ step' = "growing" /\ irqAlloc' = FALSE /\ UNCHANGED unseen
  BY DEF Resize, blockVars
<1>2. AllocTypes'
  BY <1>1 DEF AllocInv, AllocTypes, AllocPcs
<1>3. MaskedApart' /\ ~misfreed'
  <2>1. irqAlloc /\ MaskedApart /\ ~misfreed
    BY <1>1 DEF AllocInv, MaskedApart
  <2>2. irqAlloc' <=> step' # "growing"
    BY <1>1, <2>1
  <2>3. /\ irq' => step' # "growing" /\ nested' = 0 /\ step' # "store"
        /\ nested' > 0 => inMalloc' /\ nested' = 1
        /\ step' = "idle" => nested' = 0
    BY <1>1, <2>1 DEF MaskedApart
  <2> QED  BY <1>1, <2>1, <2>2, <2>3 DEF MaskedApart
<1>4. MinKnown'
  BY <1>1 DEF AllocInv, MinKnown
<1>5. Restored'
  <2>1. PoolSize \div 4 \in Nat /\ minChunk \in Nat /\ Chunk(regions) \in Nat
    BY Quarter, ChunkMax DEF Restricted, AllocInv, AllocTypes
  <2>2. minChunk <= Chunk(regions)
    BY <1>1 DEF AllocInv, MinKnown
  <2> QED  BY <1>1, <2>1, <2>2 DEF AllocInv, Restored
<1> QED  BY <1>2, <1>3, <1>4, <1>5 DEF AllocInv

\* The pool grows by half, or its users are told that it did not.
LEMMA GrowStep == ASSUME AllocInv, Restricted, Grow PROVE AllocInv'
<1>1. /\ ~irq /\ step = "growing" /\ irqAlloc' = TRUE /\ step' = "alloc"
      /\ UNCHANGED <<place, misfreed, inMalloc, op, arg, nested, irq>>
      /\ regions \in Seq(Nat) /\ regions # <<>> /\ Bounded(regions) /\ PoolSize \in Nat
  BY DEF Grow, blockVars, AllocInv, AllocTypes, Restricted
<1>2. CASE regions' = Append(regions, PoolSize \div 2) /\ minChunk' = Chunk(regions') /\ unseen' = FALSE
  <2> DEFINE n == PoolSize \div 2
  <2>1. n \in Nat /\ PoolSize \div 4 \in Nat /\ PoolSize \div 4 <= n
    BY <1>1, Quarter
  <2> HIDE DEF n
  <2>2. regions' = Append(regions, n)
    BY <1>2 DEF n
  <2>3. /\ regions' \in Seq(Nat) /\ Len(regions') = Len(regions) + 1 /\ Len(regions) \in Nat
        /\ regions'[Len(regions) + 1] = n
        /\ \A k \in 1..Len(regions) : regions'[k] = regions[k]
    BY <1>1, <2>1, <2>2, AppendProperties, LenProperties
  <2>4. DOMAIN regions' = 1..Len(regions) + 1 /\ DOMAIN regions = 1..Len(regions) /\ regions' # <<>>
    BY <1>1, <2>3, LenProperties, EmptySeq
  <2>5. Bounded(regions')
    <3>1. PICK m \in Nat : \A k \in DOMAIN regions : regions[k] <= m
      BY <1>1 DEF Bounded
    <3>2. \A k \in DOMAIN regions' : regions'[k] <= m + n
      <4> SUFFICES ASSUME NEW k \in DOMAIN regions' PROVE regions'[k] <= m + n
        OBVIOUS
      <4>1. CASE k = Len(regions) + 1
        BY <2>1, <2>3, <3>1, <4>1
      <4>2. CASE k \in 1..Len(regions)
        <5>1. regions'[k] = regions[k] /\ regions[k] <= m /\ regions[k] \in Nat
          BY <1>1, <2>3, <2>4, <3>1, <4>2, LenProperties
        <5> QED  BY <2>1, <3>1, <5>1
      <4> QED  BY <2>3, <2>4, <4>1, <4>2
    <3> QED  BY <2>1, <3>1, <3>2 DEF Bounded
  <2>6. Chunk(regions') \in Nat /\ n <= Chunk(regions')
    <3>1. Len(regions) + 1 \in DOMAIN regions'
      BY <2>3, <2>4
    <3> QED  BY <2>3, <2>4, <2>5, <3>1, ChunkMax
  <2>7. AllocTypes'
    <3>1. place' \in [Blocks -> {Nowhere, Heap} \cup DOMAIN regions']
      <4>1. DOMAIN regions \subseteq DOMAIN regions'
        BY <2>3, <2>4
      <4> QED  BY <1>1, <4>1 DEF AllocInv, AllocTypes
    <3> QED  BY <1>1, <1>2, <2>3, <2>4, <2>5, <2>6, <3>1 DEF AllocInv, AllocTypes, AllocPcs
  <2>8. MaskedApart' /\ ~misfreed'
    BY <1>1 DEF AllocInv, MaskedApart
  <2>9. MinKnown' /\ Restored'
    BY <1>1, <1>2, <2>1, <2>6 DEF MinKnown, Restored
  <2> QED  BY <2>7, <2>8, <2>9 DEF AllocInv
<1>3. CASE UNCHANGED <<regions, minChunk>> /\ unseen' = TRUE
  <2>1. AllocTypes'
    BY <1>1, <1>3 DEF AllocInv, AllocTypes, AllocPcs
  <2>2. MaskedApart' /\ ~misfreed'
    BY <1>1 DEF AllocInv, MaskedApart
  <2>3. MinKnown' /\ Restored'
    BY <1>1, <1>3 DEF AllocInv, MinKnown, Restored
  <2> QED  BY <2>1, <2>2, <2>3 DEF AllocInv
<1> QED  BY <1>2, <1>3 DEF Grow

LEMMA AllocateStep == ASSUME AllocInv, NEW b \in Blocks, Allocate(b) PROVE AllocInv'
<1>1. /\ ~irq /\ step = "alloc" /\ place' = [place EXCEPT ![b] = Heap]
      /\ UNCHANGED <<regions, irqAlloc, minChunk, unseen, misfreed, irq>>
      /\ \/ op = "realloc" /\ step' = "release" /\ UNCHANGED <<op, inMalloc, nested, arg>>
         \/ CallReturns
  BY DEF Allocate, poolVars
<1>2. AllocTypes'
  <2>1. place' \in [Blocks -> {Nowhere, Heap} \cup DOMAIN regions']
    BY <1>1 DEF AllocInv, AllocTypes
  <2>2. CASE op = "realloc" /\ step' = "release" /\ UNCHANGED <<op, inMalloc, nested, arg>>
    BY <1>1, <2>1, <2>2 DEF AllocInv, AllocTypes, AllocPcs, CallKinds
  <2>3. CASE CallReturns
    BY <1>1, <2>1, <2>3 DEF AllocInv, AllocTypes, CallReturns, AllocPcs, CallKinds
  <2> QED  BY <1>1, <2>2, <2>3
<1>3. MaskedApart' /\ ~misfreed'
  BY <1>1 DEF AllocInv, MaskedApart, CallReturns
<1>4. MinKnown' /\ Restored'
  BY <1>1 DEF AllocInv, MinKnown, Restored, CallReturns
<1> QED  BY <1>2, <1>3, <1>4 DEF AllocInv

\* bad_alloc: a nested allocation is tried once.
LEMMA ThrowStep == ASSUME AllocInv, Throw \/ Thrown PROVE AllocInv'
<1>1. /\ ~irq /\ step = "alloc"
      /\ UNCHANGED <<regions, irqAlloc, minChunk, unseen, place, misfreed, irq>>
      /\ \/ /\ ~inMalloc /\ inMalloc' = TRUE /\ nested' = nested + 1 /\ step' = "resize"
            /\ UNCHANGED <<op, arg>>
         \/ CallReturns
  BY DEF Throw, Thrown, poolVars, blockVars
<1>2. AllocTypes'
  <2>1. CASE /\ ~inMalloc /\ inMalloc' = TRUE /\ nested' = nested + 1 /\ step' = "resize"
             /\ UNCHANGED <<op, arg>>
    BY <1>1, <2>1 DEF AllocInv, AllocTypes, AllocPcs, CallKinds
  <2>2. CASE CallReturns
    BY <1>1, <2>2 DEF AllocInv, AllocTypes, CallReturns, AllocPcs, CallKinds
  <2> QED  BY <1>1, <2>1, <2>2
<1>3. MaskedApart' /\ ~misfreed'
  <2>1. nested \in Nat
    BY DEF AllocInv, AllocTypes
  <2>2. CASE ~inMalloc /\ inMalloc' = TRUE /\ nested' = nested + 1 /\ step' = "resize"
    <3>1. nested' = 1
      BY <2>1, <2>2 DEF AllocInv, MaskedApart
    <3> QED  BY <1>1, <2>2, <3>1 DEF AllocInv, MaskedApart
  <2>3. CASE CallReturns
    BY <1>1, <2>3 DEF AllocInv, MaskedApart, CallReturns
  <2> QED  BY <1>1, <2>2, <2>3
<1>4. MinKnown' /\ Restored'
  BY <1>1 DEF AllocInv, MinKnown, Restored, CallReturns
<1> QED  BY <1>2, <1>3, <1>4 DEF AllocInv

LEMMA AllocateLockedStep == ASSUME AllocInv, AllocateLocked PROVE AllocInv'
<1>1. ~irq /\ step = "alloc" /\ op = "locked" /\ UNCHANGED <<irqAlloc, minChunk, misfreed, irq>>
  BY DEF AllocateLocked
<1>2. CASE CallReturns /\ UNCHANGED <<regions, place, unseen>>
  <2>1. AllocTypes'
    BY <1>1, <1>2 DEF AllocInv, AllocTypes, CallReturns, AllocPcs, CallKinds
  <2>2. MaskedApart' /\ ~misfreed'
    BY <1>1, <1>2 DEF AllocInv, MaskedApart, CallReturns
  <2>3. MinKnown' /\ Restored'
    BY <1>1, <1>2 DEF AllocInv, MinKnown, Restored, CallReturns
  <2> QED  BY <2>1, <2>2, <2>3 DEF AllocInv
<1>3. ASSUME NEW b \in Blocks, TakeLocked(b), step' = "min", UNCHANGED <<op, inMalloc, nested, arg>>
      PROVE  AllocInv'
  <2>1. /\ regions' \in Seq(Nat) /\ regions' # <<>> /\ Bounded(regions')
        /\ place' \in [Blocks -> {Nowhere, Heap} \cup DOMAIN regions'] /\ unseen' = TRUE
    BY <1>3, Taken
  <2>2. AllocTypes'
    BY <1>1, <1>3, <2>1 DEF AllocInv, AllocTypes, AllocPcs
  <2>3. MaskedApart' /\ ~misfreed'
    BY <1>1, <1>3 DEF AllocInv, MaskedApart
  <2>4. MinKnown' /\ Restored'
    BY <1>3, <2>1 DEF MinKnown, Restored
  <2> QED  BY <2>2, <2>3, <2>4 DEF AllocInv
<1> QED  BY <1>2, <1>3 DEF AllocateLocked

\* min_chunk_size is read and written with nothing in between.
LEMMA MinStep == ASSUME AllocInv, ReadMin \/ StoreMin PROVE AllocInv'
<1>1. minChunk \in Nat /\ Chunk(regions) \in Nat
  BY ChunkMax DEF AllocInv, AllocTypes
<1>2. CASE ReadMin
  <2>1. /\ ~irq /\ step = "min" /\ step' = "store" /\ arg' = Min({minChunk, Chunk(regions)})
        /\ UNCHANGED <<regions, irqAlloc, minChunk, unseen, place, misfreed, inMalloc, op, nested, irq>>
    BY <1>2 DEF ReadMin, poolVars, blockVars
  <2>2. arg' \in Nat /\ arg' <= Chunk(regions)
    BY <1>1, <2>1, MinOfTwo
  <2>3. AllocTypes'
    BY <2>1 DEF AllocInv, AllocTypes, AllocPcs
  <2>4. MaskedApart' /\ ~misfreed'
    BY <2>1 DEF AllocInv, MaskedApart
  <2>5. MinKnown' /\ Restored'
    BY <2>1, <2>2 DEF AllocInv, MinKnown, Restored
  <2> QED  BY <2>3, <2>4, <2>5 DEF AllocInv
<1>3. CASE StoreMin
  <2>1. /\ ~irq /\ step = "store" /\ minChunk' = arg /\ CallReturns
        /\ UNCHANGED <<regions, irqAlloc, unseen, place, misfreed, irq>>
    BY <1>3 DEF StoreMin, blockVars
  <2>2. minChunk' \in Nat /\ minChunk' <= Chunk(regions)
    BY <2>1 DEF AllocInv, MinKnown
  <2>3. AllocTypes'
    BY <2>1, <2>2 DEF AllocInv, AllocTypes, CallReturns, AllocPcs, CallKinds
  <2>4. MaskedApart' /\ ~misfreed'
    BY <2>1 DEF AllocInv, MaskedApart, CallReturns
  <2>5. MinKnown' /\ Restored'
    BY <2>1, <2>2 DEF AllocInv, MinKnown, Restored, CallReturns
  <2> QED  BY <2>3, <2>4, <2>5 DEF AllocInv
<1> QED  BY <1>2, <1>3

\* Handlers come and go; they find irq_alloc set.
LEMMA HandlerStep ==
    ASSUME AllocInv, Restricted, HandlerEnters \/ HandlerReturns \/ \E b \in Blocks : HandlerNew(b)
    PROVE  AllocInv'
<1>1. CASE HandlerEnters
  <2>1. /\ step # "growing" /\ ~(nested > 0) /\ step # "store" /\ irq' = TRUE
        /\ UNCHANGED <<regions, irqAlloc, minChunk, unseen, place, misfreed, inMalloc, step, op, arg, nested>>
    BY <1>1 DEF HandlerEnters, Masked, Restricted, poolVars, blockVars
  <2>2. AllocTypes' /\ nested = 0
    BY <2>1 DEF AllocInv, AllocTypes
  <2>3. MaskedApart' /\ ~misfreed'
    BY <2>1, <2>2 DEF AllocInv, MaskedApart
  <2>4. MinKnown' /\ Restored'
    BY <2>1 DEF AllocInv, MinKnown, Restored
  <2> QED  BY <2>2, <2>3, <2>4 DEF AllocInv
<1>2. CASE HandlerReturns
  <2>1. /\ irq' = FALSE
        /\ UNCHANGED <<regions, irqAlloc, minChunk, unseen, place, misfreed, inMalloc, step, op, arg, nested>>
    BY <1>2 DEF HandlerReturns, poolVars, blockVars
  <2>2. AllocTypes'
    BY <2>1 DEF AllocInv, AllocTypes
  <2>3. MaskedApart' /\ ~misfreed'
    BY <2>1 DEF AllocInv, MaskedApart
  <2>4. MinKnown' /\ Restored'
    BY <2>1 DEF AllocInv, MinKnown, Restored
  <2> QED  BY <2>2, <2>3, <2>4 DEF AllocInv
<1>3. ASSUME NEW b \in Blocks, HandlerNew(b) PROVE AllocInv'
  <2>1. /\ irq /\ TakeLocked(b) /\ minChunk' = Min({minChunk, Chunk(regions')})
        /\ UNCHANGED <<irqAlloc, inMalloc, misfreed, step, op, arg, nested, irq>>
        /\ step # "store"
    BY <1>3 DEF HandlerNew, AllocInv, MaskedApart
  <2>2. /\ regions' \in Seq(Nat) /\ regions' # <<>> /\ Bounded(regions') /\ Chunk(regions') \in Nat
        /\ place' \in [Blocks -> {Nowhere, Heap} \cup DOMAIN regions'] /\ unseen' = TRUE
    BY <2>1, Taken
  <2>3. minChunk' \in Nat /\ minChunk' <= Chunk(regions')
    <3>1. minChunk \in Nat
      BY DEF AllocInv, AllocTypes
    <3> QED  BY <2>1, <2>2, <3>1, MinOfTwo
  <2>4. AllocTypes'
    BY <2>1, <2>2, <2>3 DEF AllocInv, AllocTypes
  <2>5. MaskedApart' /\ ~misfreed'
    BY <2>1 DEF AllocInv, MaskedApart
  <2>6. MinKnown' /\ Restored'
    BY <2>1, <2>2, <2>3 DEF MinKnown, Restored
  <2> QED  BY <2>4, <2>5, <2>6 DEF AllocInv
<1> QED  BY <1>1, <1>2, <1>3

\* Whatever threads and handlers allocate and free, and whenever the pool grows: a block goes back
\* to the allocator that it came from, an allocation of an exception is tried once, and what the
\* pool had when resize_irq_alloc() looked at it is there until somebody uses it.
THEOREM PoolStaysKept == Restricted => (PoolSpec => []PoolKept)
<1> SUFFICES ASSUME Restricted PROVE PoolSpec => []PoolKept
  OBVIOUS
<1>1. PoolInit => AllocInv
  BY InitAlloc
<1>2. AllocInv /\ [PoolNext]_allocVars => AllocInv'
  <2> SUFFICES ASSUME AllocInv, [PoolNext]_allocVars PROVE AllocInv'
    OBVIOUS
  <2>1. CASE UNCHANGED allocVars
    BY <2>1 DEF allocVars, AllocInv, AllocTypes, MaskedApart, MinKnown, Restored
  <2>2. ASSUME NEW o \in {"new", "malloc", "realloc", "locked"}, Call(o) PROVE AllocInv'
    BY <2>2, CallStep
  <2>3. ASSUME NEW b \in Blocks, Delete(b) \/ HandlerDelete(b) PROVE AllocInv'
    BY <2>3, FreeStep DEF Delete, HandlerDelete
  <2>4. CASE ReleaseOld
    <3>1. arg \in Blocks /\ Free(arg)
      BY <2>4 DEF ReleaseOld, AllocInv, AllocTypes
    <3> QED  BY <2>4, <3>1, FreeStep
  <2>5. ASSUME NEW b \in Blocks, Allocate(b) PROVE AllocInv'
    BY <2>5, AllocateStep
  <2>6. CASE Resize \/ Grow
    BY <2>6, ResizeStep, GrowStep
  <2>7. CASE Throw \/ Thrown
    BY <2>7, ThrowStep
  <2>8. CASE AllocateLocked \/ ReadMin \/ StoreMin
    BY <2>8, AllocateLockedStep, MinStep
  <2>9. CASE HandlerEnters \/ HandlerReturns \/ \E b \in Blocks : HandlerNew(b)
    BY <2>9, HandlerStep
  <2> QED  BY <2>1, <2>2, <2>3, <2>4, <2>5, <2>6, <2>7, <2>8, <2>9 DEF PoolNext
<1>3. AllocInv => PoolKept
  <2> SUFFICES ASSUME AllocInv PROVE PoolKept
    OBVIOUS
  <2>1. nested <= 1
    BY DEF AllocInv, AllocTypes, MaskedApart
  <2>2. Chunk(regions) \in Nat
    BY ChunkMax DEF AllocInv, AllocTypes
  <2> QED  BY <2>1, <2>2 DEF AllocInv, Restored, PoolKept
<1> QED  BY <1>1, <1>2, <1>3, PTL DEF PoolSpec
-----------------------------------------------------------------------------
(* Event: the inductive invariant                                          *)

EvTypes ==
    /\ subscribers \in Seq(Nodes)
    /\ \A k, l \in DOMAIN subscribers : subscribers[k] = subscribers[l] => k = l
    /\ target \in [Nodes -> Callbacks] /\ alive \subseteq Callbacks
    /\ at \in [Calls -> Nodes \cup {NoNode}] /\ called \in [Calls -> Seq(Nodes)]
    /\ present \in [Calls -> SUBSET Nodes] /\ stopped \in [Calls -> BOOLEAN]

\* A node is in the list.
Listed(n) == \E k \in DOMAIN subscribers : subscribers[k] = n

\* Call w has visited node n.
Visited(w, n) == \E k \in DOMAIN called[w] : called[w][k] = n

\* What a call has visited is in the order of the list, and when it has ended it is everything.
InListOrder(w) ==
    /\ at[w] # NoNode => Listed(at[w])
    /\ \A n \in present[w] : Listed(n)
    /\ \A i, j \in DOMAIN called[w] :
          i < j /\ called[w][i] \in present[w] /\ called[w][j] \in present[w] =>
              Before(subscribers, called[w][i], called[w][j])
    /\ at[w] = NoNode /\ ~stopped[w] =>
          \A n \in present[w] : target[n] \in alive => Visited(w, n)

\* A call that goes on has visited its node and what stands before it, and nothing behind it.
UpToHere(w) ==
    at[w] # NoNode =>
        /\ Visited(w, at[w])
        /\ \A n \in present[w] : Visited(w, n) => n = at[w] \/ Before(subscribers, n, at[w])
        /\ \A n \in present[w] : target[n] \in alive /\ Before(subscribers, n, at[w]) => Visited(w, n)

EvInv == EvTypes /\ \A w \in Calls : InListOrder(w) /\ UpToHere(w)

-----------------------------------------------------------------------------
(* Memory: the inductive invariant                                         *)

ObjectType ==
    [kind : {"none", "memory", "mapped", "dos", "device"}, handle : HostBlocks \cup {NoBlock},
     dos : DosBlocks \cup {NoBlock}, map : HostBlocks \cup {NoBlock},
     page : Int, bytes : Int, offset : Int, want : Int]

MeTypes ==
    /\ obj \in [MemObjects -> ObjectType] /\ live \in [HostBlocks -> Int]
    /\ dosLive \in [DosBlocks -> Int] /\ limit \in Int

\* What an object has, and that the host knows its block.
Backed ==
    \A o \in MemObjects :
        /\ obj[o].kind = "none" => obj[o] = Gone
        /\ obj[o].kind # "none" => obj[o].handle # NoBlock \/ obj[o].map # NoBlock
        /\ obj[o].kind = "dos" => obj[o].dos # NoBlock
        /\ obj[o].handle # NoBlock => live[obj[o].handle] = obj[o].page /\ obj[o].page > 0

\* No two objects have the same block.
BlocksApart ==
    \A o, p \in MemObjects : o # p /\ obj[p].handle # NoBlock => obj[p].handle # obj[o].handle

\* The object is as large as was asked for, and within the limit.
Fits ==
    \A o \in MemObjects : obj[o].kind # "none" =>
        obj[o].bytes >= obj[o].want /\ End(obj[o].page, obj[o].bytes) <= limit

MeInv == MeTypes /\ Backed /\ BlocksApart /\ Fits /\ NothingLeaks

-----------------------------------------------------------------------------
(* Descriptor: the inductive invariant                                     *)

DeTypes ==
    /\ direct \in BOOLEAN /\ sel \in [DeObjects -> Selectors \cup {NoDescriptor}]
    /\ noAlloc \in [DeObjects -> BOOLEAN] /\ asked \in [Selectors -> Int]
    /\ DOMAIN table = Selectors
    /\ \A s \in Selectors : table[s] # NoDescriptor => Effective(table[s]) >= asked[s] - 1

Owners(s) == {o \in DeObjects : sel[o] = s /\ ~noAlloc[o]}

\* A descriptor in the table has one owner, and no other has one; an object without a selector
\* owns none.
OneOwner ==
    /\ \A s \in Selectors :
          IF table[s] = NoDescriptor THEN Owners(s) = {} ELSE \E o \in DeObjects : Owners(s) = {o}
    /\ \A o \in DeObjects : sel[o] = NoDescriptor => noAlloc[o]

DeInv == DeTypes /\ OneOwner
-----------------------------------------------------------------------------
(* Descriptor: every step                                                  *)

LEMMA DividedBy ==
    ASSUME NEW x \in Int, NEW K \in Nat \ {0}
    PROVE  /\ x = K * (x \div K) + (x % K) /\ 0 <= x % K /\ x % K < K
           /\ x \div K \in Int /\ x % K \in Int
OBVIOUS

\* Both ways to set a limit let the segment reach as far as was asked, in pages too.
LEMMA LimitReaches ==
    ASSUME NEW l \in 0 .. MaxLimit
    PROVE  Effective(LimitOf(l)) >= l - 1 /\ LimitOf(l) # NoDescriptor
<1>1. PageBytes \in Nat \ {0} /\ l \in Int
  BY DescriptorAssumption
<1>2. LimitOf(l) # NoDescriptor
  BY DescriptorAssumption DEF LimitOf
<1>3. Effective(LimitDirect(l)) >= l - 1
  <2> DEFINE q == l \div PageBytes
  <2>1. q \in Int /\ l <= PageBytes * q + PageBytes - 1
    BY <1>1, DividedBy
  <2>2. PageBytes * q = q * PageBytes /\ PageBytes * q \in Int
    BY <1>1, <2>1
  <2> HIDE DEF q
  <2>3. CASE l >= Mega
    BY <1>1, <2>1, <2>2, <2>3 DEF Effective, LimitDirect, q
  <2>4. CASE ~(l >= Mega)
    BY <1>1, <2>4 DEF Effective, LimitDirect
  <2>q. QED
    BY <2>3, <2>4
<1>4. Effective(LimitHost(l)) >= l - 1
  <2>1. PICK q : q = (l + PageBytes - 1) \div PageBytes
    OBVIOUS
  <2>2. q \in Int /\ l + PageBytes - 1 <= PageBytes * q + PageBytes - 1
    BY <1>1, <2>1, DividedBy
  <2>3. (q - 1) * PageBytes = PageBytes * q - PageBytes /\ PageBytes * q \in Int
    BY <1>1, <2>2
  <2>4. CASE l >= Mega
    <3>1. Effective(LimitHost(l)) = (q - 1) * PageBytes + PageBytes - 1
      BY <2>1, <2>4 DEF Effective, LimitHost
    <3>q. QED
      BY <1>1, <2>2, <2>3, <3>1
  <2>5. CASE ~(l >= Mega)
    BY <1>1, <2>5 DEF Effective, LimitHost
  <2>q. QED
    BY <2>4, <2>5
<1>q. QED
  BY <1>2, <1>3, <1>4 DEF LimitOf

LEMMA CreateKeeps ==
    ASSUME DeInv, NEW o \in DeObjects, NEW l \in 0 .. MaxLimit, Create(o, l)
    PROVE  DeInv'
<1>1. /\ sel[o] = NoDescriptor /\ noAlloc[o] /\ direct' = direct /\ l \in Int
      /\ sel \in [DeObjects -> Selectors \cup {NoDescriptor}] /\ noAlloc \in [DeObjects -> BOOLEAN]
  BY DEF DeInv, DeTypes, OneOwner, Create
<1>2. PICK s \in Selectors :
         /\ table[s] = NoDescriptor
         /\ table' = [table EXCEPT ![s] = LimitOf(l)] /\ asked' = [asked EXCEPT ![s] = l]
         /\ sel' = [sel EXCEPT ![o] = s] /\ noAlloc' = [noAlloc EXCEPT ![o] = FALSE]
  BY DEF Create
<1>3. DeTypes'
  <2>1. \A r \in Selectors : table'[r] # NoDescriptor => Effective(table'[r]) >= asked'[r] - 1
    BY <1>2, LimitReaches DEF DeInv, DeTypes
  <2>q. QED
    BY <1>1, <1>2, <2>1 DEF DeInv, DeTypes
<1>4. \A r \in Selectors : Owners(r)' = IF r = s THEN Owners(r) \cup {o} ELSE Owners(r)
  BY <1>1, <1>2 DEF Owners, DeInv, DeTypes
<1>5. \A r \in Selectors :
         IF table'[r] = NoDescriptor THEN Owners(r)' = {} ELSE \E p \in DeObjects : Owners(r)' = {p}
  <2> SUFFICES ASSUME NEW r \in Selectors
               PROVE  IF table'[r] = NoDescriptor THEN Owners(r)' = {}
                      ELSE \E p \in DeObjects : Owners(r)' = {p}
    OBVIOUS
  <2>1. CASE r = s
    <3>1. Owners(s)' = {o}
      BY <1>2, <1>4 DEF DeInv, OneOwner
    <3>2. table'[s] # NoDescriptor
      BY <1>2, LimitReaches DEF DeInv, DeTypes
    <3>q. QED
      BY <2>1, <3>1, <3>2
  <2>2. CASE r # s
    BY <1>2, <1>4, <2>2 DEF DeInv, DeTypes, OneOwner
  <2>q. QED
    BY <2>1, <2>2
<1>6. \A p \in DeObjects : sel'[p] = NoDescriptor => noAlloc'[p]
  BY <1>1, <1>2, DescriptorAssumption DEF DeInv, OneOwner
<1>q. QED
  BY <1>3, <1>5, <1>6 DEF DeInv, OneOwner

LEMMA SetLimitKeeps ==
    ASSUME DeInv, NEW o \in DeObjects, NEW l \in 0 .. MaxLimit, SetLimit(o, l)
    PROVE  DeInv'
<1>1. /\ sel' = sel /\ noAlloc' = noAlloc /\ direct' = direct /\ l \in Int /\ sel[o] \in Selectors
      /\ table[sel[o]] # NoDescriptor
      /\ table' = [table EXCEPT ![sel[o]] = LimitOf(l)] /\ asked' = [asked EXCEPT ![sel[o]] = l]
  BY DEF DeInv, DeTypes, SetLimit
<1>2. DeTypes'
  <2>1. \A r \in Selectors : table'[r] # NoDescriptor => Effective(table'[r]) >= asked'[r] - 1
    BY <1>1, LimitReaches DEF DeInv, DeTypes
  <2>q. QED
    BY <1>1, <2>1 DEF DeInv, DeTypes
<1>3. \A r \in Selectors :
         Owners(r)' = Owners(r) /\ (table'[r] = NoDescriptor <=> table[r] = NoDescriptor)
  BY <1>1, LimitReaches DEF Owners, DeInv, DeTypes
<1>4. OneOwner'
  BY <1>1, <1>3 DEF DeInv, OneOwner
<1>q. QED
  BY <1>2, <1>4 DEF DeInv

LEMMA ReferKeeps ==
    ASSUME DeInv, NEW o \in DeObjects, NEW s \in Selectors, Refer(o, s)
    PROVE  DeInv'
<1>1. /\ sel[o] = NoDescriptor /\ sel' = [sel EXCEPT ![o] = s] /\ noAlloc' = [noAlloc EXCEPT ![o] = TRUE]
      /\ UNCHANGED <<direct, table, asked>> /\ noAlloc[o]
  BY DEF DeInv, OneOwner, Refer
<1>2. DeTypes'
  BY <1>1 DEF DeInv, DeTypes
<1>3. \A r \in Selectors : Owners(r)' = Owners(r)
  BY <1>1 DEF Owners, DeInv, DeTypes
<1>4. OneOwner'
  BY <1>1, <1>3 DEF DeInv, DeTypes, OneOwner
<1>q. QED
  BY <1>2, <1>4 DEF DeInv

\* What deallocate() does when the object is an owner, and when it is not.
LEMMA FreedBy ==
    ASSUME DeInv, NEW o \in DeObjects
    PROVE  /\ DOMAIN Freed(o) = Selectors
           /\ \A r \in Selectors :
                 Freed(o)[r] = IF o \in Owners(r) THEN NoDescriptor ELSE table[r]
<1>1. CASE noAlloc[o]
  BY <1>1 DEF DeInv, DeTypes, Owners, Freed
<1>2. CASE ~noAlloc[o]
  <2>1. sel[o] \in Selectors /\ Freed(o) = [table EXCEPT ![sel[o]] = NoDescriptor]
    BY <1>2 DEF DeInv, DeTypes, OneOwner, Freed
  <2>q. QED
    BY <1>2, <2>1 DEF DeInv, DeTypes, Owners
<1>q. QED
  BY <1>1, <1>2

LEMMA MoveSelectorKeeps ==
    ASSUME DeInv, NEW o \in DeObjects, NEW p \in DeObjects, MoveSelector(o, p)
    PROVE  DeInv'
<1>1. /\ o # p /\ sel[p] # NoDescriptor /\ table' = Freed(o) /\ sel' = [sel EXCEPT ![o] = sel[p]]
      /\ noAlloc' = [noAlloc EXCEPT ![o] = noAlloc[p], ![p] = TRUE]
      /\ UNCHANGED <<direct, asked>>
  BY DEF MoveSelector
<1>2. DeTypes'
  <2>1. \A r \in Selectors : table'[r] # NoDescriptor => Effective(table'[r]) >= asked'[r] - 1
    BY <1>1, FreedBy DEF DeInv, DeTypes
  <2>2. DOMAIN table' = Selectors /\ direct' \in BOOLEAN /\ asked' \in [Selectors -> Int]
    BY <1>1, FreedBy DEF DeInv, DeTypes
  <2>3. sel' \in [DeObjects -> Selectors \cup {NoDescriptor}] /\ noAlloc' \in [DeObjects -> BOOLEAN]
    BY <1>1 DEF DeInv, DeTypes
  <2>q. QED
    BY <2>1, <2>2, <2>3 DEF DeTypes
<1>3. ASSUME NEW r \in Selectors
      PROVE  Owners(r)' = (Owners(r) \ {o, p}) \cup (IF p \in Owners(r) THEN {o} ELSE {})
  <2>1. ASSUME NEW x \in DeObjects
        PROVE  x \in Owners(r)' <=>
                  x \in (Owners(r) \ {o, p}) \cup (IF p \in Owners(r) THEN {o} ELSE {})
    <3>1. x \in Owners(r)' <=> sel'[x] = r /\ ~noAlloc'[x]
      BY DEF Owners
    <3>2. CASE x = p
      BY <1>1, <3>1, <3>2 DEF DeInv, DeTypes
    <3>3. CASE x = o
      BY <1>1, <3>1, <3>3 DEF DeInv, DeTypes, Owners
    <3>4. CASE x \notin {o, p}
      BY <1>1, <3>1, <3>4 DEF DeInv, DeTypes, Owners
    <3>q. QED
      BY <3>2, <3>3, <3>4
  <2>q. QED
    BY <2>1 DEF Owners
<1>4. \A r \in Selectors :
         IF table'[r] = NoDescriptor THEN Owners(r)' = {} ELSE \E x \in DeObjects : Owners(r)' = {x}
  <2> SUFFICES ASSUME NEW r \in Selectors
               PROVE  IF table'[r] = NoDescriptor THEN Owners(r)' = {}
                      ELSE \E x \in DeObjects : Owners(r)' = {x}
    OBVIOUS
  <2>1. CASE table[r] = NoDescriptor
    BY <1>1, <1>3, <2>1, FreedBy DEF DeInv, OneOwner
  <2>2. CASE table[r] # NoDescriptor
    <3>1. PICK x \in DeObjects : Owners(r) = {x}
      BY <2>2 DEF DeInv, OneOwner
    <3>2. table'[r] = IF x = o THEN NoDescriptor ELSE table[r]
      BY <1>1, <3>1, FreedBy
    <3>3. Owners(r)' = IF x = o THEN {} ELSE IF x = p THEN {o} ELSE {x}
      BY <1>1, <1>3, <3>1
    <3>q. QED
      BY <2>2, <3>2, <3>3
  <2>q. QED
    BY <2>1, <2>2
<1>5. \A x \in DeObjects : sel'[x] = NoDescriptor => noAlloc'[x]
  BY <1>1 DEF DeInv, DeTypes, OneOwner
<1>q. QED
  BY <1>2, <1>4, <1>5 DEF DeInv, OneOwner

LEMMA DestroySelectorKeeps ==
    ASSUME DeInv, NEW o \in DeObjects, DestroySelector(o)
    PROVE  DeInv'
<1>1. /\ sel[o] # NoDescriptor /\ table' = Freed(o) /\ sel' = [sel EXCEPT ![o] = NoDescriptor]
      /\ noAlloc' = [noAlloc EXCEPT ![o] = TRUE] /\ UNCHANGED <<direct, asked>>
  BY DEF DestroySelector
<1>2. DeTypes'
  <2>1. \A r \in Selectors : table'[r] # NoDescriptor => Effective(table'[r]) >= asked'[r] - 1
    BY <1>1, FreedBy DEF DeInv, DeTypes
  <2>2. DOMAIN table' = Selectors /\ direct' \in BOOLEAN /\ asked' \in [Selectors -> Int]
    BY <1>1, FreedBy DEF DeInv, DeTypes
  <2>3. sel' \in [DeObjects -> Selectors \cup {NoDescriptor}] /\ noAlloc' \in [DeObjects -> BOOLEAN]
    BY <1>1 DEF DeInv, DeTypes
  <2>q. QED
    BY <2>1, <2>2, <2>3 DEF DeTypes
<1>3. \A r \in Selectors : Owners(r)' = Owners(r) \ {o}
  BY <1>1 DEF Owners, DeInv, DeTypes
<1>4. \A r \in Selectors :
         IF table'[r] = NoDescriptor THEN Owners(r)' = {} ELSE \E x \in DeObjects : Owners(r)' = {x}
  <2> SUFFICES ASSUME NEW r \in Selectors
               PROVE  IF table'[r] = NoDescriptor THEN Owners(r)' = {}
                      ELSE \E x \in DeObjects : Owners(r)' = {x}
    OBVIOUS
  <2>1. CASE table[r] = NoDescriptor
    BY <1>1, <1>3, <2>1, FreedBy DEF DeInv, OneOwner
  <2>2. CASE table[r] # NoDescriptor
    <3>1. PICK x \in DeObjects : Owners(r) = {x}
      BY <2>2 DEF DeInv, OneOwner
    <3>2. table'[r] = IF x = o THEN NoDescriptor ELSE table[r]
      BY <1>1, <3>1, FreedBy
    <3>3. Owners(r)' = IF x = o THEN {} ELSE {x}
      BY <1>3, <3>1
    <3>q. QED
      BY <2>2, <3>2, <3>3
  <2>q. QED
    BY <2>1, <2>2
<1>5. \A x \in DeObjects : sel'[x] = NoDescriptor => noAlloc'[x]
  BY <1>1 DEF DeInv, DeTypes, OneOwner
<1>q. QED
  BY <1>2, <1>4, <1>5 DEF DeInv, OneOwner

LEMMA DeStep == ASSUME DeInv, [DeNext]_selVars PROVE DeInv'
<1>1. CASE UNCHANGED selVars
  BY <1>1 DEF selVars, DeInv, DeTypes, OneOwner, Owners
<1>2. CASE DeNext
  BY <1>2, CreateKeeps, SetLimitKeeps, ReferKeeps, MoveSelectorKeeps, DestroySelectorKeeps DEF DeNext
<1>q. QED
  BY <1>1, <1>2

LEMMA DeStarts == ASSUME DeInit PROVE DeInv
<1>1. DeTypes
  BY DEF DeInit, DeTypes
<1>2. OneOwner
  BY DEF DeInit, OneOwner, Owners
<1>q. QED
  BY <1>1, <1>2 DEF DeInv

LEMMA DeShows == ASSUME DeInv PROVE SelectorsOwned
<1> SUFFICES ASSUME NEW s \in Selectors
             PROVE  /\ Cardinality({o \in DeObjects : sel[o] = s /\ ~noAlloc[o]})
                         = IF table[s] = NoDescriptor THEN 0 ELSE 1
                    /\ table[s] # NoDescriptor => Effective(table[s]) >= asked[s] - 1
  BY DEF SelectorsOwned
<1>1. table[s] # NoDescriptor => Effective(table[s]) >= asked[s] - 1
  BY DEF DeInv, DeTypes
<1>2. Cardinality(Owners(s)) = IF table[s] = NoDescriptor THEN 0 ELSE 1
  BY FS_EmptySet, FS_Singleton DEF DeInv, OneOwner
<1>q. QED
  BY <1>1, <1>2 DEF Owners
-----------------------------------------------------------------------------
(* Memory: sizes in pages                                                  *)

LEMMA MultipleGrows ==
    ASSUME NEW K \in Nat \ {0}, NEW a \in Int, NEW b \in Int, a < b
    PROVE  K * a + K <= K * b
<1>1. b - a - 1 \in Nat
  OBVIOUS
<1>2. PICK c : c = b - a - 1
  OBVIOUS
<1>3. K * c >= 0
  BY <1>1, <1>2
<1>4. b = a + c + 1 /\ c \in Nat
  BY <1>1, <1>2
<1>5. K * b = K * a + K * c + K
  BY <1>4
<1>q. QED
  BY <1>3, <1>5

\* The pages of a size, as a number that is not computed
LEMMA PagesOf ==
    ASSUME NEW n \in Int
    PROVE  \E q \in Int : /\ RoundUp(n) = PageSize * q /\ RoundUp(n) \div PageSize = q
                          /\ n <= PageSize * q /\ PageSize * q < n + PageSize
<1>1. PageSize \in Nat \ {0}
  BY MemoryAssumption
<1>2. PICK q : q = (n + PageSize - 1) \div PageSize
  OBVIOUS
<1>3. /\ q \in Int /\ n + PageSize - 1 - (PageSize - 1) <= PageSize * q
      /\ PageSize * q <= n + PageSize - 1 /\ PageSize * q \in Int
  BY <1>1, <1>2, DividedBy
<1>4. RoundUp(n) = PageSize * q
  BY <1>1, <1>2, <1>3 DEF RoundUp
<1>5. PICK x : x = PageSize * q
  OBVIOUS
<1>6. PICK d : d = x \div PageSize
  OBVIOUS
<1>x. x \in Int
  BY <1>3, <1>5
<1>7. /\ d \in Int /\ PageSize * d <= x /\ x < PageSize * d + PageSize /\ PageSize * d \in Int
  <2>1. /\ x = PageSize * d + (x % PageSize) /\ 0 <= x % PageSize /\ x % PageSize < PageSize
        /\ d \in Int /\ x % PageSize \in Int
    BY <1>1, <1>6, <1>x, DividedBy
  <2>2. PageSize * d \in Int
    BY <1>1, <2>1
  <2>q. QED
    BY <1>1, <1>x, <2>1, <2>2
<1>8. ~(d < q)
  <2> SUFFICES ASSUME d < q PROVE FALSE
    OBVIOUS
  <2>1. PageSize * d + PageSize <= PageSize * q
    BY <1>1, <1>3, <1>7, MultipleGrows
  <2>q. QED
    BY <1>1, <1>5, <1>7, <1>x, <2>1
<1>9. ~(q < d)
  <2> SUFFICES ASSUME q < d PROVE FALSE
    OBVIOUS
  <2>1. PageSize * q + PageSize <= PageSize * d
    BY <1>1, <1>3, <1>7, MultipleGrows
  <2>q. QED
    BY <1>1, <1>5, <1>7, <1>x, <2>1
<1>10. d = q
  BY <1>3, <1>7, <1>8, <1>9
<1>q. QED
  BY <1>1, <1>3, <1>4, <1>5, <1>6, <1>10

\* A larger size does not end earlier, and is at least what was asked for.
LEMMA EndGrows ==
    ASSUME NEW page \in Int, NEW a \in Int, NEW b \in Int, a <= b
    PROVE  /\ End(page, a) <= End(page, b) /\ End(page, a) \in Int /\ End(page, b) \in Int
           /\ RoundUp(a) \in Int /\ RoundUp(a) >= a
<1>1. PageSize \in Nat \ {0}
  BY MemoryAssumption
<1>2. PICK q \in Int : /\ RoundUp(a) = PageSize * q /\ RoundUp(a) \div PageSize = q
                       /\ a <= PageSize * q /\ PageSize * q < a + PageSize
  BY PagesOf
<1>3. PICK r \in Int : /\ RoundUp(b) = PageSize * r /\ RoundUp(b) \div PageSize = r
                       /\ b <= PageSize * r /\ PageSize * r < b + PageSize
  BY PagesOf
<1>4. PageSize * q \in Int /\ PageSize * r \in Int
  BY <1>1
<1>5. ~(r < q)
  BY <1>1, <1>2, <1>3, <1>4, MultipleGrows
<1>q. QED
  BY <1>2, <1>3, <1>4, <1>5 DEF End

LEMMA EndNumber == ASSUME NEW page \in Int, NEW a \in Int PROVE End(page, a) \in Int
<1>1. a <= a
  OBVIOUS
<1>q. QED
  BY <1>1, EndGrows

\* check_base_limit()
LEMMA Reached ==
    ASSUME NEW page \in Int, NEW a \in Int, NEW b \in Int, a <= b, limit \in Int, Reach(page, b)
    PROVE  limit' \in Int /\ limit' >= limit /\ End(page, a) <= limit'
<1>1. End(page, a) <= End(page, b) /\ End(page, a) \in Int /\ End(page, b) \in Int
  BY EndGrows
<1>2. limit' = IF End(page, b) > limit THEN End(page, b) ELSE limit
  BY DEF Reach
<1>q. QED
  BY <1>1, <1>2

-----------------------------------------------------------------------------
(* Memory: every step                                                      *)

LEMMA OwnedBy ==
    ASSUME NEW f
    PROVE  /\ \A b : b \in Owned(f) <=> b # NoBlock /\ \E o \in MemObjects : obj[o][f] = b
           /\ \A b : b \in Owned(f)' <=> b # NoBlock /\ \E o \in MemObjects : obj'[o][f] = b
BY DEF Owned

\* Nobody has a block that the host has not given out.
LEMMA FreeIsNobodys ==
    ASSUME MeInv, NEW b \in HostBlocks, live[b] = 0
    PROVE  \A o \in MemObjects : obj[o].handle # b
<1>1. b # NoBlock
  BY MemoryAssumption
<1>2. ASSUME NEW o \in MemObjects, obj[o].handle = b PROVE FALSE
  <2>1. live[b] = obj[o].page /\ obj[o].page > 0
    BY <1>1, <1>2 DEF MeInv, Backed
  <2>q. QED
    BY <2>1
<1>q. QED
  BY <1>2

\* An object comes to have a block, or a mapping.
LEMMA Made ==
    ASSUME MeInv, NEW o \in MemObjects, obj[o] = Gone, NEW r \in ObjectType, r.kind # "none",
           obj' = [obj EXCEPT ![o] = r], r.kind = "dos" => r.dos # NoBlock, r.bytes >= r.want,
           limit' \in Int, limit' >= limit, End(r.page, r.bytes) <= limit',
           \/ /\ r.handle \in HostBlocks /\ live[r.handle] = 0 /\ r.page > 0
              /\ live' = [live EXCEPT ![r.handle] = r.page] /\ mapped' = mapped
           \/ /\ r.handle = NoBlock /\ r.map \in HostBlocks
              /\ live' = live /\ mapped' = mapped \cup {r.map},
           \/ dosLive' = dosLive
           \/ r.dos \in DosBlocks /\ \E start \in Int : dosLive' = [dosLive EXCEPT ![r.dos] = start]
    PROVE  MeInv'
<1>1. /\ obj \in [MemObjects -> ObjectType] /\ live \in [HostBlocks -> Int]
      /\ dosLive \in [DosBlocks -> Int] /\ limit \in Int
  BY DEF MeInv, MeTypes
<1>2. obj'[o] = r /\ \A p \in MemObjects \ {o} : obj'[p] = obj[p]
  BY <1>1
<1>3. MeTypes'
  BY <1>1 DEF MeTypes, ObjectType
<1>4. /\ NoBlock \notin HostBlocks /\ NoBlock \notin DosBlocks
      /\ obj[o].handle = NoBlock /\ obj[o].dos = NoBlock /\ obj[o].map = NoBlock
  BY MemoryAssumption DEF Gone
<1>5. \A p \in MemObjects \ {o} : r.handle # NoBlock => obj[p].handle # r.handle
  BY FreeIsNobodys, <1>4
<1>6. Backed'
  <2> SUFFICES ASSUME NEW p \in MemObjects
               PROVE  /\ obj'[p].kind = "none" => obj'[p] = Gone
                      /\ obj'[p].kind # "none" => obj'[p].handle # NoBlock \/ obj'[p].map # NoBlock
                      /\ obj'[p].kind = "dos" => obj'[p].dos # NoBlock
                      /\ obj'[p].handle # NoBlock =>
                            live'[obj'[p].handle] = obj'[p].page /\ obj'[p].page > 0
    BY DEF Backed, Gone
  <2>1. CASE p = o
    BY <1>1, <1>2, <1>4, <2>1
  <2>2. CASE p # o
    <3>1. obj[p].handle \in HostBlocks \cup {NoBlock}
      BY <1>1 DEF ObjectType
    <3>q. QED
      BY <1>1, <1>2, <1>4, <1>5, <2>2, <3>1 DEF MeInv, Backed
  <2>q. QED
    BY <2>1, <2>2
<1>7. BlocksApart'
  BY <1>2, <1>5 DEF MeInv, BlocksApart
<1>8. Fits'
  <2> SUFFICES ASSUME NEW p \in MemObjects, obj'[p].kind # "none"
               PROVE  obj'[p].bytes >= obj'[p].want /\ End(obj'[p].page, obj'[p].bytes) <= limit'
    BY DEF Fits, End, RoundUp
  <2>1. CASE p = o
    BY <1>2, <2>1
  <2>2. CASE p # o
    <3>1. obj[p].page \in Int /\ obj[p].bytes \in Int /\ obj'[p] = obj[p]
      BY <1>1, <1>2, <2>2 DEF ObjectType
    <3>2. End(obj[p].page, obj[p].bytes) \in Int
      BY <3>1, EndNumber
    <3>q. QED
      BY <1>1, <3>1, <3>2 DEF MeInv, Fits
  <2>q. QED
    BY <2>1, <2>2
<1>9. NothingLeaks'
  <2>1. ASSUME NEW b \in HostBlocks, live'[b] # 0 PROVE b \in Owned("handle")'
    <3>1. CASE b = r.handle
      BY <1>2, <1>4, <3>1, OwnedBy
    <3>2. CASE b # r.handle
      <4>1. b \in Owned("handle")
        BY <1>1, <2>1, <3>2 DEF MeInv, NothingLeaks
      <4>q. QED
        BY <1>2, <1>4, <4>1, OwnedBy
    <3>q. QED
      BY <3>1, <3>2
  <2>2. ASSUME NEW d \in DosBlocks, dosLive'[d] # -1 PROVE d \in Owned("dos")'
    <3>1. CASE d = r.dos
      BY <1>2, <1>4, <3>1, OwnedBy
    <3>2. CASE d # r.dos
      <4>1. d \in Owned("dos")
        BY <1>1, <2>2, <3>2 DEF MeInv, NothingLeaks
      <4>q. QED
        BY <1>2, <1>4, <4>1, OwnedBy
    <3>q. QED
      BY <3>1, <3>2
  <2>3. ASSUME NEW b \in mapped' PROVE b \in Owned("map")'
    <3>1. CASE b \in mapped
      <4>1. b \in Owned("map")
        BY <3>1 DEF MeInv, NothingLeaks
      <4>q. QED
        BY <1>2, <1>4, <4>1, OwnedBy
    <3>2. CASE b \notin mapped
      BY <1>2, <1>4, <2>3, <3>2, OwnedBy
    <3>q. QED
      BY <3>1, <3>2
  <2>q. QED
    BY <2>1, <2>2, <2>3 DEF NothingLeaks
<1>q. QED
  BY <1>3, <1>6, <1>7, <1>8, <1>9 DEF MeInv

\* An object goes on with another size, and with its block or one that was free.
LEMMA Changed ==
    ASSUME MeInv, NEW o \in MemObjects, NEW r \in ObjectType, r.kind = obj[o].kind,
           r.kind # "none", obj' = [obj EXCEPT ![o] = r],
           r.dos = obj[o].dos, r.map = obj[o].map, r.bytes >= r.want,
           limit' \in Int, limit' >= limit, End(r.page, r.bytes) <= limit',
           \/ /\ r.handle \in HostBlocks /\ (r.handle = obj[o].handle \/ live[r.handle] = 0)
              /\ live' = [live EXCEPT ![obj[o].handle] = 0, ![r.handle] = r.page] /\ r.page > 0
           \/ r.handle = obj[o].handle /\ r.page = obj[o].page /\ live' = live,
           UNCHANGED <<dosLive, mapped>>
    PROVE  MeInv'
<1>1. /\ obj \in [MemObjects -> ObjectType] /\ live \in [HostBlocks -> Int]
      /\ dosLive \in [DosBlocks -> Int] /\ limit \in Int
  BY DEF MeInv, MeTypes
<1>2. obj'[o] = r /\ \A p \in MemObjects \ {o} : obj'[p] = obj[p]
  BY <1>1
<1>3. MeTypes'
  BY <1>1 DEF MeTypes, ObjectType
<1>4. NoBlock \notin HostBlocks /\ obj[o].handle \in HostBlocks \cup {NoBlock} /\ r.page \in Int
  BY <1>1, MemoryAssumption DEF ObjectType
<1>5. /\ \A p \in MemObjects \ {o} : r.handle # NoBlock => obj[p].handle # r.handle
      /\ \A p \in MemObjects \ {o} : obj[p].handle # NoBlock => obj[p].handle # obj[o].handle
  BY <1>4, FreeIsNobodys DEF MeInv, BlocksApart
<1>l. /\ r.handle # NoBlock => live'[r.handle] = r.page /\ r.page > 0
      /\ \A b \in HostBlocks \ {r.handle, obj[o].handle} : live'[b] = live[b]
      /\ obj[o].handle \in HostBlocks /\ obj[o].handle # r.handle => live'[obj[o].handle] = 0
      /\ obj[o].handle # NoBlock => r.handle # NoBlock
  BY <1>1, <1>4 DEF MeInv, Backed
<1>6. Backed'
  <2> SUFFICES ASSUME NEW p \in MemObjects
               PROVE  /\ obj'[p].kind = "none" => obj'[p] = Gone
                      /\ obj'[p].kind # "none" => obj'[p].handle # NoBlock \/ obj'[p].map # NoBlock
                      /\ obj'[p].kind = "dos" => obj'[p].dos # NoBlock
                      /\ obj'[p].handle # NoBlock =>
                            live'[obj'[p].handle] = obj'[p].page /\ obj'[p].page > 0
    BY DEF Backed, Gone
  <2>1. CASE p = o
    BY <1>2, <1>l, <2>1 DEF MeInv, Backed
  <2>2. CASE p # o
    <3>1. obj[p].handle \in HostBlocks \cup {NoBlock}
      BY <1>1 DEF ObjectType
    <3>2. obj[p].handle # NoBlock => live'[obj[p].handle] = live[obj[p].handle]
      BY <1>5, <1>l, <2>2, <3>1
    <3>q. QED
      BY <1>2, <2>2, <3>2 DEF MeInv, Backed
  <2>q. QED
    BY <2>1, <2>2
<1>7. BlocksApart'
  BY <1>2, <1>5 DEF MeInv, BlocksApart
<1>8. Fits'
  <2> SUFFICES ASSUME NEW p \in MemObjects, obj'[p].kind # "none"
               PROVE  obj'[p].bytes >= obj'[p].want /\ End(obj'[p].page, obj'[p].bytes) <= limit'
    BY DEF Fits, End, RoundUp
  <2>1. CASE p = o
    BY <1>2, <2>1
  <2>2. CASE p # o
    <3>1. obj[p].page \in Int /\ obj[p].bytes \in Int /\ obj'[p] = obj[p]
      BY <1>1, <1>2, <2>2 DEF ObjectType
    <3>2. End(obj[p].page, obj[p].bytes) \in Int
      BY <3>1, EndNumber
    <3>q. QED
      BY <1>1, <3>1, <3>2 DEF MeInv, Fits
  <2>q. QED
    BY <2>1, <2>2
<1>9. NothingLeaks'
  <2>1. ASSUME NEW b \in HostBlocks, live'[b] # 0 PROVE b \in Owned("handle")'
    <3>1. CASE b = r.handle
      BY <1>2, <1>4, <3>1, OwnedBy
    <3>2. CASE b # r.handle
      <4>1. b # obj[o].handle /\ live[b] # 0
        BY <1>l, <2>1, <3>2
      <4>2. b \in Owned("handle")
        BY <4>1 DEF MeInv, NothingLeaks
      <4>q. QED
        BY <1>2, <4>1, <4>2, OwnedBy
    <3>q. QED
      BY <3>1, <3>2
  <2>2. \A b : b \in Owned("dos")' <=> b \in Owned("dos")
    BY <1>2, OwnedBy
  <2>3. \A b : b \in Owned("map")' <=> b \in Owned("map")
    BY <1>2, OwnedBy
  <2>q. QED
    BY <2>1, <2>2, <2>3 DEF MeInv, NothingLeaks
<1>q. QED
  BY <1>3, <1>6, <1>7, <1>8, <1>9 DEF MeInv

LEMMA TypesIn ==
    ASSUME MeInv, NEW o \in MemObjects
    PROVE  /\ obj[o] \in ObjectType /\ limit \in Int /\ DOMAIN obj = MemObjects
           /\ obj[o].page \in Int /\ obj[o].bytes \in Int
           /\ PageSize \in Nat \ {0} /\ Sizes \subseteq Int
           /\ \A n \in Sizes : n >= 0
BY MemoryAssumption DEF MeInv, MeTypes, ObjectType

LEMMA CreateMemoryKeeps ==
    ASSUME MeInv, NEW o \in MemObjects, NEW n \in Sizes, CreateMemory(o, n)
    PROVE  MeInv'
<1>1. PICK b \in HostBlocks, p \in 1 .. MaxPage :
         /\ AllocateBlock(b, p, n)
         /\ obj' = [obj EXCEPT ![o] =
               [Gone EXCEPT !.kind = "memory", !.handle = b, !.page = p, !.bytes = n, !.want = n]]
  BY DEF CreateMemory
<1>2. PICK r : r = [Gone EXCEPT !.kind = "memory", !.handle = b, !.page = p, !.bytes = n, !.want = n]
  OBVIOUS
<1>3. n \in Int /\ p \in Int /\ p > 0
  BY TypesIn
<1>4. /\ r \in ObjectType /\ r.kind = "memory" /\ r.handle = b /\ r.page = p
      /\ r.bytes = n /\ r.want = n
  <2>1. r = [kind |-> "memory", handle |-> b, dos |-> NoBlock, map |-> NoBlock,
             page |-> p, bytes |-> n, offset |-> 0, want |-> n]
    BY <1>2 DEF Gone
  <2>q. QED
    BY <1>3, <2>1 DEF ObjectType
<1>5. limit' \in Int /\ limit' >= limit /\ End(p, n) <= limit'
  BY <1>1, <1>3, TypesIn, Reached DEF AllocateBlock
<1>6. live[b] = 0 /\ live' = [live EXCEPT ![b] = p] /\ obj' = [obj EXCEPT ![o] = r]
  BY <1>1, <1>2 DEF AllocateBlock
<1>7. obj[o] = Gone /\ dosLive' = dosLive /\ mapped' = mapped
  BY DEF CreateMemory
<1>8. n >= n
  BY <1>3
<1>q. QED
  BY <1>3, <1>4, <1>5, <1>6, <1>7, <1>8, Made

LEMMA MapKeeps ==
    ASSUME MeInv, NEW o \in MemObjects, NEW k \in {"mapped", "dos"},
           NEW d \in DosBlocks \cup {NoBlock}, k = "dos" => d # NoBlock, NEW n \in Sizes,
           NEW offset \in 0 .. PageSize - 1, obj[o] = Gone, mapped' = mapped,
           MapDos(o, k, d, RoundUp(n) + PageSize, n, offset),
           \/ dosLive' = dosLive
           \/ d \in DosBlocks /\ \E start \in Int : dosLive' = [dosLive EXCEPT ![d] = start]
    PROVE  MeInv'
<1>0. PICK m : m = RoundUp(n) + PageSize
  OBVIOUS
<1>1. PICK b \in HostBlocks, p \in 1 .. MaxPage :
         /\ host10 /\ AllocateBlock(b, p, m)
         /\ obj' = [obj EXCEPT ![o] =
               [kind |-> k, handle |-> b, dos |-> d, map |-> NoBlock, page |-> p,
                bytes |-> m - offset, offset |-> offset, want |-> n]]
  <2>1. MapDos(o, k, d, m, n, offset)
    BY <1>0
  <2>q. QED
    BY <2>1 DEF MapDos
<1>2. PICK r : r = [kind |-> k, handle |-> b, dos |-> d, map |-> NoBlock, page |-> p,
                    bytes |-> m - offset, offset |-> offset, want |-> n]
  OBVIOUS
<1>3. /\ n \in Int /\ p \in Int /\ p > 0 /\ PageSize \in Int /\ offset \in Int
      /\ offset < PageSize /\ offset >= 0
  BY TypesIn
<1>n. n <= n
  BY <1>3
<1>4. RoundUp(n) \in Int /\ RoundUp(n) >= n
  BY <1>3, <1>n, EndGrows
<1>5. m - offset \in Int /\ m \in Int /\ m - offset <= m /\ m - offset >= n
  BY <1>0, <1>3, <1>4
<1>6. /\ r \in ObjectType /\ r.kind = k /\ r.handle = b /\ r.page = p /\ r.dos = d
      /\ r.bytes = m - offset /\ r.want = n
  BY <1>2, <1>3, <1>5 DEF ObjectType
<1>7. limit' \in Int /\ limit' >= limit /\ End(p, r.bytes) <= limit'
  BY <1>1, <1>3, <1>5, <1>6, TypesIn, Reached DEF AllocateBlock
<1>8. live[b] = 0 /\ live' = [live EXCEPT ![b] = p] /\ obj' = [obj EXCEPT ![o] = r]
  BY <1>1, <1>2 DEF AllocateBlock
<1>q. QED
  BY <1>3, <1>5, <1>6, <1>7, <1>8, Made

LEMMA CreateMappedKeeps ==
    ASSUME MeInv, NEW o \in MemObjects, NEW n \in Sizes, CreateMapped(o, n) \/ CreateDos(o, n)
    PROVE  MeInv'
<1>1. CASE CreateMapped(o, n)
  BY <1>1, MapKeeps DEF CreateMapped
<1>2. CASE CreateDos(o, n)
  <2>1. PICK d \in DosBlocks, start \in 0 .. PageSize - 1 :
           /\ dosLive' = [dosLive EXCEPT ![d] = start]
           /\ MapDos(o, "dos", d, RoundUp(n) + PageSize, n, start)
    BY <1>2 DEF CreateDos
  <2>2. d # NoBlock /\ start \in Int /\ obj[o] = Gone /\ mapped' = mapped
    BY <1>2, MemoryAssumption DEF CreateDos
  <2>q. QED
    BY <2>1, <2>2, MapKeeps
<1>q. QED
  BY <1>1, <1>2

LEMMA CreateDeviceKeeps ==
    ASSUME MeInv, NEW o \in MemObjects, NEW n \in Sizes, NEW use09 \in BOOLEAN,
           CreateDevice(o, n, use09)
    PROVE  MeInv'
<1>1. PICK bytes : bytes = RoundUp(n) + PageSize
  OBVIOUS
<1>2. PICK offset \in 0 .. PageSize - 1, p \in 1 .. MaxPage, b \in HostBlocks :
         \/ /\ AllocateBlock(b, p, bytes)
            /\ obj' = [obj EXCEPT ![o] = [Gone EXCEPT !.kind = "device", !.handle = b,
                  !.page = p, !.bytes = bytes - offset, !.offset = offset, !.want = n]]
            /\ mapped' = mapped
         \/ /\ mapped' = mapped \cup {b} /\ live' = live
            /\ \E left \in {bytes - offset, bytes} :
                  /\ Reach(p, left)
                  /\ obj' = [obj EXCEPT ![o] = [Gone EXCEPT !.kind = "device", !.map = b,
                        !.page = p, !.bytes = left, !.want = n]]
  <2>1. PICK offset \in 0 .. PageSize - 1, p \in 1 .. MaxPage, b \in HostBlocks :
           \/ /\ AllocateBlock(b, p, bytes)
              /\ obj' = [obj EXCEPT ![o] = [Gone EXCEPT !.kind = "device", !.handle = b,
                    !.page = p, !.bytes = bytes - offset, !.offset = offset, !.want = n]]
              /\ UNCHANGED <<mapped, deviceDpmi10>>
           \/ /\ mapped' = mapped \cup {b} /\ live' = live
              /\ LET left == IF deviceDpmi10 /\ ~use09 THEN bytes - offset ELSE bytes IN
                 /\ Reach(p, left)
                 /\ obj' = [obj EXCEPT ![o] = [Gone EXCEPT !.kind = "device", !.map = b,
                       !.page = p, !.bytes = left, !.want = n]]
    BY <1>1, Zenon DEF CreateDevice
  <2>2. PICK left : left = IF deviceDpmi10 /\ ~use09 THEN bytes - offset ELSE bytes
    OBVIOUS
  <2>3. left \in {bytes - offset, bytes}
    BY <2>2
  <2>q. QED
    BY <2>1, <2>2, <2>3, Zenon
<1>3. /\ n \in Int /\ p \in Int /\ p > 0 /\ PageSize \in Int /\ offset \in Int
      /\ offset < PageSize /\ offset >= 0
  BY TypesIn
<1>n. n <= n
  BY <1>3
<1>4. RoundUp(n) \in Int /\ RoundUp(n) >= n
  BY <1>3, <1>n, EndGrows
<1>5. /\ bytes \in Int /\ bytes - offset \in Int /\ bytes - offset <= bytes
      /\ bytes - offset >= n /\ bytes >= n /\ bytes <= bytes
  BY <1>1, <1>3, <1>4
<1>6. obj[o] = Gone /\ dosLive' = dosLive /\ limit \in Int /\ b # NoBlock
  BY TypesIn, MemoryAssumption DEF CreateDevice
<1>7. CASE /\ AllocateBlock(b, p, bytes)
           /\ obj' = [obj EXCEPT ![o] = [Gone EXCEPT !.kind = "device", !.handle = b,
                 !.page = p, !.bytes = bytes - offset, !.offset = offset, !.want = n]]
           /\ mapped' = mapped
  <2>1. PICK r : r = [Gone EXCEPT !.kind = "device", !.handle = b,
                 !.page = p, !.bytes = bytes - offset, !.offset = offset, !.want = n]
    OBVIOUS
  <2>2. /\ r \in ObjectType /\ r.kind = "device" /\ r.handle = b /\ r.page = p
        /\ r.bytes = bytes - offset /\ r.want = n
    BY <1>3, <1>5, <2>1 DEF ObjectType, Gone
  <2>3. limit' \in Int /\ limit' >= limit /\ End(p, bytes - offset) <= limit'
    BY <1>3, <1>5, <1>6, <1>7, Reached DEF AllocateBlock
  <2>4. live[b] = 0 /\ live' = [live EXCEPT ![b] = p] /\ obj' = [obj EXCEPT ![o] = r]
    BY <1>7, <2>1 DEF AllocateBlock
  <2>q. QED
    <3>1. mapped' = mapped /\ r.bytes >= r.want
      BY <1>5, <1>7, <2>2
    <3>q. QED
      BY <1>3, <1>6, <2>2, <2>3, <2>4, <3>1, Made
<1>8. CASE /\ mapped' = mapped \cup {b} /\ live' = live
           /\ \E left \in {bytes - offset, bytes} :
                 /\ Reach(p, left)
                 /\ obj' = [obj EXCEPT ![o] = [Gone EXCEPT !.kind = "device", !.map = b,
                       !.page = p, !.bytes = left, !.want = n]]
  <2>1. PICK left \in {bytes - offset, bytes} :
           /\ Reach(p, left)
           /\ obj' = [obj EXCEPT ![o] = [Gone EXCEPT !.kind = "device", !.map = b,
                 !.page = p, !.bytes = left, !.want = n]]
    BY <1>8
  <2>2. PICK r : r = [Gone EXCEPT !.kind = "device", !.map = b,
                 !.page = p, !.bytes = left, !.want = n]
    OBVIOUS
  <2>3. left \in Int /\ left >= n /\ left <= left
    BY <1>5
  <2>4. /\ r \in ObjectType /\ r.kind = "device" /\ r.handle = NoBlock /\ r.page = p /\ r.map = b
        /\ r.bytes = left /\ r.want = n
    <3>1. r = [kind |-> "device", handle |-> NoBlock, dos |-> NoBlock, map |-> b,
               page |-> p, bytes |-> left, offset |-> 0, want |-> n]
      BY <2>2 DEF Gone
    <3>q. QED
      BY <1>3, <2>3, <3>1 DEF ObjectType
  <2>5. limit' \in Int /\ limit' >= limit /\ End(p, left) <= limit'
    BY <1>3, <1>6, <2>1, <2>3, Reached
  <2>6. obj' = [obj EXCEPT ![o] = r]
    BY <2>1, <2>2
  <2>q. QED
    BY <1>3, <1>6, <1>8, <2>3, <2>4, <2>5, <2>6, Made
<1>q. QED
  BY <1>2, <1>7, <1>8

LEMMA MoveMemoryKeeps ==
    ASSUME MeInv, NEW o \in MemObjects, NEW p \in MemObjects, MoveMemory(o, p)
    PROVE  MeInv'
<1>1. /\ o # p /\ obj' = [obj EXCEPT ![o] = obj[p], ![p] = obj[o]]
      /\ UNCHANGED <<live, dosLive, mapped, limit>>
  BY DEF MoveMemory, hostVars
<1>2. /\ obj'[o] = obj[p] /\ obj'[p] = obj[o] /\ \A x \in MemObjects \ {o, p} : obj'[x] = obj[x]
  BY <1>1 DEF MeInv, MeTypes
<1>3. MeTypes'
  BY <1>1 DEF MeInv, MeTypes
<1>4. \A x \in MemObjects : \E y \in MemObjects : obj'[x] = obj[y]
  BY <1>2
<1>5. Backed'
  <2> SUFFICES ASSUME NEW x \in MemObjects
               PROVE  /\ obj'[x].kind = "none" => obj'[x] = Gone
                      /\ obj'[x].kind # "none" => obj'[x].handle # NoBlock \/ obj'[x].map # NoBlock
                      /\ obj'[x].kind = "dos" => obj'[x].dos # NoBlock
                      /\ obj'[x].handle # NoBlock =>
                            live'[obj'[x].handle] = obj'[x].page /\ obj'[x].page > 0
    BY DEF Backed, Gone
  <2>1. PICK y \in MemObjects : obj'[x] = obj[y]
    BY <1>4
  <2>q. QED
    BY <1>1, <2>1 DEF MeInv, Backed
<1>6. BlocksApart'
  <2> SUFFICES ASSUME NEW x \in MemObjects, NEW y \in MemObjects, x # y, obj'[y].handle # NoBlock
               PROVE  obj'[y].handle # obj'[x].handle
    BY DEF BlocksApart
  <2>1. PICK u \in MemObjects, v \in MemObjects : obj'[x] = obj[u] /\ obj'[y] = obj[v] /\ u # v
    BY <1>1, <1>2
  <2>q. QED
    BY <2>1 DEF MeInv, BlocksApart
<1>7. Fits'
  <2> SUFFICES ASSUME NEW x \in MemObjects, obj'[x].kind # "none"
               PROVE  /\ obj'[x].bytes >= obj'[x].want
                      /\ End(obj'[x].page, obj'[x].bytes) <= limit'
    BY Zenon DEF Fits, End, RoundUp
  <2>1. PICK y \in MemObjects : obj'[x] = obj[y]
    BY <1>4, Zenon
  <2>2. /\ obj[y].bytes >= obj[y].want
        /\ End(obj[y].page, obj[y].bytes) <= limit
    BY <2>1, Zenon DEF MeInv, Fits
  <2>q. QED
    BY <1>1, <2>1, <2>2, Zenon
<1>8. NothingLeaks'
  <2>1. ASSUME NEW f PROVE \A b : b \in Owned(f) => b \in Owned(f)'
    <3>1. \A x \in MemObjects : \E y \in MemObjects : obj'[y] = obj[x]
      BY <1>2
    <3>q. QED
      BY <3>1, OwnedBy
  <2>q. QED
    BY <1>1, <2>1 DEF MeInv, NothingLeaks
<1>q. QED
  BY <1>3, <1>5, <1>6, <1>7, <1>8 DEF MeInv

LEMMA ResizeMemoryKeeps ==
    ASSUME MeInv, NEW o \in MemObjects, NEW n \in Sizes, ResizeMemory(o, n), "below" \notin MeOps
    PROVE  MeInv'
<1>1. PICK b \in HostBlocks, p \in 1 .. MaxPage :
         /\ b = obj[o].handle \/ live[b] = 0
         /\ live' = [live EXCEPT ![obj[o].handle] = 0, ![b] = p]
         /\ Reach(p, n) /\ Resized(o, b, p, n)
  BY DEF ResizeMemory
<1>2. PICK r : r = [obj[o] EXCEPT !.handle = b, !.page = p, !.bytes = n, !.want = n]
  OBVIOUS
<1>3. n \in Int /\ p \in Int /\ p > 0 /\ n <= n /\ n >= n /\ obj[o] \in ObjectType /\ limit \in Int
  BY TypesIn
<1>4. /\ r \in ObjectType /\ r.kind = obj[o].kind /\ r.handle = b /\ r.page = p /\ r.bytes = n
      /\ r.want = n /\ r.dos = obj[o].dos /\ r.map = obj[o].map
  BY <1>2, <1>3 DEF ObjectType
<1>5. obj' = [obj EXCEPT ![o] = r]
  BY <1>1, <1>2, TypesIn DEF Resized
<1>6. limit' \in Int /\ limit' >= limit /\ End(p, n) <= limit'
  BY <1>1, <1>3, Reached
<1>7. obj[o].kind = "memory" /\ dosLive' = dosLive /\ mapped' = mapped
  BY DEF ResizeMemory
<1>q. QED
  BY <1>1, <1>3, <1>4, <1>5, <1>6, <1>7, Changed

LEMMA ShrinkDosKeeps ==
    ASSUME MeInv, NEW o \in MemObjects, NEW n \in Sizes, ShrinkDos(o, n)
    PROVE  MeInv'
<1>1. /\ obj[o].kind = "dos" /\ n <= obj[o].bytes
      /\ obj' = [obj EXCEPT ![o].bytes = n, ![o].want = n]
      /\ UNCHANGED <<live, dosLive, mapped, limit>>
  BY DEF ShrinkDos, hostVars
<1>2. PICK r : r = [obj[o] EXCEPT !.bytes = n, !.want = n]
  OBVIOUS
<1>3. /\ n \in Int /\ n >= n /\ obj[o] \in ObjectType /\ limit \in Int /\ limit >= limit
      /\ obj[o].page \in Int /\ obj[o].bytes \in Int
  BY TypesIn
<1>4. /\ r \in ObjectType /\ r.kind = obj[o].kind /\ r.handle = obj[o].handle
      /\ r.page = obj[o].page /\ r.bytes = n
      /\ r.want = n /\ r.dos = obj[o].dos /\ r.map = obj[o].map
  BY <1>2, <1>3 DEF ObjectType
<1>5. obj' = [obj EXCEPT ![o] = r]
  BY <1>1, <1>2, TypesIn
<1>6. End(obj[o].page, n) <= limit
  <2>1. /\ End(obj[o].page, n) <= End(obj[o].page, obj[o].bytes) /\ End(obj[o].page, n) \in Int
        /\ End(obj[o].page, obj[o].bytes) \in Int
    BY <1>1, <1>3, EndGrows
  <2>2. End(obj[o].page, obj[o].bytes) <= limit
    BY <1>1 DEF MeInv, Fits
  <2>q. QED
    BY <1>3, <2>1, <2>2
<1>q. QED
  BY <1>1, <1>3, <1>4, <1>5, <1>6, Changed

LEMMA GrowDosKeeps ==
    ASSUME MeInv, NEW o \in MemObjects, NEW n \in Sizes, GrowDos(o, n), "grow" \notin MeOps
    PROVE  MeInv'
<1>1. PICK p \in 1 .. MaxPage :
         /\ dosLive[obj[o].dos] = 0
         /\ live' = [live EXCEPT ![obj[o].handle] = p] /\ Reach(p, n)
         /\ obj' = [obj EXCEPT ![o].page = p, ![o].want = n,
                               ![o].bytes = n - dosLive[obj[o].dos]]
  BY DEF GrowDos
<1>2. PICK r : r = [obj[o] EXCEPT !.page = p, !.want = n, !.bytes = n]
  OBVIOUS
<1>3. /\ n \in Int /\ p \in Int /\ p > 0 /\ n <= n /\ n >= n /\ obj[o] \in ObjectType
      /\ limit \in Int /\ n - dosLive[obj[o].dos] = n
  BY <1>1, TypesIn
<1>4. /\ r \in ObjectType /\ r.kind = obj[o].kind /\ r.handle = obj[o].handle /\ r.page = p
      /\ r.bytes = n /\ r.want = n /\ r.dos = obj[o].dos /\ r.map = obj[o].map
  BY <1>2, <1>3 DEF ObjectType
<1>5. obj' = [obj EXCEPT ![o] = r]
  BY <1>1, <1>2, <1>3, TypesIn
<1>6. limit' \in Int /\ limit' >= limit /\ End(p, n) <= limit'
  BY <1>1, <1>3, Reached
<1>7. /\ obj[o].kind = "dos" /\ dosLive' = dosLive /\ mapped' = mapped
      /\ obj[o].handle # NoBlock /\ obj[o].handle \in HostBlocks
  BY <1>3 DEF GrowDos, ObjectType
<1>8. live' = [live EXCEPT ![obj[o].handle] = 0, ![r.handle] = r.page]
  BY <1>1, <1>4, <1>7 DEF MeInv, MeTypes
<1>q. QED
  BY <1>3, <1>4, <1>5, <1>6, <1>7, <1>8, Changed

LEMMA DestroyMemoryKeeps ==
    ASSUME MeInv, NEW o \in MemObjects, DestroyMemory(o), "destroy" \notin MeOps
    PROVE  MeInv'
<1>1. /\ obj[o].dos = NoBlock /\ obj[o].map = NoBlock
      /\ live' = [b \in HostBlocks |-> IF b = obj[o].handle THEN 0 ELSE live[b]]
      /\ obj' = [obj EXCEPT ![o] = Gone] /\ UNCHANGED <<dosLive, mapped, limit>>
  BY DEF DestroyMemory
<1>2. obj'[o] = Gone /\ \A x \in MemObjects \ {o} : obj'[x] = obj[x]
  BY <1>1 DEF MeInv, MeTypes
<1>g. Gone \in ObjectType /\ Gone.kind = "none" /\ Gone.handle = NoBlock
  BY DEF Gone, ObjectType
<1>3. MeTypes'
  BY <1>1, <1>g DEF MeInv, MeTypes
<1>4. NoBlock \notin HostBlocks
  BY MemoryAssumption
<1>5. Backed'
  <2> SUFFICES ASSUME NEW x \in MemObjects
               PROVE  /\ obj'[x].kind = "none" => obj'[x] = Gone
                      /\ obj'[x].kind # "none" => obj'[x].handle # NoBlock \/ obj'[x].map # NoBlock
                      /\ obj'[x].kind = "dos" => obj'[x].dos # NoBlock
                      /\ obj'[x].handle # NoBlock =>
                            live'[obj'[x].handle] = obj'[x].page /\ obj'[x].page > 0
    BY DEF Backed, Gone
  <2>1. CASE x = o
    BY <1>2, <1>g, <2>1
  <2>2. CASE x # o
    <3>1. obj[x].handle \in HostBlocks \cup {NoBlock} /\ obj'[x] = obj[x]
      BY <1>2, <2>2 DEF MeInv, MeTypes, ObjectType
    <3>2. obj[x].handle # NoBlock => obj[x].handle # obj[o].handle
      BY <2>2 DEF MeInv, BlocksApart
    <3>q. QED
      BY <1>1, <3>1, <3>2 DEF MeInv, Backed
  <2>q. QED
    BY <2>1, <2>2
<1>6. BlocksApart'
  BY <1>2, <1>g DEF MeInv, BlocksApart
<1>7. Fits'
  BY <1>1, <1>2, <1>g DEF MeInv, Fits, End, RoundUp
<1>8. NothingLeaks'
  <2>1. ASSUME NEW b \in HostBlocks, live'[b] # 0 PROVE b \in Owned("handle")'
    <3>1. b # obj[o].handle /\ live[b] # 0
      BY <1>1, <2>1
    <3>2. b \in Owned("handle")
      BY <3>1 DEF MeInv, NothingLeaks
    <3>q. QED
      BY <1>2, <3>1, <3>2, OwnedBy
  <2>2. \A b : b \in Owned("dos") => b \in Owned("dos")'
    BY <1>1, <1>2, OwnedBy
  <2>3. \A b : b \in Owned("map") => b \in Owned("map")'
    BY <1>1, <1>2, OwnedBy
  <2>q. QED
    BY <1>1, <2>1, <2>2, <2>3 DEF MeInv, NothingLeaks
<1>q. QED
  BY <1>3, <1>5, <1>6, <1>7, <1>8 DEF MeInv

LEMMA MeStep ==
    ASSUME MeInv, [MeNext]_memVars, MeOps \cap {"below", "grow", "destroy"} = {}
    PROVE  MeInv'
<1>1. CASE UNCHANGED memVars
  <2>1. UNCHANGED <<live, dosLive, mapped, limit, obj>>
    BY <1>1 DEF memVars, hostVars
  <2>q. QED
    BY <2>1 DEF MeInv, MeTypes, Backed, BlocksApart, Fits, NothingLeaks, Owned, Gone, End, RoundUp
<1>2. CASE MeNext
  BY <1>2, CreateMemoryKeeps, CreateMappedKeeps, CreateDeviceKeeps, ResizeMemoryKeeps,
     ShrinkDosKeeps, GrowDosKeeps, MoveMemoryKeeps, DestroyMemoryKeeps DEF MeNext
<1>q. QED
  BY <1>1, <1>2

LEMMA MeStarts == ASSUME MeInit PROVE MeInv
<1>1. Gone \in ObjectType /\ Gone.kind = "none" /\ Gone.handle = NoBlock
  BY DEF Gone, ObjectType
<1>2. MeTypes /\ Backed /\ BlocksApart /\ Fits
  BY <1>1 DEF MeInit, MeTypes, Backed, BlocksApart, Fits
<1>3. NothingLeaks
  BY DEF MeInit, NothingLeaks
<1>q. QED
  BY <1>2, <1>3 DEF MeInv

LEMMA MeShows == ASSUME MeInv PROVE ObjectsHold /\ NothingLeaks
BY DEF MeInv, Backed, BlocksApart, Fits, ObjectsHold

\* However memory objects and descriptors are made, moved, resized and destroyed, whatever the host
\* lacks or refuses: an object has as much memory as was asked for, in a block of its own that the
\* selector limit covers, nothing is kept that nobody has, and a descriptor has one owner and
\* reaches as far as was asked.
THEOREM MemoryStaysHeld ==
    MeOps \cap {"below", "grow", "destroy"} = {} => (MeSpec /\ DeSpec => []MemoryHeld)
<1> SUFFICES ASSUME MeOps \cap {"below", "grow", "destroy"} = {}
             PROVE  MeSpec /\ DeSpec => []MemoryHeld
  OBVIOUS
<1>1. MeInit /\ DeInit => MeInv /\ DeInv
  BY MeStarts, DeStarts
<1>2. MeInv /\ [MeNext]_memVars => MeInv'
  BY MeStep
<1>3. DeInv /\ [DeNext]_selVars => DeInv'
  BY DeStep
<1>4. MeInv /\ DeInv => MemoryHeld
  BY MeShows, DeShows DEF MemoryHeld
<1>q. QED
  BY <1>1, <1>2, <1>3, <1>4, PTL DEF MeSpec, DeSpec

-----------------------------------------------------------------------------
(* Event: the list                                                         *)

LEMMA BeforeIsOrder ==
    ASSUME EvTypes
    PROVE  /\ \A m, n : Before(subscribers, m, n) => Listed(m) /\ Listed(n) /\ m # n
           /\ \A m, n : Before(subscribers, m, n) => ~Before(subscribers, n, m)
           /\ \A l, m, n : Before(subscribers, l, m) /\ Before(subscribers, m, n) =>
                 Before(subscribers, l, n)
           /\ \A m, n : Listed(m) /\ Listed(n) =>
                 m = n \/ Before(subscribers, m, n) \/ Before(subscribers, n, m)
<1>1. /\ DOMAIN subscribers \subseteq Int
      /\ \A k, l \in DOMAIN subscribers : subscribers[k] = subscribers[l] => k = l
  BY DEF EvTypes
<1>2. \A k, l \in DOMAIN subscribers : k < l \/ l < k \/ k = l
  BY <1>1
<1>3. \A m, n : Before(subscribers, m, n) => Listed(m) /\ Listed(n) /\ m # n
  BY <1>1 DEF Before, Listed
<1>4. \A m, n : Before(subscribers, m, n) => ~Before(subscribers, n, m)
  BY <1>1 DEF Before
<1>5. \A l, m, n : Before(subscribers, l, m) /\ Before(subscribers, m, n) => Before(subscribers, l, n)
  BY <1>1 DEF Before
<1>6. \A m, n : Listed(m) /\ Listed(n) => m = n \/ Before(subscribers, m, n) \/ Before(subscribers, n, m)
  BY <1>2 DEF Before, Listed
<1>q. QED
  BY <1>3, <1>4, <1>5, <1>6

\* What is erased leaves the list, and the rest keeps its order.
LEMMA Erased ==
    ASSUME EvTypes, NEW gone, NEW p \in [Calls -> SUBSET Nodes], Erase(gone, p)
    PROVE  /\ subscribers' \in Seq(Nodes)
           /\ \A k, l \in DOMAIN subscribers' : subscribers'[k] = subscribers'[l] => k = l
           /\ \A n : Listed(n)' <=> Listed(n) /\ n \notin gone
           /\ \A m, n : Listed(m)' /\ Listed(n)' =>
                 (Before(subscribers', m, n) <=> Before(subscribers, m, n))
           /\ present' \in [Calls -> SUBSET Nodes]
           /\ \A w \in Calls : present'[w] = p[w] \ gone
<1>1. PICK s \in SeqOf(ToSet(subscribers) \ gone, Len(subscribers)) :
          /\ ToSet(s) = ToSet(subscribers) \ gone
          /\ \A i, j \in DOMAIN s : i < j => Before(subscribers, s[i], s[j])
          /\ subscribers' = s
  BY DEF Erase
<1>2. Len(subscribers) \in Nat /\ ToSet(subscribers) \subseteq Nodes
  BY DEF EvTypes, ToSet
<1>3. PICK m \in 0 .. Len(subscribers) : s \in [1 .. m -> ToSet(subscribers) \ gone]
  BY <1>1 DEF SeqOf
<1>4. m \in Nat /\ s \in [1 .. m -> Nodes]
  BY <1>2, <1>3
<1>5. s \in Seq(Nodes) /\ DOMAIN s = 1 .. m
  BY <1>4, SeqDef
<1>6. \A n : (\E k \in DOMAIN s : s[k] = n) <=> Listed(n) /\ n \notin gone
  BY <1>1 DEF ToSet, Listed
<1>7. \A k, l \in DOMAIN s : k < l \/ l < k \/ k = l
  BY <1>4, <1>5
<1>8. \A k, l \in DOMAIN s : s[k] = s[l] => k = l
  BY <1>1, <1>7, BeforeIsOrder
<1>9. ASSUME NEW a, NEW b, \E k \in DOMAIN s : s[k] = a, \E k \in DOMAIN s : s[k] = b
      PROVE  Before(s, a, b) <=> Before(subscribers, a, b)
  <2>1. PICK k \in DOMAIN s, l \in DOMAIN s : s[k] = a /\ s[l] = b
    BY <1>9
  <2>2. CASE k < l
    BY <1>1, <2>1, <2>2 DEF Before
  <2>3. CASE l < k
    <3>1. Before(subscribers, b, a)
      BY <1>1, <2>1, <2>3
    <3>2. ~Before(subscribers, a, b)
      BY <3>1, BeforeIsOrder
    <3>3. ~Before(s, a, b)
      <4> SUFFICES ASSUME NEW i \in DOMAIN s, NEW j \in DOMAIN s, i < j, s[i] = a, s[j] = b PROVE FALSE
        BY DEF Before
      <4>1. i = k /\ j = l /\ i \in Int /\ j \in Int
        BY <1>5, <1>8, <2>1
      <4>q. QED
        BY <2>3, <4>1
    <3>q. QED
      BY <3>2, <3>3
  <2>4. CASE k = l
    <3>1. a = b /\ ~Before(subscribers, a, b)
      BY <2>1, <2>4, BeforeIsOrder
    <3>2. ~Before(s, a, b)
      BY <1>1, <3>1 DEF Before
    <3>q. QED
      BY <3>1, <3>2
  <2>q. QED
    BY <1>7, <2>2, <2>3, <2>4
<1>10. subscribers' = s /\ \A n : Listed(n)' <=> \E k \in DOMAIN s : s[k] = n
  BY <1>1 DEF Listed
<1>11. present' = [w \in Calls |-> p[w] \ gone]
  BY DEF Erase
<1>12. present' \in [Calls -> SUBSET Nodes] /\ \A w \in Calls : present'[w] = p[w] \ gone
  BY <1>11
<1>13. \A n : Listed(n)' <=> Listed(n) /\ n \notin gone
  BY <1>6, <1>10
<1>14. \A a, b : Listed(a)' /\ Listed(b)' => (Before(subscribers', a, b) <=> Before(subscribers, a, b))
  BY <1>9, <1>10
<1>q. QED
  BY <1>5, <1>8, <1>10, <1>12, <1>13, <1>14

\* A node that is added stands at one end.
LEMMA Added ==
    ASSUME EvTypes, NEW n \in Nodes \ ToSet(subscribers),
           subscribers' = <<n>> \o subscribers \/ subscribers' = Append(subscribers, n)
    PROVE  /\ subscribers' \in Seq(Nodes)
           /\ \A k, l \in DOMAIN subscribers' : subscribers'[k] = subscribers'[l] => k = l
           /\ \A m : Listed(m)' <=> Listed(m) \/ m = n
           /\ ~Listed(n)
           /\ \A l, m : Listed(l) /\ Listed(m) =>
                 (Before(subscribers', l, m) <=> Before(subscribers, l, m))
<1>1. ~Listed(n) /\ n \in Nodes
  BY DEF Listed, ToSet
<1> DEFINE s == subscribers
           L == Len(subscribers)
<1>2. /\ s \in Seq(Nodes) /\ L \in Nat /\ DOMAIN s = 1 .. L
      /\ \A k, l \in DOMAIN s : s[k] = s[l] => k = l
  BY DEF EvTypes
<1>3. PICK t : t = subscribers'
  OBVIOUS
<1>4. \E d \in {0, 1} :
         /\ t \in Seq(Nodes) /\ DOMAIN t = 1 .. L + 1 /\ t[IF d = 1 THEN 1 ELSE L + 1] = n
         /\ \A k \in 1 .. L : t[k + d] = s[k]
  <2>1. CASE t = <<n>> \o s
    <3>1. <<n>> \in Seq(Nodes) /\ Len(<<n>>) = 1 /\ <<n>>[1] = n
      BY <1>1
    <3>2. /\ t \in Seq(Nodes) /\ Len(t) = 1 + L
          /\ t[1] = n /\ \A k \in 1 .. L : t[k + 1] = s[k]
      BY <1>2, <2>1, <3>1
    <3>q. QED
      BY <1>2, <3>2
  <2>2. CASE t = Append(s, n)
    <3>1. /\ t \in Seq(Nodes) /\ Len(t) = L + 1
          /\ t[L + 1] = n /\ \A k \in 1 .. L : t[k + 0] = s[k]
      BY <1>1, <1>2, <2>2
    <3>q. QED
      BY <1>2, <3>1
  <2>q. QED
    BY <1>3, <2>1, <2>2
<1>5. PICK d \in {0, 1} :
         /\ t \in Seq(Nodes) /\ DOMAIN t = 1 .. L + 1 /\ t[IF d = 1 THEN 1 ELSE L + 1] = n
         /\ \A k \in 1 .. L : t[k + d] = s[k]
  BY <1>4
<1>6. PICK x : x = (IF d = 1 THEN 1 ELSE L + 1)
  OBVIOUS
<1>7. t[x] = n /\ d \in {0, 1} /\ x = (IF d = 1 THEN 1 ELSE L + 1) /\ DOMAIN t = 1 .. L + 1
      /\ \A k \in 1 .. L : t[k + d] = s[k]
  BY <1>5, <1>6
<1>8. /\ \A k, l \in DOMAIN t : t[k] = t[l] => k = l
      /\ \A m : (\E k \in DOMAIN t : t[k] = m) <=> Listed(m) \/ m = n
      /\ \A l, m : Listed(l) /\ Listed(m) => (Before(t, l, m) <=> Before(s, l, m))
  <2>1. \A k \in DOMAIN t : k = x \/ (k - d \in 1 .. L /\ t[k] = s[k - d])
    <3> SUFFICES ASSUME NEW k \in DOMAIN t, k # x PROVE k - d \in 1 .. L /\ t[k] = s[k - d]
      OBVIOUS
    <3>1. k - d \in 1 .. L /\ (k - d) + d = k
      BY <1>2, <1>7
    <3>q. QED
      BY <1>7, <3>1
  <2>2. \A k \in 1 .. L : k + d \in DOMAIN t /\ t[k + d] = s[k] /\ s[k] # n
    BY <1>1, <1>2, <1>7 DEF Listed
  <2>3. x \in DOMAIN t
    BY <1>2, <1>7
  <2>4. \A m : (\E k \in DOMAIN t : t[k] = m) <=> Listed(m) \/ m = n
    <3>1. \A m : m = n => \E k \in DOMAIN t : t[k] = m
      BY <1>7, <2>3
    <3>2. \A m : Listed(m) => \E k \in DOMAIN t : t[k] = m
      BY <1>2, <2>2 DEF Listed
    <3>3. \A k \in DOMAIN t : t[k] = n \/ Listed(t[k])
      BY <1>2, <1>7, <2>1 DEF Listed
    <3>q. QED
      BY <3>1, <3>2, <3>3
  <2>5. \A k, l \in DOMAIN t : t[k] = t[l] => k = l
    <3> SUFFICES ASSUME NEW k \in DOMAIN t, NEW l \in DOMAIN t, t[k] = t[l] PROVE k = l
      OBVIOUS
    <3>1. CASE k = x \/ l = x
      BY <1>1, <1>2, <1>7, <2>1, <3>1 DEF Listed
    <3>2. CASE k # x /\ l # x
      <4>1. /\ k - d \in DOMAIN s /\ l - d \in DOMAIN s /\ s[k - d] = s[l - d]
            /\ k \in Int /\ l \in Int /\ d \in Int
        BY <1>2, <1>7, <2>1, <3>2
      <4>2. k - d = l - d
        BY <1>2, <4>1
      <4>q. QED
        BY <4>1, <4>2
    <3>q. QED
      BY <3>1, <3>2
  <2>6. ASSUME NEW a, NEW b, Listed(a), Listed(b), Before(t, a, b) PROVE Before(s, a, b)
    <3>1. PICK i \in DOMAIN t, j \in DOMAIN t : i < j /\ t[i] = a /\ t[j] = b
      BY <2>6 DEF Before
    <3>2. i # x /\ j # x
      BY <1>1, <1>7, <2>6, <3>1
    <3>3. i - d \in DOMAIN s /\ j - d \in DOMAIN s /\ s[i - d] = a /\ s[j - d] = b /\ i - d < j - d
      BY <1>2, <1>7, <2>1, <3>1, <3>2
    <3>q. QED
      BY <3>3 DEF Before
  <2>7. ASSUME NEW a, NEW b, Before(s, a, b) PROVE Before(t, a, b)
    <3>1. PICK i \in DOMAIN s, j \in DOMAIN s : i < j /\ s[i] = a /\ s[j] = b
      BY <2>7 DEF Before
    <3>2. i + d \in DOMAIN t /\ j + d \in DOMAIN t /\ t[i + d] = a /\ t[j + d] = b /\ i + d < j + d
      <4>1. i \in Int /\ j \in Int /\ d \in Int /\ i \in 1 .. L /\ j \in 1 .. L
        BY <1>2, <3>1
      <4>2. i + d \in DOMAIN t /\ j + d \in DOMAIN t /\ t[i + d] = s[i] /\ t[j + d] = s[j]
        BY <2>2, <4>1
      <4>3. i + d < j + d
        BY <3>1, <4>1
      <4>q. QED
        BY <3>1, <4>2, <4>3
    <3>q. QED
      BY <3>2 DEF Before
  <2>q. QED
    BY <2>4, <2>5, <2>6, <2>7
<1>9. \A m : Listed(m)' <=> \E k \in DOMAIN t : t[k] = m
  BY <1>3 DEF Listed
<1>q. QED
  BY <1>1, <1>3, <1>5, <1>8, <1>9

-----------------------------------------------------------------------------
(* Event: every step                                                       *)

\* A call that takes no step is where it was when its nodes keep their order and no callback of
\* a node in the list is created.
LEMMA CallWaits ==
    ASSUME EvInv, NEW w \in Calls,
           at'[w] = at[w], called'[w] = called[w], stopped'[w] = stopped[w],
           present'[w] \subseteq present[w], \A n \in present'[w] : Listed(n)',
           at[w] # NoNode => Listed(at[w])',
           \A m, n : Listed(m) /\ Listed(n) /\ Listed(m)' /\ Listed(n)' =>
              (Before(subscribers', m, n) <=> Before(subscribers, m, n)),
           \A n : Listed(n) /\ target'[n] \in alive' => target[n] \in alive
    PROVE  InListOrder(w)' /\ UpToHere(w)'
<1>1. InListOrder(w) /\ UpToHere(w)
  BY DEF EvInv
<1>2. \A n : Visited(w, n)' <=> Visited(w, n)
  BY DEF Visited
<1>3. \A n \in present'[w] : n \in present[w] /\ Listed(n) /\ Listed(n)'
  BY <1>1 DEF InListOrder
<1>4. InListOrder(w)'
  <2>1. \A i, j \in DOMAIN called'[w] :
           i < j /\ called'[w][i] \in present'[w] /\ called'[w][j] \in present'[w] =>
               Before(subscribers', called'[w][i], called'[w][j])
    BY <1>1, <1>3 DEF InListOrder
  <2>2. at'[w] = NoNode /\ ~stopped'[w] =>
           \A n \in present'[w] : target'[n] \in alive' => Visited(w, n)'
    BY <1>1, <1>2, <1>3 DEF InListOrder
  <2>q. QED
    BY <2>1, <2>2 DEF InListOrder
<1>5. UpToHere(w)'
  <2> SUFFICES ASSUME at[w] # NoNode PROVE UpToHere(w)'
    BY DEF UpToHere
  <2>1. Listed(at[w]) /\ Listed(at[w])'
    BY <1>1 DEF InListOrder
  <2>2. \A n \in present'[w] : Before(subscribers', n, at[w]) <=> Before(subscribers, n, at[w])
    BY <1>3, <2>1
  <2>3. Visited(w, at[w])'
    BY <1>1, <1>2 DEF UpToHere
  <2>4. \A n \in present'[w] : Visited(w, n)' => n = at'[w] \/ Before(subscribers', n, at'[w])
    BY <1>1, <1>2, <1>3, <2>2 DEF UpToHere
  <2>5. \A n \in present'[w] : target'[n] \in alive' /\ Before(subscribers', n, at'[w]) => Visited(w, n)'
    BY <1>1, <1>2, <1>3, <2>2 DEF UpToHere
  <2>q. QED
    BY <2>3, <2>4, <2>5 DEF UpToHere
<1>q. QED
  BY <1>4, <1>5

LEMMA CallbackKeeps ==
    ASSUME EvInv, NEW c \in Callbacks, CreateCallback(c) \/ DestroyCallback(c)
    PROVE  EvInv'
<1>1. /\ alive' \subseteq Callbacks
      /\ UNCHANGED <<chain, subscribers, target, at, called, present, stopped>>
  BY DEF EvInv, EvTypes, CreateCallback, DestroyCallback
<1>2. EvTypes'
  BY <1>1 DEF EvInv, EvTypes
<1>3. \A n : Listed(n) /\ target'[n] \in alive' => target[n] \in alive
  <2>1. CASE CreateCallback(c)
    <3>1. alive' = alive \cup {c} /\ \A n : Listed(n) => target[n] # c
      BY <2>1 DEF CreateCallback, Listed, ToSet
    <3>q. QED
      BY <1>1, <3>1
  <2>2. CASE DestroyCallback(c)
    BY <1>1, <2>2 DEF DestroyCallback
  <2>q. QED
    BY <2>1, <2>2
<1>4. \A n : Listed(n)' <=> Listed(n)
  BY <1>1 DEF Listed
<1>5. ASSUME NEW w \in Calls PROVE InListOrder(w)' /\ UpToHere(w)'
  <2>1. /\ \A n \in present[w] : Listed(n)
        /\ at[w] # NoNode => Listed(at[w])
    BY DEF EvInv, InListOrder
  <2>q. QED
    BY <1>1, <1>3, <1>4, <2>1, CallWaits
<1>q. QED
  BY <1>2, <1>5 DEF EvInv

LEMMA SubscribeKeeps ==
    ASSUME EvInv, NEW c \in Callbacks, Subscribe(c)
    PROVE  EvInv'
<1>1. PICK n \in Nodes \ ToSet(subscribers) :
         /\ subscribers' = IF chain THEN <<n>> \o subscribers ELSE Append(subscribers, n)
         /\ target' = [target EXCEPT ![n] = c]
  BY DEF Subscribe
<1>2. UNCHANGED <<chain, alive, at, called, present, stopped>>
  BY DEF Subscribe
<1>3. EvTypes
  BY DEF EvInv
<1>4. subscribers' = <<n>> \o subscribers \/ subscribers' = Append(subscribers, n)
  BY <1>1
<1>5. /\ subscribers' \in Seq(Nodes)
      /\ \A k, l \in DOMAIN subscribers' : subscribers'[k] = subscribers'[l] => k = l
      /\ \A m : Listed(m)' <=> Listed(m) \/ m = n
      /\ ~Listed(n)
      /\ \A l, m : Listed(l) /\ Listed(m) =>
            (Before(subscribers', l, m) <=> Before(subscribers, l, m))
  BY <1>3, <1>4, Added
<1>6. EvTypes'
  BY <1>1, <1>2, <1>3, <1>5 DEF EvTypes
<1>7. \A m : Listed(m) => m # n /\ m \in Nodes
  BY <1>3, <1>5 DEF EvTypes, Listed
<1>8. \A m : Listed(m) /\ target'[m] \in alive' => target[m] \in alive
  BY <1>1, <1>2, <1>3, <1>7 DEF EvTypes
<1>9. ASSUME NEW w \in Calls PROVE InListOrder(w)' /\ UpToHere(w)'
  <2>1. /\ \A m \in present[w] : Listed(m)
        /\ at[w] # NoNode => Listed(at[w])
    BY DEF EvInv, InListOrder
  <2>q. QED
    BY <1>2, <1>5, <1>8, <2>1, CallWaits
<1>q. QED
  BY <1>6, <1>9 DEF EvInv

\* The node of a call that goes on is kept alive for the other calls.
LEMMA NodeIsKept ==
    ASSUME NEW v \in Calls, NEW w, v # w, at[v] # NoNode
    PROVE  ~Expired(at[v], w) /\ target[at[v]] \in Kept(w)
BY DEF Expired, Kept

LEMMA UnsubscribeKeeps ==
    ASSUME EvInv, NEW c \in Callbacks, Unsubscribe(c), "self" \notin EvOps
    PROVE  EvInv'
<1> DEFINE gone == {n \in ToSet(subscribers) : target[n] = c \/ Expired(n, NoNode)}
<1>1. /\ EvTypes /\ Erase(gone, present) /\ present \in [Calls -> SUBSET Nodes] /\ c \notin Kept(NoNode)
      /\ UNCHANGED <<chain, target, alive, at, called, stopped>>
  BY DEF EvInv, EvTypes, Unsubscribe
<1>2. /\ subscribers' \in Seq(Nodes)
      /\ \A k, l \in DOMAIN subscribers' : subscribers'[k] = subscribers'[l] => k = l
      /\ \A n : Listed(n)' <=> Listed(n) /\ n \notin gone
      /\ \A m, n : Listed(m)' /\ Listed(n)' =>
            (Before(subscribers', m, n) <=> Before(subscribers, m, n))
      /\ present' \in [Calls -> SUBSET Nodes]
      /\ \A w \in Calls : present'[w] = present[w] \ gone
  <2> HIDE DEF gone
  <2>q. QED
    BY <1>1, Erased
<1>3. EvTypes'
  BY <1>1, <1>2 DEF EvTypes
<1>4. ASSUME NEW w \in Calls PROVE InListOrder(w)' /\ UpToHere(w)'
  <2>1. /\ \A n \in present[w] : Listed(n)
        /\ at[w] # NoNode => Listed(at[w])
    BY DEF EvInv, InListOrder
  <2>2. at[w] # NoNode => at[w] \notin gone
    <3>1. w # NoNode
      BY EventAssumption
    <3>q. QED
      BY <1>1, <3>1, NodeIsKept
  <2> HIDE DEF gone
  <2>q. QED
    BY <1>1, <1>2, <2>1, <2>2, CallWaits
<1>q. QED
  BY <1>3, <1>4 DEF EvInv

\* The loop erases expired nodes up to position k, and calls the node there if there is one.
LEMMA LoopGoesOn ==
    ASSUME EvInv, NEW w \in Calls, NEW i \in 1 .. Len(subscribers) + 1,
           NEW p \in [Calls -> SUBSET Nodes], \A v \in Calls \ {w} : p[v] = present[v],
           Advance(w, i, p), UNCHANGED <<target, alive, stopped>>
    PROVE  /\ EvTypes' /\ \A v \in Calls \ {w} : InListOrder(v)' /\ UpToHere(v)'
           /\ \A m, n : Listed(m)' /\ Listed(n)' =>
                 (Before(subscribers', m, n) <=> Before(subscribers, m, n))
           /\ \E k \in i .. Len(subscribers) + 1 :
                 /\ \A n : Listed(n)' <=> Listed(n) /\ \A l \in i .. k - 1 : subscribers[l] # n
                 /\ \A n \in present'[w] : n \in p[w] /\ \A l \in i .. k - 1 : subscribers[l] # n
                 /\ \/ k = Len(subscribers) + 1 /\ at' = [at EXCEPT ![w] = NoNode] /\ UNCHANGED called
                    \/ /\ k \in DOMAIN subscribers /\ at' = [at EXCEPT ![w] = subscribers[k]]
                       /\ called' = [called EXCEPT ![w] = Append(@, subscribers[k])]
<1> DEFINE L == Len(subscribers)
<1>1. EvTypes /\ L \in Nat /\ DOMAIN subscribers = 1 .. L /\ i \in Int
  BY DEF EvInv, EvTypes
<1>2. PICK k \in i .. L + 1 :
         /\ \A l \in i .. k - 1 : Expired(subscribers[l], w)
         /\ Erase({subscribers[l] : l \in i .. k - 1}, p)
         /\ \/ k = L + 1 /\ at' = [at EXCEPT ![w] = NoNode] /\ UNCHANGED called
            \/ /\ k \in DOMAIN subscribers /\ at' = [at EXCEPT ![w] = subscribers[k]]
               /\ called' = [called EXCEPT ![w] = Append(@, subscribers[k])]
  <2> DEFINE goOn == {l \in i .. L : ~Expired(subscribers[l], w)}
  <2>1. CASE /\ goOn = {} /\ Erase({subscribers[l] : l \in i .. L}, p)
             /\ at' = [at EXCEPT ![w] = NoNode] /\ UNCHANGED called
    <3>1. (L + 1) - 1 = L /\ L + 1 \in i .. L + 1
      BY <1>1
    <3>q. QED
      BY <2>1, <3>1
  <2>2. ASSUME NEW k \in goOn, \A l \in goOn : k <= l,
               Erase({subscribers[l] : l \in i .. k - 1}, p),
               at' = [at EXCEPT ![w] = subscribers[k]],
               called' = [called EXCEPT ![w] = Append(@, subscribers[k])]
        PROVE  /\ k \in i .. L + 1 /\ k \in DOMAIN subscribers
               /\ \A l \in i .. k - 1 : Expired(subscribers[l], w)
    <3>1. k \in i .. L /\ k \in Int
      BY <1>1, <2>2
    <3>2. \A l \in i .. k - 1 : l \in i .. L /\ ~(k <= l)
      BY <1>1, <3>1
    <3>q. QED
      BY <1>1, <2>2, <3>1, <3>2
  <2>q. QED
    BY <2>1, <2>2 DEF Advance
<1> DEFINE gone == {subscribers[l] : l \in i .. k - 1}
<1>3. Erase(gone, p) /\ \A n \in gone : Expired(n, w)
  BY <1>2
<1>g. \A n : n \notin gone <=> \A l \in i .. k - 1 : subscribers[l] # n
  OBVIOUS
<1> HIDE DEF gone, L
<1>4. /\ subscribers' \in Seq(Nodes)
      /\ \A m, n \in DOMAIN subscribers' : subscribers'[m] = subscribers'[n] => m = n
      /\ \A n : Listed(n)' <=> Listed(n) /\ n \notin gone
      /\ \A m, n : Listed(m)' /\ Listed(n)' =>
            (Before(subscribers', m, n) <=> Before(subscribers, m, n))
      /\ present' \in [Calls -> SUBSET Nodes]
      /\ \A v \in Calls : present'[v] = p[v] \ gone
  BY <1>1, <1>3, Erased
<1>5. EvTypes'
  <2>1. k \in DOMAIN subscribers => subscribers[k] \in Nodes
    BY <1>1 DEF EvTypes
  <2>2. at' \in [Calls -> Nodes \cup {NoNode}]
    BY <1>1, <1>2, <2>1 DEF EvTypes
  <2>3. called' \in [Calls -> Seq(Nodes)]
    <3>1. k \in DOMAIN subscribers => Append(called[w], subscribers[k]) \in Seq(Nodes)
      BY <1>1, <2>1 DEF EvTypes
    <3>q. QED
      BY <1>1, <1>2, <3>1 DEF EvTypes
  <2>q. QED
    BY <1>1, <1>4, <2>2, <2>3 DEF EvTypes
<1>6. ASSUME NEW v \in Calls, v # w PROVE InListOrder(v)' /\ UpToHere(v)'
  <2>1. /\ \A n \in present[v] : Listed(n)
        /\ at[v] # NoNode => Listed(at[v])
    BY DEF EvInv, InListOrder
  <2>2. at[v] # NoNode => at[v] \notin gone
    BY <1>3, <1>6, NodeIsKept
  <2>3. at'[v] = at[v] /\ called'[v] = called[v] /\ stopped'[v] = stopped[v]
    BY <1>1, <1>2, <1>6 DEF EvTypes
  <2>4. present'[v] = present[v] \ gone
    BY <1>4, <1>6
  <2>q. QED
    BY <1>4, <2>1, <2>2, <2>3, <2>4, CallWaits
<1>q. QED
  <2>1. \A n : Listed(n)' <=> Listed(n) /\ \A l \in i .. k - 1 : subscribers[l] # n
    BY <1>4, <1>g
  <2>2. \A n \in present'[w] : n \in p[w] /\ \A l \in i .. k - 1 : subscribers[l] # n
    BY <1>4, <1>g
  <2>q. QED
    BY <1>2, <1>4, <1>5, <1>6, <2>1, <2>2 DEF L

LEMMA BeginKeeps ==
    ASSUME EvInv, NEW w \in Calls, Begin(w)
    PROVE  EvInv'
<1> DEFINE L == Len(subscribers)
           p == [present EXCEPT ![w] = ToSet(subscribers)]
<1>1. EvTypes /\ L \in Nat /\ DOMAIN subscribers = 1 .. L /\ called[w] = <<>>
  BY DEF EvInv, EvTypes, Begin
<1>2. /\ 1 \in 1 .. Len(subscribers) + 1 /\ p \in [Calls -> SUBSET Nodes]
      /\ \A v \in Calls \ {w} : p[v] = present[v]
      /\ Advance(w, 1, p) /\ UNCHANGED <<target, alive, stopped>>
  BY <1>1 DEF EvTypes, ToSet, Begin
<1>3. \A n \in p[w] : Listed(n)
  BY <1>1 DEF EvTypes, ToSet, Listed
<1> HIDE DEF p
<1>4. /\ EvTypes' /\ \A v \in Calls \ {w} : InListOrder(v)' /\ UpToHere(v)'
      /\ \A m, n : Listed(m)' /\ Listed(n)' =>
            (Before(subscribers', m, n) <=> Before(subscribers, m, n))
      /\ \E k \in 1 .. L + 1 :
            /\ \A n : Listed(n)' <=> Listed(n) /\ \A l \in 1 .. k - 1 : subscribers[l] # n
            /\ \A n \in present'[w] : n \in p[w] /\ \A l \in 1 .. k - 1 : subscribers[l] # n
            /\ \/ k = L + 1 /\ at' = [at EXCEPT ![w] = NoNode] /\ UNCHANGED called
               \/ /\ k \in DOMAIN subscribers /\ at' = [at EXCEPT ![w] = subscribers[k]]
                  /\ called' = [called EXCEPT ![w] = Append(@, subscribers[k])]
  BY <1>2, LoopGoesOn
<1>5. PICK k \in 1 .. L + 1 :
         /\ \A n : Listed(n)' <=> Listed(n) /\ \A l \in 1 .. k - 1 : subscribers[l] # n
         /\ \A n \in present'[w] : n \in p[w] /\ \A l \in 1 .. k - 1 : subscribers[l] # n
         /\ \/ k = L + 1 /\ at' = [at EXCEPT ![w] = NoNode] /\ UNCHANGED called
            \/ /\ k \in DOMAIN subscribers /\ at' = [at EXCEPT ![w] = subscribers[k]]
               /\ called' = [called EXCEPT ![w] = Append(@, subscribers[k])]
  BY <1>4
<1>6. \A n \in present'[w] : Listed(n)'
  BY <1>3, <1>5
<1>7. CASE k = L + 1 /\ at' = [at EXCEPT ![w] = NoNode] /\ UNCHANGED called
  <2>1. \A n : ~Listed(n)'
    <3> SUFFICES ASSUME NEW n, Listed(n) PROVE \E l \in 1 .. k - 1 : subscribers[l] = n
      BY <1>5
    <3>q. QED
      BY <1>1, <1>7 DEF Listed
  <2>2. present'[w] = {} /\ at'[w] = NoNode
    BY <1>1, <1>4, <1>6, <1>7, <2>1 DEF EvTypes
  <2>3. InListOrder(w)' /\ UpToHere(w)'
    BY <2>2 DEF InListOrder, UpToHere
  <2>q. QED
    BY <1>4, <2>3 DEF EvInv
<1>8. CASE /\ k \in DOMAIN subscribers /\ at' = [at EXCEPT ![w] = subscribers[k]]
           /\ called' = [called EXCEPT ![w] = Append(@, subscribers[k])]
  <2>1. PICK x : x = subscribers[k]
    OBVIOUS
  <2>2. Listed(x) /\ x # NoNode /\ x \in Nodes
    BY <1>1, <1>8, <2>1, EventAssumption DEF Listed, EvTypes
  <2>3. at'[w] = x /\ called'[w] = <<x>>
    BY <1>1, <1>8, <2>1 DEF EvTypes
  <2>4. DOMAIN <<x>> = {1} /\ <<x>>[1] = x
    OBVIOUS
  <2>5. Listed(x)'
    <3>1. \A l \in 1 .. k - 1 : l \in DOMAIN subscribers /\ l # k
      BY <1>1, <1>8
    <3>2. \A l \in 1 .. k - 1 : subscribers[l] # x
      BY <1>1, <1>8, <2>1, <3>1 DEF EvTypes
    <3>q. QED
      BY <1>5, <2>2, <3>2
  <2>6. \A n \in present'[w] : ~Before(subscribers', n, x)
    <3> SUFFICES ASSUME NEW n \in present'[w], Before(subscribers, n, x) PROVE FALSE
      BY <1>4, <1>6, <2>5
    <3>1. PICK i \in DOMAIN subscribers, j \in DOMAIN subscribers :
             i < j /\ subscribers[i] = n /\ subscribers[j] = x
      BY DEF Before
    <3>2. j = k
      BY <1>1, <1>8, <2>1, <3>1 DEF EvTypes
    <3>3. i \in 1 .. k - 1
      BY <1>1, <3>1, <3>2
    <3>q. QED
      BY <1>5, <3>1, <3>3
  <2>7. \A n : Visited(w, n)' <=> n = x
    BY <2>3, <2>4 DEF Visited
  <2>8. InListOrder(w)'
    BY <1>6, <2>2, <2>3, <2>4, <2>5 DEF InListOrder
  <2>9. UpToHere(w)'
    BY <2>3, <2>6, <2>7 DEF UpToHere
  <2>q. QED
    BY <1>4, <2>8, <2>9 DEF EvInv
<1>q. QED
  BY <1>5, <1>7, <1>8

LEMMA ReturnsKeeps ==
    ASSUME EvInv, NEW w \in Calls, Returns(w)
    PROVE  EvInv'
<1> DEFINE L == Len(subscribers)
<1>1. PICK h \in DOMAIN subscribers : subscribers[h] = at[w] /\ Advance(w, h + 1, present)
  BY DEF Returns
<1>2. /\ EvTypes /\ L \in Nat /\ DOMAIN subscribers = 1 .. L /\ h \in 1 .. L /\ h + 1 \in 1 .. L + 1
      /\ at[w] # NoNode /\ present \in [Calls -> SUBSET Nodes]
      /\ InListOrder(w) /\ UpToHere(w) /\ UNCHANGED <<target, alive, stopped>>
  BY <1>1 DEF EvInv, EvTypes, Returns
<1>3. /\ EvTypes' /\ \A v \in Calls \ {w} : InListOrder(v)' /\ UpToHere(v)'
      /\ \A m, n : Listed(m)' /\ Listed(n)' =>
            (Before(subscribers', m, n) <=> Before(subscribers, m, n))
      /\ \E k \in h + 1 .. L + 1 :
            /\ \A n : Listed(n)' <=> Listed(n) /\ \A l \in h + 1 .. k - 1 : subscribers[l] # n
            /\ \A n \in present'[w] : n \in present[w] /\ \A l \in h + 1 .. k - 1 : subscribers[l] # n
            /\ \/ k = L + 1 /\ at' = [at EXCEPT ![w] = NoNode] /\ UNCHANGED called
               \/ /\ k \in DOMAIN subscribers /\ at' = [at EXCEPT ![w] = subscribers[k]]
                  /\ called' = [called EXCEPT ![w] = Append(@, subscribers[k])]
  BY <1>1, <1>2, LoopGoesOn
<1>4. PICK k \in h + 1 .. L + 1 :
         /\ \A n : Listed(n)' <=> Listed(n) /\ \A l \in h + 1 .. k - 1 : subscribers[l] # n
         /\ \A n \in present'[w] : n \in present[w] /\ \A l \in h + 1 .. k - 1 : subscribers[l] # n
         /\ \/ k = L + 1 /\ at' = [at EXCEPT ![w] = NoNode] /\ UNCHANGED called
            \/ /\ k \in DOMAIN subscribers /\ at' = [at EXCEPT ![w] = subscribers[k]]
               /\ called' = [called EXCEPT ![w] = Append(@, subscribers[k])]
  BY <1>3
<1>5. \A n \in present'[w] : n \in present[w] /\ Listed(n) /\ Listed(n)'
  BY <1>2, <1>4 DEF InListOrder
\* A node that is not erased stands where the call was, or on one side of the gap.
<1>6. \A n \in present'[w] : \A i \in DOMAIN subscribers : subscribers[i] = n /\ i < k => i <= h
  <2>1. \A i \in DOMAIN subscribers : i < k /\ ~(i <= h) => i \in h + 1 .. k - 1
    BY <1>2
  <2>q. QED
    BY <1>4, <2>1
<1>7. ASSUME NEW n \in present'[w], NEW i \in DOMAIN subscribers, subscribers[i] = n, i <= h
      PROVE  target[n] \in alive => Visited(w, n)
  <2>1. n \in present[w]
    BY <1>5
  <2>2. CASE i = h
    BY <1>1, <1>2, <1>7, <2>2 DEF UpToHere
  <2>3. CASE i # h
    <3>1. i < h
      BY <1>2, <1>7, <2>3
    <3>2. Before(subscribers, n, at[w])
      BY <1>1, <1>7, <3>1 DEF Before
    <3>q. QED
      BY <1>2, <2>1, <3>2 DEF UpToHere
  <2>q. QED
    BY <2>2, <2>3
<1>8. \A i, j \in DOMAIN called[w] :
         i < j /\ called[w][i] \in present'[w] /\ called[w][j] \in present'[w] =>
             Before(subscribers', called[w][i], called[w][j])
  BY <1>2, <1>3, <1>5 DEF InListOrder
<1>9. CASE k = L + 1 /\ at' = [at EXCEPT ![w] = NoNode] /\ UNCHANGED called
  <2>1. at'[w] = NoNode /\ called' = called
    BY <1>2, <1>9 DEF EvTypes
  <2>2. \A n \in present'[w] : target'[n] \in alive' => Visited(w, n)'
    <3> SUFFICES ASSUME NEW n \in present'[w], target[n] \in alive PROVE Visited(w, n)
      BY <1>2, <2>1 DEF Visited
    <3>1. PICK i \in DOMAIN subscribers : subscribers[i] = n
      BY <1>5 DEF Listed
    <3>2. i < k
      BY <1>2, <1>9
    <3>q. QED
      BY <1>6, <1>7, <3>1, <3>2
  <2>3. InListOrder(w)' /\ UpToHere(w)'
    BY <1>5, <1>8, <2>1, <2>2 DEF InListOrder, UpToHere
  <2>q. QED
    BY <1>3, <2>3 DEF EvInv
<1>10. CASE /\ k \in DOMAIN subscribers /\ at' = [at EXCEPT ![w] = subscribers[k]]
            /\ called' = [called EXCEPT ![w] = Append(@, subscribers[k])]
  <2>1. PICK x : x = subscribers[k]
    OBVIOUS
  <2>2. Listed(x) /\ x # NoNode /\ x \in Nodes
    BY <1>2, <1>10, <2>1, EventAssumption DEF Listed, EvTypes
  <2>3. at'[w] = x /\ called'[w] = Append(called[w], x) /\ called[w] \in Seq(Nodes)
    BY <1>2, <1>10, <2>1 DEF EvTypes
  <2>4. PICK c : c = called[w]
    OBVIOUS
  <2>5. /\ DOMAIN called'[w] = 1 .. Len(c) + 1 /\ DOMAIN c = 1 .. Len(c) /\ Len(c) \in Nat
        /\ called'[w][Len(c) + 1] = x /\ \A i \in DOMAIN c : called'[w][i] = c[i]
    BY <2>2, <2>3, <2>4
  <2>6. \A n : Visited(w, n)' <=> Visited(w, n) \/ n = x
    <3>1. \A i \in DOMAIN called'[w] : i \in DOMAIN c \/ i = Len(c) + 1
      BY <2>5
    <3>2. DOMAIN c \subseteq DOMAIN called'[w] /\ Len(c) + 1 \in DOMAIN called'[w]
      BY <2>5
    <3>q. QED
      BY <2>4, <2>5, <3>1, <3>2 DEF Visited
  <2>7. Listed(x)'
    <3>1. \A l \in h + 1 .. k - 1 : l \in DOMAIN subscribers /\ l # k
      BY <1>2, <1>10
    <3>2. \A l \in h + 1 .. k - 1 : subscribers[l] # x
      BY <1>2, <1>10, <2>1, <3>1 DEF EvTypes
    <3>q. QED
      BY <1>4, <2>2, <3>2
  <2>8. Before(subscribers, at[w], x)
    <3>1. h < k
      BY <1>2
    <3>q. QED
      BY <1>1, <1>10, <2>1, <3>1 DEF Before
  <2>9. \A n \in present'[w] : Visited(w, n) => Before(subscribers', n, x)
    <3> SUFFICES ASSUME NEW n \in present'[w], Visited(w, n) PROVE Before(subscribers, n, x)
      BY <1>3, <1>5, <2>7
    <3>1. n = at[w] \/ Before(subscribers, n, at[w])
      BY <1>2, <1>5 DEF UpToHere
    <3>q. QED
      BY <1>2, <2>8, <3>1, BeforeIsOrder
  <2>10. \A n \in present'[w] : target[n] \in alive /\ Before(subscribers', n, x) => Visited(w, n)
    <3> SUFFICES ASSUME NEW n \in present'[w], target[n] \in alive, Before(subscribers, n, x)
                 PROVE  Visited(w, n)
      BY <1>3, <1>5, <2>7
    <3>1. PICK i \in DOMAIN subscribers, j \in DOMAIN subscribers :
             i < j /\ subscribers[i] = n /\ subscribers[j] = x
      BY DEF Before
    <3>2. j = k
      BY <1>2, <1>10, <2>1, <3>1 DEF EvTypes
    <3>q. QED
      BY <1>6, <1>7, <3>1, <3>2
  <2>11. InListOrder(w)'
    <3>1. ASSUME NEW i \in DOMAIN called'[w], NEW j \in DOMAIN called'[w], i < j,
                 called'[w][i] \in present'[w], called'[w][j] \in present'[w]
          PROVE  Before(subscribers', called'[w][i], called'[w][j])
      <4>1. i \in DOMAIN c /\ (j \in DOMAIN c \/ j = Len(c) + 1)
        BY <2>5, <3>1
      <4>2. Visited(w, called'[w][i])
        BY <2>4, <2>5, <4>1 DEF Visited
      <4>q. QED
        BY <1>8, <2>4, <2>5, <2>9, <3>1, <4>1, <4>2
    <3>q. QED
      BY <1>5, <2>2, <2>3, <2>7, <3>1 DEF InListOrder
  <2>12. UpToHere(w)'
    BY <1>2, <2>3, <2>6, <2>9, <2>10 DEF UpToHere
  <2>q. QED
    BY <1>3, <2>11, <2>12 DEF EvInv
<1>q. QED
  BY <1>4, <1>9, <1>10

LEMMA ReturnsTrueKeeps ==
    ASSUME EvInv, NEW w \in Calls, ReturnsTrue(w)
    PROVE  EvInv'
<1>1. /\ EvTypes /\ at' = [at EXCEPT ![w] = NoNode] /\ stopped' = [stopped EXCEPT ![w] = TRUE]
      /\ UNCHANGED <<chain, subscribers, target, alive, called, present>>
  BY DEF EvInv, ReturnsTrue
<1>2. EvTypes'
  BY <1>1 DEF EvTypes
<1>3. ASSUME NEW v \in Calls PROVE InListOrder(v)' /\ UpToHere(v)'
  <2>1. /\ \A n \in present[v] : Listed(n)
        /\ at[v] # NoNode => Listed(at[v])
        /\ \A n : Listed(n)' <=> Listed(n)
    BY <1>1 DEF EvInv, InListOrder, Listed
  <2>2. CASE v = w
    <3>1. at'[v] = NoNode /\ stopped'[v] /\ InListOrder(v)
      BY <1>1, <2>2 DEF EvInv, EvTypes
    <3>q. QED
      BY <1>1, <3>1 DEF InListOrder, UpToHere, Listed
  <2>3. CASE v # w
    <3>1. at'[v] = at[v] /\ stopped'[v] = stopped[v] /\ InListOrder(v) /\ UpToHere(v)
      BY <1>1, <2>3 DEF EvInv, EvTypes
    <3>q. QED
      BY <1>1, <2>1, <3>1, CallWaits
  <2>q. QED
    BY <2>2, <2>3
<1>q. QED
  BY <1>2, <1>3 DEF EvInv

LEMMA ForgetKeeps ==
    ASSUME EvInv, NEW w \in Calls, Forget(w)
    PROVE  EvInv'
<1>1. /\ EvTypes /\ at[w] = NoNode /\ called' = [called EXCEPT ![w] = <<>>]
      /\ present' = [present EXCEPT ![w] = {}] /\ stopped' = [stopped EXCEPT ![w] = FALSE]
      /\ UNCHANGED <<chain, subscribers, target, alive, at>>
  BY DEF EvInv, Forget
<1>2. EvTypes'
  <2>1. <<>> \in Seq(Nodes) /\ {} \in SUBSET Nodes
    OBVIOUS
  <2>q. QED
    BY <1>1, <2>1 DEF EvTypes
<1>3. ASSUME NEW v \in Calls PROVE InListOrder(v)' /\ UpToHere(v)'
  <2>1. /\ \A n \in present[v] : Listed(n)
        /\ at[v] # NoNode => Listed(at[v])
        /\ \A n : Listed(n)' <=> Listed(n)
    BY <1>1 DEF EvInv, InListOrder, Listed
  <2>2. CASE v = w
    <3>1. at'[v] = NoNode /\ present'[v] = {}
      BY <1>1, <2>2 DEF EvTypes
    <3>q. QED
      BY <3>1 DEF InListOrder, UpToHere
  <2>3. CASE v # w
    <3>1. /\ called'[v] = called[v] /\ present'[v] = present[v] /\ stopped'[v] = stopped[v]
          /\ InListOrder(v) /\ UpToHere(v)
      BY <1>1, <2>3 DEF EvInv, EvTypes
    <3>q. QED
      BY <1>1, <2>1, <3>1, CallWaits
  <2>q. QED
    BY <2>2, <2>3
<1>q. QED
  BY <1>2, <1>3 DEF EvInv

LEMMA EvStep == ASSUME EvInv, [EvNext]_evVars, "self" \notin EvOps PROVE EvInv'
<1>1. CASE UNCHANGED evVars
  BY <1>1 DEF evVars, EvInv, EvTypes, InListOrder, UpToHere, Listed, Visited
<1>2. CASE EvNext
  BY <1>2, CallbackKeeps, SubscribeKeeps, UnsubscribeKeeps, BeginKeeps, ReturnsKeeps,
     ReturnsTrueKeeps, ForgetKeeps DEF EvNext
<1>q. QED
  BY <1>1, <1>2

LEMMA EvStarts == ASSUME EvInit PROVE EvInv
<1>1. EvTypes
  <2>1. <<>> \in Seq(Nodes) /\ DOMAIN <<>> = {}
    OBVIOUS
  <2>2. (CHOOSE c \in Callbacks : TRUE) \in Callbacks
    BY EventAssumption
  <2>q. QED
    BY <2>1, <2>2 DEF EvInit, EvTypes
<1>2. \A w \in Calls : at[w] = NoNode /\ present[w] = {} /\ DOMAIN called[w] = {}
  BY DEF EvInit
<1>q. QED
  BY <1>1, <1>2 DEF EvInv, InListOrder, UpToHere

LEMMA EvShows == ASSUME EvInv PROVE CalledInOrder
<1> SUFFICES ASSUME NEW w \in Calls, InListOrder(w)
             PROVE  /\ at[w] # NoNode => at[w] \in ToSet(subscribers)
                    /\ present[w] \subseteq ToSet(subscribers)
                    /\ \A i, j \in DOMAIN called[w] :
                          i < j /\ {called[w][i], called[w][j]} \subseteq present[w] =>
                              Before(subscribers, called[w][i], called[w][j])
                    /\ at[w] = NoNode /\ ~stopped[w] =>
                          {n \in present[w] : target[n] \in alive} \subseteq ToSet(called[w])
  BY DEF EvInv, CalledInOrder
<1>1. \A n : n \in ToSet(subscribers) <=> Listed(n)
  BY DEF ToSet, Listed
<1>2. \A n : n \in ToSet(called[w]) <=> Visited(w, n)
  BY DEF ToSet, Visited
<1>q. QED
  BY <1>1, <1>2 DEF InListOrder

\* However callbacks subscribe, unsubscribe, die and are created while calls overlap, a call
\* visits, in order and once each, the callbacks that were subscribed all along; and however
\* promises and futures are moved, a result is moved out once: for any callbacks, nodes and calls,
\* and any states, promises and threads.
THEOREM AllDeliveredOnce ==
    NoneIsNoState /\ "self" \notin EvOps => (EvSpec /\ FuSpec => []DeliveredOnce)
<1> SUFFICES ASSUME NoneIsNoState, "self" \notin EvOps PROVE EvSpec /\ FuSpec => []DeliveredOnce
  OBVIOUS
<1>1. EvInit => EvInv
  BY EvStarts
<1>2. EvInv /\ [EvNext]_evVars => EvInv'
  BY EvStep
<1>3. EvInv => CalledInOrder
  BY EvShows
<1>4. FuSpec => []TakenOnce
  BY ResultsTakenOnce
<1>5. CalledInOrder /\ TakenOnce <=> DeliveredOnce
  BY DEF DeliveredOnce
<1>q. QED
  BY <1>1, <1>2, <1>3, <1>4, <1>5, PTL DEF EvSpec
=============================================================================
