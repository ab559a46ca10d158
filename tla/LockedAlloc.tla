---------------------------- MODULE LockedAlloc ----------------------------
(***************************************************************************)
(* operator new and delete, the malloc wrappers and the locked pool for    *)
(* interrupt handlers (src/main.cpp).  The heap and the pool's own lists   *)
(* are libraries: a block is in one of them, the pool is a list of regions *)
(* with their free units.                                                  *)
(***************************************************************************)
EXTENDS Integers, Sequences, SequencesExt, FiniteSetsExt

CONSTANTS
    Blocks,
    PoolSize,   \* global_locked_pool_size, in units
    MaxRegions, \* bound of the growth
    PoolOps     \* "trap": exception handlers free memory while the pool grows;
                \* "torn": handlers come between read and write of min_chunk_size

VARIABLES
    regions,    \* of the pool: free units
    irqAlloc,   \* irq_alloc # nullptr
    minChunk,   \* min_chunk_size
    inMalloc,   \* in_malloc
    place,      \* of every block: its region, Heap or Nowhere
    step, op,   \* of the thread: where it is, and in which call
    arg,        \* the block that realloc() replaces, or min_chunk_size as it was read
    nested,     \* exceptions whose allocation failed
    irq,        \* a handler runs
    unseen,     \* the pool was used since it was last looked at, or the host has no memory
    misfreed    \* a block was given back to the wrong allocator

allocVars == <<regions, irqAlloc, minChunk, inMalloc, place, step, op, arg, nested, irq,
               unseen, misfreed>>
poolVars == <<regions, irqAlloc, minChunk, unseen>>
blockVars == <<place, misfreed>>

Nowhere == -1
Heap == 0

PoolInit ==
    /\ regions = <<PoolSize>> /\ irqAlloc = TRUE /\ minChunk = PoolSize
    /\ inMalloc = FALSE /\ nested = 0 /\ irq = FALSE
    /\ place = [b \in Blocks |-> Nowhere] /\ misfreed = FALSE /\ unseen = FALSE
    /\ step = "idle" /\ op = "none" /\ arg = 0

Chunk(r) == Max(ToSet(r))

\* operator delete: irq_alloc != nullptr and irq_alloc->in_pool(p)
Free(b) ==
    /\ place[b] # Nowhere /\ place' = [place EXCEPT ![b] = Nowhere]
    /\ IF irqAlloc /\ place[b] # Heap
       THEN regions' = [regions EXCEPT ![place[b]] = @ + 1] /\ UNCHANGED misfreed
       ELSE misfreed' = (misfreed \/ place[b] # Heap) /\ UNCHANGED regions

\* do_locked_alloc(), up to min_chunk_size; bad_alloc without a pool or a free unit.
TakeLocked(b) ==
    /\ irqAlloc /\ place[b] = Nowhere
    /\ \E k \in DOMAIN regions :
          /\ regions[k] > 0 /\ regions' = [regions EXCEPT ![k] = @ - 1]
          /\ place' = [place EXCEPT ![b] = k]
    /\ unseen' = TRUE

-----------------------------------------------------------------------------
(* The thread                                                              *)

Call(o) ==
    /\ ~irq /\ step = "idle"
    /\ op' = o /\ step' = "resize" /\ inMalloc' = (o = "malloc")
    /\ IF o = "realloc" THEN arg' \in {b \in Blocks : place[b] # Nowhere} ELSE UNCHANGED arg
    /\ UNCHANGED <<poolVars, blockVars, nested, irq>>

Delete(b) ==
    /\ ~irq /\ step = "idle" /\ Free(b)
    /\ UNCHANGED <<irqAlloc, minChunk, unseen, inMalloc, step, op, arg, nested, irq>>

\* resize_irq_alloc(): the test, and the start of the growth
Resize ==
    /\ ~irq /\ step = "resize"
    /\ IF minChunk >= PoolSize \div 4
       THEN step' = "alloc" /\ unseen' = FALSE /\ UNCHANGED irqAlloc
       ELSE step' = "growing" /\ irqAlloc' = FALSE /\ UNCHANGED unseen
    /\ UNCHANGED <<regions, minChunk, blockVars, inMalloc, op, arg, nested, irq>>

\* ia->grow(irq_alloc_size / 2), or bad_alloc
Grow ==
    /\ ~irq /\ step = "growing"
    /\ \/ /\ Len(regions) < MaxRegions /\ regions' = Append(regions, PoolSize \div 2)
          /\ minChunk' = Chunk(regions') /\ unseen' = FALSE
       \/ UNCHANGED <<regions, minChunk>> /\ unseen' = TRUE
    /\ irqAlloc' = TRUE /\ step' = "alloc"
    /\ UNCHANGED <<blockVars, inMalloc, op, arg, nested, irq>>

CallReturns == step' = "idle" /\ op' = "none" /\ inMalloc' = FALSE /\ nested' = 0 /\ arg' = 0

Allocate(b) ==
    /\ ~irq /\ step = "alloc" /\ op # "locked"
    /\ place[b] = Nowhere /\ place' = [place EXCEPT ![b] = Heap]
    /\ IF op = "realloc" THEN step' = "release" /\ UNCHANGED <<op, inMalloc, nested, arg>> ELSE CallReturns
    /\ UNCHANGED <<poolVars, misfreed, irq>>

\* The rest of realloc()
ReleaseOld ==
    /\ ~irq /\ step = "release" /\ Free(arg) /\ CallReturns
    /\ UNCHANGED <<irqAlloc, minChunk, unseen, irq>>

\* Mutant: malloc() does not notice that it is entered again.
ThrowAgain ==
    /\ ~irq /\ step = "alloc" /\ op # "locked"
    /\ inMalloc' = TRUE /\ nested' = nested + 1 /\ step' = "resize"
    /\ UNCHANGED <<poolVars, blockVars, op, arg, irq>>

\* The heap is exhausted: bad_alloc is thrown, and __cxa_allocate_exception() calls malloc()
\* for it with interrupts masked.  Inside of another malloc() that fails, and the exception
\* comes from the emergency pool.
Throw ==
    /\ ~irq /\ step = "alloc" /\ op # "locked"
    /\ IF inMalloc
       THEN CallReturns
       ELSE inMalloc' = TRUE /\ nested' = nested + 1 /\ step' = "resize" /\ UNCHANGED <<op, arg>>
    /\ UNCHANGED <<poolVars, blockVars, irq>>

\* The exception was allocated; it is thrown, caught and freed.
Thrown ==
    /\ ~irq /\ step = "alloc" /\ nested > 0 /\ CallReturns
    /\ UNCHANGED <<poolVars, blockVars, irq>>

\* allocate_locked()
AllocateLocked ==
    /\ ~irq /\ step = "alloc" /\ op = "locked"
    /\ IF Chunk(regions) = 0
       THEN CallReturns /\ UNCHANGED <<regions, place, unseen>>
       ELSE /\ \E b \in Blocks : TakeLocked(b)
            /\ step' = "min" /\ UNCHANGED <<op, inMalloc, nested, arg>>
    /\ UNCHANGED <<irqAlloc, minChunk, misfreed, irq>>

\* min_chunk_size = std::min(min_chunk_size, irq_alloc->max_chunk_size())
ReadMin ==
    /\ ~irq /\ step = "min" /\ arg' = Min({minChunk, Chunk(regions)}) /\ step' = "store"
    /\ UNCHANGED <<poolVars, blockVars, inMalloc, op, nested, irq>>

StoreMin ==
    /\ ~irq /\ step = "store" /\ minChunk' = arg /\ CallReturns
    /\ UNCHANGED <<regions, irqAlloc, unseen, blockVars, irq>>

-----------------------------------------------------------------------------
(* Handlers                                                                *)

Masked == step = "growing" \/ nested > 0

HandlerEnters ==
    /\ ~irq /\ ~Masked /\ (step = "store" => "torn" \in PoolOps)
    /\ irq' = TRUE
    /\ UNCHANGED <<poolVars, blockVars, inMalloc, step, op, arg, nested>>

\* operator new in a handler; malloc() too, unless it interrupts a malloc().
HandlerNew(b) ==
    /\ irq /\ TakeLocked(b) /\ minChunk' = Min({minChunk, Chunk(regions')})
    /\ UNCHANGED <<irqAlloc, inMalloc, misfreed, step, op, arg, nested, irq>>

\* A handler frees a block of the pool; the heap is not re-entrant.
HandlerDelete(b) ==
    /\ irq \/ (step = "growing" /\ "trap" \in PoolOps)
    /\ place[b] # Heap /\ b # arg /\ Free(b)
    /\ UNCHANGED <<irqAlloc, minChunk, unseen, inMalloc, step, op, arg, nested, irq>>

HandlerReturns ==
    /\ irq /\ irq' = FALSE
    /\ UNCHANGED <<poolVars, blockVars, inMalloc, step, op, arg, nested>>

PoolNext ==
    \/ \E o \in {"new", "malloc", "realloc", "locked"} : Call(o)
    \/ \E b \in Blocks : Delete(b) \/ Allocate(b) \/ HandlerNew(b) \/ HandlerDelete(b)
    \/ Resize \/ Grow \/ ReleaseOld \/ Throw \/ Thrown \/ AllocateLocked \/ ReadMin \/ StoreMin
    \/ HandlerEnters \/ HandlerReturns

PoolSpec == PoolInit /\ [][PoolNext]_allocVars

-----------------------------------------------------------------------------
(* Properties                                                              *)

\* Memory goes back where it came from, also while the pool grows; a failing allocation of an
\* exception is tried once and not without end; and after every call of the thread a quarter
\* of the pool is left in one piece, unless handlers took it since or the host had none.
PoolKept ==
    /\ ~misfreed
    /\ nested <= 1
    /\ step = "idle" /\ ~unseen => Chunk(regions) >= PoolSize \div 4
=============================================================================
