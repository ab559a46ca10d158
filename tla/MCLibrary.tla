----------------------------- MODULE MCLibrary ------------------------------
(***************************************************************************)
(* Instances of the library's components for TLC: interrupt masks, the two *)
(* mutexes, events, futures, the pool of locked memory, memory blocks, and *)
(* descriptors.  They share no state but for the contexts that the mutexes *)
(* are used by, so one behaviour runs one of them, part, and leaves the    *)
(* state of the others alone.                                              *)
(***************************************************************************)
EXTENDS IrqMask, SharedMutex, RecursiveMutex, Event, Future, LockedAlloc, Memory, Descriptor

CONSTANTS None, b1, b2, b3, b4, b5

VARIABLE part      \* the component that runs

Parts == {"irq_mask", "shared_mutex", "recursive_mutex", "event", "future", "locked_alloc",
          "memory", "descriptor"}

LibraryInit ==
    /\ part \in Parts
    /\ Init
    /\ part # "irq_mask" => imr = {}
    /\ SInit /\ RInit /\ PoolInit
    /\ part \notin {"shared_mutex", "recursive_mutex"} => current = CHOOSE t \in Threads : TRUE
    /\ EvInit /\ (part # "event" => ~chain)
    /\ FuInit
    /\ MeInit /\ (part # "memory" => ~host10)
    /\ DeInit /\ (part # "descriptor" => ~direct)

LibraryNext ==
    \/ part = "irq_mask" /\ Next
       /\ UNCHANGED <<part, smVars, lockVars, evVars, fuVars, allocVars, memVars, selVars>>
    \/ part = "shared_mutex" /\ SNext
       /\ UNCHANGED <<part, vars, lockVars, evVars, fuVars, allocVars, memVars, selVars>>
    \/ part = "recursive_mutex" /\ RNext
       /\ UNCHANGED <<part, vars, locked, sharedCount, evVars, fuVars, allocVars, memVars, selVars>>
    \/ part = "event" /\ EvNext
       /\ UNCHANGED <<part, vars, smVars, lockVars, fuVars, allocVars, memVars, selVars>>
    \/ part = "future" /\ FuNext
       /\ UNCHANGED <<part, vars, smVars, lockVars, evVars, allocVars, memVars, selVars>>
    \/ part = "locked_alloc" /\ PoolNext
       /\ UNCHANGED <<part, vars, smVars, lockVars, evVars, fuVars, memVars, selVars>>
    \/ part = "memory" /\ MeNext
       /\ UNCHANGED <<part, vars, smVars, lockVars, evVars, fuVars, allocVars, selVars>>
    \/ part = "descriptor" /\ DeNext
       /\ UNCHANGED <<part, vars, smVars, lockVars, evVars, fuVars, allocVars, memVars>>

LibrarySpec ==
    LibraryInit /\ [][LibraryNext]_<<part, vars, smVars, lockVars, evVars, fuVars, allocVars, memVars, selVars>>
-----------------------------------------------------------------------------
\* event.h, future.h: a call visits, in order and once each, the callbacks that were subscribed
\* all along; a result is moved out once, however promises and futures are moved.
DeliveredOnce == CalledInOrder /\ TakenOnce

\* memory.cpp, memory.h: every object has the memory that it says it has, no two have the
\* same, and a selector reaches what it was made for.
MemoryHeld == ObjectsHold /\ NothingLeaks /\ SelectorsOwned
=============================================================================
