----------------------------- MODULE SharedMutex -----------------------------
(***************************************************************************)
(* jw::shared_mutex and its timed form (include/jw/shared_mutex.h,         *)
(* detail/mutex.h); without the shared operations it is jw::mutex.  Every  *)
(* access to the flag or the count is a step: threads switch only where    *)
(* they yield, interrupt handlers come between any two steps.              *)
(***************************************************************************)
EXTENDS Contexts

VARIABLES
    locked,     \* the atomic_flag
    sharedCount

smVars == <<locked, sharedCount, current, nest, pc>>

SInit == ContextsInit /\ locked = FALSE /\ sharedCount = 0

\* lock() and lock_shared(), also with a timeout: the first try.
Start(c, how) == c = Running /\ pc[c] = "idle" /\ Goto(c, how) /\ UNCHANGED <<locked, sharedCount, current, nest>>

\* try_lock(): locked.test_and_set()
TryLock(c) ==
    /\ c = Running /\ pc[c] = "lock"
    /\ locked' = TRUE
    /\ IF locked THEN Failed(c, "lock") ELSE Goto(c, "check") /\ UNCHANGED current
    /\ UNCHANGED <<sharedCount, nest>>

\* Mutant: the readers are not looked at.
CheckNothing(c) ==
    /\ c = Running /\ pc[c] = "check"
    /\ Goto(c, "writing")
    /\ UNCHANGED <<locked, sharedCount, current, nest>>

\* if (shared_count == 0) return true
CheckReaders(c) ==
    /\ c = Running /\ pc[c] = "check"
    /\ Goto(c, IF sharedCount = 0 THEN "writing" ELSE "undo")
    /\ UNCHANGED <<locked, sharedCount, current, nest>>

\* unlock(); return false
Undo(c) ==
    /\ c = Running /\ pc[c] = "undo"
    /\ locked' = FALSE /\ Failed(c, "lock")
    /\ UNCHANGED <<sharedCount, nest>>

\* try_lock_shared(): the flag protects the increment.
TryLockShared(c) ==
    /\ c = Running /\ pc[c] = "lock_shared"
    /\ locked' = TRUE
    /\ IF locked THEN Failed(c, "lock_shared") ELSE Goto(c, "inc") /\ UNCHANGED current
    /\ UNCHANGED <<sharedCount, nest>>

Increment(c) ==
    /\ c = Running /\ pc[c] = "inc"
    /\ sharedCount' = sharedCount + 1 /\ Goto(c, "release")
    /\ UNCHANGED <<locked, current, nest>>

Release(c) ==
    /\ c = Running /\ pc[c] = "release"
    /\ locked' = FALSE /\ Goto(c, "reading")
    /\ UNCHANGED <<sharedCount, current, nest>>

Unlock(c) ==
    /\ c = Running /\ pc[c] = "writing"
    /\ locked' = FALSE /\ Goto(c, "idle")
    /\ UNCHANGED <<sharedCount, current, nest>>

UnlockShared(c) ==
    /\ c = Running /\ pc[c] = "reading"
    /\ sharedCount' = sharedCount - 1 /\ Goto(c, "idle")
    /\ UNCHANGED <<locked, current, nest>>

\* Threads yield with or without the lock; a handler has given up its locks when it returns.
SNext ==
    \/ \E c \in Actors :
          \/ Start(c, "lock") \/ TryLock(c) \/ CheckReaders(c) \/ Undo(c) \/ Unlock(c)
          \/ Start(c, "lock_shared") \/ TryLockShared(c) \/ Increment(c) \/ Release(c)
          \/ UnlockShared(c)
    \/ Yield({"idle", "writing", "reading"}) /\ UNCHANGED <<locked, sharedCount>>
    \/ \E i \in Irqs : Interrupted(i) /\ UNCHANGED <<locked, sharedCount>>
    \/ Returned /\ UNCHANGED <<locked, sharedCount>>

SSpec == SInit /\ [][SNext]_smVars

-----------------------------------------------------------------------------
(* Properties                                                              *)

Writers == {c \in Actors : pc[c] = "writing"}
Readers == {c \in Actors : pc[c] \in {"release", "reading"}}

Abstract == INSTANCE RWLock WITH Contexts <- Actors, writers <- Writers, readers <- Readers

\* The lock excludes: flag and count together implement a readers-writer lock, although
\* neither is changed together with the other and handlers try it in between; and it is not
\* lost: when nobody holds or tries it, both parts are as at the start.
ImplementsRWLock ==
    /\ Abstract!Spec
    /\ []((\A c \in Actors : pc[c] = "idle") => ~locked /\ sharedCount = 0)
=============================================================================
