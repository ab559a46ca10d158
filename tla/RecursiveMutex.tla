--------------------------- MODULE RecursiveMutex ---------------------------
(***************************************************************************)
(* jw::recursive_mutex and its timed form (include/jw/mutex.h): the owner  *)
(* and the count are two variables, read and written in separate steps.    *)
(***************************************************************************)
EXTENDS Contexts

CONSTANTS
    NoOwner,
    MaxLocks,   \* bound: locks a context holds at a time
    Window      \* whether handlers may come between the stores of owner and lock_count,
                \* and a second one while unlock() is between them

\* Ids of threads, of interrupts, and nullptr are different types in the code.
ASSUME OwnersAssumption == Threads \cap Irqs = {} /\ NoOwner \notin Actors

VARIABLES
    owner, lockCount,
    locks       \* that every context holds

lockVars == <<owner, lockCount, locks>>
rmVars == <<current, nest, pc, owner, lockCount, locks>>

RInit == ContextsInit /\ owner = NoOwner /\ lockCount = 0 /\ locks = [c \in Actors |-> 0]

\* is_owner: a handler that interrupts the owning thread is taken for that thread.
IsOwner(c) == owner = c \/ owner = current

Lock(c) ==
    /\ c = Running /\ pc[c] = "idle" /\ locks[c] < MaxLocks
    /\ Goto(c, "try") /\ UNCHANGED <<current, nest, lockVars>>

\* try_lock(): the test of the owner
TestOwner(c) ==
    /\ c = Running /\ pc[c] = "try"
    /\ IF owner = NoOwner THEN Goto(c, "own") /\ UNCHANGED current
       ELSE IF IsOwner(c) THEN Goto(c, "again") /\ UNCHANGED current
       ELSE Failed(c, "try")
    /\ UNCHANGED <<nest, lockVars>>

SetOwner(c) ==
    /\ c = Running /\ pc[c] = "own"
    /\ owner' = c /\ Goto(c, "count")
    /\ UNCHANGED <<current, nest, lockCount, locks>>

Acquire(c, l, n) ==
    /\ c = Running /\ pc[c] = l
    /\ lockCount' = n /\ locks' = [locks EXCEPT ![c] = @ + 1] /\ Goto(c, "idle")
    /\ UNCHANGED <<current, nest, owner>>

SetCount(c) == Acquire(c, "count", 1)
LockAgain(c) == Acquire(c, "again", lockCount + 1)

\* Mutant: the owner is cleared by every unlock.
CountDownClears(c) ==
    /\ c = Running /\ pc[c] = "idle" /\ locks[c] > 0
    /\ lockCount' = lockCount - 1 /\ locks' = [locks EXCEPT ![c] = @ - 1]
    /\ Goto(c, "clear")
    /\ UNCHANGED <<current, nest, owner>>

\* unlock(): --lock_count == 0
CountDown(c) ==
    /\ c = Running /\ pc[c] = "idle" /\ locks[c] > 0
    /\ lockCount' = lockCount - 1 /\ locks' = [locks EXCEPT ![c] = @ - 1]
    /\ Goto(c, IF lockCount = 1 THEN "clear" ELSE "idle")
    /\ UNCHANGED <<current, nest, owner>>

ClearOwner(c) ==
    /\ c = Running /\ pc[c] = "clear"
    /\ owner' = NoOwner /\ Goto(c, "idle")
    /\ UNCHANGED <<current, nest, lockCount, locks>>

Uninterruptible == pc[Running] = "count" \/ \E c \in Actors \ {Running} : pc[c] = "clear"

\* A handler returns without locks.
RNext ==
    \/ \E c \in Actors : Lock(c) \/ TestOwner(c) \/ SetOwner(c) \/ SetCount(c) \/ LockAgain(c)
                              \/ CountDown(c) \/ ClearOwner(c)
    \/ Yield({"idle"}) /\ UNCHANGED lockVars
    \/ \E i \in Irqs : (Window \/ ~Uninterruptible) /\ Interrupted(i) /\ UNCHANGED lockVars
    \/ Returned /\ locks[Head(nest)] = 0 /\ UNCHANGED lockVars

RSpec == RInit /\ [][RNext]_rmVars

-----------------------------------------------------------------------------
(* Properties                                                              *)

Holders == {c \in Actors : locks[c] > 0}

\* Who holds the lock is its owner, or a handler that interrupts the owner; and a lock that
\* nobody holds or tries is free: handlers between the steps of lock() and unlock() neither
\* let a second thread in nor leave the owner behind.
OwnersOnly ==
    /\ \A c \in Holders : owner = c \/ (c \in Irqs /\ owner = current)
    /\ (\A c \in Actors : pc[c] = "idle" /\ locks[c] = 0) => owner = NoOwner /\ lockCount = 0
=============================================================================
