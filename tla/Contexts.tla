------------------------------ MODULE Contexts ------------------------------
(***************************************************************************)
(* Who runs: threads switch only where they yield, interrupt handlers come *)
(* between any two steps, nest, and return before anything below them goes *)
(* on (detail/scheduler.h, dpmi/irq_check.h).                              *)
(***************************************************************************)
EXTENDS Integers, Sequences

CONSTANTS
    Threads,
    Irqs        \* interrupt handlers

VARIABLES
    current,    \* the current thread
    nest,       \* the handlers that run, innermost first
    pc          \* of every context

Actors == Threads \cup Irqs

ContextsInit ==
    /\ current \in Threads /\ nest = <<>>
    /\ pc = [c \in Actors |-> "idle"]

Running == IF nest = <<>> THEN current ELSE Head(nest)
InIrq == nest # <<>>    \* dpmi::in_irq_context()

Goto(c, l) == pc' = [pc EXCEPT ![c] = l]

\* A failed try to lock: a handler gets the exception deadlock, a thread yields and tries
\* again, or gives up (try_lock(), or the time of try_lock_for() is over).
Failed(c, how) ==
    \/ Goto(c, "idle") /\ UNCHANGED current
    \/ ~InIrq /\ Goto(c, how) /\ current' \in Threads

\* A thread yields elsewhere.
Yield(where) ==
    /\ ~InIrq /\ pc[current] \in where
    /\ current' \in Threads \ {current}
    /\ UNCHANGED <<nest, pc>>

Interrupted(i) ==
    /\ \A k \in DOMAIN nest : nest[k] # i
    /\ nest' = <<i>> \o nest
    /\ UNCHANGED <<current, pc>>

Returned ==
    /\ InIrq /\ pc[Head(nest)] = "idle"
    /\ nest' = Tail(nest)
    /\ UNCHANGED <<current, pc>>
=============================================================================
