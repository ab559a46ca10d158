------------------------------- MODULE RWLock -------------------------------
(* What a readers-writer lock promises: one writer, or any readers.        *)

CONSTANT Contexts   \* threads and interrupt handlers

VARIABLES writers, readers

Init == writers = {} /\ readers = {}

AcquireWrite(c) == writers \cup readers = {} /\ writers' = {c} /\ UNCHANGED readers
AcquireRead(c) == writers = {} /\ c \notin readers /\ readers' = readers \cup {c} /\ UNCHANGED writers
ReleaseWrite(c) == c \in writers /\ writers' = {} /\ UNCHANGED readers
ReleaseRead(c) == c \in readers /\ readers' = readers \ {c} /\ UNCHANGED writers

Next == \E c \in Contexts :
            AcquireWrite(c) \/ AcquireRead(c) \/ ReleaseWrite(c) \/ ReleaseRead(c)

Spec == Init /\ [][Next]_<<writers, readers>>
=============================================================================
