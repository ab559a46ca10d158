----------------------------- MODULE Descriptor -----------------------------
(***************************************************************************)
(* jw::dpmi::descriptor (src/memory.cpp, dpmi/memory.h): objects that own  *)
(* selectors, and the limit of a segment, which is written by the host or  *)
(* straight into the descriptor table, in bytes or in pages.               *)
(***************************************************************************)
EXTENDS Integers, FiniteSets

CONSTANTS
    DeObjects, Selectors, NoDescriptor,
    PageBytes,
    Mega,       \* limits from here on are in pages
    MaxLimit

VARIABLES
    direct,     \* direct_ldt_access
    table,      \* of every selector: its descriptor, or None
    sel, noAlloc,   \* of every object
    asked       \* of every selector: the limit that was set last

selVars == <<direct, table, sel, noAlloc, asked>>

DeInit ==
    /\ direct \in BOOLEAN
    /\ table = [s \in Selectors |-> NoDescriptor] /\ asked = [s \in Selectors |-> 0]
    /\ sel = [o \in DeObjects |-> NoDescriptor] /\ noAlloc = [o \in DeObjects |-> TRUE]

\* The limit that the processor applies, which is what get_limit() returns.
Effective(d) == IF d.inPages THEN d.limit * PageBytes + PageBytes - 1 ELSE d.limit

\* Mutant: the limit is cut to pages and not extended.
LimitCut(l) == IF l >= Mega THEN [limit |-> l \div PageBytes - 1, inPages |-> TRUE]
               ELSE [limit |-> l, inPages |-> FALSE]

\* set_limit(): in the table, or by the host, which is given a size
LimitDirect(l) == IF l >= Mega THEN [limit |-> l \div PageBytes, inPages |-> TRUE]
                  ELSE [limit |-> l, inPages |-> FALSE]
LimitHost(l) == IF l >= Mega THEN [limit |-> (l + PageBytes - 1) \div PageBytes - 1, inPages |-> TRUE]
                ELSE [limit |-> l, inPages |-> FALSE]
LimitOf(l) == IF direct THEN LimitDirect(l) ELSE LimitHost(l)

\* What the table has is a descriptor.
ASSUME DescriptorAssumption ==
    /\ PageBytes \in Nat \ {0} /\ NoDescriptor \notin Selectors
    /\ \A l \in 0 .. MaxLimit : LimitDirect(l) # NoDescriptor /\ LimitHost(l) # NoDescriptor

SetLimit(o, l) ==
    /\ sel[o] # NoDescriptor /\ table[sel[o]] # NoDescriptor
    /\ table' = [table EXCEPT ![sel[o]] = LimitOf(l)] /\ asked' = [asked EXCEPT ![sel[o]] = l]
    /\ UNCHANGED <<direct, sel, noAlloc>>

\* clone_segment() and set_limit(): create_segment(), create_code_segment()
Create(o, l) ==
    /\ sel[o] = NoDescriptor
    /\ \E s \in Selectors :
          /\ table[s] = NoDescriptor
          /\ table' = [table EXCEPT ![s] = LimitOf(l)] /\ asked' = [asked EXCEPT ![s] = l]
          /\ sel' = [sel EXCEPT ![o] = s] /\ noAlloc' = [noAlloc EXCEPT ![o] = FALSE]
    /\ UNCHANGED direct

\* descriptor(selector): of another object, and not owned
Refer(o, s) ==
    /\ sel[o] = NoDescriptor /\ table[s] # NoDescriptor
    /\ sel' = [sel EXCEPT ![o] = s] /\ noAlloc' = [noAlloc EXCEPT ![o] = TRUE]
    /\ UNCHANGED <<direct, table, asked>>

\* deallocate()
Freed(o) == IF noAlloc[o] THEN table ELSE [table EXCEPT ![sel[o]] = NoDescriptor]

\* The move constructor, and the assignment, which frees the target first.
MoveSelector(o, p) ==
    /\ o # p /\ sel[p] # NoDescriptor
    /\ table' = Freed(o)
    /\ sel' = [sel EXCEPT ![o] = sel[p]]
    /\ noAlloc' = [noAlloc EXCEPT ![o] = noAlloc[p], ![p] = TRUE]
    /\ UNCHANGED <<direct, asked>>

DestroySelector(o) ==
    /\ sel[o] # NoDescriptor
    /\ table' = Freed(o)
    /\ sel' = [sel EXCEPT ![o] = NoDescriptor] /\ noAlloc' = [noAlloc EXCEPT ![o] = TRUE]
    /\ UNCHANGED <<direct, asked>>

DeNext ==
    \E o \in DeObjects :
        \/ \E l \in 0 .. MaxLimit : Create(o, l) \/ SetLimit(o, l)
        \/ \E s \in Selectors : Refer(o, s)
        \/ \E p \in DeObjects : MoveSelector(o, p)
        \/ DestroySelector(o)

DeSpec == DeInit /\ [][DeNext]_selVars

-----------------------------------------------------------------------------
(* Properties                                                              *)

\* A descriptor in the table belongs to exactly one object, whatever was moved to what; and
\* it reaches at least as many bytes as the limit that was set counts, either way.
SelectorsOwned ==
    \A s \in Selectors :
        /\ Cardinality({o \in DeObjects : sel[o] = s /\ ~noAlloc[o]}) = IF table[s] = NoDescriptor THEN 0 ELSE 1
        /\ table[s] # NoDescriptor => Effective(table[s]) >= asked[s] - 1
=============================================================================
