------------------------------- MODULE IrqMask -------------------------------
(***************************************************************************)
(* irq_mask (include/jw/dpmi/irq_mask.h): scoped masking of one interrupt  *)
(* line in the mask register of a PIC.  Constructor, destructor and the    *)
(* static unmask() share the register and a counter for each line.  The    *)
(* constructor and the destructor run with interrupts enabled: between any *)
(* two of their accesses an interrupt handler may come that masks and      *)
(* unmasks lines itself.                                                   *)
(*                                                                         *)
(* ctx[1] is the context of the threads, which switch only in yield() and  *)
(* never in the middle of these operations; ctx[2] that of a handler that  *)
(* interrupts them, and so on up to ctx[depth], the one that runs.         *)
(***************************************************************************)
EXTENDS Integers

CONSTANTS
    Lines,      \* the lines that share one mask register
    Msb,        \* the weight of the counter's top bit (2^31 in the code)
    MaxHeld,    \* bound: irq_mask objects one context holds for one line
    MaxDepth,   \* bound: nested interrupts
    Ops         \* "irq_unmask": interrupt handlers may call unmask()

ASSUME LinesAssumption == Lines # {}

ASSUME BoundsAssumption ==
    /\ MaxHeld \in Nat /\ MaxDepth \in Nat /\ Msb \in Nat
    /\ Msb > MaxHeld * (MaxDepth + 1) + 1

VARIABLES
    imr,        \* the masked lines: bits set in the PIC's mask register
    count,      \* irq_mask::map[..].count: live objects, plus Msb if masked before them
    ctx,        \* the contexts
    depth,      \* the running context
    wanted      \* the lines that are to be open when no irq_mask is alive (history)

vars == <<imr, count, ctx, depth, wanted>>

Counters == 0..2 * Msb - 1
Pcs == {"idle", "cli_write", "cli_load", "cli_store", "sti_store", "sti_read", "sti_write"}

Depths == 1..MaxDepth + 1

\* pc, and the locals irq, current and c of cli() and sti(); held counts live objects.
Contexts == [pc : Pcs, irq : Lines, current : SUBSET Lines, c : Counters,
             held : [Lines -> 0..MaxHeld]]

\* c & ~(1UL << 31)
Low(c) == IF c >= Msb THEN c - Msb ELSE c

Idle == [pc |-> "idle", irq |-> CHOOSE i \in Lines : TRUE, current |-> {}, c |-> 0,
         held |-> [i \in Lines |-> 0]]

\* Between two operations, with the given objects.
Holding(held) == [Idle EXCEPT !.held = held]

Init ==
    /\ imr \in SUBSET Lines
    /\ count = [i \in Lines |-> 0]
    /\ ctx = [d \in Depths |-> Idle] /\ depth = 1
    /\ wanted = Lines \ imr

Top == ctx[depth]
At(pc) == Top.pc = pc
Becomes(x) == ctx' = [ctx EXCEPT ![depth] = x] /\ UNCHANGED depth

-----------------------------------------------------------------------------
(* irq_mask(irq): cli()                                                    *)

\* current = port.read()
CliRead(i) ==
    /\ At("idle") /\ Top.held[i] < MaxHeld
    /\ Becomes([Top EXCEPT !.pc = "cli_write", !.irq = i, !.current = imr])
    /\ UNCHANGED <<imr, count, wanted>>

\* port.write(current | mask)
CliWrite ==
    /\ At("cli_write")
    /\ imr' = Top.current \cup {Top.irq}
    /\ Becomes([Top EXCEPT !.pc = "cli_load"])
    /\ UNCHANGED <<count, wanted>>

\* The first object of a line remembers in the top bit whether the line was masked.
InitialState(x) ==
    IF Low(count[x.irq]) = 0 THEN (IF x.irq \in x.current THEN Msb ELSE 0) ELSE count[x.irq]

CliLoad ==
    /\ At("cli_load")
    /\ Becomes([Top EXCEPT !.pc = "cli_store", !.c = InitialState(Top)])
    /\ UNCHANGED <<imr, count, wanted>>

\* m.count.store(c + 1)
CliStore ==
    /\ At("cli_store")
    /\ count' = [count EXCEPT ![Top.irq] = Top.c + 1]
    /\ Becomes(Holding([Top.held EXCEPT ![Top.irq] = @ + 1]))
    /\ UNCHANGED <<imr, wanted>>

-----------------------------------------------------------------------------
(* ~irq_mask(): sti()                                                      *)

\* Mutant: a destructor may run twice.
StiLoadTwice(i) ==
    /\ At("idle")
    /\ Becomes([Top EXCEPT !.pc = "sti_store", !.irq = i,
                           !.held = [Top.held EXCEPT ![i] = @ - 1],
                           !.c = IF count[i] = 0 THEN 2 * Msb - 1 ELSE count[i] - 1])
    /\ UNCHANGED <<imr, count, wanted>>

\* c = m.count.load() - 1, in 32 bits
StiLoad(i) ==
    /\ At("idle") /\ Top.held[i] > 0
    /\ Becomes([Top EXCEPT !.pc = "sti_store", !.irq = i,
                           !.held = [Top.held EXCEPT ![i] = @ - 1],
                           !.c = IF count[i] = 0 THEN 2 * Msb - 1 ELSE count[i] - 1])
    /\ UNCHANGED <<imr, count, wanted>>

\* Mutant: the top bit is ignored, the last object always opens the line.
LastObjectLow(c) == Low(c) = 0

\* The line is opened by the last object, if it was open before the first.
LastObject(c) == c = 0

StiStore ==
    /\ At("sti_store")
    /\ count' = [count EXCEPT ![Top.irq] = Top.c]
    /\ Becomes(IF LastObject(Top.c) THEN [Top EXCEPT !.pc = "sti_read"] ELSE Holding(Top.held))
    /\ UNCHANGED <<imr, wanted>>

\* port.write(port.read() & ~mask)
StiRead ==
    /\ At("sti_read")
    /\ Becomes([Top EXCEPT !.pc = "sti_write", !.current = imr])
    /\ UNCHANGED <<imr, count, wanted>>

StiWrite ==
    /\ At("sti_write")
    /\ imr' = Top.current \ {Top.irq}
    /\ Becomes(Holding(Top.held))
    /\ UNCHANGED <<count, wanted>>

-----------------------------------------------------------------------------

\* Mutant: the line is opened although objects are alive.
OpenAlways(i) == imr' = imr \ {i} /\ UNCHANGED count

\* While objects are alive only the remembered state changes.
Open(i) ==
    IF Low(count[i]) > 0
    THEN count' = [count EXCEPT ![i] = Low(@)] /\ UNCHANGED imr
    ELSE imr' = imr \ {i} /\ UNCHANGED count

\* unmask(irq), called by irq_controller::enable() with interrupts masked.
Unmask(i) ==
    /\ At("idle")
    /\ depth = 1 \/ "irq_unmask" \in Ops
    /\ Open(i)
    /\ wanted' = wanted \cup {i}
    /\ UNCHANGED <<ctx, depth>>

\* An interrupt on an open line, and its return; its objects have ended by then.
Interrupt(i) ==
    /\ depth <= MaxDepth /\ i \notin imr
    /\ depth' = depth + 1
    /\ UNCHANGED <<imr, count, ctx, wanted>>

Return ==
    /\ depth > 1 /\ Top = Idle
    /\ depth' = depth - 1
    /\ UNCHANGED <<imr, count, ctx, wanted>>

Next ==
    \/ \E i \in Lines : CliRead(i) \/ StiLoad(i) \/ Unmask(i) \/ Interrupt(i)
    \/ CliWrite \/ CliLoad \/ CliStore
    \/ StiStore \/ StiRead \/ StiWrite
    \/ Return

Spec == Init /\ [][Next]_vars

-----------------------------------------------------------------------------
(* Properties                                                              *)

\* Type invariant: registers, counters and the locals of the contexts.
TypeOK ==
    /\ imr \subseteq Lines /\ wanted \subseteq Lines
    /\ count \in [Lines -> Counters]
    /\ ctx \in [Depths -> Contexts] /\ depth \in Depths

Held(i) == \E d \in Depths : ctx[d].held[i] > 0
Busy(i) == \E d \in Depths : ctx[d].pc # "idle" /\ ctx[d].irq = i

\* The promise of the class ("Masks one specific IRQ"): a line stays masked as long as
\* one irq_mask object for it is alive, whatever other contexts do with the register and
\* the counter of the line, and whoever calls unmask().
MaskHolds == \A i \in Lines : Held(i) => i \in imr

\* When no object for a line is alive and none is under way, the line is as it was before
\* the first of them, or open if unmask() was called since: nested and overlapping objects
\* neither leave a line masked nor open one that was masked.
MaskRestores ==
    \A i \in Lines : ~Held(i) /\ ~Busy(i) => (i \in imr <=> i \notin wanted)
=============================================================================
