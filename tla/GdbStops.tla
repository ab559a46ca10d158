------------------------------ MODULE GdbStops ------------------------------
(***************************************************************************)
(* Breakpoints and single steps in the GDB stub (debug.cpp): the table of  *)
(* breakpoints, handle_exception() and its leave(), vCont, and trap_mask.  *)
(* The program is a ring of instructions 0 .. End, some of them under a    *)
(* trap mask; an interrupt handler shares the instruction IrqAt with it.   *)
(***************************************************************************)
EXTENDS Integers, Sequences

CONSTANTS
    LastAddr,       \* the last instruction; LastAddr + 1 is the interrupt handler's IRET
    MaskOn, MaskOff, \* instructions that make and destroy a trap_mask; an int 3 follows MaskOff
    IrqAt,
    MaxBreakpoints, \* max_breakpoints
    MaxStops,       \* bound
    StopsOps        \* "quiet": breakpoints where a trap is not reported; "irq": interrupts
                    \* while a breakpoint is disabled; "twice": GDB inserts a breakpoint twice

\* The two instructions and the int 3 are in the ring, in this order, and no part of the handler.
ASSUME StopsAssumption ==
    /\ LastAddr \in Nat /\ MaskOn \in Nat /\ MaskOff \in Nat /\ MaskOn < MaskOff /\ MaskOff < LastAddr
    /\ IrqAt \in (0 .. LastAddr) \ (MaskOn .. MaskOff + 1)

Addrs == 0 .. LastAddr
Iret == LastAddr + 1
Original == [a \in 0 .. Iret |-> IF a = MaskOff + 1 THEN "int3" ELSE "op"]

VARIABLES
    mem, entries,   \* the code; the breakpoint_map: [address, opcode]
    at, trap,       \* eip and the trap flag
    pending,        \* the exception that the last instruction caused, or Nothing
    saved,          \* what the interrupt handler returns to: <<[at, trap, excused]>>, or <<>>
    stopped, ti,    \* thread_info: [signal, stepping, range, mask, report]
    current,        \* current_signal
    excused,        \* ghost: the address where GDB or a mask let the program go on, or -1
    missed,         \* ghost: a breakpoint was run past
    stops

gsVars == <<mem, entries, at, trap, pending, saved, stopped, ti, current, excused, missed, stops>>

Nothing == "none"

StopsInit ==
    /\ mem = Original /\ entries = <<>> /\ at = 0 /\ trap = FALSE /\ pending = Nothing /\ saved = <<>>
    /\ stopped = TRUE /\ current = Nothing /\ excused = -1 /\ missed = FALSE /\ stops = 0
    /\ ti = [signal |-> "breakpoint", stepping |-> FALSE, range |-> {}, mask |-> 0, report |-> FALSE]

-----------------------------------------------------------------------------
(* breakpoint_map                                                          *)

Broken == {entries[i].address : i \in DOMAIN entries}
EntryOf(a) ==
    CHOOSE i \in DOMAIN entries :
        entries[i].address = a /\ \A j \in DOMAIN entries : entries[j].address = a => j <= i

InsertBreakpoint(a) ==
    /\ Len(entries) < MaxBreakpoints
    /\ entries' = Append(entries, [address |-> a, opcode |-> mem[a]])

\* The last entry takes the place of the erased one.
EraseEntry(i) ==
    entries' = SubSeq([entries EXCEPT ![i] = entries[Len(entries)]], 1, Len(entries) - 1)

\* Mutant: the opcode is not put back.
EraseOnly(a) == a \in Broken /\ EraseEntry(EntryOf(a)) /\ UNCHANGED mem

EraseBreakpoint(a) ==
    /\ a \in Broken /\ EraseEntry(EntryOf(a))
    /\ mem' = [mem EXCEPT ![a] = entries[EntryOf(a)].opcode]

ClearBreakpoints ==
    /\ entries' = <<>>
    /\ mem' = [a \in DOMAIN mem |-> IF a \in Broken THEN entries[EntryOf(a)].opcode ELSE mem[a]]

EnableAllExcept(x) ==
    [a \in DOMAIN mem |-> IF a \notin Broken THEN mem[a]
                          ELSE IF a = x THEN entries[EntryOf(a)].opcode ELSE "int3"]

-----------------------------------------------------------------------------
(* Exceptions                                                              *)

\* Mutant: the trap that would enable the breakpoint again is not set.
TrapForgotten(a, flag) == flag

TrapAfter(a, flag) == flag \/ a \in Broken

\* The end of MaskOff jumps over the int 3 unless there is something to report.
Following(a, reports) == (IF a = MaskOff /\ ~reports THEN a + 2 ELSE a + 1) % Iret

\* leave(): the breakpoint at a is disabled, and a hardcoded one skipped.
Leave(a) ==
    /\ mem' = EnableAllExcept(a)
    /\ at' = (IF a \notin Broken /\ mem'[a] = "int3" THEN Following(a, FALSE) ELSE a)

Benign == {"trap", "breakpoint", "packet", Nothing}

\* What the exception means: a trap that no step asked for, or within the stepped range, is quiet.
SignalOf(exc) ==
    LET signal == IF current = "packet" /\ ti.signal # Nothing THEN ti.signal
                  ELSE IF current # Nothing THEN current ELSE exc IN
    IF signal = "trap" /\ (~ti.stepping \/ at \in ti.range) THEN Nothing ELSE signal

\* handle_exception(): under a mask the trap is reported later; quiet ones go on; others stop.
HandleException ==
    LET signal == SignalOf(pending) IN
    /\ pending # Nothing /\ pending' = Nothing /\ current' = Nothing
    /\ IF ti.mask > 0 /\ signal \in Benign
       THEN /\ ti' = [ti EXCEPT !.signal = signal, !.report = TRUE]
            /\ Leave(at) /\ trap' = FALSE /\ excused' = at
            /\ UNCHANGED <<stopped, stops>>
       ELSE IF signal = Nothing
       THEN /\ ti' = [ti EXCEPT !.signal = Nothing, !.mask = 0]
            /\ Leave(at) /\ trap' = TrapAfter(at, ti.stepping)
            /\ UNCHANGED <<stopped, stops, excused>>
       ELSE /\ stops < MaxStops /\ stops' = stops + 1 /\ stopped' = TRUE
            /\ ti' = [ti EXCEPT !.signal = signal, !.mask = 0, !.report = FALSE]
            /\ UNCHANGED <<mem, at, trap, excused>>
    /\ UNCHANGED <<entries, saved, missed>>

-----------------------------------------------------------------------------
(* GDB, while the program is stopped                                       *)

\* Where the instruction after, or a quiet trap, does not hide the next breakpoint.
Reported(as) == "quiet" \in StopsOps \/ \A a \in as, r \in BOOLEAN : Following(a, r) \notin as

Inserts(a) ==
    /\ stopped /\ InsertBreakpoint(a) /\ ("twice" \in StopsOps \/ a \notin Broken)
    /\ Reported(Broken \cup {a})
    /\ UNCHANGED <<mem, at, trap, pending, saved, stopped, ti, current, excused, missed, stops>>

Removes(a) ==
    /\ stopped /\ EraseBreakpoint(a)
    /\ UNCHANGED <<at, trap, pending, saved, stopped, ti, current, excused, missed, stops>>

\* qSupported: a new GDB has connected.
Connects ==
    /\ stopped /\ entries # <<>> /\ ClearBreakpoints
    /\ UNCHANGED <<at, trap, pending, saved, stopped, ti, current, excused, missed, stops>>

\* vCont;c, s or r.
Resume(steps, range) ==
    /\ stopped /\ stopped' = FALSE
    /\ "quiet" \in StopsOps \/ (range \cap Broken = {} /\ (steps \/ \A i \in DOMAIN saved : ~saved[i].trap))
    /\ ti' = [ti EXCEPT !.signal = Nothing, !.stepping = steps, !.range = range]
    /\ Leave(at) /\ trap' = TrapAfter(at, steps) /\ excused' = at
    /\ UNCHANGED <<entries, pending, saved, current, missed, stops>>

-----------------------------------------------------------------------------
(* The program                                                             *)

running == ~stopped /\ pending = Nothing

\* An instruction of the program or of the handler, with the trap mask's constructor and
\* destructor.
Execute ==
    /\ running /\ at # Iret
    /\ IF mem[at] = "int3"
       THEN pending' = "breakpoint" /\ UNCHANGED <<at, ti, current, excused, missed>>
       ELSE LET masks == IF at = MaskOn THEN ti.mask + 1 ELSE IF at = MaskOff /\ ti.mask > 0 THEN ti.mask - 1 ELSE ti.mask
                reports == at = MaskOff /\ masks = 0 /\ ti.report IN
            /\ ti' = [ti EXCEPT !.mask = masks]
            /\ current' = (IF reports THEN ti.signal ELSE current)
            /\ at' = (IF saved # <<>> THEN Iret ELSE Following(at, reports))
            /\ pending' = (IF trap THEN "trap" ELSE Nothing)
            /\ missed' = (missed \/ (at \in Broken /\ excused # at)) /\ excused' = -1
    /\ UNCHANGED <<mem, entries, trap, saved, stopped, stops>>

\* An interrupt; the processor clears the trap flag.
Interrupt ==
    /\ running /\ saved = <<>> /\ saved' = <<[at |-> at, trap |-> trap, excused |-> excused]>>
    /\ "irq" \in StopsOps \/ \A a \in Broken : mem[a] = "int3"
    /\ at' = IrqAt /\ trap' = FALSE /\ excused' = -1
    /\ UNCHANGED <<mem, entries, pending, stopped, ti, current, missed, stops>>

Return ==
    /\ running /\ at = Iret /\ saved' = <<>>
    /\ at' = saved[1].at /\ trap' = saved[1].trap /\ excused' = saved[1].excused
    /\ pending' = (IF trap THEN "trap" ELSE Nothing)
    /\ UNCHANGED <<mem, entries, stopped, ti, current, missed, stops>>

\* GDB's ^C: the signal of the interrupt finds the program between two instructions.
Break ==
    /\ running /\ saved = <<>> /\ current = Nothing /\ current' = "packet" /\ pending' = "trap"
    /\ UNCHANGED <<mem, entries, at, trap, saved, stopped, ti, excused, missed, stops>>

StopsNext ==
    \/ HandleException \/ Execute \/ Interrupt \/ Return \/ Break \/ Connects
    \/ \E a \in Addrs : Inserts(a) \/ Removes(a)
    \/ \E steps \in BOOLEAN, range \in {{}, {2, 3}} : (range # {} => steps) /\ Resume(steps, range)

StopsSpec == StopsInit /\ [][StopsNext]_gsVars

-----------------------------------------------------------------------------
(* Properties                                                              *)

\* Breakpoints leave the code as it was: where none is set, and in what the table remembers.
CodeKept ==
    /\ \A a \in DOMAIN mem \ Broken : mem[a] = Original[a]
    /\ \A i \in DOMAIN entries : entries[i].opcode = Original[entries[i].address]

\* The program stops at every breakpoint it comes to: it executes an instruction that has one only
\* where GDB let it go on, or where a trap mask has put the report off; and breakpoints leave the
\* code as it was.
BreakpointsHit == ~missed /\ CodeKept
=============================================================================
