-------------------------------- MODULE Vbe --------------------------------
(***************************************************************************)
(* The VESA BIOS interface (vbe.cpp) and the VGA palette under it          *)
(* (vga.cpp): how vbe_interface() finds out what the BIOS can do, and what *)
(* the object remembers of a video mode that the hardware keeps too: the   *)
(* width of the palette, the length of a scanline, the display start.      *)
(***************************************************************************)
EXTENDS Optional

CONSTANTS
    ModeNums, VgaNums,  \* mode numbers in the BIOS's list, and those below 0x80
    Depths,             \* bits_per_pixel; an address is wrong where it is not a multiple of 8
    Xs, Ys,
    VbOps               \* "pmfail": setting up VBE 3 protected mode may throw; "block": the BIOS keeps
                        \* its mode list in the information block; "scanline": a scanline length is
                        \* set where positions are computed; "unchecked": a protected-mode call may fail

ASSUME VbAssumption ==
    /\ ModeNums \cup VgaNums \subseteq Nat /\ Depths \subseteq Nat /\ Xs \cup Ys \subseteq Nat

VARIABLES
    vbBios,         \* the BIOS: [version, pm2, pm3, good], good: the modes 4F01 knows, with their depth
    ready, listed,  \* instance_ptr; mode_list, or what the buffer held instead
    pm2, pm3,       \* vbe2_pm, vbe3_pm
    mode, dac,      \* mode, dac_bits
    hw,             \* the hardware: [mode, dac, pitch, start], and the start that awaits a retrace
    entries,        \* the width for which the palette was converted, or None
    vbShown         \* ghost: the position that the caller has put on display, or None

vbVars == <<vbBios, ready, listed, pm2, pm3, mode, dac, hw, entries, vbShown>>

Bytes(depth) == (depth + 7) \div 8
Pitch(depth) == 100 * Bytes(depth)      \* what the mode information says of a scanline

NoModes == [n \in {} |-> 0]

BiosInit ==
    /\ vbBios \in [version : 1 .. 3, pm2 : BOOLEAN, pm3 : BOOLEAN, triple : BOOLEAN,
                 good : UNION {[S -> Depths] : S \in SUBSET (ModeNums \cup VgaNums)}]
    /\ (vbBios.version = 1 => ~vbBios.pm2) /\ (vbBios.version < 3 => ~vbBios.pm3 /\ ~vbBios.triple)
    /\ hw = [mode |-> None, dac |-> 6, pitch |-> 0, start |-> 0, next |-> None]

VbInit ==
    /\ BiosInit /\ ready = FALSE /\ listed = NoModes /\ pm2 = FALSE /\ pm3 = FALSE
    /\ mode = None /\ dac = 6 /\ entries = None /\ vbShown = None

-----------------------------------------------------------------------------
(* vbe_interface()                                                         *)

\* Mutant: the first mode without information ends the list.
ListFirst(good) == [n \in {m \in DOMAIN good : \A k \in ModeNums \cup VgaNums : k < m => k \in DOMAIN good} |-> good[n]]

\* get_mode() for every listed mode, and for every VGA mode.
ListModes(good) == good

\* The list is read after get_mode() has written to the block.
Overwritten(good) == [n \in VgaNums \cap DOMAIN good |-> good[n]]

\* The information block, the VBE 2 interface, the VBE 3 interface, and the modes.
Interface ==
    /\ ~ready /\ ready' = TRUE
    /\ pm2' = vbBios.pm2
    /\ \/ /\ pm3' = vbBios.pm3
          /\ listed' = ListModes(vbBios.good) \/ ("block" \in VbOps /\ listed' = Overwritten(vbBios.good))
       \/ /\ "pmfail" \in VbOps /\ vbBios.pm3 /\ pm3' = FALSE /\ UNCHANGED listed   \* it rethrows
    /\ UNCHANGED <<vbBios, mode, dac, hw, entries, vbShown>>

-----------------------------------------------------------------------------
(* Modes                                                                   *)

\* Mutant: the width of the palette stays.
AfterModeOnly(m) == mode' = m /\ UNCHANGED dac

AfterMode(m) == mode' = m /\ dac' = 6

\* set_mode(), of vbe and of vbe3 with or without its own timings; a failed call throws.
SetMode(m) ==
    /\ ready /\ m \in DOMAIN listed /\ m \in DOMAIN vbBios.good
    /\ AfterMode(m)
    /\ hw' = [mode |-> m, dac |-> 6, pitch |-> Pitch(vbBios.good[m]), start |-> 0, next |-> None]
    /\ entries' = None /\ vbShown' = None
    /\ UNCHANGED <<vbBios, ready, listed, pm2, pm3>>

-----------------------------------------------------------------------------
(* The display start                                                       *)

\* Where the hardware has to begin, and what vbe2 and schedule_display_start() compute.
Position(x, y) == x * Bytes(listed[mode]) + y * hw.pitch

\* Mutant: x is counted in bytes.
ComputedShort(x, y) == x + y * Pitch(listed[mode])

Computed(x, y) == x * (listed[mode] \div 8) + y * Pitch(listed[mode])

ByAddress == pm2 /\ ~pm3 /\ vbBios.version >= 2

\* scanline_length(width)
SetScanline ==
    /\ mode # None /\ ("scanline" \in VbOps \/ ~(ByAddress \/ vbBios.triple))
    /\ hw' = [hw EXCEPT !.pitch = 2 * Pitch(listed[mode])] /\ vbShown' = None
    /\ UNCHANGED <<vbBios, ready, listed, pm2, pm3, mode, dac, entries>>

\* display_start() of vbe, of vbe2 with an address, of vbe3 in protected mode.
DisplayStart(x, y) ==
    /\ mode # None /\ vbShown' = <<x, y>>
    /\ \/ hw' = [hw EXCEPT !.start = IF ByAddress THEN Computed(x, y) ELSE Position(x, y), !.next = None]
       \/ ByAddress /\ "unchecked" \in VbOps /\ UNCHANGED hw      \* ax is not looked at
    /\ UNCHANGED <<vbBios, ready, listed, pm2, pm3, mode, dac, entries>>

\* vbe3::schedule_display_start() with triple buffering.
Schedule(x, y) ==
    /\ mode # None /\ vbBios.triple /\ hw' = [hw EXCEPT !.next = Computed(x, y)] /\ vbShown' = <<x, y>>
    /\ UNCHANGED <<vbBios, ready, listed, pm2, pm3, mode, dac, entries>>

\* The retrace.
Retrace ==
    /\ hw.next # None /\ hw' = [hw EXCEPT !.start = hw.next, !.next = None]
    /\ UNCHANGED <<vbBios, ready, listed, pm2, pm3, mode, dac, entries, vbShown>>

\* scheduled_display_start_status()
Shows == ~vbBios.triple \/ hw.next = None

-----------------------------------------------------------------------------
(* The palette                                                             *)

\* palette_format(bits): the BIOS answers with the width it has set.
SetFormat(bits) ==
    /\ mode # None /\ hw' = [hw EXCEPT !.dac = bits] /\ dac' = bits
    /\ entries' = None
    /\ UNCHANGED <<vbBios, ready, listed, pm2, pm3, mode, vbShown>>

\* palette(pal), through the ports, the BIOS or either protected-mode interface.
SetPalette ==
    /\ ready /\ entries' = (IF dac < 8 THEN 6 ELSE 8)
    /\ UNCHANGED <<vbBios, ready, listed, pm2, pm3, mode, dac, hw, vbShown>>

VbNext ==
    \/ Interface \/ SetScanline \/ Retrace \/ SetPalette
    \/ \E m \in ModeNums \cup VgaNums : SetMode(m)
    \/ \E x \in Xs, y \in Ys : DisplayStart(x, y) \/ Schedule(x, y)
    \/ \E bits \in {6, 8} : SetFormat(bits)

VbSpec == VbInit /\ [][VbNext]_vbVars

-----------------------------------------------------------------------------
(* Properties                                                              *)

\* An interface that the caller has lists the BIOS's modes, and what it remembers is what the
\* hardware does: the palette has the hardware's width, and the display starts where the caller has
\* put it, once the schedule says so.
ModeFollowed ==
    /\ ready => listed = vbBios.good
    /\ entries # None => entries = hw.dac
    /\ vbShown # None /\ Shows => hw.start = Position(vbShown[1], vbShown[2])
=============================================================================
