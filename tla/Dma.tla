-------------------------------- MODULE Dma --------------------------------
(***************************************************************************)
(* ISA DMA (io/dma.h): dma_buffer, which looks for DOS memory that does    *)
(* not cross a 64 KB boundary, and dma_channel_impl, which programs a      *)
(* channel of the two controllers.                                         *)
(***************************************************************************)
EXTENDS Optional, FiniteSets

CONSTANTS
    Para, Boundary, \* bytes in a paragraph, and paragraphs in 64 KB, for 16 and 0x1000
    Arena,          \* paragraphs of DOS memory, 0 .. Arena - 1
    Sizes,          \* sizes of the buffers asked for, in bytes
    MaxBuffers,     \* bound
    Highs,          \* the 16-bit channels used
    Pages           \* the 64 KB pages that 16-bit transfers use

ASSUME DmAssumption ==
    /\ Para \in Nat \ {0} /\ Para % 2 = 0 /\ Boundary \in Nat \ {0} /\ Arena \in Nat
    /\ Sizes \subseteq Nat \ {0}

VARIABLES
    asking,         \* the size that allocate() looks for, or None
    dmHeld,         \* the blocks of its outer calls: [seg, len] in paragraphs
    buffers,        \* live buffers: [seg, n], in paragraphs and bytes
    regs            \* the controller: what was written last, and for which transfer

dmVars == <<asking, dmHeld, buffers, regs>>

K64 == Boundary * Para
ParasOf(n) == (n + Para - 1) \div Para

DmInit == asking = None /\ dmHeld = {} /\ buffers = {} /\ regs = None

-----------------------------------------------------------------------------
(* dma_buffer::allocate()                                                  *)

\* Paragraphs that a block takes, with the arena header before it.
Occupied(seg, len) == seg - 1 .. seg + len - 1

Used == UNION ({Occupied(b.seg, b.len) : b \in dmHeld}
               \cup {Occupied(b.seg, ParasOf(b.n)) : b \in buffers})

Fits(seg, len) == seg >= 1 /\ seg + len <= Arena /\ Occupied(seg, len) \cap Used = {}

\* DOS takes the first fit.
FirstFit(len) ==
    LET fits == {s \in 1 .. Arena : Fits(s, len)}
    IN  IF fits = {} THEN None ELSE CHOOSE s \in fits : \A r \in fits : s <= r

\* Mutant: the space takes in the boundary's paragraph.
SpaceWide(seg) == (((seg + Boundary) \div Boundary) * Boundary - seg + 1) * Para

Space(seg) == (((seg + Boundary) \div Boundary) * Boundary - seg) * Para

Ask(n) ==
    /\ asking = None /\ Cardinality(buffers) < MaxBuffers
    /\ n <= K64 /\ asking' = n          \* more is a length_error
    /\ UNCHANGED <<dmHeld, buffers, regs>>

\* A block that crosses is cut before the boundary, less its neighbour's header, and kept while the
\* next is looked for.
Try ==
    /\ asking # None
    /\ LET seg == FirstFit(ParasOf(asking)) IN
       IF seg = None THEN asking' = None /\ dmHeld' = {} /\ UNCHANGED buffers    \* bad_alloc
       ELSE IF Space(seg) < asking
       THEN /\ dmHeld' = dmHeld \cup {[seg |-> seg, len |-> (Space(seg) - Para) \div Para]}
            /\ UNCHANGED <<asking, buffers>>
       ELSE /\ buffers' = buffers \cup {[seg |-> seg, n |-> asking]}
            /\ asking' = None /\ dmHeld' = {}
    /\ UNCHANGED regs

FreeBuffer(b) ==
    /\ asking = None /\ buffers' = buffers \ {b} /\ UNCHANGED <<asking, dmHeld, regs>>

-----------------------------------------------------------------------------
(* dma_channel_impl                                                        *)

\* The constructor's ch, for channel c of 0 .. 3 or 5 .. 7
Ch(high, c) == IF high THEN c \div 4 ELSE c

\* Mutant: the count register gets the count.
ProgrammedWhole(high, c, addr, count) ==
    [high |-> high, ch |-> Ch(high, c), page |-> addr \div K64,
     address |-> IF high THEN (addr % K64) \div 2 ELSE addr % K64,
     count |-> count % K64]

\* transfer(): page, address and count; the count register holds one less, in 16 bits.
Programmed(high, c, addr, count) ==
    [high |-> high, ch |-> Ch(high, c), page |-> addr \div K64,
     address |-> IF high THEN (addr % K64) \div 2 ELSE addr % K64,
     count |-> (count - 1) % K64]

Transfer8(c, b) ==
    /\ regs' = [w |-> Programmed(FALSE, c, b.seg * Para, b.n), c |-> c, from |-> b.seg * Para, count |-> b.n]
    /\ UNCHANGED <<asking, dmHeld, buffers>>

\* A 16-bit transfer counts words.
Transfer16(c, b) ==
    /\ (b.seg \div Boundary) \in Pages /\ b.n % 2 = 0
    /\ regs' = [w |-> Programmed(TRUE, c, b.seg * Para, b.n \div 2), c |-> c, from |-> b.seg * Para, count |-> b.n]
    /\ UNCHANGED <<asking, dmHeld, buffers>>

DmNext ==
    \/ Try
    \/ \E n \in Sizes : Ask(n)
    \/ \E b \in buffers :
          FreeBuffer(b) \/ (\E c \in 0 .. 3 : Transfer8(c, b)) \/ (\E c \in Highs : Transfer16(c, b))

DmSpec == DmInit /\ [][DmNext]_dmVars

-----------------------------------------------------------------------------
(* Properties                                                              *)

\* The controller's side of the registers: the second one has its channels 4 .. 7 at 0 .. 3, counts
\* words, and takes the top bit of a word address from its address register, not from the page.
ActualChannel(w) == IF w.high THEN 4 + w.ch ELSE w.ch
ActualAddress(w) ==
    IF w.high THEN (w.page \div 2) * 2 * K64 + 2 * w.address ELSE w.page * K64 + w.address
ActualBytes(w) == (w.count + 1) * (IF w.high THEN 2 ELSE 1)

\* dma.h: a buffer lies within one 64 KB page and shares no memory with another, the blocks that
\* the search has cut are given back, and the controller transfers the buffer that it was told to,
\* on the channel that it was told to.
BuffersWhole ==
    /\ \A b \in buffers : (b.seg * Para) \div K64 = (b.seg * Para + b.n - 1) \div K64
    /\ \A b, c \in buffers :
          b # c => Occupied(b.seg, ParasOf(b.n)) \cap Occupied(c.seg, ParasOf(c.n)) = {}
    /\ asking = None => dmHeld = {}
    /\ regs # None => /\ ActualChannel(regs.w) = regs.c
                      /\ ActualAddress(regs.w) = regs.from
                      /\ ActualBytes(regs.w) = regs.count
=============================================================================
