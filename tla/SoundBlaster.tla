---------------------------- MODULE SoundBlaster ----------------------------
(***************************************************************************)
(* The Sound Blaster driver (soundblaster.cpp): a buffer of two pages that *)
(* DMA goes through over and over, an interrupt at the end of each page,   *)
(* and the program (or its callback) filling the other page.  The card     *)
(* stops at the end of a page (auto modes), when no further single         *)
(* transfer is commanded, or at once (high speed, by a reset).             *)
(***************************************************************************)
EXTENDS Integers

CONSTANTS
    Modes,      \* sb_state values to play in
    MaxStarts,  \* bound: calls of start()
    MaxPages,   \* bound: pages played
    Ops         \* "late": a page ends before the interrupt of the one before was served
                \* "restart": start() while the card plays its last page

Single == "dma8_single"

VARIABLES
    state,      \* the driver's sb_state
    handler,    \* what the interrupt handler was made for: a state, or "none" while disabled
    high, pending, \* buffer_page_high, buffer_pending
    card,       \* "off", "on", or "last": it stops at the end of the page
    page,       \* the page that DMA is at, TRUE for the higher
    irq,        \* the card's interrupt pends
    given,      \* ghost: the page last given to the program, if any
    starts, pages

sbVars == <<state, handler, high, pending, card, page, irq, given, starts, pages>>

Init ==
    /\ state = "idle" /\ handler = "none" /\ high = TRUE /\ pending = FALSE
    /\ card = "off" /\ page = FALSE /\ irq = FALSE /\ given = {}
    /\ starts = 0 /\ pages = 0

\* start(): the program fills the higher page (not when recording), DMA begins at the lower one.
Start(mode, recording) ==
    /\ state \in {"idle", "stopping"} /\ starts < MaxStarts /\ starts' = starts + 1
    /\ (card = "off" /\ ~irq) \/ "restart" \in Ops
    /\ high' = TRUE /\ pending' = FALSE
    /\ given' = IF recording THEN {} ELSE {TRUE}
    /\ page' = FALSE /\ card' = (IF mode = Single THEN "last" ELSE "on")
    /\ handler' = mode /\ state' = mode /\ UNCHANGED <<irq, pages>>

\* stop(), interrupts masked
Stop ==
    /\ state \notin {"idle", "stopping"}
    /\ IF state = Single
       THEN state' = "stopping" /\ handler' = "stopping" /\ UNCHANGED <<card, irq>>
       ELSE /\ state' = "idle" /\ handler' = "none"
            /\ card' = (IF state = "dma8_highspeed" THEN "off" ELSE "last")
            /\ irq' = (irq /\ card' = "last")
    /\ UNCHANGED <<high, pending, page, given, starts, pages>>

\* The card reaches the end of a page.
PageEnd ==
    /\ card # "off" /\ pages < MaxPages /\ (irq => "late" \in Ops)
    /\ pages' = pages + 1 /\ page' = ~page /\ irq' = TRUE
    /\ card' = IF card = "last" THEN "off" ELSE card
    /\ UNCHANGED <<state, handler, high, pending, given, starts>>

\* Mutant: the callback gets the buffer before the pages are changed over.
ChangeOverLate == given' = {high} /\ high' = ~high

\* The page that is free now, and buffer() in the callback
ChangeOver == high' = ~high /\ given' = {~high}

\* sb_irq(), of a driver that plays; a single transfer is followed by the next.  Without a
\* callback the page waits for buffer().
Irq(callback) ==
    /\ irq /\ handler \notin {"none", "stopping"} /\ irq' = FALSE
    /\ card' = IF handler = Single THEN "last" ELSE card
    /\ IF callback THEN ChangeOver /\ pending' = FALSE
       ELSE high' = ~high /\ pending' = TRUE /\ UNCHANGED given
    /\ UNCHANGED <<state, handler, page, starts, pages>>

\* Mutant: the state is left as it was.
StopLater == UNCHANGED state

\* sb_irq() at the end of the last single transfer
Idle == state' = "idle"

IrqStopping ==
    /\ irq /\ handler = "stopping" /\ irq' = FALSE /\ handler' = "none" /\ Idle
    /\ UNCHANGED <<high, pending, card, page, given, starts, pages>>

\* No handler: the interrupt goes unanswered.
IrqUnhandled ==
    /\ irq /\ handler = "none" /\ irq' = FALSE
    /\ UNCHANGED <<state, handler, high, pending, card, page, given, starts, pages>>

\* buffer(), polled
Poll ==
    /\ pending /\ state \notin {"idle", "stopping"} /\ ~irq
    /\ pending' = FALSE /\ given' = {high}
    /\ UNCHANGED <<state, handler, high, card, page, irq, starts, pages>>

Next ==
    \/ \E mode \in Modes, recording \in BOOLEAN : Start(mode, recording)
    \/ Stop \/ PageEnd \/ (\E callback \in BOOLEAN : Irq(callback)) \/ IrqStopping \/ IrqUnhandled
    \/ Poll

\* The card goes on, and its interrupts are served.
Fairness == WF_sbVars(PageEnd) /\ WF_sbVars(IrqStopping) /\ WF_sbVars(IrqUnhandled) /\ WF_sbVars(\E c \in BOOLEAN : Irq(c))

Spec == Init /\ [][Next]_sbVars /\ Fairness

-----------------------------------------------------------------------------
(* Properties                                                              *)

\* However playback is started, stopped and started again, the page the program was last given is
\* not the one DMA is at, until that interrupt comes which takes it back.
PageFree == ~irq /\ given # {} /\ state \notin {"idle", "stopping"} /\ ~pending => given # {page}

\* The destructor's wait for the end of the last transfer (soundblaster.cpp:286) ends.
StopEnds == state = "stopping" ~> (state # "stopping" \/ pages = MaxPages)
=============================================================================
