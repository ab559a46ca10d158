-------------------------- MODULE MCIrqController --------------------------
(* Constants for the runs of IrqController: which devices share which lines. *)
EXTENDS IrqController

CONSTANTS h1, h2, h3

Three(x, y, z, h) == CASE h = h1 -> x [] h = h2 -> y [] h = h3 -> z

\* An old Sound Blaster (no status flag) beside another driver on line 3, and on line 5 a
\* handler that always chains.
FallbackFlags ==
    [h \in Handlers |-> Three({"no_auto_eoi"}, {"no_auto_eoi", "fallback_handler"},
                              {"always_chain"}, h)]
FallbackLine == [h \in Handlers |-> Three(3, 3, 5, h)]

\* Everyone on line 3.
OneLine == [h \in Handlers |-> 3]
NoReentryFlags == [h \in Handlers |-> {"no_reentry"}]
AutoFlags == [h \in Handlers |-> {}]
OldBlasterFlags == [h \in Handlers |-> {"no_auto_eoi", "fallback_handler"}]
=============================================================================
