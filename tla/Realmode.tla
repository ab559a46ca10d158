------------------------------ MODULE Realmode ------------------------------
(***************************************************************************)
(* Real-mode callbacks and the handlers of one real-mode interrupt         *)
(* (realmode.cpp): the first realmode_interrupt_handler allocates a        *)
(* callback and puts it in the interrupt vector, the callback asks the     *)
(* handlers newest first, and chains to the vector's former owner when all *)
(* decline.                                                                *)
(***************************************************************************)
EXTENDS Integers, Sequences

CONSTANTS
    RmHandlers, \* realmode_interrupt_handler objects
    IrqHandlers,\* those made with irq_context
    NoHandler,
    RegPool,    \* reg_pool
    MaxMade, MaxDepth, \* bounds
    RmOps       \* "newer": a handler is destroyed before an older one
                \* "nest": the host enters the callback again on its own stack

ASSUME RmAssumption == NoHandler \notin RmHandlers

VARIABLES
    vector,     \* the interrupt vector: "bios" or "callback"
    last,       \* rm_int_callback's last handler
    prev, next, \* a handler's links
    born,       \* ghost: when a live handler was made; 0 is one that is not live
    isIrq,      \* the callback's is_irq
    calls,      \* activations, innermost last: register set, next handler to ask; ghosts: those
                \* asked, and whether its stack was overwritten
    taken,      \* reg_ptr: register sets in use
    halted, made

rmVars == <<vector, last, prev, next, born, isIrq, calls, taken, halted, made>>

RmInit ==
    /\ vector = "bios" /\ last = NoHandler /\ isIrq = FALSE
    /\ prev = [h \in RmHandlers |-> NoHandler] /\ next = [h \in RmHandlers |-> NoHandler]
    /\ born = [h \in RmHandlers |-> 0]
    /\ calls = <<>> /\ taken = 0 /\ halted = FALSE /\ made = 0

Live == {h \in RmHandlers : born[h] > 0}

\* realmode_interrupt_handler::init(), with raw_realmode_interrupt_handler's constructor the
\* first time.  Bound: not while the callback runs.
AddHandler(h) ==
    /\ calls = <<>> /\ h \notin Live /\ made < MaxMade /\ made' = made + 1
    /\ prev' = [prev EXCEPT ![h] = last]
    /\ next' = [n \in RmHandlers |-> IF n = h THEN NoHandler ELSE IF n = last THEN h ELSE next[n]]
    /\ last' = h /\ born' = [born EXCEPT ![h] = made'] /\ vector' = "callback"
    /\ isIrq' = ((isIrq /\ last # NoHandler) \/ h \in IrqHandlers)
    /\ UNCHANGED <<calls, taken, halted>>

\* Mutant: the newest remaining handler decides alone.
IsIrqOfLast(l, links) == l \in IrqHandlers

\* What is reached from l along the links.
Reached(l, links) ==
    {h \in RmHandlers : \A S \in SUBSET RmHandlers :
        l \in S /\ (\A g \in S : links[g] \in S \cup {NoHandler}) => h \in S}

\* The flag is that of all handlers from l on.
IsIrq(l, links) == l # NoHandler /\ Reached(l, links) \cap IrqHandlers # {}

\* ~realmode_interrupt_handler(): the last one gives the vector back.  The older neighbour's link
\* to this handler stays.
RemoveHandler(h) ==
    /\ calls = <<>> /\ h \in Live /\ (prev[h] = NoHandler \/ "newer" \in RmOps)
    /\ born' = [born EXCEPT ![h] = 0]
    /\ IF next[h] # NoHandler
       THEN prev' = [prev EXCEPT ![next[h]] = prev[h]] /\ UNCHANGED <<last, vector>>
       ELSE /\ last' = prev[h] /\ vector' = (IF prev[h] = NoHandler THEN "bios" ELSE vector)
            /\ UNCHANGED prev
    /\ isIrq' = IsIrq(last', prev')
    /\ UNCHANGED <<next, calls, taken, halted, made>>

\* callback_data::entry_point() and call(): the next register set, and the callback's stack unless
\* it came in on the program's stack, as it may while it runs.
EnterCallback(keep) ==
    /\ ~halted /\ vector = "callback" /\ Len(calls) < MaxDepth
    /\ IF calls = <<>> THEN ~keep ELSE keep \/ "nest" \in RmOps
    /\ taken' = taken + 1
    /\ IF taken' > RegPool
       THEN halted' = TRUE /\ UNCHANGED calls
       ELSE /\ calls' = Append([i \in DOMAIN calls |-> [calls[i] EXCEPT !.lost = @ \/ ~keep]],
                               [reg |-> taken, at |-> last, asked |-> <<>>, lost |-> FALSE])
            /\ UNCHANGED halted
    /\ UNCHANGED <<vector, last, prev, next, born, isIrq, made>>

innermost == calls[Len(calls)]

\* rm_int_callback::handle() asks a handler, which declines.
Declined ==
    /\ ~halted /\ calls # <<>> /\ innermost.at # NoHandler
    /\ calls' = [calls EXCEPT ![Len(calls)] =
                    [innermost EXCEPT !.at = prev[@], !.asked = Append(@, innermost.at)]]
    /\ UNCHANGED <<vector, last, prev, next, born, isIrq, taken, halted, made>>

\* Mutant: a call that chains keeps its register set.
LeaveCallbackLeaks ==
    /\ calls' = SubSeq(calls, 1, Len(calls) - 1)
    /\ taken' = (IF innermost.at = NoHandler THEN taken ELSE taken - 1)

\* A handler takes the interrupt or throws, or all declined and the former owner is jumped to.
LeaveCallback == calls' = SubSeq(calls, 1, Len(calls) - 1) /\ taken' = taken - 1

Done ==
    /\ ~halted /\ calls # <<>> /\ LeaveCallback
    /\ UNCHANGED <<vector, last, prev, next, born, isIrq, halted, made>>

RmNext ==
    \/ \E h \in RmHandlers : AddHandler(h) \/ RemoveHandler(h)
    \/ (\E keep \in BOOLEAN : EnterCallback(keep)) \/ Declined \/ Done

RmSpec == RmInit /\ [][RmNext]_rmVars

-----------------------------------------------------------------------------
(* Properties                                                              *)

\* "A new realmode_registers struct must be used for each re-entry into the callback"
\* (realmode.h:120): calls that nest share no register set, none is lost when they end, and the
\* inner call leaves the outer one's stack alone.
CallsApart ==
    /\ ~halted => taken = Len(calls)
    /\ \A i, j \in DOMAIN calls : i # j => calls[i].reg # calls[j].reg
    /\ \A i \in DOMAIN calls : ~calls[i].lost

\* Whom a call has asked and asks next.
Asks(c) == IF c.at = NoHandler THEN c.asked ELSE Append(c.asked, c.at)

\* A call asks live handlers, each after all that are newer, and chains when it has asked them all.
AsksInOrder(c) ==
    /\ \A i \in DOMAIN Asks(c) : Asks(c)[i] \in Live
    /\ \A i, j \in DOMAIN Asks(c) : i < j => born[Asks(c)[i]] > born[Asks(c)[j]]
    /\ \A i \in DOMAIN Asks(c), h \in Live :
          born[h] > born[Asks(c)[i]] => \E j \in DOMAIN Asks(c) : Asks(c)[j] = h
    /\ c.at = NoHandler => \A h \in Live : \E j \in DOMAIN c.asked : c.asked[j] = h

\* "If false, the next handler in the chain will be called" (realmode.h:211): every call asks the
\* live handlers and no other, newest first, until one takes it; the callback runs as an
\* interrupt's while one of them asks for that; and calls that nest are kept apart.
HandlersAsked ==
    /\ isIrq = (Live \cap IrqHandlers # {})
    /\ vector = IF Live = {} THEN "bios" ELSE "callback"
    /\ \A i \in DOMAIN calls : AsksInOrder(calls[i])
    /\ CallsApart
=============================================================================
