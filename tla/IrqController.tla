---------------------------- MODULE IrqController ----------------------------
(***************************************************************************)
(* irq_controller (src/irq.cpp, include/jw/dpmi/detail/irq_controller.h):  *)
(* several drivers share an interrupt line.  The handlers of a line form a *)
(* doubly linked list, each handler brings flags, and handle_irq() derives *)
(* from the flags of all enabled handlers when to send the End Of          *)
(* Interrupt (EOI), when to allow nested interrupts, and when to chain to  *)
(* the handler that was there before.                                      *)
(*                                                                         *)
(* The interrupt controller chip (PIC) and the devices are external.  The  *)
(* PIC runs in special mask mode (the constructor of irq_controller_data   *)
(* writes 0x68): a line in service holds back itself and the lines of      *)
(* lower priority, unless it is masked.  Every request of a device reaches *)
(* the PIC as an edge of its own, and a deliverable interrupt is taken     *)
(* before the next step of the code it interrupts.                         *)
(***************************************************************************)
EXTENDS Integers, Sequences, FiniteSets

CONSTANTS
    Irqs,       \* the lines, in the order of priority: 0 is the most urgent
    Handlers,   \* irq_handler_data objects, each with its device
    Flags,      \* Flags[h]: its irq_config_flags
    Line,       \* Line[h]: the line its device is connected to
    Masked0,    \* the lines that are masked at the start
    BiosLines,  \* lines with a device that the previous handler serves
    MaxReq,     \* bound: requests of one device
    Ops,        \* "teardown": handlers are disabled and removed;
                \* "irq": interrupt handlers enable and disable handlers too;
                \* "alone": a fallback handler may be the only one of its line;
                \* "window": BIOS devices make requests while assign() is under way
    Null

FlagNames == {"always_chain", "no_auto_eoi", "late_eoi", "no_reentry", "no_interrupts",
              "fallback_handler"}

ASSUME ConstantsAssumption ==
    /\ Irqs \subseteq 0..7
    /\ Flags \in [Handlers -> SUBSET FlagNames]
    /\ Line \in [Handlers -> Irqs]
    /\ BiosLines \subseteq Irqs /\ Masked0 \subseteq Irqs
    /\ MaxReq \in Nat /\ Null \notin Handlers \cup Irqs

VARIABLES
    entry,      \* irq_controller_data::entries: first, last, fallback, flags
    alloc,      \* irq_controller_data::allocated; for these lines our trampoline is installed
    handler,    \* the handlers: irq, enabled, next, prev
    frames,     \* activations of handle_irq(), innermost first; the thread is the last
    imr, irr, isr,          \* the PIC: masked, requested, in service
    request,    \* the devices of Handlers that wait for service
    biosReq,    \* the lines of BiosLines whose device waits for service
    left,       \* requests each device may still make
    fault       \* "none", "null" (a call through a null pointer), "noeoi" (debug assertion)

vars == <<entry, alloc, handler, frames, imr, irr, isr, request, biosReq, left, fault>>
pic == <<imr, irr, isr>>
devices == <<request, biosReq, left>>
lists == <<entry, alloc, handler>>

IsFallback(h) == "fallback_handler" \in Flags[h]
Manual == {"always_chain", "no_auto_eoi", "late_eoi"}  \* no automatic EOI

Empty == [first |-> Null, last |-> Null, fallback |-> Null, flags |-> {}]
Unassigned == [irq |-> Null, enabled |-> FALSE, next |-> Null, prev |-> Null]
Thread == [irq |-> Null, flags |-> {}, ack |-> "no", pc |-> "thread", cur |-> Null]


Init ==
    /\ entry = [i \in Irqs |-> Empty] /\ alloc = {}
    /\ handler = [h \in Handlers |-> Unassigned]
    /\ frames = <<Thread>>
    /\ imr = Masked0 /\ irr = {} /\ isr = {}
    /\ request = {} /\ biosReq = {}
    /\ left = [d \in Handlers \cup BiosLines |-> MaxReq]
    /\ fault = "none"

Top == frames[1]
At(pc) == Top.pc = pc
Becomes(x) == frames' = [frames EXCEPT ![1] = x]

-----------------------------------------------------------------------------
(* Devices and PIC (external)                                              *)

Raise(i, d) ==
    /\ fault = "none"
    /\ left[d] > 0
    /\ left' = [left EXCEPT ![d] = @ - 1]
    /\ irr' = irr \cup {i}

\* A device makes requests while its driver has the handler enabled.
Request(h) ==
    /\ handler[h].enabled
    /\ Raise(Line[h], h)
    /\ request' = request \cup {h}
    /\ UNCHANGED <<lists, frames, imr, isr, biosReq, fault>>

BiosRequest(i) ==
    /\ i \in alloc /\ entry[i].first = Null => "window" \in Ops
    /\ Raise(i, i)
    /\ biosReq' = biosReq \cup {i}
    /\ UNCHANGED <<lists, frames, imr, isr, request, fault>>

\* The processor accepts interrupts: always in a thread, and in handle_irq() after its sti
\* until its cli.
InterruptsOn == "no_interrupts" \notin Top.flags

Deliverable(i) ==
    /\ InterruptsOn
    /\ i \in irr \ imr
    /\ \A j \in isr \ imr : j > i

\* The code takes its next step.
Quiet == fault = "none" /\ \A i \in Irqs : ~Deliverable(i)

-----------------------------------------------------------------------------
(* handle_irq()                                                            *)

AutoEoi(flags) == flags \cap Manual = {}

\* irq_mask on the line that is being served.
MaskSelf(flags) == {"no_interrupts", "no_reentry"} \subseteq flags

\* Entry: the flags are cached, the EOI is sent if no handler wants to send it.
Enter(i) ==
    LET f == entry[i].flags
    IN  /\ frames' = <<[irq |-> i, flags |-> f, pc |-> "first", cur |-> Null,
                        ack |-> IF AutoEoi(f) THEN "eoi_sent" ELSE "no"]>> \o frames
        /\ isr' = IF AutoEoi(f) THEN isr ELSE isr \cup {i}
        /\ imr' = IF MaskSelf(f) THEN imr \cup {i} ELSE imr
        /\ irr' = irr \ {i}
        /\ UNCHANGED biosReq

\* The previous handler serves its device and sends the EOI.
Previous(i) ==
    /\ biosReq' = biosReq \ {i}
    /\ irr' = irr \ {i}
    /\ UNCHANGED <<frames, imr, isr>>

Deliver(i) ==
    /\ fault = "none"
    /\ Deliverable(i)
    /\ IF i \in alloc THEN Enter(i) ELSE Previous(i)
    /\ UNCHANGED <<lists, request, left, fault>>

\* p->call(): a handler that is disabled only passes the call on.
Call(p) ==
    IF p = Null
    THEN fault' = "null" /\ UNCHANGED frames
    ELSE /\ Becomes([Top EXCEPT !.pc = IF handler[p].enabled THEN "func" ELSE "next",
                                !.cur = p])
         /\ UNCHANGED fault

\* entry->first->call()
CallFirst ==
    /\ Quiet /\ At("first")
    /\ Call(entry[Top.irq].first)
    /\ UNCHANGED <<lists, pic, devices>>

\* Mutant: acknowledge() leaves the EOI of every manual line to handle_irq().
EoiOnAckUnlessManual(x) == AutoEoi(entry[x.irq].flags) /\ x.ack = "no"

\* Mutant: acknowledge() does not look at late_eoi.
EoiOnAckAlways(x) == entry[x.irq].flags \cap {"always_chain"} = {} /\ x.ack = "no"

\* acknowledge() sends the EOI, by the flags the line has now.
EoiOnAck(x) ==
    /\ entry[x.irq].flags \cap {"late_eoi", "always_chain"} = {}
    /\ x.ack = "no"

\* The driver's function finds its device waiting and serves it.  A device without a status
\* flag is always taken to be the source.
Serve ==
    /\ Quiet /\ At("func")
    /\ Top.cur \in request \/ IsFallback(Top.cur)
    /\ request' = request \ {Top.cur}
    /\ Becomes([Top EXCEPT !.pc = "served"])
    /\ UNCHANGED <<lists, pic, biosReq, left, fault>>

Acknowledge ==
    /\ Quiet /\ At("served")
    /\ isr' = IF EoiOnAck(Top) THEN isr \ {Top.irq} ELSE isr
    /\ Becomes([Top EXCEPT !.pc = "acked", !.ack = "yes"])
    /\ UNCHANGED <<lists, imr, irr, devices, fault>>

\* The function returns, after it has acknowledged or because its device does not wait.
FuncReturns ==
    /\ Quiet
    /\ At("acked") \/ (At("func") /\ Top.cur \notin request /\ ~IsFallback(Top.cur))
    /\ Becomes([Top EXCEPT !.pc = "next"])
    /\ UNCHANGED <<lists, pic, devices, fault>>

\* Mutant: the fallback handler is called for acknowledged interrupts too.
AskFallbackAlways(x) == "fallback_handler" \in x.flags

AskFallback(x) == "fallback_handler" \in x.flags /\ x.ack # "yes"

\* if (next) next->call(); the end of the list is followed by the fallback handler.
CallNext ==
    /\ Quiet /\ At("next")
    /\ LET n == handler[Top.cur].next
       IN  CASE n # Null -> Call(n)
             [] n = Null /\ ~IsFallback(Top.cur) /\ AskFallback(Top) ->
                    Call(entry[Top.irq].fallback)
             [] OTHER -> Becomes([Top EXCEPT !.pc = "end"]) /\ UNCHANGED fault
    /\ UNCHANGED <<lists, pic, devices>>

\* Mutant: always_chain is not looked at.
ChainUnacknowledged(x) == x.ack = "no"

Chain(x) == "always_chain" \in x.flags \/ x.ack = "no"

LateEoi(x) == "late_eoi" \in x.flags

\* From the cli to the iret: the irq_mask object ends, then chain or send the late EOI.
End ==
    /\ Quiet /\ At("end")
    /\ LET i == Top.irq
           sent == Chain(Top) \/ LateEoi(Top)
       IN  /\ isr' = IF sent THEN isr \ {i} ELSE isr
           /\ fault' = IF ~sent /\ i \in isr THEN "noeoi" ELSE fault
           /\ biosReq' = IF Chain(Top) THEN biosReq \ {i} ELSE biosReq
           /\ imr' = IF MaskSelf(Top.flags) THEN imr \ {i} ELSE imr
    /\ frames' = Tail(frames)
    /\ UNCHANGED <<lists, irr, request, left>>

-----------------------------------------------------------------------------
(* Drivers assign, enable, disable and remove their handlers               *)

Member(h) == handler[h].irq # Null

\* The ordinary handlers assigned to line i.
Ordinary(i) == {h \in Handlers : handler[h].irq = i /\ ~IsFallback(h)}

\* Restriction of the environment: handle_irq() cannot serve a fallback handler that has no
\* ordinary handler beside it.
Accompanied(i, H) == "alone" \in Ops \/ Ordinary(i) \cap H # {}

\* A thread between two operations, or the function of an interrupt handler.
Running == Quiet /\ (At("thread") \/ ("irq" \in Ops /\ Top.pc \in {"func", "served", "acked"}))

\* irq_mask::unmask(): while an irq_mask object for the line lives it stays masked.
Unmask(i) ==
    IF \E k \in 1..Len(frames) : frames[k].irq = i /\ MaskSelf(frames[k].flags)
    THEN imr ELSE imr \ {i}

Enable(h) ==
    /\ Running /\ Member(h) /\ ~handler[h].enabled
    /\ LET i == handler[h].irq
       IN  /\ handler' = [handler EXCEPT ![h].enabled = TRUE]
           /\ entry' = [entry EXCEPT ![i].flags = @ \cup Flags[h]]
           /\ imr' = Unmask(i)
    /\ UNCHANGED <<alloc, frames, irr, isr, devices, fault>>

\* The handlers from p on, along the next pointers: the least set that has p in it and, with
\* every handler, the next one.
Closed(S) == \A g \in S : handler[g].next \in S \cup {Null}
From(p) ==
    LET sets == {S \in SUBSET Handlers : p \in S \cup {Null} /\ Closed(S)}
    IN  {h \in Handlers : \A S \in sets : h \in S}

Follow(e) == From(e.first)

\* Mutant: disable() forgets the flags of the fallback handler.
FlagsWithoutFallback(e, h) ==
    UNION {Flags[g] : g \in {g \in Follow(e) : handler[g].enabled} \ {h}}

\* Mutant: disable() leaves the flags as they are.
FlagsStale(e, h) == e.flags

\* The flags that remain when h is disabled.
FlagsWithout(e, h) ==
    UNION {Flags[g] : g \in {g \in Follow(e) \cup ({e.fallback} \ {Null}) :
                                handler[g].enabled} \ {h}}

Disabled(e, h) ==
    IF handler[h].enabled THEN [e EXCEPT !.flags = FlagsWithout(e, h)] ELSE e

\* The driver has stopped the device before.
Disable(h) ==
    /\ Running /\ "teardown" \in Ops /\ handler[h].enabled
    /\ handler' = [handler EXCEPT ![h].enabled = FALSE]
    /\ entry' = [entry EXCEPT ![handler[h].irq] = Disabled(@, h)]
    /\ request' = request \ {h}
    /\ UNCHANGED <<alloc, frames, pic, biosReq, left, fault>>

\* assign(), first part: add() installs the trampoline of a line that had none.
Assign(h) ==
    /\ Quiet /\ At("thread") /\ ~Member(h)
    /\ IsFallback(h) => Accompanied(Line[h], Handlers)
    /\ LET i == Line[h]
       IN  /\ alloc' = alloc \cup {i}
           /\ entry' = IF i \in alloc THEN entry ELSE [entry EXCEPT ![i] = Empty]
    /\ Becomes([Top EXCEPT !.pc = "link", !.cur = h])
    /\ UNCHANGED <<handler, pic, devices, fault>>

\* Mutant: the new handler becomes the last without being linked to the one before.
AppendLost(h, i) ==
    LET last == entry[i].last
    IN  /\ handler' = [handler EXCEPT ![h] = [@ EXCEPT !.irq = i, !.prev = last]]
        /\ entry' = [entry EXCEPT ![i] =
               [@ EXCEPT !.first = IF @ = Null THEN h ELSE @, !.last = h]]

LinkLast(h, i) ==
    LET e == entry[i]
    IN  /\ handler' = [g \in Handlers |->
               CASE g = h -> [handler[g] EXCEPT !.irq = i, !.prev = e.last]
                 [] g = e.last -> [handler[g] EXCEPT !.next = h]
                 [] OTHER -> handler[g]]
        /\ entry' = [entry EXCEPT ![i] =
               [e EXCEPT !.first = IF @ = Null THEN h ELSE @, !.last = h]]

\* Mutant: the last handler of the list is not updated.
UnlinkedKeepsLast(e, h) ==
    IF IsFallback(h) THEN [e EXCEPT !.fallback = Null]
    ELSE [e EXCEPT !.first = IF @ = h THEN handler[h].next ELSE @]

\* Mutant: removing any handler clears the fallback handler.
UnlinkedFallbackToo(e, h) ==
    [e EXCEPT !.first = IF @ = h THEN handler[h].next ELSE @,
              !.last = IF @ = h THEN handler[h].prev ELSE @,
              !.fallback = Null]

\* remove(): what is left of the entry and of the neighbours.
Unlinked(e, h) ==
    IF IsFallback(h) THEN [e EXCEPT !.fallback = Null]
    ELSE [e EXCEPT !.first = IF @ = h THEN handler[h].next ELSE @,
                   !.last = IF @ = h THEN handler[h].prev ELSE @]

\* Mutant: the handler after the removed one keeps its prev.
DetachedHalf(h) ==
    [g \in Handlers |->
        CASE g = h -> Unassigned
          [] g # h /\ g = handler[h].prev -> [handler[g] EXCEPT !.next = handler[h].next]
          [] OTHER -> handler[g]]

Detached(h) ==
    [g \in Handlers |->
        CASE g = h -> Unassigned
          [] g # h /\ g = handler[h].prev -> [handler[g] EXCEPT !.next = handler[h].next]
          [] g # h /\ g = handler[h].next -> [handler[g] EXCEPT !.prev = handler[h].prev]
          [] OTHER -> handler[g]]

\* Mutant: the entry of a line outlives its last handler.
DropEntryNever(i, h) ==
    /\ entry' = [entry EXCEPT ![i] = Unlinked(Disabled(@, h), h)]
    /\ UNCHANGED alloc

\* The line goes back to the previous handler when its list becomes empty.
DropEntry(i, h) ==
    LET e == Unlinked(Disabled(entry[i], h), h)
    IN  /\ entry' = [entry EXCEPT ![i] = e]
        /\ alloc' = IF e.first = Null THEN alloc \ {i} ELSE alloc

RemoveFrom(i, h) ==
    /\ DropEntry(i, h)
    /\ handler' = Detached(h)
    /\ request' = request \ {h}

\* assign(), second part, with interrupts off.  A second fallback handler throws, and the
\* destructor of the new irq_handler removes it, whose irq is already set.
Link ==
    /\ Quiet /\ At("link")
    /\ LET h == Top.cur
           i == Line[h]
       IN  CASE ~IsFallback(h) -> LinkLast(h, i) /\ UNCHANGED <<alloc, request>>
             [] IsFallback(h) /\ entry[i].fallback = Null ->
                    /\ handler' = [handler EXCEPT ![h].irq = i]
                    /\ entry' = [entry EXCEPT ![i].fallback = h]
                    /\ UNCHANGED <<alloc, request>>
             [] OTHER -> RemoveFrom(i, h)
    /\ Becomes(Thread)
    /\ UNCHANGED <<pic, biosReq, left, fault>>

\* remove(), from the destructor of the irq_handler or from assign() to another line.
Remove(h) ==
    /\ Quiet /\ At("thread") /\ "teardown" \in Ops /\ Member(h)
    /\ entry[Line[h]].fallback \notin {Null, h} => Accompanied(Line[h], Handlers \ {h})
    /\ RemoveFrom(handler[h].irq, h)
    /\ UNCHANGED <<frames, pic, biosReq, left, fault>>

-----------------------------------------------------------------------------

Handling ==
    \/ \E i \in Irqs : Deliver(i)
    \/ CallFirst \/ CallNext \/ End
    \/ Serve \/ Acknowledge \/ FuncReturns

Driver ==
    \/ \E h \in Handlers : Assign(h) \/ Enable(h) \/ Disable(h) \/ Remove(h)
    \/ Link

Next ==
    \/ \E h \in Handlers : Request(h)
    \/ \E i \in BiosLines : BiosRequest(i)
    \/ Handling
    \/ Driver

Spec == Init /\ [][Next]_vars

\* The processor goes on: pending interrupts are taken and their handlers finish.
FairSpec == Spec /\ WF_vars(Handling)

-----------------------------------------------------------------------------
(* Properties                                                              *)

\* Type invariant.  The pointers of hooked lines and of handlers refer to assigned handlers.
TypeOK ==
    LET Pointers == {h \in Handlers : Member(h)} \cup {Null}
    IN  /\ entry \in [Irqs -> [first : Pointers, last : Pointers, fallback : Pointers,
                               flags : SUBSET FlagNames]]
        /\ handler \in [Handlers -> [irq : Irqs \cup {Null}, enabled : BOOLEAN,
                                     next : Pointers, prev : Pointers]]
    /\ frames \in Seq([irq : Irqs \cup {Null}, flags : SUBSET FlagNames,
                       ack : {"no", "eoi_sent", "yes"}, cur : Handlers \cup {Null},
                       pc : {"thread", "link", "first", "func", "served", "acked", "next", "end"}])
    /\ frames # <<>> /\ frames[Len(frames)].irq = Null
    /\ alloc \subseteq Irqs /\ imr \subseteq Irqs /\ irr \subseteq Irqs /\ isr \subseteq Irqs
    /\ request \subseteq Handlers /\ biosReq \subseteq BiosLines
    /\ left \in [Handlers \cup BiosLines -> 0..MaxReq]
    /\ fault \in {"none", "null", "noeoi"}

\* The list of every hooked line, followed either way, holds exactly the ordinary handlers
\* assigned to it, its flags are those of its enabled handlers together, and an assigned
\* fallback handler is the one its line would call: whatever sequence of assignments and
\* removals, shared lines keep calling everyone and nobody else.
ListsAgree ==
    /\ \A i \in alloc :
        LET e == entry[i]
        IN  /\ Follow(e) = Ordinary(i)
            /\ e.last = Null <=> e.first = Null
            /\ e.first # Null => handler[e.first].prev = Null /\ handler[e.last].next = Null
            /\ e.flags = UNION {Flags[h] : h \in {h \in Handlers :
                                                    handler[h].irq = i /\ handler[h].enabled}}
    /\ \A h \in Handlers :
        /\ handler[h].next # Null => handler[handler[h].next].prev = h
        /\ handler[h].prev # Null => handler[handler[h].prev].next = h

Base == frames[Len(frames)]

\* A line is hooked exactly while it has ordinary handlers: the previous handler gets it
\* back with the last one, and an assigned handler is never left on a line whose controller
\* is gone.  Only inside assign() a hooked line may be empty.
EntriesLive ==
    /\ \A i \in alloc : Ordinary(i) = {} => Base.pc = "link" /\ Line[Base.cur] = i
    /\ \A h \in Handlers : Member(h) => handler[h].irq \in alloc

\* The lists, flags and hooks of shared lines agree with the handlers assigned to them.
LinesAgree == TypeOK /\ ListsAgree /\ EntriesLive

\* handle_irq() never calls through a null pointer (entry->first, entry->fallback).
NoNullCall == fault # "null"

\* The assertion after every interrupt, "No EOI for IRQ": its line is no longer in service.
NoMissingEoi == fault # "noeoi"

\* The EOI of this activation has been sent.
EoiSent(x) ==
    x.ack = "eoi_sent" \/ (x.ack = "yes" /\ x.flags \cap {"late_eoi", "always_chain"} = {})

\* A line is in service exactly while one activation for it has not sent its EOI: no EOI is
\* forgotten, sent twice, or sent on behalf of an outer activation of the same line.
EoiExact ==
    \A i \in Irqs :
        Cardinality({k \in 1..Len(frames) : frames[k].irq = i /\ ~EoiSent(frames[k])})
            = (IF i \in isr THEN 1 ELSE 0)

\* The activation x will still ask h.
WillCall(x, h) ==
    /\ x.irq = Line[h]
    /\ \/ x.pc = "first"
       \/ x.pc = "func" /\ x.cur = h
       \/ x.cur # Null /\ h \in From(handler[x.cur].next)

\* A request of a device is not lost while its handler is enabled: the interrupt is pending,
\* or an activation for the line will still call the handler, although lines are shared and
\* activations for the same line interrupt each other.  (A device without a status flag
\* loses a request that comes together with one of its neighbours on the line.)
RequestKept ==
    \A h \in request : ~IsFallback(h) =>
        Line[h] \in irr \/ \E k \in 1..Len(frames) : WillCall(frames[k], h)

\* late_eoi: "lower priority IRQs will also be inhibited", and the line itself, until all
\* handlers have been called; no_interrupts: nothing interrupts the handlers at all.
NestingAllowed ==
    \A l \in 2..Len(frames) : \A k \in 1..l - 1 :
        /\ "late_eoi" \in frames[l].flags => frames[k].irq < frames[l].irq
        /\ "no_interrupts" \notin frames[l].flags

\* Every activation sends its EOI once, and only those are interrupted that allow it.
EoisExact == EoiExact /\ NoMissingEoi /\ NestingAllowed

\* "Default behaviour is to chain only if the interupt has not been acknowledged": when
\* handle_irq() ends without an acknowledgement, or has the flag always_chain, the previous
\* handler has served its device.  For lines with enabled handlers that ask for a manual EOI.
ChainKept ==
    [][At("end") /\ Len(frames') < Len(frames) /\ ~AutoEoi(Top.flags)
            /\ (Top.ack # "yes" \/ "always_chain" \in Top.flags)
        => Top.irq \notin biosReq']_vars

\* The fallback handler "may only be invoked if no other handler acknowledges".
FallbackLast ==
    [][\A h \in Handlers : IsFallback(h) /\ At("func") /\ Top.cur = h => Top.ack # "yes"]_vars

\* The fallback handler that is registered for a line keeps its place until it is removed.
FallbackRegistered ==
    \A h \in Handlers : Member(h) /\ IsFallback(h) => entry[handler[h].irq].fallback = h

\* handle_irq() asks a line's handlers in turn: the fallback handler that is assigned, if nobody
\* else acknowledges, and never through a null pointer ...
FallbackKept == FallbackRegistered /\ NoNullCall /\ ListsAgree

\* ... and after them, unless one acknowledged, the previous handler.
AskedInTurn == FallbackLast /\ ChainKept

\* Every request of a device is served, or its handler is disabled: no line stays in service
\* or masked, no list loses a handler.
Served == \A h \in Handlers : ~IsFallback(h) => (h \in request ~> h \notin request)

\* With always_chain the device of the previous handler is served too, once the line is open.
BiosServed == \A i \in BiosLines : i \in biosReq ~> i \notin biosReq \/ i \in imr

-----------------------------------------------------------------------------
(* What the documentation says and the code does not do                    *)

\* no_reentry: "Mask the current IRQ while it is being serviced, preventing re-entry."
NoReentry ==
    \A l \in 2..Len(frames) : \A k \in 1..l - 1 :
        "no_reentry" \in frames[l].flags => frames[k].irq # frames[l].irq

\* ChainKept for every line: "chain only if the interupt has not been acknowledged."
ChainUnlessAcknowledged ==
    [][At("end") /\ Len(frames') < Len(frames) /\ Top.ack # "yes"
        => Top.irq \notin biosReq']_vars
=============================================================================
