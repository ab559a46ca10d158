----------------------------- MODULE Exceptions -----------------------------
(***************************************************************************)
(* CPU exceptions and asynchronous signals (cpu_exception.cpp).  The stack *)
(* of contexts is what the processor was doing: the application, interrupt *)
(* handlers, exception handlers, the stub that a redirected exception      *)
(* returns to, and the function the stub calls.  DPMI calls an exception   *)
(* handler with interrupts disabled.                                       *)
(***************************************************************************)
EXTENDS Integers, Sequences, FiniteSets

CONSTANTS
    Signals,    \* async_signal IDs
    Pool,       \* trampolines that the handlers leave
    MaxFaults, MaxRaised, MaxContexts,  \* bounds
    ExOps       \* "in_rethrow": a fault that throws hits rethrow_cpu_exception()
                \* "in_irq": an interrupt handler faults while a signal is pending

\* There may be no trampoline for a redirection.
ASSUME ExAssumption == Pool \in Nat

VARIABLES
    ctx,        \* contexts, innermost last
    pendingExceptions,  \* pending_exceptions
    free,       \* length of free_list
    signals,    \* pending_signals
    low,        \* main_ds has the limit 0xfff
    faults, raised, \* bounds
    wrong,      \* ghost: an exception was rethrown for another frame
    misplaced,  \* ghost: a signal saw a frame that is not the application's
    ended       \* std::terminate() or the host ended the program

exVars == <<ctx, pendingExceptions, free, signals, low, faults, raised, wrong, misplaced, ended>>

\* A context: what runs, on which stack segment, for which fault, and whether its frame was
\* redirected.
Context(k, seg, id) == [kind |-> k, seg |-> seg, id |-> id, gone |-> FALSE]

ExInit ==
    /\ ctx = <<Context("code", "main", 0)>>
    /\ pendingExceptions = <<>> /\ free = Pool /\ signals = {} /\ low = FALSE
    /\ faults = 0 /\ raised = 0 /\ wrong = FALSE /\ misplaced = FALSE /\ ended = FALSE

top == ctx[Len(ctx)]
below == ctx[Len(ctx) - 1]
Popped(s) == SubSeq(s, 1, Len(s) - 1)

EnterHandler(k) == ctx' = Append(ctx, Context(k, "safe", faults + raised + 1))

\* An exception, in anything but the stub
Fault ==
    /\ ~ended /\ top.kind # "stub" /\ Len(ctx) < MaxContexts
    /\ faults < MaxFaults /\ faults' = faults + 1 /\ EnterHandler("exc")
    /\ UNCHANGED <<pendingExceptions, free, signals, low, raised, wrong, misplaced, ended>>

\* handle_exception() with is_async_signal(), which only looks at the kind of fault and at the
\* limit: the first pending signal.  A lowered limit catches the application's next access.
Signal ==
    /\ ~ended /\ top.kind # "stub" /\ Len(ctx) < MaxContexts /\ low /\ signals # {}
    /\ top.seg = "main" \/ "in_irq" \in ExOps
    /\ \E id \in signals : (\A t \in signals : id <= t) /\ signals' = signals \ {id}
    /\ misplaced' = (misplaced \/ top.seg # "main") /\ EnterHandler("signal")
    /\ UNCHANGED <<pendingExceptions, free, low, faults, raised, wrong, ended>>

\* Mutant: the limit is restored after every signal.
RestoreAlways == top.kind = "exc" /\ low

\* handle_async_signal()'s cleanup: main_ds is whole again once no signal is pending.
RestoreLimit == low /\ (top.kind = "signal" => signals # {})

\* redirect_exception() into rethrow_cpu_exception(): without a free trampoline it throws out of
\* a noexcept function.
Redirect ==
    IF free = 0
    THEN ended' = TRUE /\ UNCHANGED <<ctx, pendingExceptions, free>>
    ELSE /\ free' = free - 1 /\ pendingExceptions' = Append(pendingExceptions, top.id)
         /\ ctx' = [ctx EXCEPT ![Len(ctx)].gone = TRUE] /\ UNCHANGED ended

handling == top.kind \in {"exc", "signal"} /\ ~top.gone

\* handle_exception(): the function takes the exception, and the frame is returned to.
Handled ==
    /\ ~ended /\ handling /\ low' = RestoreLimit /\ ctx' = Popped(ctx)
    /\ UNCHANGED <<pendingExceptions, free, signals, faults, raised, wrong, misplaced, ended>>

\* The function throws, as the default handler does.
Thrown ==
    /\ ~ended /\ handling /\ low' = RestoreLimit /\ Redirect
    /\ below.kind = "rethrow" => "in_rethrow" \in ExOps
    /\ UNCHANGED <<signals, faults, raised, wrong, misplaced>>

\* No handler takes it, or the limit is low without a signal (in a signal's function): the host
\* does, and ends the program.
ChainToHost ==
    /\ ~ended /\ handling /\ top.kind = "exc" /\ ended' = TRUE
    /\ UNCHANGED <<ctx, pendingExceptions, free, signals, low, faults, raised, wrong, misplaced>>

\* A redirected frame returns to its trampoline, on safe_ds and with interrupts disabled.
EnterStub ==
    /\ ~ended /\ top.gone
    /\ ctx' = Append(Popped(ctx), Context("stub", below.seg, top.id))
    /\ UNCHANGED <<pendingExceptions, free, signals, low, faults, raised, wrong, misplaced, ended>>

\* stage3() frees the trampoline, restores flags and stack segment and calls the function.
Stage3 ==
    /\ ~ended /\ top.kind = "stub" /\ free' = free + 1
    /\ ctx' = Append(Popped(ctx), Context("rethrow", top.seg, top.id))
    /\ UNCHANGED <<pendingExceptions, signals, low, faults, raised, wrong, misplaced, ended>>

\* Mutant: the first of the pending exceptions.
RethrowFirst(p) == <<Head(p), Tail(p)>>

\* rethrow_cpu_exception() takes the last of the pending exceptions.
TakePending(p) == <<p[Len(p)], Popped(p)>>

\* It is thrown into the context below, which catches it; when that is the function of another
\* redirection, that one unwinds too.
Rethrow ==
    /\ ~ended /\ top.kind = "rethrow" /\ (top.seg = "main" => ~low)
    /\ IF pendingExceptions = <<>> THEN ended' = TRUE /\ UNCHANGED <<ctx, pendingExceptions, wrong>>
       ELSE LET p == TakePending(pendingExceptions) IN
            /\ pendingExceptions' = p[2] /\ wrong' = (wrong \/ p[1] # top.id)
            /\ ctx' = IF below.kind = "rethrow" THEN Popped(Popped(ctx)) ELSE Popped(ctx)
            /\ UNCHANGED ended
    /\ UNCHANGED <<free, signals, low, faults, raised, misplaced>>

\* An interrupt, where interrupts are enabled
IrqBegin ==
    /\ ~ended /\ top.kind \in {"code", "rethrow"} /\ Len(ctx) < MaxContexts - 1 /\ raised < MaxRaised
    /\ ctx' = Append(ctx, Context("irq", "safe", 0))
    /\ UNCHANGED <<pendingExceptions, free, signals, low, faults, raised, wrong, misplaced, ended>>

\* async_signal::raise() in its handler
RaiseSignal(s) ==
    /\ ~ended /\ top.kind = "irq" /\ raised < MaxRaised /\ raised' = raised + 1
    /\ signals' = signals \cup {s} /\ low' = TRUE
    /\ UNCHANGED <<ctx, pendingExceptions, free, faults, wrong, misplaced, ended>>

IrqEnd ==
    /\ ~ended /\ top.kind = "irq" /\ ctx' = Popped(ctx)
    /\ UNCHANGED <<pendingExceptions, free, signals, low, faults, raised, wrong, misplaced, ended>>

ExNext ==
    \/ Fault \/ Signal \/ Handled \/ Thrown \/ ChainToHost \/ EnterStub \/ Stage3 \/ Rethrow
    \/ IrqBegin \/ (\E s \in Signals : RaiseSignal(s)) \/ IrqEnd

ExSpec == ExInit /\ [][ExNext]_exVars

-----------------------------------------------------------------------------
(* Properties                                                              *)

\* The contexts with a trampoline, and those whose exception is still to be thrown
WithTrampoline == {i \in DOMAIN ctx : ctx[i].gone \/ ctx[i].kind = "stub"}
InFlight == WithTrampoline \cup {i \in DOMAIN ctx : ctx[i].kind = "rethrow"}

\* Exceptions nest: what rethrow_cpu_exception() will throw is, for every redirected frame in their
\* order, the exception thrown for that frame; none is left behind, and no trampoline is lost.
ExceptionsNest ==
    ~ended => /\ ~wrong
              /\ Len(pendingExceptions) = Cardinality(InFlight)
              /\ \A i \in InFlight : pendingExceptions[Cardinality({j \in InFlight : j <= i})] = ctx[i].id
              /\ Pool = free + Cardinality(WithTrampoline)

\* A raised signal is not forgotten: as long as one is pending the application's first memory
\* access faults; and once none is, it does not.
SignalsPend ==
    /\ signals # {} => low
    /\ low => signals # {} \/ \E i \in DOMAIN ctx : ctx[i].kind = "signal"

\* "used when you need to access the application stack or registers from an IRQ handler [...]
\* The IRQ handler itself is not affected as it uses different segment selectors"
\* (async_signal.h:19): a signal's handler is given a frame of the application's.
SignalsSeeApplication == ~misplaced
=============================================================================
