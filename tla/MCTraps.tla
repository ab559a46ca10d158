------------------------------ MODULE MCTraps -------------------------------
(***************************************************************************)
(* Instances for TLC of what interrupts, exceptions and the debugger's     *)
(* traps go through: shared interrupt lines (IrqController, with drivers   *)
(* on two lines or with a fallback handler and a previous handler on one), *)
(* exceptions and signals, chains of trampolines, real-mode handlers, the  *)
(* GDB stub, and termination.  They share no state, so one behaviour runs  *)
(* one of them, part, and leaves the state of the others alone.            *)
(***************************************************************************)
EXTENDS MCIrqController, Realmode, GdbStops, Shutdown, Exceptions, TrapChain,
        GdbRegisters, GdbThreads

CONSTANTS
    h4, h5, main, other

\* A driver like rs232 (h1, no_auto_eoi) and one like the PIT (h2, late_eoi) share line 3; on line
\* 5 one with interrupts off, as the RTC has, that is not to be re-entered (h3).  In the part
\* irq_fallback an old Sound Blaster (h4, a fallback handler) and a handler that always chains (h5)
\* share line 3 with h1.
TrapsFlags ==
    [h \in Handlers |-> CASE h = h4 -> {"no_auto_eoi", "fallback_handler"} [] h = h5 -> {"always_chain"}
                          [] OTHER -> Three({"no_auto_eoi"}, {"late_eoi"}, {"no_interrupts", "no_reentry"}, h)]
TrapsLine == [h \in Handlers |-> IF h = h3 THEN 5 ELSE 3]

VARIABLE part   \* the component that runs

Parts == {"irq", "irq_fallback", "exceptions", "trap_chain", "realmode", "gdb_stops",
          "gdb_registers", "gdb_threads", "shutdown"}

\* These handlers are never assigned.
Unused(hs) == \A h \in hs : handler'[h] = handler[h] /\ Base'.cur # h

TrapsInit ==
    /\ part \in Parts
    /\ Init
    /\ ExInit
    /\ TcInit
    /\ RmInit
    /\ StopsInit
    /\ GrInit
    /\ part # "gdb_registers" =>
           grQuery = "other" /\ frame10 /\ fpu = "none" /\ file["other"]["eax"] = 0
    /\ GtInit
    /\ ExitInit
    /\ part # "shutdown" => access = "no" /\ ~keyboard /\ ~gdb

TrapsNext ==
    \/ part = "irq" /\ Next /\ Unused({h4, h5}) /\ UNCHANGED biosReq
       /\ UNCHANGED <<part, exVars, tcVars, rmVars, gsVars, grVars, gtVars, sdVars>>
    \/ part = "irq_fallback" /\ Next /\ Unused({h2, h3}) /\ (\A h \in Handlers : left'[h] > 1)
       /\ UNCHANGED <<part, exVars, tcVars, rmVars, gsVars, grVars, gtVars, sdVars>>
    \/ part = "exceptions" /\ ExNext
       /\ UNCHANGED <<part, vars, tcVars, rmVars, gsVars, grVars, gtVars, sdVars>>
    \/ part = "trap_chain" /\ TcNext
       /\ UNCHANGED <<part, vars, exVars, rmVars, gsVars, grVars, gtVars, sdVars>>
    \/ part = "realmode" /\ RmNext
       /\ UNCHANGED <<part, vars, exVars, tcVars, gsVars, grVars, gtVars, sdVars>>
    \/ part = "gdb_stops" /\ StopsNext
       /\ UNCHANGED <<part, vars, exVars, tcVars, rmVars, grVars, gtVars, sdVars>>
    \/ part = "gdb_registers" /\ GrNext
       /\ UNCHANGED <<part, vars, exVars, tcVars, rmVars, gsVars, gtVars, sdVars>>
    \/ part = "gdb_threads" /\ GtNext
       /\ UNCHANGED <<part, vars, exVars, tcVars, rmVars, gsVars, grVars, sdVars>>
    \/ part = "shutdown" /\ ExitNext
       /\ UNCHANGED <<part, vars, exVars, tcVars, rmVars, gsVars, grVars, gtVars>>

TrapsSpec ==
    TrapsInit /\ [][TrapsNext]_<<part, vars, exVars, tcVars, rmVars, gsVars, grVars, gtVars, sdVars>>
-----------------------------------------------------------------------------
\* cpu_exception.cpp, async_signal.cpp: exceptions nest, raised signals are not forgotten, and
\* whatever handlers are destroyed, an exception goes to every live one, newest first.
ExceptionsArrive == ExceptionsNest /\ SignalsPend /\ ChainIntact

\* debug.cpp: GDB's view of threads, signals, watchpoints and registers is the program's.
DebuggerTold ==
    /\ SignalsDelivered /\ ThreadsKnown /\ WatchpointsKept
    /\ OneRegisterWritten /\ AnswersExpand
=============================================================================
