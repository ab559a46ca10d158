---------------------------- MODULE MCScheduler ----------------------------
(***************************************************************************)
(* Two setups of Scheduler for TLC.  In one, interrupt handlers, suspended *)
(* threads and functions that disable interrupts come together; in the     *)
(* other everything that unwinds a stack: exceptions, functions that throw *)
(* or yield, destructors that yield or swallow the unwind.                 *)
(***************************************************************************)
EXTENDS Scheduler

CONSTANTS
    UnwindOps,      \* Ops and MaxDepth of the second setup; Scheduler's own are the first's
    UnwindDepth

VARIABLE setup

Unwinding == INSTANCE Scheduler WITH Ops <- UnwindOps, MaxDepth <- UnwindDepth

SetupsInit == Init /\ setup \in {"interrupts", "unwinding"}
SetupsNext ==
    \/ setup = "interrupts" /\ Next /\ UNCHANGED setup
    \/ setup = "unwinding" /\ Unwinding!Next /\ UNCHANGED setup

SetupsSpec == SetupsInit /\ [][SetupsNext]_<<vars, setup>>

\* The first setup alone, with the fairness of Scheduler.
InterruptsInit == Init /\ setup = "interrupts"
FairSetupSpec == InterruptsInit /\ [][SetupsNext]_<<vars, setup>> /\ Fairness
-----------------------------------------------------------------------------
\* Where invoked functions neither yield nor throw, each is called at most once, and
\* do_yield() never pops an empty invoke_list.
CallsKept == setup = "interrupts" => CalledOnce /\ PopSafe

\* Nor do they then abort: the guards of do_yield() (unwinding, uncaught_exceptions,
\* finishing) are enough that no forced unwind starts inside another.
UnwindsApart == setup = "interrupts" => NoAbort
=============================================================================
