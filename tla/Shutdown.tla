------------------------------ MODULE Shutdown ------------------------------
(***************************************************************************)
(* The end of the program (main.cpp: the handlers for std::terminate and   *)
(* SIGABRT, __wrap_main, ~init) and what it must undo: ring 0 (ring0.cpp), *)
(* the hook on interrupt 2f, the keyboard.                                 *)
(***************************************************************************)
EXTENDS Integers, Sequences

CONSTANTS
    MaxNest, MaxLimit,  \* bounds: nested ring0_privilege objects, growth of the data segment
    ExitOps             \* "grow": memory is allocated in ring 0

VARIABLES
    stage,          \* "main", "cleanup" (terminate_cleanup), "after", "ended"
    handlers,       \* the handlers that run, innermost first: "terminate" or "abort"
    terminated,     \* the count in terminate_handler()
    step,           \* terminate_cleanup()'s
    irq,            \* an interrupt is being serviced
    ring, masked,   \* privilege level, and whether interrupts are disabled
    access, objects, \* ring0_accessible; the dont_leave flags of live ring0_privilege objects
    limit, limit0,  \* __djgpp_selector_limit, ring0_selector_limit
    hooked, keyboard, gdb, \* int2f_handler is set; the keyboard is ours; GDB waits for the exit
    result          \* "none", "exited" or "halted"

sdVars == <<stage, handlers, terminated, step, irq, ring, masked, access, objects, limit, limit0,
            hooked, keyboard, gdb, result>>

ring0Vars == <<ring, masked, access, objects, limit, limit0>>
endVars == <<stage, handlers, terminated, step, result>>

\* main() has been called.
ExitInit ==
    /\ stage = "main" /\ handlers = << >> /\ terminated = 0 /\ step = 0 /\ irq = FALSE
    /\ ring = 3 /\ masked = FALSE /\ access \in {"unknown", "no"} /\ objects = << >> /\ limit = 0 /\ limit0 = 0
    /\ hooked = TRUE /\ keyboard \in BOOLEAN /\ gdb \in BOOLEAN /\ result = "none"

-----------------------------------------------------------------------------
(* ring0_privilege                                                         *)

\* setup()
Reachable == IF access = "unknown" THEN {"yes", "no"} ELSE {access}

Grown == IF limit0 < limit THEN limit ELSE limit0

\* The constructor from ring 3, and inside ring 0; without access it throws, and the mask goes.
EnterRing0 ==
    /\ stage = "main" /\ Len(objects) < MaxNest
    /\ \/ /\ ring = 3
          /\ \E a \in Reachable :
               /\ access' = a
               /\ IF a = "no" THEN UNCHANGED <<ring, masked, objects, limit0>>
                  ELSE /\ ring' = 0 /\ masked' = TRUE /\ objects' = <<FALSE>>
                       /\ limit0' = IF access = "unknown" THEN limit ELSE Grown
       \/ ring = 0 /\ objects' = Append(objects, TRUE) /\ UNCHANGED <<ring, masked, access, limit0>>
    /\ UNCHANGED <<irq, limit, hooked, keyboard, gdb>> /\ UNCHANGED endVars

\* Mutant: every object leaves.
Leaves(dont_leave) == TRUE

LeavesRing0(dont_leave) == ~dont_leave

\* The destructor; the interrupt_mask of the outermost object goes after it.
LeaveRing0 ==
    /\ stage = "main" /\ objects # << >>
    /\ objects' = SubSeq(objects, 1, Len(objects) - 1)
    /\ ring' = (IF LeavesRing0(objects[Len(objects)]) THEN 3 ELSE ring)
    /\ masked' = (Len(objects) > 1)
    /\ UNCHANGED <<irq, access, limit, limit0, hooked, keyboard, gdb>> /\ UNCHANGED endVars

\* The heap grows.
Grow ==
    /\ stage = "main" /\ limit < MaxLimit /\ limit' = limit + 1 /\ ("grow" \in ExitOps \/ ring = 3)
    /\ UNCHANGED <<irq, ring, masked, access, objects, limit0, hooked, keyboard,
                   gdb>> /\ UNCHANGED endVars

BeginOrEndIrq ==
    /\ stage = "main" /\ ~masked /\ irq' = ~irq
    /\ UNCHANGED <<hooked, keyboard, gdb>> /\ UNCHANGED ring0Vars /\ UNCHANGED endVars

-----------------------------------------------------------------------------
(* std::terminate and abort()                                              *)

Begin(handler) == stage' = "cleanup" /\ step' = 1 /\ handlers' = <<handler>> \o handlers

\* terminate_handler(): the second call aborts, the third halts.
Called ==
    /\ terminated' = terminated + 1
    /\ IF terminated = 0 THEN Begin("terminate") /\ UNCHANGED result
       ELSE IF terminated = 1 THEN Begin("abort") /\ UNCHANGED result
       ELSE stage' = "ended" /\ result' = "halted" /\ UNCHANGED <<handlers, step>>

Terminate ==
    /\ stage = "main" /\ Called
    /\ UNCHANGED <<irq, hooked, keyboard, gdb>> /\ UNCHANGED ring0Vars

Abort ==
    /\ stage = "main" /\ Begin("abort")
    /\ UNCHANGED <<terminated, result, irq, hooked, keyboard, gdb>> /\ UNCHANGED ring0Vars

\* Mutant: force_leave() is left out.
StayInRing0 == UNCHANGED ring

ForceLeave == ring' = 3

\* terminate_cleanup(); an exception from any of it is another std::terminate.
Cleanup ==
    /\ stage = "cleanup"
    /\ \/ step = 1 /\ ForceLeave /\ UNCHANGED <<hooked, keyboard>>
       \/ step = 2 /\ UNCHANGED <<ring, hooked, keyboard>>             \* break_with_signal()
       \/ step = 3 /\ hooked' = FALSE /\ UNCHANGED <<ring, keyboard>>
       \/ step = 4 /\ keyboard' = FALSE /\ UNCHANGED <<ring, hooked>>
    /\ step' = step + 1 /\ stage' = (IF step = 4 THEN "after" ELSE stage)
    /\ UNCHANGED <<handlers, terminated, result, irq, gdb, masked, access, objects, limit, limit0>>

CleanupThrows ==
    /\ stage = "cleanup" /\ step \in {2, 4} /\ Called
    /\ UNCHANGED <<irq, hooked, keyboard, gdb>> /\ UNCHANGED ring0Vars

\* The rest of terminate_handler(): _Exit(), or halt() while an interrupt is serviced; and of
\* signal_handler(), which raises the signal again.
AfterCleanup ==
    /\ stage = "after" /\ stage' = "ended"
    /\ result' = IF Head(handlers) = "terminate" /\ irq THEN "halted" ELSE "exited"
    /\ UNCHANGED <<handlers, terminated, step, irq, hooked, keyboard, gdb>> /\ UNCHANGED ring0Vars

\* __wrap_main()'s return, and ~init.
ReturnFromMain ==
    /\ stage = "main" /\ ~irq /\ objects = << >>
    /\ stage' = "ended" /\ result' = "exited" /\ hooked' = FALSE /\ keyboard' = FALSE /\ gdb' = FALSE
    /\ UNCHANGED <<handlers, terminated, step, irq>> /\ UNCHANGED ring0Vars

ExitNext ==
    EnterRing0 \/ LeaveRing0 \/ Grow \/ BeginOrEndIrq \/ Terminate \/ Abort \/ Cleanup
    \/ CleanupThrows \/ AfterCleanup \/ ReturnFromMain

\* The processor goes on.
Fairness == WF_sdVars(Cleanup) /\ WF_sdVars(AfterCleanup)

ExitSpec == ExitInit /\ [][ExitNext]_sdVars /\ Fairness

-----------------------------------------------------------------------------
(* Properties                                                              *)

\* Ring 0 is entered with interrupts off and with segments that reach all memory, and is left with
\* the outermost object, not before.
Ring0Held ==
    stage = "main" => (ring = 0) = (objects # << >>) /\ (ring = 0 => masked /\ limit0 >= limit)

\* The program exits in ring 3, with interrupt 2f given back (main.cpp: "Exit will crash if int 2f
\* is still hooked") and a keyboard that works; it does not exit out of an interrupt by std::terminate.
\* Until then, ring 0 is held as Ring0Held has it.
ExitsClean ==
    /\ result = "exited" => ring = 3 /\ ~hooked /\ ~keyboard /\ (irq => Head(handlers) = "abort")
    /\ Ring0Held

\* However often the clean-up fails, the program ends.
Ends == terminated > 0 ~> stage = "ended"
=============================================================================
