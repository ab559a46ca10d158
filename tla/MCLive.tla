------------------------------ MODULE MCLive --------------------------------
(***************************************************************************)
(* Instances for TLC of the components that owe someone an answer: shared  *)
(* interrupt lines, the RS-232 sender, the Sound Blaster's pages, the      *)
(* serial link to GDB, futures, and the two ways out of a program: threads *)
(* that unwind when one calls terminate(), and std::terminate.  They share *)
(* no state, so one behaviour runs one of them, part.                      *)
(***************************************************************************)
EXTENDS MCIrqController

CONSTANTS None, f1, f2

VARIABLES
    part,       \* the component that runs
    flow, eofOnBreak, rsNextId, fifo, overrun, cts, rsHeld, holds, rsBuf, rsBegin, rsEback, rsGptr,
    rsEgptr, rsNewEnd, rsMarks, rsReader, rsQuiet, rsHandler, canTx, canRx, rt, rsWritten, rsStop,
    rsSent, thr, txIrq, rsTop, rsHigh, rsWarned,
    sbState, sbHandler, sbHigh, pending, card, page, sbIrq, given, starts, pages,
    toStub, toGdb, pc, sends, txbuf, glSent, needAck, received, ctrlC, stopped, glRequest,
    waiting, requests, stops, garbled,
    fuResult, ready, promise, retrieved, atexit, future, kind, doing, taken,
    threads, idCount, thState, suspended, canceled, detached, unwinding, invokeList, atexitList,
    iterator, scan, terminating, handle, stack, raise, killIds, killed, calls, ended,
    stage, handlers, terminated, step, sdIrq, ring, masked, access, objects, limit, limit0,
    hooked, keyboard, gdb, sdResult

Serial == INSTANCE Rs232 WITH
    Flows <- {"continuous", "xon_xoff", "rtr_cts"}, Fifo <- 2, Low <- 2, RsRxMax <- 3,
    RsPutback <- 0, RsTxMax <- 2, RtMax <- 3, RtChars <- 1, RsMaxIn <- 1, RsMaxOut <- 2,
    MaxHold <- 1, RsKinds <- {"good"}, RsOps <- {}
Blaster == INSTANCE SoundBlaster WITH
    Modes <- {"dma8_single", "dma8", "dma8_highspeed"}, MaxStarts <- 3, MaxPages <- 7,
    Ops <- {}, state <- sbState, handler <- sbHandler, high <- sbHigh, irq <- sbIrq
Gdb == INSTANCE GdbLink WITH
    MaxRequests <- 3, MaxStops <- 2, MaxGarbled <- 2, Ops <- {}, sent <- glSent,
    request <- glRequest
Futures == INSTANCE Future WITH
    States <- {"s1"}, Promises <- {"p1", "p2"}, FuThreads <- {"t1", "t2"}, FuOps <- {},
    NoState <- None, result <- fuResult
Threads == INSTANCE Scheduler WITH
    MaxId <- 2, MaxDepth <- 3, Fns <- {f1, f2},
    Ops <- {"cancel", "detach", "throw", "invoke", "drop", "irq", "atexit"}, state <- thState
Exit == INSTANCE Shutdown WITH
    MaxNest <- 0, MaxLimit <- 1, ExitOps <- {}, irq <- sdIrq, result <- sdResult

rsVars == <<flow, eofOnBreak, rsNextId, fifo, overrun, cts, rsHeld, holds, rsBuf, rsBegin, rsEback,
            rsGptr, rsEgptr, rsNewEnd, rsMarks, rsReader, rsQuiet, rsHandler, canTx, canRx, rt,
            rsWritten, rsStop, rsSent, thr, txIrq, rsTop, rsHigh, rsWarned>>
sbVars == <<sbState, sbHandler, sbHigh, pending, card, page, sbIrq, given, starts, pages>>
glVars == <<toStub, toGdb, pc, sends, txbuf, glSent, needAck, received, ctrlC, stopped,
            glRequest, waiting, requests, stops, garbled>>
fuVars == <<fuResult, ready, promise, retrieved, atexit, future, kind, doing, taken>>
thVars == <<threads, idCount, thState, suspended, canceled, detached, unwinding, invokeList,
            atexitList, iterator, scan, terminating, handle, stack, raise, killIds, killed,
            calls, ended>>
sdVars == <<stage, handlers, terminated, step, sdIrq, ring, masked, access, objects, limit,
            limit0, hooked, keyboard, gdb, sdResult>>

Parts == {"irq", "rs232", "soundblaster", "gdb_link", "future", "scheduler", "shutdown"}

LiveInit ==
    /\ part \in Parts
    /\ Init
    /\ Serial!RsInit /\ eofOnBreak
    /\ part # "rs232" => flow = "continuous"
    /\ Blaster!Init
    /\ Gdb!Init
    /\ Futures!FuInit
    /\ Threads!Init
    /\ Exit!ExitInit
    /\ part # "shutdown" => access = "no" /\ ~keyboard /\ ~gdb

LiveNext ==
    \/ part = "irq" /\ Next
       /\ UNCHANGED <<part, rsVars, sbVars, glVars, fuVars, thVars, sdVars>>
    \/ part = "rs232" /\ Serial!RsNext
       /\ UNCHANGED <<part, vars, sbVars, glVars, fuVars, thVars, sdVars>>
    \/ part = "soundblaster" /\ Blaster!Next
       /\ UNCHANGED <<part, vars, rsVars, glVars, fuVars, thVars, sdVars>>
    \/ part = "gdb_link" /\ Gdb!Next
       /\ UNCHANGED <<part, vars, rsVars, sbVars, fuVars, thVars, sdVars>>
    \/ part = "future" /\ Futures!FuNext
       /\ UNCHANGED <<part, vars, rsVars, sbVars, glVars, thVars, sdVars>>
    \/ part = "scheduler" /\ Threads!Next
       /\ UNCHANGED <<part, vars, rsVars, sbVars, glVars, fuVars, sdVars>>
    \/ part = "shutdown" /\ Exit!ExitNext
       /\ UNCHANGED <<part, vars, rsVars, sbVars, glVars, fuVars, thVars>>

\* The fairness of Rs232 and Scheduler, whose first states have something to do also where another
\* component runs.
SerialFairness ==
    /\ WF_rsVars(part = "rs232" /\ Serial!Handling)
    /\ SF_rsVars(part = "rs232" /\ Serial!PeerHandled)
    /\ WF_rsVars(part = "rs232" /\ Serial!Reading)
    /\ WF_rsVars(part = "rs232" /\ Serial!Transmitted)
    /\ WF_rsVars(part = "rs232" /\ Serial!GoOn)

ThreadFairness ==
    /\ WF_thVars(part = "scheduler" /\ Threads!SwitchThread)
    /\ WF_thVars(part = "scheduler" /\ Threads!Kill)
    /\ \A c \in Threads!Ids :
        /\ WF_thVars(part = "scheduler" /\ Threads!Library(c))
        /\ WF_thVars(part = "scheduler" /\ Threads!Runs(c, {"body"})
                        /\ (Threads!Yield(c) \/ Threads!BodyEnds(c)))
        /\ SF_thVars(part = "scheduler" /\ Threads!Runs(c, {"clean"})
                        /\ \/ Threads!BodyEnds(c)
                           \/ \E d \in Threads!Ids : Threads!Join(c, d) \/ Threads!DropHandle(c, d))

LiveSpec ==
    /\ LiveInit /\ [][LiveNext]_<<part, vars, rsVars, sbVars, glVars, fuVars, thVars, sdVars>>
    /\ WF_vars(Handling) /\ SerialFairness /\ ThreadFairness
    /\ Blaster!Fairness /\ Gdb!Fairness /\ Futures!Fairness /\ Exit!Fairness
-----------------------------------------------------------------------------
\* irq.cpp: every request of a device is served, also by a chained handler, and no line stays in
\* service or masked for ever.
RequestsServed == Served /\ BiosServed

\* rs232.cpp, soundblaster.cpp: flushed characters are sent, and a peer held by XOFF gets its XON;
\* a stopped playback comes to its end, and until then the program is not given the page that is
\* playing.
TransfersEnd == Serial!AllSent /\ Serial!PeerGoesOn /\ Blaster!StopEnds /\ []Blaster!PageFree

\* debug.cpp: on a line that garbles packets, every question and every packet is answered.
Answered == Gdb!Answered

\* future.h: get() ends: every promise is kept or broken, whoever has it by then.
GetEnds == Futures!GetEnds

\* thread.h, main.cpp: after terminate(), or std::terminate, the program ends, however often
\* clean-up fails; functions queued on a thread that goes on are called.
ProgramEnds == Threads!TerminatingExits /\ Threads!InvokedRuns /\ Exit!Ends
=============================================================================
