----------------------------- MODULE GdbThreads -----------------------------
(***************************************************************************)
(* Threads, signals and watchpoints in the GDB stub (debug.cpp): the       *)
(* thread_info of each thread, stop_reply(), the loop of                   *)
(* handle_exception() that answers packets while a thread is stopped, the  *)
(* packets that choose threads and actions, and the reports of threads     *)
(* that begin and end.                                                     *)
(***************************************************************************)
EXTENDS Naturals

CONSTANTS
    Threads, Main, None,
    WatchAddrs, Slots,  \* addresses that GDB watches; max_watchpoints, as a set of numbers
    GtOps               \* "late": ^C while the end of a thread is reported; "elsewhere": signals
                        \* from GDB for threads that have not stopped;
                        \* "both": Z3 and Z4 at one address; "reconnect": another GDB connects

Reports == {None, "packet", "trap", "fault", "int", "started", "finished"}
Infos == [signal : Reports, stopped : BOOLEAN, stepping : BOOLEAN, ignore : BOOLEAN, invalid : BOOLEAN]

ASSUME GtAssumption ==
    /\ Main \in Threads /\ None \notin Threads /\ None \notin Infos
    /\ None \notin {"packet", "trap", "fault", "int", "started", "finished"}
    /\ None \notin {"write", "read_write"} \X WatchAddrs

VARIABLES
    life,             \* "new", "alive", "ending" or "dead"
    gtCurrent, phase, \* current_thread(); "run", "packet", "stop" (in the loop) or "end"
    info,             \* debug_info: a thread_info, or None
    gtQuery, events, passed, ctrlc, killed,
    watchpoints,
    said,             \* ghost: how GDB, or PassSignals, let the current thread go on
    lost,             \* ghost: a fault went to the program, or did not, against what was said
    known, exact,     \* ghosts: GDB's list of threads, and whether events keep it
    inserted          \* ghost: the watchpoints that GDB has set

gtVars == <<life, gtCurrent, phase, info, gtQuery, events, passed, ctrlc, killed, watchpoints,
            said, lost, known, exact, inserted>>

NewInfo == [signal |-> None, stopped |-> FALSE, stepping |-> FALSE, ignore |-> TRUE, invalid |-> FALSE]

\* setup_gdb_interface(), and the breakpoint that lets GDB connect.
GtInit ==
    /\ life = [t \in Threads |-> IF t = Main THEN "alive" ELSE "new"] /\ gtCurrent = Main
    /\ info = [t \in Threads |-> IF t = Main THEN [NewInfo EXCEPT !.signal = "trap", !.stopped = TRUE] ELSE None]
    /\ phase = "stop" /\ gtQuery = Main /\ events = FALSE /\ passed = {} /\ ctrlc = FALSE /\ killed = FALSE
    /\ watchpoints = [i \in Slots |-> None] /\ inserted = {}
    /\ said = None /\ lost = FALSE /\ known = {Main} /\ exact = FALSE

-----------------------------------------------------------------------------
(* Signals                                                                 *)

Posix(signal) ==
    CASE signal = "trap" -> "SIGTRAP" [] signal = "fault" -> "SIGSEGV" [] signal = "int" -> "SIGINT"
      [] signal \in {"started", "finished"} -> "SIGSTOP" [] OTHER -> "0"

IsFault(signal) == signal \in {"trap", "fault"}
IsStop(signal) == signal \notin {"packet", None}

AllThreads == {t \in Threads : info[t] # None}

\* stop_reply() for the current thread with information i: GDB passes the signal, or hears of it.
StopReply(i) ==
    IF ~IsStop(i.signal)
    THEN info' = [info EXCEPT ![gtCurrent'] = i] /\ UNCHANGED <<gtQuery, known, said>>
    ELSE IF Posix(i.signal) \in passed /\ ~i.stepping
    THEN /\ info' = [info EXCEPT ![gtCurrent'] = [i EXCEPT !.ignore = FALSE, !.invalid = FALSE]]
         /\ said' = Posix(i.signal) /\ UNCHANGED <<gtQuery, known>>
    ELSE /\ info' = [info EXCEPT ![gtCurrent'] = [i EXCEPT !.stopped = TRUE]]
         /\ gtQuery' = gtCurrent' /\ said' = None
         /\ known' = (IF i.signal = "finished" THEN known \ {gtCurrent'} ELSE known \cup {gtCurrent'})

\* handle_exception() with this signal: the loop begins.
EnterLoop(i, signal, next) ==
    /\ StopReply([i EXCEPT !.signal = signal])
    /\ phase' = next
    /\ UNCHANGED <<events, passed, killed, watchpoints, lost, exact, inserted>>

\* Mutant: a signal other than the one that was reported is taken for it.
SetAnyAction(i, a) ==
    [i EXCEPT !.stopped = FALSE, !.stepping = a.kind \in {"s", "S"},
              !.ignore = a.kind \in {"c", "s"}, !.invalid = FALSE]

SetAction(i, a) ==
    [i EXCEPT !.stopped = FALSE, !.stepping = a.kind \in {"s", "S"}, !.ignore = a.kind \in {"c", "s"},
              !.invalid = a.kind \in {"C", "S"} /\ Posix(i.signal) # a.signal]

-----------------------------------------------------------------------------
(* The program                                                             *)

program == phase = "run" /\ life[gtCurrent] \in {"alive", "ending"}

\* create_thread(), in the new thread.
CreateThread(t) ==
    /\ program /\ life[gtCurrent] = "alive" /\ life[t] = "new"
    /\ life' = [life EXCEPT ![t] = "alive"] /\ gtCurrent' = t
    /\ IF events THEN EnterLoop(NewInfo, "started", "stop")
       ELSE /\ info' = [info EXCEPT ![t] = NewInfo]
            /\ UNCHANGED <<phase, gtQuery, events, passed, killed, watchpoints, said, lost, known,
                           exact, inserted>>
    /\ UNCHANGED ctrlc

Switch(t) ==
    /\ program /\ life[gtCurrent] = "alive" /\ life[t] = "alive" /\ t # gtCurrent /\ gtCurrent' = t
    /\ UNCHANGED <<life, phase, info, gtQuery, events, passed, ctrlc, killed, watchpoints, said,
                   lost, known, exact, inserted>>

\* An exception, or csignal().
Exception(signal) ==
    /\ program /\ (life[gtCurrent] = "ending" => "late" \in GtOps) /\ (signal = "trap" => info[gtCurrent].stepping)
    /\ UNCHANGED gtCurrent /\ EnterLoop(info[gtCurrent], signal, "stop")
    /\ UNCHANGED <<life, ctrlc>>

\* Mutant: the thread stays selected.
ForgetOnly(t) == info' = [info EXCEPT ![t] = None] /\ UNCHANGED gtQuery

Forget(t) ==
    /\ info' = [info EXCEPT ![t] = None]
    /\ gtQuery' = IF gtQuery = t THEN None ELSE gtQuery

\* destroy_thread(): the report, ...
FinishThread ==
    /\ program /\ events /\ life[gtCurrent] = "alive" /\ gtCurrent # Main
    /\ life' = [life EXCEPT ![gtCurrent] = "ending"] /\ UNCHANGED <<gtCurrent, ctrlc>>
    /\ EnterLoop(info[gtCurrent], "finished", "stop")

\* ... and the rest of it, up to the next yield().
DestroyThread ==
    /\ program /\ gtCurrent # Main /\ (life[gtCurrent] = "alive" => ~events)
    /\ life' = [life EXCEPT ![gtCurrent] = "dead"]
    /\ Forget(gtCurrent) /\ gtCurrent' = Main
    /\ UNCHANGED <<phase, events, passed, ctrlc, killed, watchpoints, said, lost, known, exact,
                   inserted>>

\* The serial interrupt raises irq_signal: for ^C, and for a packet.
BreakIn ==
    /\ program /\ (life[gtCurrent] = "ending" => "late" \in GtOps)
    /\ ctrlc' = TRUE /\ UNCHANGED <<gtCurrent, life>> /\ EnterLoop(info[gtCurrent], "packet", "stop")

PacketReceived ==
    /\ program /\ (life[gtCurrent] = "ending" => "late" \in GtOps)
    /\ UNCHANGED <<gtCurrent, life, ctrlc>> /\ EnterLoop(info[gtCurrent], "packet", "packet")

-----------------------------------------------------------------------------
(* Packets                                                                 *)

GtAsks == phase = "packet" \/ (phase = "stop" /\ info[gtCurrent].stopped)
GtHandled == GtAsks /\ phase' = "stop" /\ UNCHANGED <<life, gtCurrent, lost>>

Actions == [kind : {"c", "s"}, signal : {"0"}] \cup [kind : {"C", "S"}, signal : {"SIGSEGV", "SIGINT"}]

\* GDB signals only threads that have stopped.
Sensible(t, a) == "elsewhere" \in GtOps \/ a.kind \in {"c", "s"} \/ IsStop(info[t].signal)

\* vCont: one thread's action, and the default.
Continue(t, a) ==
    /\ GtHandled /\ ~killed /\ t \in known \cap AllThreads /\ Sensible(t, a)
    /\ info' = [u \in Threads |-> IF info[u] = None THEN None
                                  ELSE SetAction(info[u], IF u = t THEN a ELSE [kind |-> "c", signal |-> "0"])]
    /\ said' = (IF t = gtCurrent THEN a.signal ELSE "0")
    /\ UNCHANGED <<gtQuery, events, passed, ctrlc, killed, watchpoints, known, exact, inserted>>

\* Hg; t is None for "all threads".
SelectThread(t) ==
    /\ GtHandled /\ gtQuery' = (IF t = None THEN gtCurrent ELSE IF info[t] = None THEN None ELSE t)
    /\ UNCHANGED <<info, events, passed, ctrlc, killed, watchpoints, said, known, exact, inserted>>

\* qfThreadInfo
ListThreads ==
    /\ GtHandled /\ info[gtCurrent].signal # "finished" /\ known' = AllThreads /\ exact' = events
    /\ UNCHANGED <<info, gtQuery, events, passed, ctrlc, killed, watchpoints, said, inserted>>

\* QThreadEvents
SetEvents(on) ==
    /\ GtHandled /\ events' = on /\ exact' = (exact /\ on)
    /\ UNCHANGED <<info, gtQuery, passed, ctrlc, killed, watchpoints, said, known, inserted>>

\* QPassSignals
PassSignals(signals) ==
    /\ GtHandled /\ passed' = signals
    /\ UNCHANGED <<info, gtQuery, events, ctrlc, killed, watchpoints, said, known, exact, inserted>>

\* k: the exception is redirected to kill().
Kill ==
    /\ GtHandled /\ ~killed /\ killed' = TRUE
    /\ info' = [t \in Threads |-> IF info[t] = None THEN None
                                  ELSE [info[t] EXCEPT !.stopped = FALSE, !.stepping = FALSE,
                                                       !.invalid = FALSE, !.ignore = TRUE]]
    /\ said' = "0"
    /\ UNCHANGED <<gtQuery, events, passed, ctrlc, watchpoints, known, exact, inserted>>

Type(z) == IF z = "Z2" THEN "write" ELSE "read_write"

\* Z2, Z3, Z4; the DPMI host may refuse one.
InsertWatchpoint(z, a) ==
    /\ GtHandled /\ <<z, a>> \notin inserted
    /\ "both" \in GtOps \/ \A w \in inserted : w[2] = a => Type(w[1]) # Type(z)
    /\ \E i \in Slots : watchpoints[i] = None /\ (\A j \in Slots : j < i => watchpoints[j] # None)
          /\ watchpoints' = [watchpoints EXCEPT ![i] = <<Type(z), a>>]
    /\ inserted' = inserted \cup {<<z, a>>}
    /\ UNCHANGED <<info, gtQuery, events, passed, ctrlc, killed, said, known, exact>>

\* Mutant: only the first slot is looked at.
EmptyFirst(z, a) ==
    watchpoints' = [i \in Slots |-> IF watchpoints[i] = <<Type(z), a>> /\ (\A j \in Slots : i <= j) THEN None ELSE watchpoints[i]]

EmptySlots(z, a) ==
    watchpoints' = [i \in Slots |-> IF watchpoints[i] = <<Type(z), a>> THEN None ELSE watchpoints[i]]

\* z2, z3, z4
RemoveWatchpoint(z, a) ==
    /\ GtHandled /\ <<z, a>> \in inserted /\ inserted' = inserted \ {<<z, a>>} /\ EmptySlots(z, a)
    /\ UNCHANGED <<info, gtQuery, events, passed, ctrlc, killed, said, known, exact>>

\* qSupported: the breakpoints are cleared (module GdbStops), and nothing else.
Reconnect ==
    /\ GtHandled /\ ("reconnect" \in GtOps \/ inserted = {}) /\ inserted' = {}
    /\ UNCHANGED <<info, gtQuery, events, passed, ctrlc, killed, watchpoints, said, known, exact>>

\* ^C while the loop runs.
CtrlC ==
    /\ phase = "stop" /\ ~killed /\ ctrlc' = TRUE
    /\ life[gtCurrent] = "ending" => "late" \in GtOps
    /\ UNCHANGED <<life, gtCurrent, phase, info, gtQuery, events, passed, killed, watchpoints, said,
                   lost, known, exact, inserted>>

-----------------------------------------------------------------------------
(* The end of the loop                                                     *)

\* stop_again
StopAgain ==
    /\ phase = "stop" /\ ~info[gtCurrent].stopped /\ (ctrlc \/ info[gtCurrent].invalid)
    /\ ctrlc' = FALSE /\ UNCHANGED gtCurrent
    /\ EnterLoop(info[gtCurrent], IF ctrlc THEN "int" ELSE info[gtCurrent].signal, "stop")
    /\ UNCHANGED life

Delivered(i) == ~i.ignore /\ IsFault(i.signal)

LeaveLoop ==
    /\ phase = "stop" /\ ~info[gtCurrent].stopped /\ ~ctrlc /\ ~info[gtCurrent].invalid
    /\ phase' = (IF killed THEN "end" ELSE "run")
    /\ lost' = (lost \/ (IsFault(info[gtCurrent].signal)
                         /\ Delivered(info[gtCurrent]) # (said = Posix(info[gtCurrent].signal))))
    /\ info' = [info EXCEPT ![gtCurrent].signal = None]
    /\ UNCHANGED <<life, gtCurrent, gtQuery, events, passed, ctrlc, killed, watchpoints, said, known,
                   exact, inserted>>

GtNext ==
    \/ FinishThread \/ DestroyThread \/ BreakIn \/ PacketReceived \/ ListThreads \/ Kill \/ Reconnect \/ CtrlC
    \/ StopAgain \/ LeaveLoop
    \/ \E t \in Threads : CreateThread(t) \/ Switch(t)
    \/ \E signal \in {"fault", "trap", "int"} : Exception(signal)
    \/ \E t \in Threads, a \in Actions : Continue(t, a)
    \/ \E t \in Threads \cup {None} : SelectThread(t)
    \/ \E on \in BOOLEAN : SetEvents(on)
    \/ \E signals \in SUBSET {"SIGSEGV"} : PassSignals(signals)
    \/ \E z \in {"Z2", "Z3", "Z4"}, a \in WatchAddrs : InsertWatchpoint(z, a) \/ RemoveWatchpoint(z, a)

GtSpec == GtInit /\ [][GtNext]_gtVars

-----------------------------------------------------------------------------
(* Properties                                                              *)

\* A fault goes to the program exactly when GDB resumes the thread with that very signal, or has
\* asked for it to be passed; and a thread that has nothing to report leaves the loop.
SignalsDelivered ==
    /\ ~lost
    /\ phase = "stop" /\ ~info[gtCurrent].stopped /\ info[gtCurrent].invalid =>
         ctrlc \/ IsStop(info[gtCurrent].signal)

\* The thread that registers are read from and written to exists; and while thread events are on,
\* the reports keep GDB's list of threads right.
ThreadsKnown ==
    /\ gtQuery = None \/ gtQuery \in AllThreads
    /\ phase = "stop" /\ exact /\ info[gtCurrent].stopped =>
         known = {t \in AllThreads : ~(t = gtCurrent /\ info[t].signal = "finished")}

\* The processor watches what GDB has set and not removed.
WatchpointsKept == {<<Type(w[1]), w[2]>> : w \in inserted} = {watchpoints[i] : i \in Slots} \ {None}
=============================================================================
