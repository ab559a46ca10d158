------------------------------ MODULE Scheduler ------------------------------
(***************************************************************************)
(* The cooperative scheduler of jwdpmi (src/src/scheduler.cpp,             *)
(* include/jw/detail/scheduler.h, include/jw/thread.h).  One processor     *)
(* runs one thread until it calls yield(); switch_thread() then walks the  *)
(* thread set round-robin, destroys what has finished and is detached, and *)
(* resumes the next runnable thread inside its own do_yield().  Interrupt  *)
(* handlers run between any two steps and may queue functions on threads.  *)
(*                                                                         *)
(* A thread's C++ call stack is abstracted to the frames that matter here; *)
(* stack[t][1] is the innermost one.  The programs that threads run are    *)
(* arbitrary: Ops names the library calls they may make.                   *)
(***************************************************************************)
EXTENDS Naturals, Sequences, FiniteSets

CONSTANTS
    MaxId,      \* bound: the largest thread id a behaviour creates
    MaxDepth,   \* bound: the stack depth at which an invoked function may still yield
    Fns,        \* function objects given to invoke*() and atexit()
    Ops         \* which optional library calls the threads' programs make

ASSUME BoundsAssumption == MaxId \in Nat \ {0} /\ MaxDepth \in Nat

Ids  == 1..MaxId
Main == 1                   \* thread::main_thread_id

States == {"starting", "running", "finishing", "finished"}

(***************************************************************************)
(* A frame is a label and a number: for "join" the id waited for, for      *)
(* "yield" whether the terminating flag was already tested, for "clean"    *)
(* and "exit" what is being unwound (see Normal, Exc, Forced).             *)
(***************************************************************************)
Labels == {"start", "body", "clean", "yield", "safe", "join", "fn",
           "hook", "exit", "kill", "wait", "dead"}
Frames == Labels \X (0..MaxId \cup {0, 1, 2})

Normal == 0
Exc    == 1                 \* a C++ exception
Forced == 2                 \* abi::__forced_unwind

VARIABLES
    threads,     \* the ids in scheduler::threads (a std::set ordered by id)
    idCount,     \* thread::id_count
    state,       \* thread::state
    suspended,   \* the ids with thread::suspended set
    canceled,    \* the ids with thread::canceled set
    detached,    \* the ids with thread::detached set
    unwinding,   \* the ids with thread::unwinding set
    invokeList,  \* thread::invoke_list
    atexitList,  \* thread::atexit_list
    iterator,    \* the id *scheduler::iterator points at: current_thread()
    scan,        \* control is inside switch_thread()'s do-while loop
    terminating, \* the static flag of the same name
    handle,      \* handle[t]: the thread whose jw::thread object has ptr = t, or 0
    stack,       \* call stacks
    raise,       \* what is propagating out of stack[t][1]: Normal, Exc or Forced
    killIds,     \* the ids kill_all() still waits for
    killed,      \* the ids kill_all() cancelled (history)
    calls,       \* calls[f]: how often f was called (history, capped at 2)
    ended        \* "no", "exited" (main returned) or "aborted" (std::terminate)

flagVars == <<suspended, canceled, detached, unwinding>>
listVars == <<invokeList, atexitList, calls>>
killVars == <<killIds, killed>>
vars == <<threads, idCount, state, suspended, canceled, detached, unwinding,
          invokeList, atexitList, iterator, scan, terminating, handle, stack,
          raise, killIds, killed, calls, ended>>

-----------------------------------------------------------------------------

Init ==     \* scheduler::setup(), called before main()
    /\ threads = {Main}
    /\ idCount = 2
    /\ state = [t \in Ids |-> IF t = Main THEN "running" ELSE "starting"]
    /\ suspended = {} /\ canceled = {} /\ detached = {} /\ unwinding = {}
    /\ invokeList = [t \in Ids |-> <<>>]
    /\ atexitList = [t \in Ids |-> <<>>]
    /\ iterator = Main
    /\ scan = FALSE
    /\ terminating = FALSE
    /\ handle = [t \in Ids |-> 0]
    /\ stack = [t \in Ids |-> <<IF t = Main THEN <<"body", 0>> ELSE <<"start", 0>> >>]
    /\ raise = [t \in Ids |-> Normal]
    /\ killIds = {} /\ killed = {}
    /\ calls = [f \in Fns |-> 0]
    /\ ended = "no"

Active(t) == state[t] # "finished"
Top(t)    == stack[t][1]
Under(t)  == Tail(stack[t])

\* std::uncaught_exceptions() > 0 on t: a destructor runs because of a C++ exception.
UncaughtExc(t) == \E i \in 1..Len(stack[t]) : stack[t][i] \in {<<"clean", Exc>>, <<"exit", Exc>>}

\* Mutant: do_yield() starts a forced unwind inside a forced unwind.
MayUnwindNested(t) == ~UncaughtExc(t)

\* forced_unwind() may be started on t by do_yield().
MayUnwind(t) == t \notin unwinding /\ ~UncaughtExc(t)

\* Thread c has the processor, its innermost frame is one of ls, and nothing propagates.
Runs(c, ls) ==
    /\ ended = "no" /\ ~scan
    /\ c = iterator
    /\ raise[c] = Normal
    /\ stack[c] # <<>> /\ Top(c)[1] \in ls

Push(c, fr)    == stack' = [stack EXCEPT ![c] = <<fr>> \o @]
Pop(c)         == stack' = [stack EXCEPT ![c] = Tail(@)]
Replace(c, fr) == stack' = [stack EXCEPT ![c] = <<fr>> \o Tail(@)]

-----------------------------------------------------------------------------
(* Library calls made by the program of the current thread.                *)

\* Mutant: the id is taken from ++id_count.
CreatePreIncrement(c) ==
    /\ Runs(c, {"body"})
    /\ idCount \in Ids
    /\ threads' = threads \cup {idCount + 1}
    /\ handle' = [handle EXCEPT ![idCount + 1] = c]
    /\ idCount' = idCount + 1
    /\ UNCHANGED <<state, flagVars, listVars, iterator, scan, terminating, stack, raise,
                   killVars, ended>>

\* scheduler::create_thread(), through jw::thread's constructor.
Create(c) ==
    /\ Runs(c, {"body"})
    /\ idCount \in Ids
    /\ threads' = threads \cup {idCount}
    /\ handle' = [handle EXCEPT ![idCount] = c]
    /\ idCount' = idCount + 1
    /\ UNCHANGED <<state, flagVars, listVars, iterator, scan, terminating, stack, raise,
                   killVars, ended>>

\* thread::cancel()
Cancel(c, t) ==
    /\ "cancel" \in Ops /\ Runs(c, {"body"}) /\ handle[t] = c
    /\ t \notin canceled
    /\ canceled' = canceled \cup {t}
    /\ UNCHANGED <<threads, idCount, state, suspended, detached, unwinding, listVars, iterator,
                   scan, terminating, handle, stack, raise, killVars, ended>>

\* thread::detach(): sets the flag and forgets the pointer.
Detach(c, t) ==
    /\ "detach" \in Ops /\ Runs(c, {"body"}) /\ handle[t] = c
    /\ detached' = detached \cup {t}
    /\ handle' = [handle EXCEPT ![t] = 0]
    /\ UNCHANGED <<threads, idCount, state, suspended, canceled, unwinding, listVars, iterator,
                   scan, terminating, stack, raise, killVars, ended>>

\* Mutant: join() does not detach, so the thread is never erased.
JoinAttached(c, t) ==
    /\ "join" \in Ops /\ Runs(c, {"body", "clean"}) /\ handle[t] = c
    /\ Push(c, <<"join", t>>)
    /\ suspended' = suspended \ {t}
    /\ handle' = [handle EXCEPT ![t] = 0]
    /\ UNCHANGED <<threads, idCount, state, canceled, detached, unwinding, listVars, iterator,
                   scan, terminating, raise, killVars, ended>>

\* thread::join(): resume(), detach(), then wait for the thread to leave the set.
Join(c, t) ==
    /\ "join" \in Ops /\ Runs(c, {"body", "clean"}) /\ handle[t] = c
    /\ Push(c, <<"join", t>>)
    /\ suspended' = suspended \ {t}
    /\ detached' = detached \cup {t}
    /\ handle' = [handle EXCEPT ![t] = 0]
    /\ UNCHANGED <<threads, idCount, state, canceled, unwinding, listVars, iterator, scan,
                   terminating, raise, killVars, ended>>

\* One round of join()'s yield_while: get_thread(id) != nullptr
JoinWait(c) ==
    /\ Runs(c, {"join"})
    /\ IF Top(c)[2] \in threads
       THEN Push(c, <<"yield", 0>>) /\ scan' = TRUE
       ELSE Pop(c) /\ scan' = scan
    /\ UNCHANGED <<threads, idCount, state, flagVars, listVars, iterator, terminating, handle,
                   raise, killVars, ended>>

\* native_handle()->suspend() and resume()
Suspend(c, t) ==
    /\ "suspend" \in Ops /\ Runs(c, {"body"}) /\ handle[t] = c
    /\ \/ suspended' = suspended \cup {t}
       \/ suspended' = suspended \ {t}
    /\ suspended' # suspended
    /\ UNCHANGED <<threads, idCount, state, canceled, detached, unwinding, listVars, iterator,
                   scan, terminating, handle, stack, raise, killVars, ended>>

\* ~thread() of a joinable jw::thread: terminate(), which starts a forced unwind.
\* A destructor that throws while the stack is being unwound ends in std::terminate().
DropHandle(c, t) ==
    /\ "drop" \in Ops /\ Runs(c, {"body", "clean"}) /\ handle[t] = c
    /\ handle' = [handle EXCEPT ![t] = 0]
    /\ terminating' = TRUE
    /\ IF Top(c)[1] = "clean"
       THEN ended' = "aborted" /\ UNCHANGED <<raise, unwinding>>
       ELSE /\ raise' = [raise EXCEPT ![c] = Forced]
            /\ unwinding' = unwinding \cup {c}
            /\ UNCHANGED ended
    /\ UNCHANGED <<threads, idCount, state, suspended, canceled, detached, listVars, iterator,
                   scan, stack, killVars>>

Fresh(f) == /\ calls[f] = 0
            /\ \A t \in Ids : \A i \in 1..Len(invokeList[t]) : invokeList[t][i] # f
            /\ \A t \in Ids : \A i \in 1..Len(atexitList[t]) : atexitList[t][i] # f

Called(f) == calls' = [calls EXCEPT ![f] = IF @ < 2 THEN @ + 1 ELSE @]

First == CHOOSE u \in threads : \A v \in threads : u <= v
Later(t) == {u \in threads : u > t}

\* Mutant: the search for the next thread starts at begin() every time.
NextIdFromBegin(t) == First

\* The successor of id t in the set, wrapping around: ++it, or begin() at end().
NextId(t) == IF Later(t) = {} THEN First
             ELSE CHOOSE u \in Later(t) : \A v \in Later(t) : u <= v

Enqueue(t, f) == invokeList' = [invokeList EXCEPT ![t] = Append(@, f)]

\* thread::invoke() through a handle, and invoke_main() and invoke_next() outside interrupts.
Invoke(c, f) ==
    /\ "invoke" \in Ops /\ Runs(c, {"body"}) /\ Fresh(f)
    /\ \/ \E t \in Ids : handle[t] = c /\ Enqueue(t, f) /\ UNCHANGED calls
       \/ c = Main /\ Called(f) /\ UNCHANGED invokeList         \* invoke_main on main: a call
       \/ c # Main /\ Enqueue(First, f) /\ UNCHANGED calls      \* invoke_main
       \/ Enqueue(NextId(iterator), f) /\ UNCHANGED calls       \* invoke_next
    /\ UNCHANGED <<threads, idCount, state, flagVars, atexitList, iterator, scan, terminating,
                   handle, stack, raise, killVars, ended>>

\* current_thread()->atexit(f), as promise::set_value_at_thread_exit() does.
AtExit(c, f) ==
    /\ "atexit" \in Ops /\ Runs(c, {"body"}) /\ Fresh(f)
    /\ atexitList' = [atexitList EXCEPT ![c] = Append(@, f)]
    /\ UNCHANGED <<threads, idCount, state, flagVars, invokeList, calls, iterator, scan,
                   terminating, handle, stack, raise, killVars, ended>>

\* The program yields: scheduler::yield(), or safe_yield() from inside a libc call.
\* A function run by the invoke loop, and an atexit handler, yield only if Ops says so.
Yield(c) ==
    /\ \/ Runs(c, {"body", "clean"})
       \/ "fnyield" \in Ops /\ Runs(c, {"fn", "hook"}) /\ Len(stack[c]) < MaxDepth
    /\ \/ Push(c, <<"yield", 0>>)
       \/ "safe" \in Ops /\ Push(c, <<"safe", 0>>)
    /\ scan' = TRUE
    /\ UNCHANGED <<threads, idCount, state, flagVars, listVars, iterator, terminating, handle,
                   raise, killVars, ended>>

\* The program throws a C++ exception that its own thread's code does not catch.
Throw(c) ==
    /\ \/ "throw" \in Ops /\ Runs(c, {"body"})
       \/ "fnthrow" \in Ops /\ Runs(c, {"fn", "hook"})
    /\ raise' = [raise EXCEPT ![c] = Exc]
    /\ UNCHANGED <<threads, idCount, state, flagVars, listVars, iterator, scan, terminating,
                   handle, stack, killVars, ended>>

\* User code catches what is unwinding it and goes on.  For a forced unwind that is
\* catch (...) without rethrow, which makes the runtime call cleanup_forced_unwind().
Swallow(c) ==
    /\ "swallow" \in Ops /\ Runs(c, {"clean"})
    /\ Replace(c, <<"body", 0>>)
    /\ IF Top(c)[2] = Forced /\ c \in unwinding
       THEN /\ terminating' = TRUE
            /\ ended' = IF terminating THEN "aborted" ELSE ended
       ELSE UNCHANGED <<terminating, ended>>
    /\ UNCHANGED <<threads, idCount, state, flagVars, listVars, iterator, scan, handle, raise,
                   killVars>>

-----------------------------------------------------------------------------
(* do_yield() and switch_thread()                                          *)

\* Mutants: a detached thread is erased while it is active; a finished one while attached.
ErasableActive(t)   == t \in detached
ErasableAttached(t) == ~Active(t)

\* switch_thread() destroys the thread it leaves.
Erasable(t) == ~Active(t) /\ t \in detached

\* One iteration of switch_thread()'s loop, interrupts enabled between iterations.
\* erase(it) yields the successor, as ++it does.  A starting thread gets its context here.
SwitchThread ==
    /\ ended = "no" /\ scan
    /\ LET nxt == NextId(iterator)
       IN /\ iterator' = nxt
          /\ scan' = (nxt \in suspended \/ ~Active(nxt))
    /\ threads' = IF Erasable(iterator) THEN threads \ {iterator} ELSE threads
    /\ UNCHANGED <<idCount, state, flagVars, listVars, terminating, handle, stack, raise,
                   killVars, ended>>

\* The first resumption of a thread enters run_thread().
RunThread(c) ==
    /\ Runs(c, {"start"})
    /\ state' = [state EXCEPT ![c] = "running"]
    /\ Replace(c, <<"body", 0>>)
    /\ UNCHANGED <<threads, idCount, flagVars, listVars, iterator, scan, terminating, handle,
                   raise, killVars, ended>>

\* forced_unwind(): from here on the frames of c are unwound one by one.
ForcedUnwind(c) ==
    /\ raise' = [raise EXCEPT ![c] = Forced]
    /\ unwinding' = unwinding \cup {c}
    /\ UNCHANGED <<threads, idCount, state, suspended, canceled, detached, listVars, iterator,
                   scan, terminating, handle, stack, killVars, ended>>

\* Mutant: the test of ct->unwinding is inverted.
TerminateNowInverted(c) == terminating /\ c \in unwinding

TerminateNow(c) == terminating /\ MayUnwind(c)

\* do_yield() after the context switch: the terminating test (yield() only) ...
ResumeTerminating(c) ==
    /\ Runs(c, {"yield"}) /\ Top(c)[2] = 0
    /\ IF TerminateNow(c)
       THEN ForcedUnwind(c)
       ELSE /\ Replace(c, <<"yield", 1>>)
            /\ UNCHANGED <<threads, idCount, state, flagVars, listVars, iterator, scan,
                           terminating, handle, raise, killVars, ended>>

PastTerminating(c) == Top(c) \in {<<"yield", 1>>, <<"safe", 0>>}

\* Mutant: the function is popped before the call, and the guard pops again.
CallInvokedPopped(c) ==
    /\ Runs(c, {"yield", "safe"}) /\ PastTerminating(c)
    /\ invokeList[c] # <<>>
    /\ Push(c, <<"fn", 0>>)
    /\ Called(Head(invokeList[c]))
    /\ invokeList' = [invokeList EXCEPT ![c] = Tail(@)]
    /\ UNCHANGED <<threads, idCount, state, flagVars, atexitList, iterator, scan, terminating,
                   handle, raise, killVars, ended>>

\* ... then invoke_list.front()() while the list is not empty ...
CallInvoked(c) ==
    /\ Runs(c, {"yield", "safe"}) /\ PastTerminating(c)
    /\ invokeList[c] # <<>>
    /\ Push(c, <<"fn", 0>>)
    /\ Called(Head(invokeList[c]))
    /\ UNCHANGED <<threads, idCount, state, flagVars, invokeList, atexitList, iterator, scan,
                   terminating, handle, raise, killVars, ended>>

\* Mutants: no pop_front() at all; clear() in its place.
PopInvokedMissing(c) == invokeList' = invokeList
PopInvokedClear(c)   == invokeList' = [invokeList EXCEPT ![c] = <<>>]

\* pop_front() of an empty deque is undefined: the list is left in any state, here empty.
PopInvoked(c) == invokeList' = [invokeList EXCEPT ![c] = IF @ = <<>> THEN @ ELSE Tail(@)]

\* ... each call followed by pop_front(), done by a scope guard ...
InvokedReturns(c) ==
    /\ Runs(c, {"fn"})
    /\ Pop(c) /\ PopInvoked(c)
    /\ UNCHANGED <<threads, idCount, state, flagVars, atexitList, calls, iterator, scan,
                   terminating, handle, raise, killVars, ended>>

\* Mutant: the test for "finishing" is inverted.
CancelNowFinishing(c) == c \in canceled /\ state[c] = "finishing" /\ MayUnwind(c)

CancelNow(c) == c \in canceled /\ state[c] # "finishing" /\ MayUnwind(c)

\* ... and last the canceled test (yield() only), or the return to the caller.
ResumeReturns(c) ==
    /\ Runs(c, {"yield", "safe"}) /\ PastTerminating(c)
    /\ invokeList[c] = <<>>
    /\ IF Top(c)[1] = "yield" /\ CancelNow(c)
       THEN ForcedUnwind(c)
       ELSE /\ Pop(c)
            /\ UNCHANGED <<threads, idCount, state, flagVars, listVars, iterator, scan,
                           terminating, handle, raise, killVars, ended>>

-----------------------------------------------------------------------------
(* Stack unwinding, the end of a thread, and the end of the program.       *)

Propagating(c, ls) ==
    /\ ended = "no" /\ ~scan
    /\ c = iterator
    /\ raise[c] # Normal
    /\ stack[c] # <<>> /\ Top(c)[1] \in ls

\* Frames with nothing to catch: left at once; an invoked function's guard pops the list.
UnwindFrame(c) ==
    /\ Propagating(c, {"yield", "safe", "join", "fn", "hook"})
    /\ Pop(c)
    /\ IF Top(c)[1] = "fn" THEN PopInvoked(c) ELSE UNCHANGED invokeList
    /\ UNCHANGED <<threads, idCount, state, flagVars, atexitList, calls, iterator, scan,
                   terminating, handle, raise, killVars, ended>>

\* The program's own frames: their destructors run, as ordinary code.  Unwinding that
\* leaves a destructor during unwinding ends in std::terminate().
UnwindUser(c) ==
    /\ Propagating(c, {"body", "clean"})
    /\ IF Top(c)[1] = "clean"
       THEN ended' = "aborted" /\ UNCHANGED <<stack, raise>>
       ELSE /\ Replace(c, <<"clean", raise[c]>>)
            /\ raise' = [raise EXCEPT ![c] = Normal]
            /\ UNCHANGED ended
    /\ UNCHANGED <<threads, idCount, state, flagVars, listVars, iterator, scan, terminating,
                   handle, killVars>>

\* atexit() catches everything; kill_all() catches only forced unwinds.
CatchUnwind(c) ==
    /\ Propagating(c, {"exit", "wait"})
    /\ IF raise[c] = Exc /\ Top(c)[1] = "wait"
       THEN ended' = "aborted" /\ UNCHANGED <<raise, unwinding, terminating>>
       ELSE /\ raise' = [raise EXCEPT ![c] = Normal]
            /\ unwinding' = IF raise[c] = Forced THEN unwinding \ {c} ELSE unwinding
            /\ terminating' = (terminating \/ raise[c] = Exc)
            /\ UNCHANGED ended
    /\ UNCHANGED <<threads, idCount, state, suspended, canceled, detached, listVars, iterator,
                   scan, handle, stack, killVars>>

\* A thread's function returns, or its unwinding is done: the "finish" guard of run_thread()
\* sets the state and enters atexit().  Main falls out of main() into kill_all(), which
\* starts with atexit(main).  No attached handle can be left: DropHandle comes first.
BodyEnds(c) ==
    /\ Runs(c, {"body", "clean"})
    /\ \A t \in Ids : handle[t] # c
    /\ Replace(c, <<"exit", IF c = Main THEN Normal ELSE Top(c)[2]>>)
    /\ IF c = Main
       THEN /\ unwinding' = IF Top(c)[2] = Forced THEN unwinding \ {c} ELSE unwinding
            /\ UNCHANGED state
       ELSE /\ state' = [state EXCEPT ![c] = "finishing"]
            /\ UNCHANGED unwinding
    /\ UNCHANGED <<threads, idCount, suspended, canceled, detached, listVars, iterator, scan,
                   terminating, handle, raise, killVars, ended>>

\* scheduler::atexit(): call the next handler, until terminating is set.
AtExitCall(c) ==
    /\ Runs(c, {"exit"})
    /\ atexitList[c] # <<>> /\ ~terminating
    /\ Called(Head(atexitList[c]))
    /\ atexitList' = [atexitList EXCEPT ![c] = Tail(@)]
    /\ Push(c, <<"hook", 0>>)
    /\ UNCHANGED <<threads, idCount, state, flagVars, invokeList, iterator, scan, terminating,
                   handle, raise, killVars, ended>>

HookReturns(c) ==
    /\ Runs(c, {"hook"})
    /\ Pop(c)
    /\ UNCHANGED <<threads, idCount, state, flagVars, listVars, iterator, scan, terminating,
                   handle, raise, killVars, ended>>

\* atexit() is done.  run_thread() sets the final state and handles what was caught: an
\* exception makes the whole program terminate, a forced unwind ends here.
ThreadEnds(c) ==
    /\ c # Main /\ Runs(c, {"exit"})
    /\ atexitList[c] = <<>> \/ terminating
    /\ atexitList' = [atexitList EXCEPT ![c] = <<>>]
    /\ state' = [state EXCEPT ![c] = "finished"]
    /\ terminating' = (terminating \/ Top(c)[2] = Exc)
    /\ unwinding' = IF Top(c)[2] = Forced THEN unwinding \ {c} ELSE unwinding
    /\ Replace(c, <<"dead", 0>>)
    /\ UNCHANGED <<threads, idCount, suspended, canceled, detached, invokeList, calls, iterator,
                   scan, handle, raise, killVars, ended>>

\* while (true) yield(); at the end of run_thread()
DeadYield(c) ==
    /\ Runs(c, {"dead"})
    /\ Push(c, <<"yield", 0>>)
    /\ scan' = TRUE
    /\ UNCHANGED <<threads, idCount, state, flagVars, listVars, iterator, terminating, handle,
                   raise, killVars, ended>>

\* kill_all() after atexit(main): return if main is alone, else cancel all the others.
KillAll ==
    /\ Runs(Main, {"exit"})
    /\ atexitList[Main] = <<>> \/ terminating
    /\ atexitList' = [atexitList EXCEPT ![Main] = <<>>]
    /\ canceled' = canceled \cup (threads \ {Main})
    /\ killIds' = threads \ {Main}
    /\ killed' = threads \ {Main}
    /\ Replace(Main, <<"kill", 0>>)
    /\ UNCHANGED <<threads, idCount, state, suspended, detached, unwinding, invokeList, calls,
                   iterator, scan, terminating, handle, raise, ended>>

\* The do-while over the ids, in ascending order: yield, at least once per id, while the
\* thread still exists and is active.
KillYield ==
    /\ Runs(Main, {"kill"})
    /\ killIds # {}
    /\ stack' = [stack EXCEPT ![Main] = <<<<"yield", 0>>, <<"wait", 0>>>>]
    /\ scan' = TRUE
    /\ UNCHANGED <<threads, idCount, state, flagVars, listVars, iterator, terminating, handle,
                   raise, killVars, ended>>

\* Mutant: one yield for each id.
KillDoneAtOnce(id) == TRUE

\* The loop for id is over.
KillDone(id) == id \notin threads \/ ~Active(id)

KillTest ==
    /\ Runs(Main, {"wait"})
    /\ LET id == CHOOSE u \in killIds : \A v \in killIds : u <= v
       IN killIds' = IF KillDone(id) THEN killIds \ {id} ELSE killIds
    /\ Replace(Main, <<"kill", 0>>)
    /\ UNCHANGED <<threads, idCount, state, flagVars, listVars, iterator, scan, terminating,
                   handle, raise, killed, ended>>

Exit ==
    /\ Runs(Main, {"kill"})
    /\ killIds = {}
    /\ ended' = "exited"
    /\ UNCHANGED <<threads, idCount, state, flagVars, listVars, iterator, scan, terminating,
                   handle, stack, raise, killVars>>

-----------------------------------------------------------------------------
(* Interrupt handlers: invoke_main() and invoke_next() in interrupt        *)
(* context only queue.  yield() returns at once there, so a handler runs   *)
(* to completion; it may come between any two steps, also inside the scan. *)

Interrupt(f) ==
    /\ "irq" \in Ops /\ ended = "no" /\ Fresh(f)
    /\ \/ Enqueue(First, f)
       \/ Enqueue(NextId(iterator), f)
    /\ UNCHANGED <<threads, idCount, state, flagVars, atexitList, calls, iterator, scan,
                   terminating, handle, stack, raise, killVars, ended>>

Ended == ended # "no" /\ UNCHANGED vars

-----------------------------------------------------------------------------

Program(c) ==
    \/ Create(c)
    \/ \E t \in Ids : Cancel(c, t) \/ Detach(c, t) \/ Join(c, t) \/ Suspend(c, t)
                      \/ DropHandle(c, t)
    \/ \E f \in Fns : Invoke(c, f) \/ AtExit(c, f)
    \/ Yield(c) \/ Throw(c) \/ Swallow(c) \/ BodyEnds(c)

Library(c) ==
    \/ JoinWait(c) \/ RunThread(c)
    \/ ResumeTerminating(c) \/ CallInvoked(c) \/ InvokedReturns(c) \/ ResumeReturns(c)
    \/ UnwindFrame(c) \/ UnwindUser(c) \/ CatchUnwind(c)
    \/ AtExitCall(c) \/ HookReturns(c) \/ ThreadEnds(c) \/ DeadYield(c)

Kill == KillAll \/ KillYield \/ KillTest \/ Exit

Next ==
    \/ SwitchThread
    \/ \E c \in Ids : Program(c) \/ Library(c)
    \/ Kill
    \/ \E f \in Fns : Interrupt(f)
    \/ Ended

Spec == Init /\ [][Next]_vars

(***************************************************************************)
(* What the processor does by itself is fair.  A program is only assumed   *)
(* to be cooperative, which is the library's contract: a thread that has   *)
(* the processor yields or ends, and the destructors run by an unwinding   *)
(* thread get to their end (a jthread's joins, a joinable thread's         *)
(* terminates).                                                            *)
(***************************************************************************)
Fairness ==
    /\ WF_vars(SwitchThread)
    /\ \A c \in Ids : WF_vars(Library(c))
    /\ WF_vars(Kill)
    /\ \A c \in Ids : WF_vars(Runs(c, {"body"}) /\ (Yield(c) \/ BodyEnds(c)))
    /\ \A c \in Ids : SF_vars(/\ Runs(c, {"clean"})
                               /\ \/ BodyEnds(c)
                                  \/ \E t \in Ids : Join(c, t) \/ DropHandle(c, t))

FairSpec == Spec /\ Fairness

-----------------------------------------------------------------------------
(* Properties                                                              *)

\* Type invariant: every id, flag, list and frame is one the C++ declarations allow.
TypeOK ==
    /\ threads \subseteq Ids
    /\ idCount \in 2..MaxId + 1
    /\ state \in [Ids -> States]
    /\ suspended \subseteq Ids /\ canceled \subseteq Ids
    /\ detached \subseteq Ids /\ unwinding \subseteq Ids
    /\ invokeList \in [Ids -> Seq(Fns)]
    /\ atexitList \in [Ids -> Seq(Fns)]
    /\ iterator \in Ids
    /\ scan \in BOOLEAN /\ terminating \in BOOLEAN
    /\ handle \in [Ids -> 0..MaxId]
    /\ stack \in [Ids -> Seq(Frames)]
    /\ raise \in [Ids -> {Normal, Exc, Forced}]
    /\ killIds \subseteq Ids /\ killed \subseteq Ids
    /\ calls \in [Fns -> 0..2]
    /\ ended \in {"no", "exited", "aborted"}

\* switch_thread() erases set nodes while other code holds pointers and iterators to
\* them.  The iterator never dangles, main is never erased, and what is erased had been
\* detached and had run to its end: no thread is destroyed with work left on its stack.
ThreadsAlive ==
    /\ Main \in threads
    /\ iterator \in threads
    /\ \A t \in 1..idCount - 1 :
          t \notin threads => t \in detached /\ state[t] = "finished"

\* The pointer inside an attached jw::thread never dangles, whatever the thread itself
\* does (return, throw, be cancelled) and however long the owner keeps the object.
HandlesValid == \A t \in Ids : handle[t] # 0 => t \in threads

\* do_yield() never pops an empty invoke_list: each function being executed is still in
\* the list.  (Only true when invoked functions do not yield.)
PopSafe ==
    \A t \in Ids :
        Cardinality({i \in 1..Len(stack[t]) : stack[t][i][1] = "fn"}) <= Len(invokeList[t])

\* A function given to invoke*() or atexit() is called at most once, through any number
\* of yields, unwinds, exceptions and interrupts.
CalledOnce == \A f \in Fns : calls[f] <= 1

\* The guards of do_yield() (unwinding, uncaught_exceptions, finishing) are enough: no
\* forced unwind starts inside another unwind, so std::terminate() is never reached.
NoAbort == ended # "aborted"

\* When main() has returned and the program exits, every thread that kill_all() found
\* has run to its end, including its atexit handlers.
ExitLeavesNoThread == ended = "exited" => \A t \in killed : ~Active(t)

\* join() returns only after the joined thread has run to its end and was destroyed;
\* also when it was cancelled, was suspended, or the joining thread was resumed often.
JoinMeansFinished ==
    [][\A c \in Ids : JoinWait(c) /\ ~scan' =>
          LET t == Top(c)[2]
          IN ~Active(t) /\ atexitList[t] = <<>> /\ t \notin threads]_vars

\* thread.h:199 says of invoke_next(): "Call a function on the next active thread."
InvokeNextActive ==
    [][\A t \in Ids : Len(invokeList'[t]) > Len(invokeList[t]) => Active(t)]_vars

\* Round robin: a thread that can run is resumed again, however the others behave.
NoStarvation ==
    \A t \in Ids :
        (t \in threads /\ Active(t) /\ t \notin suspended)
            ~> ((iterator = t /\ ~scan) \/ t \in suspended \/ ended # "no")

\* A cancelled thread comes to its end, wherever it was: not started, waiting in a join,
\* or inside an invoked function.  (A destructor that joins a thread nobody cancels waits.)
JoinsUncanceled(t) ==
    \E i \in 1..Len(stack[t]) : /\ stack[t][i][1] = "join"
                                /\ stack[t][i][2] \notin canceled
CancelEnds ==
    \A t \in Ids : (t \in canceled)
                      ~> (~Active(t) \/ t \in suspended \/ JoinsUncanceled(t) \/ ended # "no")

\* A join() whose thread has ended is not left waiting.
JoinReturns ==
    \A c, t \in Ids :
        (ended = "no" /\ stack[c] # <<>> /\ Top(c) = <<"join", t>> /\ ~Active(t))
            ~> (ended # "no" \/ \A i \in 1..Len(stack[c]) : stack[c][i] # <<"join", t>>)

\* After main() has returned, kill_all() gets every thread to end and the program exits.
\* (It does not cancel what a thread creates after that: a destructor may wait for such a
\* thread forever.  Nor does it resume suspended threads.)
KillAllExits ==
    (killed # {}) ~> (ended # "no" \/ \E t \in killed : JoinsUncanceled(t))

\* The three together: cancelled threads end, joins return, and after main() the program exits.
ThreadsEnd == CancelEnds /\ JoinReturns /\ KillAllExits

\* Once the terminating flag is set, main is unwound and the program exits.
TerminatingExits == terminating ~> (ended # "no")

\* A function queued on a thread that goes on running is called.
InvokedRuns ==
    \A t \in Ids : \A f \in Fns :
        (\E i \in 1..Len(invokeList[t]) : invokeList[t][i] = f)
            ~> (calls[f] > 0 \/ ~Active(t) \/ t \in suspended \/ t \in canceled
                \/ terminating \/ ended # "no")
=============================================================================
