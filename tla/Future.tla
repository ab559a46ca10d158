------------------------------- MODULE Future -------------------------------
(***************************************************************************)
(* jw::promise, future, shared_future and async (include/jw/future.h).  A  *)
(* result passes through a reference-counted shared state.                 *)
(***************************************************************************)
EXTENDS Naturals

CONSTANTS
    States,     \* shared states; one without references is free to be allocated again
    Promises,   \* promise objects
    FuThreads,    \* that hold at most one future each
    NoState,
    FuOps         \* "overwrite": a promise without a result is assigned to

VARIABLES
    result, ready,      \* of every shared state
    promise, retrieved, \* of every promise: its state, and whether get_future() was called
    atexit,             \* states that a thread makes ready when it ends
    future, kind,       \* of every thread: the state of its future, and "future" or "shared"
    doing,              \* of every thread: "runs", "waits" or "gets"
    taken               \* states whose result was moved out

stateVars == <<result, ready>>
promiseVars == <<promise, retrieved, atexit>>
futureVars == <<future, kind, doing, taken>>
fuVars == <<stateVars, promiseVars, futureVars>>

Kinds == {"value", "exception", "broken_promise"}

FuInit ==
    /\ result = [s \in States |-> "none"] /\ ready = [s \in States |-> FALSE]
    /\ promise = [q \in Promises |-> NoState] /\ retrieved = [q \in Promises |-> FALSE]
    /\ atexit = {} /\ taken = {}
    /\ future = [t \in FuThreads |-> NoState] /\ kind = [t \in FuThreads |-> "future"]
    /\ doing = [t \in FuThreads |-> "runs"]

Referenced == atexit \cup {promise[q] : q \in Promises} \cup {future[t] : t \in FuThreads}

HasResult(s) == result[s] # "none"
Pending(q) == promise[q] # NoState /\ ~HasResult(promise[q])

NewPromise(q) ==
    /\ promise[q] = NoState
    /\ \E s \in States \ Referenced :
          /\ promise' = [promise EXCEPT ![q] = s]
          /\ result' = [result EXCEPT ![s] = "none"] /\ ready' = [ready EXCEPT ![s] = FALSE]
          /\ taken' = taken \ {s}
    /\ retrieved' = [retrieved EXCEPT ![q] = FALSE]
    /\ UNCHANGED <<atexit, future, kind, doing>>

\* The defaulted moves: the old state of an assigned promise is dropped as it is, and the
\* flag is copied.
MovePromise(q, r) ==
    /\ q # r /\ promise[r] # NoState
    /\ Pending(q) => "overwrite" \in FuOps
    /\ promise' = [promise EXCEPT ![q] = promise[r], ![r] = NoState]
    /\ retrieved' = [retrieved EXCEPT ![q] = retrieved[r]]
    /\ UNCHANGED <<stateVars, atexit, futureVars>>

Retrieve(q, t) ==
    /\ promise[q] # NoState /\ future[t] = NoState
    /\ retrieved' = [retrieved EXCEPT ![q] = TRUE]
    /\ future' = [future EXCEPT ![t] = promise[q]] /\ kind' = [kind EXCEPT ![t] = "future"]
    /\ UNCHANGED <<stateVars, promise, atexit, doing, taken>>

GetFuture(q, t) == ~retrieved[q] /\ Retrieve(q, t)

Put(s, k) == ~HasResult(s) /\ result' = [result EXCEPT ![s] = k]

\* set_value(), set_exception()
Set(q, k) ==
    /\ promise[q] # NoState /\ Put(promise[q], k)
    /\ ready' = [ready EXCEPT ![promise[q]] = TRUE]
    /\ UNCHANGED <<promiseVars, futureVars>>

\* set_..._at_thread_exit(): has_result() at once, ready when the thread ends.
SetAtExit(q, k) ==
    /\ promise[q] # NoState /\ Put(promise[q], k)
    /\ atexit' = atexit \cup {promise[q]}
    /\ UNCHANGED <<ready, promise, retrieved, futureVars>>

ThreadExit ==
    /\ atexit # {} /\ atexit' = {}
    /\ ready' = [s \in States |-> ready[s] \/ s \in atexit]
    /\ UNCHANGED <<result, promise, retrieved, futureVars>>

\* Mutant: a promise that is destroyed leaves its state alone.
DestroySilently(q) ==
    /\ promise[q] # NoState /\ promise' = [promise EXCEPT ![q] = NoState]
    /\ UNCHANGED <<stateVars, retrieved, atexit, futureVars>>

\* ~promise(); the end of async()'s thread by a forced unwind is this without a Set.
DestroyPromise(q) ==
    /\ promise[q] # NoState /\ promise' = [promise EXCEPT ![q] = NoState]
    /\ IF Pending(q)
       THEN Put(promise[q], "broken_promise") /\ ready' = [ready EXCEPT ![promise[q]] = TRUE]
       ELSE UNCHANGED stateVars
    /\ UNCHANGED <<retrieved, atexit, futureVars>>

\* share() and copies of a shared future
Share(t, u) ==
    /\ future[t] # NoState /\ doing[t] = "runs" /\ doing[u] = "runs"
    /\ t = u \/ kind[t] = "shared"
    /\ future' = [future EXCEPT ![u] = future[t]] /\ kind' = [kind EXCEPT ![u] = "shared"]
    /\ UNCHANGED <<stateVars, promiseVars, doing, taken>>

\* The owner of a future moves it to another thread.
MoveFuture(t, u) ==
    /\ t # u /\ future[t] # NoState /\ doing[t] = "runs" /\ doing[u] = "runs"
    /\ future' = [future EXCEPT ![u] = future[t], ![t] = NoState]
    /\ kind' = [kind EXCEPT ![u] = kind[t]]
    /\ UNCHANGED <<stateVars, promiseVars, doing, taken>>

DropFuture(t) ==
    /\ future[t] # NoState /\ doing[t] = "runs" /\ future' = [future EXCEPT ![t] = NoState]
    /\ UNCHANGED <<stateVars, promiseVars, kind, doing, taken>>

Wait(t, how) ==
    /\ future[t] # NoState /\ doing[t] = "runs" /\ doing' = [doing EXCEPT ![t] = how]
    /\ UNCHANGED <<stateVars, promiseVars, future, kind, taken>>

\* wait() tests has_result(); get() moves the result and resets the future, or shares it.
WaitReturns(t) ==
    /\ doing[t] # "runs" /\ HasResult(future[t])
    /\ doing' = [doing EXCEPT ![t] = "runs"]
    /\ IF doing[t] = "gets" /\ kind[t] = "future"
       THEN taken' = taken \cup {future[t]} /\ future' = [future EXCEPT ![t] = NoState]
       ELSE UNCHANGED <<taken, future>>
    /\ UNCHANGED <<stateVars, promiseVars, kind>>

\* wait_for(), wait_until()
TimedOut(t) ==
    /\ doing[t] = "waits" /\ ~HasResult(future[t])
    /\ doing' = [doing EXCEPT ![t] = "runs"]
    /\ UNCHANGED <<stateVars, promiseVars, future, kind, taken>>

FuNext ==
    \/ \E q \in Promises :
          \/ NewPromise(q) \/ DestroyPromise(q)
          \/ \E r \in Promises : MovePromise(q, r)
          \/ \E t \in FuThreads : GetFuture(q, t)
          \/ \E k \in Kinds \ {"broken_promise"} : Set(q, k) \/ SetAtExit(q, k)
    \/ ThreadExit
    \/ \E t \in FuThreads :
          \/ DropFuture(t) \/ Wait(t, "waits") \/ Wait(t, "gets") \/ WaitReturns(t) \/ TimedOut(t)
          \/ \E u \in FuThreads : Share(t, u) \/ MoveFuture(t, u)

\* Threads run, and every promise is kept or destroyed at last.
Settle(s) == \E q \in Promises : promise[q] = s /\ ~HasResult(s) /\ (DestroyPromise(q) \/ Set(q, "value"))

Fairness == (\A s \in States : WF_fuVars(Settle(s))) /\ (\A t \in FuThreads : WF_fuVars(WaitReturns(t)))

FuSpec == FuInit /\ [][FuNext]_fuVars /\ Fairness

-----------------------------------------------------------------------------
(* Properties                                                              *)

\* A result is moved out once: however promise and future are moved, nobody has a future of
\* a result that is gone, and two threads have the same state only through share().
TakenOnce ==
    \A t \in FuThreads : future[t] # NoState =>
        /\ future[t] \notin taken
        /\ \A u \in FuThreads \ {t} : future[u] = future[t] => kind[u] = "shared" /\ kind[t] = "shared"

\* get() ends: the promise is kept, or broken by the destructor, also when it was moved to
\* another object or thread in the meantime.
GetEnds == \A t \in FuThreads : doing[t] = "gets" ~> doing[t] = "runs"
=============================================================================
