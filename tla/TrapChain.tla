----------------------------- MODULE TrapChain -----------------------------
(***************************************************************************)
(* The chain of handlers of one CPU exception (cpu_exception.h,            *)
(* cpu_exception.cpp).  An exception_handler is a trampoline in the        *)
(* protected-mode list and, when the host's frames allow it, another in    *)
(* the real-mode list.  The host's vector holds the newest trampoline and  *)
(* every trampoline the address it chains to.                              *)
(***************************************************************************)
EXTENDS Integers, Sequences

CONSTANTS
    TcHandlers, \* exception_handler objects
    PoolSize,   \* trampoline_pool
    MaxBuilt,   \* bound: constructions
    Host,       \* the host's own handler
    NoTrampoline,
    TcOps       \* "oom": data_alloc fails after the vector was set
                \* "exhaust": the pool has one trampoline left when two are wanted

Lists == {"pm", "rm"}
Tramps == 1..PoolSize

VARIABLES
    pool,       \* free_list
    tcVector,   \* the host's handler, by list
    tcLast,     \* exception_trampoline::last
    node,       \* a trampoline's chain_to, prev and next
    owns,       \* a handler's pm and rm
    built,
    age         \* ghost: with which construction a live handler got the trampoline

tcVars == <<pool, tcVector, tcLast, node, owns, built, age>>

TcInit ==
    /\ pool = [i \in Tramps |-> i]
    /\ tcVector = [l \in Lists |-> Host] /\ tcLast = [l \in Lists |-> NoTrampoline]
    /\ node = [t \in Tramps |-> [to |-> NoTrampoline, prev |-> NoTrampoline, next |-> NoTrampoline]]
    /\ owns = [h \in TcHandlers |-> [pm |-> NoTrampoline, rm |-> NoTrampoline]]
    /\ built = 0 /\ age = [t \in Tramps |-> 0]

\* The lists, as a record, for the steps to hand on.
now == [pool |-> pool, vector |-> tcVector, last |-> tcLast, node |-> node]

Become(s) == pool' = s.pool /\ tcVector' = s.vector /\ tcLast' = s.last /\ node' = s.node

\* exception_trampoline::create(): from the pool, in front of the vector's handler and at the end
\* of the list
Create(s, l) ==
    LET t == Head(s.pool) p == s.last[l] IN
    [pool |-> Tail(s.pool), vector |-> [s.vector EXCEPT ![l] = t], last |-> [s.last EXCEPT ![l] = t],
     node |-> [u \in Tramps |->
                CASE u = t -> [to |-> s.vector[l], prev |-> p, next |-> NoTrampoline]
                  [] u = p -> [s.node[u] EXCEPT !.next = t]
                  [] OTHER -> s.node[u]]]

\* The constructor throws once the vector is set: only the trampoline goes back to the pool.
CreateFails(s, l) == [s EXCEPT !.vector[l] = Head(s.pool)]

\* Mutant: the next handler keeps its address.
UnlinkOnly(s, l, t) ==
    LET p == s.node[t].prev n == s.node[t].next IN
    [pool |-> <<t>> \o s.pool,
     last |-> IF n = NoTrampoline THEN [s.last EXCEPT ![l] = p] ELSE s.last,
     vector |-> IF n = NoTrampoline THEN [s.vector EXCEPT ![l] = s.node[t].to] ELSE s.vector,
     node |-> [u \in Tramps |->
                CASE u = p -> [s.node[u] EXCEPT !.next = n]
                  [] u = n -> [s.node[u] EXCEPT !.prev = p]
                  [] OTHER -> s.node[u]]]

\* exception_trampoline::destroy()
Destroy(s, l, t) ==
    LET p == s.node[t].prev n == s.node[t].next IN
    [pool |-> <<t>> \o s.pool,
     last |-> IF n = NoTrampoline THEN [s.last EXCEPT ![l] = p] ELSE s.last,
     vector |-> IF n = NoTrampoline THEN [s.vector EXCEPT ![l] = s.node[t].to] ELSE s.vector,
     node |-> [u \in Tramps |->
                CASE u = p -> [s.node[u] EXCEPT !.next = n]
                  [] u = n -> [s.node[u] EXCEPT !.prev = p, !.to = s.node[t].to]
                  [] OTHER -> s.node[u]]]

Idle(h) == owns[h].pm = NoTrampoline /\ built < MaxBuilt /\ built' = built + 1

\* The constructor of exception_handler; without DPMI 1.0 frames, or when the host refuses the
\* real-mode handler, there is only one trampoline.
Construct(h, both) ==
    /\ Idle(h) /\ pool # <<>> /\ (both => Len(pool) > 1)
    /\ LET s == Create(now, "pm") t == Head(pool) IN
       IF both
       THEN /\ Become(Create(s, "rm")) /\ owns' = [owns EXCEPT ![h] = [pm |-> t, rm |-> pool[2]]]
            /\ age' = [age EXCEPT ![t] = built', ![pool[2]] = built']
       ELSE Become(s) /\ owns' = [owns EXCEPT ![h].pm = t] /\ age' = [age EXCEPT ![t] = built']

\* It fails: the pool is empty, memory is, or the pool is for the second trampoline and the
\* exception leaves the first one installed.
ConstructFails(h) ==
    /\ Idle(h) /\ UNCHANGED <<owns, age>>
    /\ \/ pool = <<>> /\ UNCHANGED <<pool, tcVector, tcLast, node>>
       \/ pool # <<>> /\ "oom" \in TcOps /\ Become(CreateFails(now, "pm"))
       \/ Len(pool) = 1 /\ "exhaust" \in TcOps /\ Become(Create(now, "pm"))

\* ~exception_handler()
Destruct(h) ==
    /\ owns[h].pm # NoTrampoline
    /\ LET o == owns[h] s == Destroy(now, "pm", o.pm) IN
       Become(IF o.rm = NoTrampoline THEN s ELSE Destroy(s, "rm", o.rm))
    /\ owns' = [owns EXCEPT ![h] = [pm |-> NoTrampoline, rm |-> NoTrampoline]]
    /\ age' = [t \in Tramps |-> IF t \in {owns[h].pm, owns[h].rm} THEN 0 ELSE age[t]]
    /\ UNCHANGED built

\* Assignment swaps.
Swap(h, g) ==
    /\ h # g /\ owns[h] # owns[g] /\ owns' = [owns EXCEPT ![h] = owns[g], ![g] = owns[h]]
    /\ UNCHANGED <<pool, tcVector, tcLast, node, built, age>>

TcNext ==
    \/ \E h \in TcHandlers, both \in BOOLEAN : Construct(h, both)
    \/ \E h \in TcHandlers : ConstructFails(h) \/ Destruct(h)
    \/ \E h, g \in TcHandlers : Swap(h, g)

TcSpec == TcInit /\ [][TcNext]_tcVars

-----------------------------------------------------------------------------
(* Properties                                                              *)

\* The trampolines of live handlers in a list, and the newest of some of them.
Used(l) == {owns[h][l] : h \in TcHandlers} \ {NoTrampoline}
Newest(t, S) == IF S = {} THEN t = Host ELSE t \in S /\ \A u \in S : age[u] <= age[t]

\* Whatever handlers are destroyed in whatever order, an exception goes to the newest live handler,
\* and down the chain to every older one and the host's; none is passed twice or after its end.
ChainIntact ==
    \A l \in Lists :
        /\ Newest(tcVector[l], Used(l))
        /\ \A t \in Used(l) : Newest(node[t].to, {u \in Used(l) : age[u] < age[t]})
        /\ \A i \in 1..Len(pool) : pool[i] \notin Used(l)
=============================================================================
