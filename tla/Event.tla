-------------------------------- MODULE Event --------------------------------
(***************************************************************************)
(* jw::event and jw::chain_event (include/jw/event.h): a list of weak      *)
(* references to callbacks, walked by calls that overlap, because the      *)
(* callbacks yield, call the event and change the list.                    *)
(***************************************************************************)
EXTENDS Integers, Sequences, SequencesExt

CONSTANTS
    Callbacks, Nodes, Calls,
    NoNode,     \* no node, and no call
    MaxCalled,  \* bound: nodes a call has visited when a callback is still added
    EvOps         \* "self": a callback is unsubscribed while it runs

ASSUME EventAssumption == Callbacks # {} /\ NoNode \notin Nodes \cup Calls

VARIABLES
    chain,          \* whether this is a chain_event
    subscribers,    \* list of nodes
    target,         \* the callback a node refers to
    alive,          \* callbacks that exist
    at,             \* of every call: the node whose callback runs
    called,         \* nodes of the current or last call, in order
    present,        \* nodes that were subscribed since its start
    stopped         \* a callback of a chain returned true

evVars == <<chain, subscribers, target, alive, at, called, present, stopped>>

EvInit ==
    /\ chain \in BOOLEAN
    /\ subscribers = <<>> /\ target = [n \in Nodes |-> CHOOSE c \in Callbacks : TRUE]
    /\ alive = Callbacks
    /\ at = [w \in Calls |-> NoNode] /\ called = [w \in Calls |-> <<>>]
    /\ present = [w \in Calls |-> {}] /\ stopped = [w \in Calls |-> FALSE]

\* The handlers that calls other than w keep alive while they run.
Kept(w) == {target[at[v]] : v \in {u \in Calls \ {w} : at[u] # NoNode}}
Expired(n, w) == target[n] \notin alive \cup Kept(w)

\* Node m stands before n in the list s.
Before(s, m, n) == \E i, j \in DOMAIN s : i < j /\ s[i] = m /\ s[j] = n

\* The list without these nodes, in its order.
Erase(gone, p) ==
    /\ \E s \in SeqOf(ToSet(subscribers) \ gone, Len(subscribers)) :
          /\ ToSet(s) = ToSet(subscribers) \ gone
          /\ \A i, j \in DOMAIN s : i < j => Before(subscribers, s[i], s[j])
          /\ subscribers' = s
    /\ present' = [w \in Calls |-> p[w] \ gone]

\* operator+=
Subscribe(c) ==
    /\ c \in alive /\ \A w \in Calls : Len(called[w]) <= MaxCalled
    /\ \E n \in Nodes \ ToSet(subscribers) :
          /\ subscribers' = IF chain THEN <<n>> \o subscribers ELSE Append(subscribers, n)
          /\ target' = [target EXCEPT ![n] = c]
    /\ UNCHANGED <<chain, alive, at, called, present, stopped>>

\* operator-= also removes what has expired.
Unsubscribe(c) ==
    /\ c \in alive /\ (c \in Kept(NoNode) => "self" \in EvOps)
    /\ Erase({n \in ToSet(subscribers) : target[n] = c \/ Expired(n, NoNode)}, present)
    /\ UNCHANGED <<chain, target, alive, at, called, stopped>>

DestroyCallback(c) ==
    /\ c \in alive /\ alive' = alive \ {c}
    /\ UNCHANGED <<chain, subscribers, target, at, called, present, stopped>>

\* A new callback
CreateCallback(c) ==
    /\ c \notin alive \cup Kept(NoNode) \cup {target[n] : n \in ToSet(subscribers)}
    /\ alive' = alive \cup {c}
    /\ UNCHANGED <<chain, subscribers, target, at, called, present, stopped>>

\* Mutant: the loop goes on behind the node after one that it erases.
AdvanceSkips(w, i, p) ==
    LET k == IF i <= Len(subscribers) /\ Expired(subscribers[i], w) THEN i + 2 ELSE i
    IN  /\ Erase({subscribers[l] : l \in i .. Len(subscribers)} \cap {subscribers[l] : l \in i .. k - 2}, p)
        /\ IF k > Len(subscribers)
           THEN at' = [at EXCEPT ![w] = NoNode] /\ UNCHANGED called
           ELSE /\ at' = [at EXCEPT ![w] = subscribers[k]]
                /\ called' = [called EXCEPT ![w] = Append(@, subscribers[k])]

\* The loop from position i on: expired nodes are erased, the next live one is called.
Advance(w, i, p) ==
    LET live == {k \in i .. Len(subscribers) : ~Expired(subscribers[k], w)}
    IN  \/ /\ live = {} /\ Erase({subscribers[k] : k \in i .. Len(subscribers)}, p)
           /\ at' = [at EXCEPT ![w] = NoNode] /\ UNCHANGED called
        \/ \E k \in live :
              /\ \A l \in live : k <= l
              /\ Erase({subscribers[l] : l \in i .. k - 1}, p)
              /\ at' = [at EXCEPT ![w] = subscribers[k]]
              /\ called' = [called EXCEPT ![w] = Append(@, subscribers[k])]

Begin(w) ==
    /\ at[w] = NoNode /\ called[w] = <<>>
    /\ Advance(w, 1, [present EXCEPT ![w] = ToSet(subscribers)])
    /\ UNCHANGED <<chain, target, alive, stopped>>

\* A callback returns, and the loop goes on behind its node.
Returns(w) ==
    /\ at[w] # NoNode
    /\ \E k \in DOMAIN subscribers : subscribers[k] = at[w] /\ Advance(w, k + 1, present)
    /\ UNCHANGED <<chain, target, alive, stopped>>

ReturnsTrue(w) ==
    /\ chain /\ at[w] # NoNode
    /\ at' = [at EXCEPT ![w] = NoNode] /\ stopped' = [stopped EXCEPT ![w] = TRUE]
    /\ UNCHANGED <<chain, subscribers, target, alive, called, present>>

\* A finished call is forgotten.
Forget(w) ==
    /\ at[w] = NoNode /\ called[w] # <<>>
    /\ called' = [called EXCEPT ![w] = <<>>] /\ present' = [present EXCEPT ![w] = {}]
    /\ stopped' = [stopped EXCEPT ![w] = FALSE]
    /\ UNCHANGED <<chain, subscribers, target, alive, at>>

EvNext ==
    \/ \E c \in Callbacks : CreateCallback(c) \/ DestroyCallback(c) \/ Subscribe(c) \/ Unsubscribe(c)
    \/ \E w \in Calls : Begin(w) \/ Returns(w) \/ ReturnsTrue(w) \/ Forget(w)

EvSpec == EvInit /\ [][EvNext]_evVars

-----------------------------------------------------------------------------
(* Properties                                                              *)

\* Whatever callbacks subscribe, unsubscribe or destroy meanwhile, in this call or another: the
\* node a call stands on is in the list, every callback that stays subscribed is called once,
\* in the order of the list, and none is left out unless a chain was stopped.
CalledInOrder ==
    \A w \in Calls :
        /\ at[w] # NoNode => at[w] \in ToSet(subscribers)
        /\ present[w] \subseteq ToSet(subscribers)
        /\ \A i, j \in DOMAIN called[w] :
              i < j /\ {called[w][i], called[w][j]} \subseteq present[w] =>
                  Before(subscribers, called[w][i], called[w][j])
        /\ at[w] = NoNode /\ ~stopped[w] =>
              {n \in present[w] : target[n] \in alive} \subseteq ToSet(called[w])
=============================================================================
