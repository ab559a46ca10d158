-------------------------- MODULE TrapChainProofs --------------------------
(***************************************************************************)
(* Theorems about the chains of exception handlers, for any handlers, size *)
(* of the pool and number of constructions: unless a constructor fails     *)
(* half way, the chain stays intact; and about the exceptions and signals  *)
(* that go through it, for any depth of contexts and pool of trampolines:  *)
(* unless a rethrown exception's handler faults in turn, exceptions nest,  *)
(* and a raised signal is not forgotten.                                   *)
(***************************************************************************)
EXTENDS MCTraps, SequenceTheorems, FiniteSetTheorems, TLAPS

\* The host's handler, null and trampolines are different, and no constructor fails between its
\* two steps (a known limit of the code).
Restricted ==
    /\ Host \notin Tramps /\ NoTrampoline \notin Tramps /\ Host # NoTrampoline
    /\ TcOps \cap {"oom", "exhaust"} = {}

-----------------------------------------------------------------------------
(* The inductive invariant, of any lists: s is a record like now, L[l] the *)
(* trampolines in use in list l, and a their ages.                         *)

Nodes == [to : Tramps \cup {Host, NoTrampoline}, prev : Tramps \cup {NoTrampoline}, next : Tramps \cup {NoTrampoline}]
Records ==
    [pool : Seq(Tramps), vector : [Lists -> Tramps \cup {Host}],
     last : [Lists -> Tramps \cup {NoTrampoline}],
     node : [Tramps -> Nodes]]

\* What the trampoline after p chains to.
Over(p) == IF p = NoTrampoline THEN Host ELSE p

Aged(S, a) == \A t, u \in S : a[t] = a[u] => t = u

\* p is the oldest, or the next older than t.
Before(p, t, S, a) ==
    IF p = NoTrampoline THEN \A u \in S : a[t] <= a[u]
    ELSE p \in S /\ a[p] < a[t] /\ \A u \in S : a[u] < a[t] => a[u] <= a[p]

AtEnd(p, S, a) == IF p = NoTrampoline THEN S = {} ELSE p \in S /\ \A u \in S : a[u] <= a[p]

\* next inverts prev.
Doubly(s, l, S) ==
    /\ \A t \in S : s.node[t].prev # NoTrampoline => s.node[s.node[t].prev].next = t
    /\ \A t \in S : IF s.node[t].next = NoTrampoline THEN t = s.last[l]
                    ELSE s.node[t].next \in S /\ s.node[s.node[t].next].prev = t

\* The list is in the order of ages, and each trampoline chains to the one before it.
ListOK(s, l, S, a) ==
    /\ Aged(S, a)
    /\ AtEnd(s.last[l], S, a) /\ s.vector[l] = Over(s.last[l])
    /\ \A t \in S : Before(s.node[t].prev, t, S, a)
    /\ \A t \in S : s.node[t].to = Over(s.node[t].prev)
    /\ Doubly(s, l, S)

\* A trampoline is in the pool once, or in a list.
PoolOK(q, L) ==
    /\ \A i, j \in 1..Len(q) : q[i] = q[j] => i = j
    /\ \A i \in 1..Len(q) : q[i] \notin L["pm"] /\ q[i] \notin L["rm"]

Sane(s, L, a) ==
    /\ s \in Records /\ L \in [Lists -> SUBSET Tramps] /\ a \in [Tramps -> Nat]
    /\ L["pm"] \cap L["rm"] = {}
    /\ PoolOK(s.pool, L)
    /\ \A l \in Lists : ListOK(s, l, L[l], a)

Lives == [l \in Lists |-> Used(l)]

\* A trampoline has one owner, and the real-mode one comes with one in protected mode.
Owners ==
    /\ owns \in [TcHandlers -> [pm : Tramps \cup {NoTrampoline}, rm : Tramps \cup {NoTrampoline}]]
    /\ \A h \in TcHandlers : owns[h].pm = NoTrampoline => owns[h].rm = NoTrampoline
    /\ \A g, h \in TcHandlers : owns[g].pm = owns[h].pm => g = h \/ owns[g].pm = NoTrampoline
    /\ \A g, h \in TcHandlers : owns[g].rm = owns[h].rm => g = h \/ owns[g].rm = NoTrampoline

ChainInv ==
    /\ built \in Nat /\ \A t \in Tramps : age[t] <= built
    /\ Owners
    /\ Sane(now, Lives, age)

-----------------------------------------------------------------------------
(* Creation and destruction                                                *)

\* What is true of a list depends on its own trampolines only.
LEMMA ListFrame ==
    ASSUME NEW s, NEW z, NEW l, NEW S, NEW a, NEW b, ListOK(s, l, S, a),
           z.last[l] = s.last[l], z.vector[l] = s.vector[l],
           \A t \in S : z.node[t] = s.node[t] /\ b[t] = a[t], NoTrampoline \notin S
    PROVE  ListOK(z, l, S, b)
<1>1. Aged(S, b)
  BY DEF ListOK, Aged
<1>2. AtEnd(z.last[l], S, b) /\ z.vector[l] = Over(z.last[l])
  BY DEF ListOK, AtEnd
<1>3. ASSUME NEW t \in S PROVE Before(z.node[t].prev, t, S, b)
  BY <1>3 DEF ListOK, Before
<1>4. ASSUME NEW t \in S PROVE z.node[t].to = Over(z.node[t].prev)
  BY <1>4 DEF ListOK
<1>5. Doubly(z, l, S)
  BY DEF ListOK, Doubly, Before
<1> QED  BY <1>1, <1>2, <1>3, <1>4, <1>5 DEF ListOK

\* A step that leaves the pool and the other list in order, and its own, is good.
LEMMA Together ==
    ASSUME NEW z \in Records, NEW L \in [Lists -> SUBSET Tramps], NEW a \in [Tramps -> Nat],
           L["pm"] \cap L["rm"] = {}, PoolOK(z.pool, L), NEW l \in Lists,
           ListOK(z, l, L[l], a), \A m \in Lists \ {l} : ListOK(z, m, L[m], a)
    PROVE  Sane(z, L, a)
BY DEF Sane

\* Only the ages of trampolines in use matter.
LEMMA OtherAges ==
    ASSUME NEW s, NEW L, NEW a, NEW b \in [Tramps -> Nat], Sane(s, L, a), Restricted,
           \A l \in Lists : \A t \in L[l] : b[t] = a[t]
    PROVE  Sane(s, L, b)
<1>1. ASSUME NEW l \in Lists PROVE ListOK(s, l, L[l], b)
  <2>1. ListOK(s, l, L[l], a) /\ NoTrampoline \notin L[l]
    BY <1>1 DEF Sane, Restricted
  <2> QED  BY <1>1, <2>1, ListFrame
<1> QED  BY <1>1 DEF Sane

\* create() puts the first trampoline of the pool at the end of the list.
LEMMA CreateSane ==
    ASSUME NEW s, NEW L, NEW a, Sane(s, L, a), Restricted, s.pool # <<>>, NEW l \in Lists,
           NEW n \in Nat, \A u \in L[l] : a[u] < n
    PROVE  Sane(Create(s, l), [L EXCEPT ![l] = @ \cup {Head(s.pool)}],
                [a EXCEPT ![Head(s.pool)] = n])
<1> DEFINE t == Head(s.pool)
           p == s.last[l]
           z == Create(s, l)
           M == [L EXCEPT ![l] = @ \cup {t}]
           b == [a EXCEPT ![t] = n]
<1>1. /\ s \in Records /\ L \in [Lists -> SUBSET Tramps] /\ a \in [Tramps -> Nat]
      /\ s.pool \in Seq(Tramps) /\ NoTrampoline \notin Tramps /\ Host \notin Tramps
  BY DEF Sane, Records, Restricted
<1>2. /\ t \in Tramps /\ Tail(s.pool) \in Seq(Tramps) /\ t = s.pool[1]
      /\ Len(s.pool) \in Nat /\ 1 \in 1..Len(s.pool)
      /\ Len(Tail(s.pool)) = Len(s.pool) - 1
      /\ \A i \in 1..Len(Tail(s.pool)) : Tail(s.pool)[i] = s.pool[i + 1]
  BY <1>1, HeadTailProperties, EmptySeq, LenProperties
<1>3. t \notin L["pm"] /\ t \notin L["rm"]
  BY <1>2 DEF Sane, PoolOK
<1>4. p \in Tramps \cup {NoTrampoline} /\ t # p /\ ListOK(s, l, L[l], a) /\ (p # NoTrampoline => p \in L[l])
  <2>1. p \in Tramps \cup {NoTrampoline} /\ ListOK(s, l, L[l], a)
    BY <1>1 DEF Sane, Records
  <2>2. p # NoTrampoline => p \in L[l]
    BY <2>1 DEF ListOK, AtEnd
  <2>3. t \notin L[l]
    BY <1>3 DEF Lists
  <2> QED  BY <1>1, <1>2, <2>1, <2>2, <2>3
<1>5. /\ z.pool = Tail(s.pool)
      /\ z.vector = [s.vector EXCEPT ![l] = t] /\ z.last = [s.last EXCEPT ![l] = t]
      /\ z.node = [u \in Tramps |->
                    CASE u = t -> [to |-> s.vector[l], prev |-> p, next |-> NoTrampoline]
                      [] u = p -> [s.node[u] EXCEPT !.next = t]
                      [] OTHER -> s.node[u]]
  BY DEF Create
<1>6. z \in Records
  <2>1. /\ [s.vector EXCEPT ![l] = t] \in [Lists -> Tramps \cup {Host}]
        /\ [s.last EXCEPT ![l] = t] \in [Lists -> Tramps \cup {NoTrampoline}]
        /\ s.vector[l] \in Tramps \cup {Host, NoTrampoline}
    BY <1>1, <1>2 DEF Records
  <2>2. z.node \in [Tramps -> Nodes]
    <3>1. s.node \in [Tramps -> Nodes]
      BY <1>1 DEF Records
    <3>2. [to |-> s.vector[l], prev |-> p, next |-> NoTrampoline] \in Nodes
      BY <1>4, <2>1 DEF Nodes
    <3>3. ASSUME NEW u \in Tramps PROVE [s.node[u] EXCEPT !.next = t] \in Nodes
      BY <1>2, <3>1, <3>3 DEF Nodes
    <3> HIDE DEF z, t, p
    <3> QED  BY <1>5, <3>1, <3>2, <3>3
  <2>3. z = [pool |-> z.pool, vector |-> z.vector, last |-> z.last, node |-> z.node]
    BY DEF Create
  <2> HIDE DEF z
  <2> QED  BY <1>2, <1>5, <2>1, <2>2, <2>3 DEF Records
<1>7. M \in [Lists -> SUBSET Tramps] /\ b \in [Tramps -> Nat] /\ M["pm"] \cap M["rm"] = {}
  BY <1>1, <1>2, <1>3 DEF Sane, Lists
<1>8. PoolOK(z.pool, M)
  <2>1. \A i \in 1..Len(z.pool) : i + 1 \in 1..Len(s.pool) /\ z.pool[i] = s.pool[i + 1]
    BY <1>2, <1>5
  <2>2. \A i \in 1..Len(z.pool) : z.pool[i] # t
    BY <1>2, <2>1 DEF Sane, PoolOK
  <2>3. \A i, j \in 1..Len(z.pool) : z.pool[i] = z.pool[j] => i = j
    <3> SUFFICES ASSUME NEW i \in 1..Len(z.pool), NEW j \in 1..Len(z.pool),
                        z.pool[i] = z.pool[j]
                 PROVE  i = j
      OBVIOUS
    <3>1. i + 1 = j + 1
      BY <2>1 DEF Sane, PoolOK
    <3>2. i \in Int /\ j \in Int
      BY <1>2, <1>5
    <3> QED  BY <3>1, <3>2
  <2>4. M["pm"] \subseteq L["pm"] \cup {t} /\ M["rm"] \subseteq L["rm"] \cup {t}
    BY <1>1, <1>2 DEF Lists
  <2>5. \A i \in 1..Len(z.pool) : z.pool[i] \notin L["pm"] /\ z.pool[i] \notin L["rm"]
    BY <2>1 DEF Sane, PoolOK
  <2> HIDE DEF M, t, z
  <2> QED  BY <2>2, <2>3, <2>4, <2>5 DEF PoolOK
<1>9. ListOK(z, l, M[l], b)
  <2> DEFINE S == L[l]
  <2>1. /\ M[l] = S \cup {t} /\ t \notin S /\ S \subseteq Tramps
        /\ b[t] = n /\ \A u \in S : b[u] = a[u] /\ a[u] \in Nat /\ a[u] < n
    BY <1>1, <1>2, <1>3 DEF Lists
  <2>2. /\ z.last[l] = t /\ z.vector[l] = t
        /\ z.node[t].to = s.vector[l] /\ z.node[t].prev = p /\ z.node[t].next = NoTrampoline
    <3>1. z.last[l] = t /\ z.vector[l] = t
      BY <1>1, <1>2, <1>5 DEF Records
    <3>2. z.node[t] = [to |-> s.vector[l], prev |-> p, next |-> NoTrampoline]
      <4> HIDE DEF z, t, p
      <4> QED  BY <1>2, <1>4, <1>5
    <3> HIDE DEF z, t, p
    <3> QED  BY <3>1, <3>2
  <2>3. ASSUME NEW u \in S
        PROVE  /\ z.node[u].to = s.node[u].to /\ z.node[u].prev = s.node[u].prev
               /\ z.node[u].next = IF u = p THEN t ELSE s.node[u].next
    BY <1>1, <1>4, <1>5, <2>1, <2>3 DEF Records
  <2> HIDE DEF M, b, z, p, t, S
  <2>4. /\ Aged(S, a) /\ AtEnd(p, S, a) /\ s.vector[l] = Over(p)
        /\ \A u \in S : Before(s.node[u].prev, u, S, a)
        /\ \A u \in S : s.node[u].to = Over(s.node[u].prev)
        /\ Doubly(s, l, S)
    BY <1>4 DEF ListOK, S, p
  <2>5. Aged(M[l], b)
    BY <2>1, <2>4 DEF Aged
  <2>6. AtEnd(z.last[l], M[l], b) /\ z.vector[l] = Over(z.last[l])
    BY <1>1, <1>2, <2>1, <2>2 DEF AtEnd, Over
  <2>7. ASSUME NEW u \in M[l] PROVE Before(z.node[u].prev, u, M[l], b)
    <3>1. CASE u = t
      BY <2>1, <2>2, <2>4, <3>1 DEF Before, AtEnd
    <3>2. CASE u \in S
      <4>1. Before(s.node[u].prev, u, S, a) /\ z.node[u].prev = s.node[u].prev
        BY <2>3, <2>4, <3>2
      <4> QED  BY <2>1, <3>2, <4>1 DEF Before
    <3> QED  BY <2>1, <2>7, <3>1, <3>2
  <2>8. ASSUME NEW u \in M[l] PROVE z.node[u].to = Over(z.node[u].prev)
    BY <2>1, <2>2, <2>3, <2>4, <2>8
  <2>9. Doubly(z, l, M[l])
    <3>1. p # NoTrampoline => p \in S /\ p # t /\ z.node[p].next = t
      BY <1>4, <2>1, <2>3 DEF S
    <3>2. ASSUME NEW u \in S, z.node[u].prev # NoTrampoline PROVE z.node[z.node[u].prev].next = u
      <4>1. /\ s.node[u].prev = z.node[u].prev /\ s.node[s.node[u].prev].next = u
            /\ s.node[u].prev \in S
        BY <2>3, <2>4, <3>2 DEF Before, Doubly
      <4>2. p \in S /\ a[u] <= a[p] /\ a[s.node[u].prev] < a[u]
        BY <2>1, <2>4, <3>2, <4>1 DEF AtEnd, Before
      <4>3. s.node[u].prev # p
        BY <2>1, <4>1, <4>2
      <4> QED  BY <2>3, <4>1, <4>3
    <3>3. ASSUME NEW u \in S
          PROVE  IF z.node[u].next = NoTrampoline THEN u = z.last[l]
                 ELSE z.node[u].next \in M[l] /\ z.node[z.node[u].next].prev = u
      <4>1. CASE u = p
        BY <1>1, <1>2, <2>1, <2>2, <2>3, <3>3, <4>1
      <4>2. CASE u # p
        <5>1. z.node[u].next = s.node[u].next /\ p = s.last[l]
          BY <2>3, <3>3, <4>2 DEF p
        <5>2. s.node[u].next \in S /\ s.node[s.node[u].next].prev = u
          BY <2>4, <3>3, <4>2, <5>1 DEF Doubly
        <5>3. s.node[u].next # NoTrampoline
          BY <1>1, <2>1, <5>2
        <5> QED  BY <2>1, <2>3, <5>1, <5>2, <5>3
      <4> QED  BY <4>1, <4>2
    <3> QED  BY <2>1, <2>2, <3>1, <3>2, <3>3 DEF Doubly
  <2> QED  BY <2>5, <2>6, <2>7, <2>8, <2>9 DEF ListOK
<1>10. ASSUME NEW m \in Lists \ {l} PROVE ListOK(z, m, M[m], b)
  <2>1. /\ M[m] = L[m] /\ L[m] \cap L[l] = {} /\ t \notin L[m] /\ L[m] \subseteq Tramps
        /\ z.last[m] = s.last[m] /\ z.vector[m] = s.vector[m] /\ ListOK(s, m, L[m], a)
    BY <1>1, <1>3, <1>5, <1>10 DEF Sane, Lists, Records
  <2>2. ASSUME NEW u \in L[m] PROVE z.node[u] = s.node[u] /\ b[u] = a[u]
    <3>1. u # t /\ u # p /\ u \in Tramps
      BY <1>1, <1>4, <2>1, <2>2
    <3> QED  BY <1>1, <1>5, <3>1
  <2>3. NoTrampoline \notin L[m]
    BY <1>1, <2>1
  <2> HIDE DEF M, z, b
  <2> QED  BY <2>1, <2>2, <2>3, ListFrame
<1> HIDE DEF M, z, b
<1>11. Sane(z, M, b)
  BY <1>6, <1>7, <1>8, <1>9, <1>10, Together
<1> QED  BY <1>11 DEF z, M, b

\* What destroy() leaves of the list that t was in: its neighbours are linked to each other.
LEMMA DestroyList ==
    ASSUME NEW s \in Records, NEW l \in Lists, NEW S, NEW a \in [Tramps -> Nat], Restricted,
           S \subseteq Tramps, ListOK(s, l, S, a), NEW t \in S
    PROVE  ListOK(Destroy(s, l, t), l, S \ {t}, a)
<1> DEFINE p == s.node[t].prev
           n == s.node[t].next
           z == Destroy(s, l, t)
           R == S \ {t}
<1>1. NoTrampoline \notin Tramps /\ Host \notin Tramps /\ t \in Tramps /\ \A u \in S : a[u] \in Nat
  BY DEF Restricted
<1>2. /\ Aged(S, a) /\ AtEnd(s.last[l], S, a) /\ s.vector[l] = Over(s.last[l])
      /\ \A u \in S : Before(s.node[u].prev, u, S, a)
      /\ \A u \in S : s.node[u].to = Over(s.node[u].prev)
      /\ Doubly(s, l, S)
  BY DEF ListOK
<1>3. s.node \in [Tramps -> Nodes]
  BY DEF Records
<1>4. z.node = [u \in Tramps |->
                 CASE u = p -> [s.node[u] EXCEPT !.next = n]
                   [] u = n -> [s.node[u] EXCEPT !.prev = p, !.to = s.node[t].to]
                   [] OTHER -> s.node[u]]
  BY DEF Destroy
<1>5. /\ z.last[l] = (IF n = NoTrampoline THEN p ELSE s.last[l])
      /\ z.vector[l] = (IF n = NoTrampoline THEN s.node[t].to ELSE s.vector[l])
  <2>1. /\ z.last = IF n = NoTrampoline THEN [s.last EXCEPT ![l] = p] ELSE s.last
        /\ z.vector = IF n = NoTrampoline THEN [s.vector EXCEPT ![l] = s.node[t].to] ELSE s.vector
    BY DEF Destroy
  <2>2. s.last \in [Lists -> Tramps \cup {NoTrampoline}] /\ s.vector \in [Lists -> Tramps \cup {Host}]
    BY DEF Records
  <2> HIDE DEF z
  <2> QED  BY <2>1, <2>2
<1>6. /\ p # NoTrampoline => p \in R /\ a[p] < a[t] /\ \A u \in R : a[u] < a[t] => a[u] <= a[p]
      /\ p = NoTrampoline => \A u \in S : a[t] <= a[u]
      /\ p # NoTrampoline => s.node[p].next = t
  <2>1. Before(p, t, S, a) /\ Doubly(s, l, S)
    BY <1>2
  <2>2. p # NoTrampoline => p \in S /\ a[p] < a[t]
    BY <2>1 DEF Before
  <2>3. p # NoTrampoline => p # t
    BY <1>1, <2>2
  <2> HIDE DEF p
  <2> QED  BY <2>1, <2>2, <2>3 DEF Before, Doubly, p
<1>7. /\ n # NoTrampoline => n \in R /\ s.node[n].prev = t /\ a[t] < a[n] /\ n # p
                     /\ \A u \in S : a[u] < a[n] => a[u] <= a[t]
      /\ n = NoTrampoline => t = s.last[l]
  <2>1. n = NoTrampoline => t = s.last[l]
    BY <1>2 DEF Doubly
  <2>2. n # NoTrampoline => n \in S /\ s.node[n].prev = t
    BY <1>2 DEF Doubly
  <2>3. n # NoTrampoline => a[t] < a[n] /\ \A u \in S : a[u] < a[n] => a[u] <= a[t]
    <3>1. n # NoTrampoline => Before(t, n, S, a)
      BY <1>2, <2>2
    <3>2. t # NoTrampoline
      BY <1>1
    <3> QED  BY <3>1, <3>2 DEF Before
  <2> HIDE DEF n, p
  <2>4. n # NoTrampoline => n # t /\ n # p
    <3> SUFFICES ASSUME n # NoTrampoline PROVE n # t /\ n # p
      OBVIOUS
    <3>1. n \in S /\ a[n] \in Nat /\ a[t] \in Nat /\ a[t] < a[n]
      BY <1>1, <2>2, <2>3
    <3>2. n # t
      BY <3>1
    <3>3. CASE p = NoTrampoline
      BY <1>1, <3>1, <3>2, <3>3
    <3>4. CASE p # NoTrampoline
      <4>1. a[p] < a[t] /\ a[p] \in Nat
        BY <1>1, <1>6, <3>4
      <4> QED  BY <3>1, <3>2, <4>1
    <3> QED  BY <3>3, <3>4
  <2> QED  BY <2>1, <2>2, <2>3, <2>4
<1>8. ASSUME NEW u \in R
      PROVE  /\ z.node[u].next = IF u = p THEN n ELSE s.node[u].next
             /\ z.node[u].prev = IF u = n THEN p ELSE s.node[u].prev
             /\ z.node[u].to = IF u = n THEN s.node[t].to ELSE s.node[u].to
  <2>1. u \in Tramps /\ s.node[u] \in Nodes
    BY <1>3, <1>8
  <2>2. u = p => u # n
    BY <1>1, <1>7, <2>1
  <2> HIDE DEF z, p, n
  <2>3. z.node[u] = IF u = p THEN [s.node[u] EXCEPT !.next = n]
                    ELSE IF u = n THEN [s.node[u] EXCEPT !.prev = p, !.to = s.node[t].to]
                    ELSE s.node[u]
    BY <1>4, <2>1, <2>2
  <2> QED  BY <2>1, <2>2, <2>3 DEF Nodes
<1>9. s.node[t].to = Over(p)
  BY <1>2
<1> HIDE DEF z, p, n
<1>10. Aged(R, a)
  BY <1>2 DEF Aged
<1>11. AtEnd(z.last[l], R, a) /\ z.vector[l] = Over(z.last[l])
  <2>1. CASE n = NoTrampoline
    <3>1. t = s.last[l] /\ \A u \in S : a[u] <= a[t]
      BY <1>1, <1>2, <1>7, <2>1 DEF AtEnd
    <3>2. \A u \in R : a[u] < a[t]
      BY <1>1, <1>2, <3>1 DEF Aged
    <3>3. p = NoTrampoline => R = {}
      BY <1>1, <1>6, <3>2
    <3>4. p # NoTrampoline => p \in R /\ \A u \in R : a[u] <= a[p]
      BY <1>6, <3>2
    <3> QED  BY <1>5, <1>9, <2>1, <3>3, <3>4 DEF AtEnd
  <2>2. CASE n # NoTrampoline
    <3>1. s.last[l] # t
      <4>1. n \in S /\ a[t] < a[n] /\ a[n] \in Nat /\ a[t] \in Nat
        BY <1>1, <1>7, <2>2
      <4>2. s.last[l] # NoTrampoline => a[n] <= a[s.last[l]]
        BY <1>2, <4>1 DEF AtEnd
      <4> QED  BY <1>1, <4>1, <4>2
    <3>2. s.last[l] # NoTrampoline
      BY <1>2 DEF AtEnd
    <3> QED  BY <1>2, <1>5, <2>2, <3>1, <3>2 DEF AtEnd
  <2> QED  BY <2>1, <2>2
<1>12. ASSUME NEW u \in R PROVE Before(z.node[u].prev, u, R, a)
  <2>0. Before(s.node[u].prev, u, S, a) /\ u \in S /\ u \in Tramps
    BY <1>2, <1>12
  <2>1. CASE u = n
    <3>1. z.node[u].prev = p /\ n # NoTrampoline
      BY <1>1, <1>8, <1>12, <2>0, <2>1
    <3>2. \A w \in R : a[w] \in Nat /\ w \in S /\ a[w] # a[t]
      BY <1>1, <1>2 DEF Aged
    <3>3. \A w \in R : a[w] < a[u] => a[w] < a[t]
      BY <1>1, <1>7, <2>1, <3>1, <3>2
    <3>4. CASE p = NoTrampoline
      <4>1. \A w \in R : a[t] <= a[w] /\ a[w] # a[t]
        BY <1>6, <3>2, <3>4
      <4>2. a[t] \in Nat /\ a[u] \in Nat
        BY <1>1, <2>0
      <4> QED  BY <3>1, <3>2, <3>3, <3>4, <4>1, <4>2 DEF Before
    <3>5. CASE p # NoTrampoline
      <4>1. p \in R /\ a[p] < a[t] /\ a[t] < a[u] /\ \A w \in R : a[w] < a[t] => a[w] <= a[p]
        BY <1>6, <1>7, <2>1, <3>1, <3>5
      <4>2. a[p] < a[u]
        BY <1>1, <2>0, <4>1
      <4> QED  BY <3>1, <3>3, <3>5, <4>1, <4>2 DEF Before
    <3> QED  BY <3>4, <3>5
  <2>2. CASE u # n
    <3>1. z.node[u].prev = s.node[u].prev
      BY <1>8, <1>12, <2>2
    <3>2. s.node[u].prev # t
      <4>1. s.node[u].prev = t => s.node[t].next = u
        BY <1>1, <1>2, <2>0 DEF Doubly
      <4> QED  BY <2>2, <4>1 DEF n
    <3> QED  BY <2>0, <3>1, <3>2 DEF Before
  <2> QED  BY <2>1, <2>2
<1>13. ASSUME NEW u \in R PROVE z.node[u].to = Over(z.node[u].prev)
  BY <1>2, <1>8, <1>9, <1>13
<1>14. ASSUME NEW u \in R, z.node[u].prev # NoTrampoline PROVE z.node[z.node[u].prev].next = u
  <2>1. CASE u = n
    <3>1. z.node[u].prev = p /\ p \in R
      BY <1>6, <1>8, <1>14, <2>1
    <3> QED  BY <1>8, <2>1, <3>1
  <2>2. CASE u # n
    <3>1. z.node[u].prev = s.node[u].prev /\ u \in S
      BY <1>8, <1>14, <2>2
    <3>2. s.node[s.node[u].prev].next = u
      BY <1>2, <1>14, <3>1 DEF Doubly
    <3>3. s.node[u].prev # t
      BY <2>2, <3>2 DEF n
    <3>4. s.node[u].prev \in S
      BY <1>2, <1>14, <3>1 DEF Before
    <3>5. s.node[u].prev # p
      BY <1>6, <1>14, <3>1, <3>2
    <3> QED  BY <1>8, <3>1, <3>2, <3>3, <3>4, <3>5
  <2> QED  BY <2>1, <2>2
<1>15. ASSUME NEW u \in R
       PROVE  IF z.node[u].next = NoTrampoline THEN u = z.last[l]
              ELSE z.node[u].next \in R /\ z.node[z.node[u].next].prev = u
  <2>1. CASE u = p
    <3>1. z.node[u].next = n
      BY <1>8, <1>15, <2>1
    <3> QED  BY <1>5, <1>7, <1>8, <2>1, <3>1
  <2>2. CASE u # p
    <3>1. z.node[u].next = s.node[u].next /\ u \in S
      BY <1>8, <1>15, <2>2
    <3>2. IF s.node[u].next = NoTrampoline THEN u = s.last[l]
          ELSE s.node[u].next \in S /\ s.node[s.node[u].next].prev = u
      BY <1>2, <3>1 DEF Doubly
    <3>3. s.node[u].next # NoTrampoline => s.node[u].next # t /\ s.node[u].next # n
      BY <1>7, <1>15, <2>2, <3>2 DEF p
    <3>4. s.node[u].next = NoTrampoline => n # NoTrampoline
      BY <1>7, <1>15, <3>2
    <3> QED  BY <1>5, <1>8, <3>1, <3>2, <3>3, <3>4
  <2> QED  BY <2>1, <2>2
<1>16. Doubly(z, l, R)
  BY <1>14, <1>15 DEF Doubly
<1>17. ListOK(z, l, R, a)
  BY <1>10, <1>11, <1>12, <1>13, <1>16 DEF ListOK
<1> QED  BY <1>17 DEF z

\* destroy() takes a trampoline out of its list and gives it back to the pool.
LEMMA DestroySane ==
    ASSUME NEW s, NEW L, NEW a, Sane(s, L, a), Restricted, NEW l \in Lists, NEW t \in L[l]
    PROVE  Sane(Destroy(s, l, t), [L EXCEPT ![l] = @ \ {t}], a)
<1> DEFINE p == s.node[t].prev
           n == s.node[t].next
           z == Destroy(s, l, t)
           M == [L EXCEPT ![l] = @ \ {t}]
<1>1. /\ s \in Records /\ L \in [Lists -> SUBSET Tramps] /\ a \in [Tramps -> Nat]
      /\ s.pool \in Seq(Tramps) /\ NoTrampoline \notin Tramps /\ t \in Tramps
      /\ s.node \in [Tramps -> Nodes] /\ s.node[t] \in Nodes
      /\ L["pm"] \cap L["rm"] = {} /\ PoolOK(s.pool, L)
      /\ ListOK(s, l, L[l], a) /\ L[l] \subseteq Tramps
  BY DEF Sane, Records, Restricted
<1>2. (p # NoTrampoline => p \in L[l]) /\ (n # NoTrampoline => n \in L[l])
  BY <1>1 DEF ListOK, Before, Doubly
<1>3. /\ z.pool = <<t>> \o s.pool
      /\ z.last = IF n = NoTrampoline THEN [s.last EXCEPT ![l] = p] ELSE s.last
      /\ z.vector = IF n = NoTrampoline THEN [s.vector EXCEPT ![l] = s.node[t].to] ELSE s.vector
      /\ z.node = [u \in Tramps |->
                    CASE u = p -> [s.node[u] EXCEPT !.next = n]
                      [] u = n -> [s.node[u] EXCEPT !.prev = p, !.to = s.node[t].to]
                      [] OTHER -> s.node[u]]
  BY DEF Destroy
<1>4. p \in Tramps \cup {NoTrampoline} /\ n \in Tramps \cup {NoTrampoline} /\ s.node[t].to \in Tramps \cup {Host}
  <2>1. s.node[t].to = Over(p)
    BY <1>1 DEF ListOK
  <2> QED  BY <1>1, <2>1 DEF Nodes, Over
<1>5. ListOK(z, l, L[l] \ {t}, a)
  BY <1>1, DestroyList
<1>6. z \in Records
  <2>1. /\ [s.vector EXCEPT ![l] = s.node[t].to] \in [Lists -> Tramps \cup {Host}]
        /\ [s.last EXCEPT ![l] = p] \in [Lists -> Tramps \cup {NoTrampoline}]
        /\ s.vector \in [Lists -> Tramps \cup {Host}] /\ s.last \in [Lists -> Tramps \cup {NoTrampoline}]
    BY <1>1, <1>4 DEF Records
  <2>2. ASSUME NEW u \in Tramps
        PROVE  /\ [s.node[u] EXCEPT !.next = n] \in Nodes
               /\ [s.node[u] EXCEPT !.prev = p, !.to = s.node[t].to] \in Nodes
               /\ s.node[u] \in Nodes
    BY <1>1, <1>4, <2>2 DEF Nodes
  <2>3. <<t>> \in Seq(Tramps) /\ <<t>> \o s.pool \in Seq(Tramps)
    BY <1>1, ConcatProperties
  <2>4. z = [pool |-> z.pool, last |-> z.last, vector |-> z.vector, node |-> z.node]
    BY DEF Destroy
  <2>5. z.vector \in [Lists -> Tramps \cup {Host}] /\ z.last \in [Lists -> Tramps \cup {NoTrampoline}]
    BY <1>3, <2>1
  <2>6. p # NoTrampoline => p # n
    <3>1. p # NoTrampoline => s.node[p].next = t /\ Before(p, t, L[l], a)
      BY <1>1 DEF ListOK, Doubly
    <3>2. n # NoTrampoline => s.node[n].prev = t /\ Before(t, n, L[l], a)
      BY <1>1 DEF ListOK, Doubly
    <3>3. p # NoTrampoline => a[p] < a[t]
      BY <3>1 DEF Before
    <3>4. n # NoTrampoline => a[t] < a[n]
      BY <1>1, <3>2 DEF Before
    <3> HIDE DEF p, n
    <3>5. a[t] \in Nat /\ (p # NoTrampoline => a[p] \in Nat)
      BY <1>1, <1>4
    <3> QED  BY <3>3, <3>4, <3>5
  <2> HIDE DEF z, p, n
  <2>7. z.node \in [Tramps -> Nodes]
    <3>1. ASSUME NEW u \in Tramps PROVE z.node[u] \in Nodes
      <4>1. u # NoTrampoline
        BY <1>1
      <4> QED  BY <1>3, <2>2, <2>6, <4>1
    <3>2. DOMAIN z.node = Tramps /\ z.node = [u \in Tramps |-> z.node[u]]
      BY <1>3
    <3> QED  BY <3>1, <3>2
  <2> QED  BY <1>3, <2>3, <2>4, <2>5, <2>7 DEF Records
<1>7. M \in [Lists -> SUBSET Tramps] /\ M["pm"] \cap M["rm"] = {}
  BY <1>1 DEF Lists
<1>8. PoolOK(z.pool, M)
  <2>1. /\ z.pool[1] = t /\ Len(z.pool) = Len(s.pool) + 1 /\ Len(s.pool) \in Nat
        /\ \A i \in 1..Len(z.pool) : i # 1 => i - 1 \in 1..Len(s.pool) /\ z.pool[i] = s.pool[i - 1]
    <3>1. <<t>> \in Seq(Tramps) /\ Len(<<t>>) = 1 /\ <<t>>[1] = t /\ Len(s.pool) \in Nat
      BY <1>1, LenProperties
    <3>2. /\ Len(<<t>> \o s.pool) = 1 + Len(s.pool)
          /\ \A i \in 1..(1 + Len(s.pool)) :
                (<<t>> \o s.pool)[i] = IF i <= 1 THEN <<t>>[i] ELSE s.pool[i - 1]
      BY <1>1, <3>1, ConcatProperties
    <3> HIDE DEF z, p, n
    <3>3. z.pool = <<t>> \o s.pool
      BY <1>3
    <3>4. z.pool[1] = t
      BY <3>1, <3>2, <3>3
    <3>5. ASSUME NEW i \in 1..Len(z.pool), i # 1
          PROVE  i - 1 \in 1..Len(s.pool) /\ z.pool[i] = s.pool[i - 1]
      BY <3>1, <3>2, <3>3, <3>5
    <3> QED  BY <3>1, <3>2, <3>3, <3>4, <3>5
  <2>2. t \in L["pm"] \/ t \in L["rm"]
    BY DEF Lists
  <2>3. \A i \in 1..Len(s.pool) : s.pool[i] # t
    BY <1>1, <2>2 DEF PoolOK
  <2>4. M["pm"] \subseteq L["pm"] /\ M["rm"] \subseteq L["rm"] /\ t \notin M["pm"] /\ t \notin M["rm"]
    BY <1>1 DEF Lists
  <2> HIDE DEF M, z
  <2>5. \A i, j \in 1..Len(z.pool) : z.pool[i] = z.pool[j] => i = j
    <3> SUFFICES ASSUME NEW i \in 1..Len(z.pool), NEW j \in 1..Len(z.pool),
                        z.pool[i] = z.pool[j]
                 PROVE  i = j
      OBVIOUS
    <3>1. i = 1 <=> j = 1
      BY <2>1, <2>3
    <3>2. i # 1 /\ j # 1 => i - 1 = j - 1
      <4>1. \A k, m \in 1..Len(s.pool) : s.pool[k] = s.pool[m] => k = m
        BY <1>1 DEF PoolOK
      <4>2. i # 1 => i - 1 \in 1..Len(s.pool) /\ z.pool[i] = s.pool[i - 1]
        BY <2>1
      <4>3. j # 1 => j - 1 \in 1..Len(s.pool) /\ z.pool[j] = s.pool[j - 1]
        BY <2>1
      <4>4. z.pool[i] = z.pool[j]
        OBVIOUS
      <4> QED  BY ONLY <4>1, <4>2, <4>3, <4>4
    <3>3. i \in Int /\ j \in Int
      BY <2>1
    <3> QED  BY <3>1, <3>2, <3>3
  <2>6. \A i \in 1..Len(z.pool) : z.pool[i] \notin M["pm"] /\ z.pool[i] \notin M["rm"]
    BY <1>1, <2>1, <2>4 DEF PoolOK
  <2> QED  BY <2>5, <2>6 DEF PoolOK
<1>9. ListOK(z, l, M[l], a)
  BY <1>1, <1>5
<1>10. ASSUME NEW m \in Lists \ {l} PROVE ListOK(z, m, M[m], a)
  <2>1. /\ M[m] = L[m] /\ L[m] \cap L[l] = {} /\ L[m] \subseteq Tramps
        /\ ListOK(s, m, L[m], a)
    BY <1>1, <1>10 DEF Sane, Lists
  <2>2. z.last[m] = s.last[m] /\ z.vector[m] = s.vector[m]
    <3>1. s.last \in [Lists -> Tramps \cup {NoTrampoline}] /\ s.vector \in [Lists -> Tramps \cup {Host}]
      BY <1>1 DEF Records
    <3> HIDE DEF z, p, n
    <3> QED  BY <1>3, <1>10, <3>1
  <2>3. ASSUME NEW u \in L[m] PROVE z.node[u] = s.node[u] /\ a[u] = a[u]
    <3>1. u # p /\ u # n /\ u \in Tramps
      BY <1>1, <1>2, <2>1, <2>3
    <3> HIDE DEF z, p, n
    <3> QED  BY <1>3, <3>1
  <2>4. NoTrampoline \notin L[m]
    BY <1>1, <2>1
  <2> HIDE DEF M, z
  <2> QED  BY <2>1, <2>2, <2>3, <2>4, ListFrame
<1> HIDE DEF M, z
<1>11. Sane(z, M, a)
  BY <1>1, <1>6, <1>7, <1>8, <1>9, <1>10, Together
<1> QED  BY <1>11 DEF z, M

-----------------------------------------------------------------------------
(* The actions                                                             *)

\* A list in use is what the handlers own of it.
LEMMA LiveOf ==
    ASSUME NEW l, NEW t
    PROVE  t \in Used(l) <=> t # NoTrampoline /\ \E h \in TcHandlers : owns[h][l] = t
BY DEF Used

LEMMA LivesOf == Lives["pm"] = Used("pm") /\ Lives["rm"] = Used("rm") /\ DOMAIN Lives = Lists
BY DEF Lives, Lists

LEMMA InitChain == ASSUME Restricted, TcInit, PoolSize \in Nat PROVE ChainInv
<1>1. /\ pool = [i \in 1..PoolSize |-> i] /\ pool \in Seq(Tramps) /\ Len(pool) = PoolSize
      /\ \A i \in 1..Len(pool) : pool[i] = i
  BY DEF TcInit, Tramps
<1>2. Used("pm") = {} /\ Used("rm") = {}
  BY DEF TcInit, Used
<1>3. now \in Records
  <2>1. /\ tcVector \in [Lists -> Tramps \cup {Host}] /\ tcLast \in [Lists -> Tramps \cup {NoTrampoline}]
        /\ node \in [Tramps -> Nodes]
    BY DEF TcInit, Nodes
  <2> QED  BY <1>1, <2>1 DEF Records, now
<1>4. ASSUME NEW l \in Lists PROVE ListOK(now, l, {}, age)
  BY <1>4 DEF ListOK, Aged, AtEnd, Over, Doubly, now, TcInit
<1>5. Lives \in [Lists -> SUBSET Tramps] /\ \A l \in Lists : Lives[l] = {}
  BY <1>2 DEF Lives, Lists
<1>6. PoolOK(now.pool, Lives)
  <2>1. now.pool = pool /\ Lives["pm"] = {} /\ Lives["rm"] = {}
    BY <1>2, LivesOf DEF now
  <2> QED  BY <1>1, <2>1 DEF PoolOK
<1>7. age \in [Tramps -> Nat] /\ built = 0 /\ \A t \in Tramps : age[t] = 0
  BY DEF TcInit
<1>8. Sane(now, Lives, age)
  BY <1>2, <1>3, <1>4, <1>5, <1>6, <1>7, LivesOf DEF Sane
<1>9. Owners
  BY DEF Owners, TcInit
<1> QED  BY <1>7, <1>8, <1>9 DEF ChainInv

LEMMA Assigned == ASSUME ChainInv, NEW h \in TcHandlers, NEW g \in TcHandlers, Swap(h, g) PROVE ChainInv'
<1>1. /\ owns \in [TcHandlers -> [pm : Tramps \cup {NoTrampoline}, rm : Tramps \cup {NoTrampoline}]] /\ h # g
      /\ owns' = [owns EXCEPT ![h] = owns[g], ![g] = owns[h]]
      /\ UNCHANGED <<pool, tcVector, tcLast, node, built, age>>
  BY DEF ChainInv, Owners, Swap
<1>2. owns' \in [TcHandlers -> [pm : Tramps \cup {NoTrampoline}, rm : Tramps \cup {NoTrampoline}]]
  BY <1>1
<1>3. \A k \in TcHandlers : owns'[k] = IF k = g THEN owns[h] ELSE IF k = h THEN owns[g] ELSE owns[k]
  BY <1>1
<1>4. \A l : Used(l)' = Used(l)
  <2> SUFFICES ASSUME NEW l PROVE {owns'[k][l] : k \in TcHandlers} = {owns[k][l] : k \in TcHandlers}
    BY DEF Used
  <2> QED  BY <1>3
<1>5. Sane(now, Lives, age)'
  BY <1>1, <1>4 DEF ChainInv, now, Lives
<1>6. Owners'
  <2>1. \A k \in TcHandlers : owns'[k].pm = NoTrampoline => owns'[k].rm = NoTrampoline
    BY <1>3 DEF ChainInv, Owners
  <2>2. \A j, k \in TcHandlers : owns'[j].pm = owns'[k].pm => j = k \/ owns'[j].pm = NoTrampoline
    BY <1>3 DEF ChainInv, Owners
  <2>3. \A j, k \in TcHandlers : owns'[j].rm = owns'[k].rm => j = k \/ owns'[j].rm = NoTrampoline
    BY <1>3 DEF ChainInv, Owners
  <2> QED  BY <1>2, <2>1, <2>2, <2>3 DEF Owners
<1> QED  BY <1>1, <1>5, <1>6 DEF ChainInv

\* What the action hands on are the lists of the next state.
LEMMA CreateShape ==
    ASSUME NEW s, NEW l, Become(Create(s, l)) PROVE now' = Create(s, l)
BY DEF Become, now, Create

LEMMA DestroyShape ==
    ASSUME NEW s, NEW l, NEW t, Become(Destroy(s, l, t)) PROVE now' = Destroy(s, l, t)
BY DEF Become, now, Destroy

\* Every trampoline in use was made by now.
LEMMA Constructed ==
    ASSUME ChainInv, Restricted, NEW h \in TcHandlers, NEW both \in BOOLEAN, Construct(h, both)
    PROVE  ChainInv'
<1> DEFINE t == Head(pool)
           u == pool[2]
           s == Create(now, "pm")
           L == [Lives EXCEPT !["pm"] = @ \cup {t}]
           a == [age EXCEPT ![t] = built + 1]
<1>1. /\ built \in Nat /\ built' = built + 1 /\ built + 1 \in Nat /\ age \in [Tramps -> Nat]
      /\ pool \in Seq(Tramps) /\ pool # <<>>
      /\ owns \in [TcHandlers -> [pm : Tramps \cup {NoTrampoline}, rm : Tramps \cup {NoTrampoline}]]
      /\ owns[h].pm = NoTrampoline /\ owns[h].rm = NoTrampoline /\ NoTrampoline \notin Tramps
      /\ Sane(now, Lives, age) /\ Lives \in [Lists -> SUBSET Tramps] /\ PoolOK(pool, Lives)
      /\ \A w \in Tramps : age[w] <= built
  BY DEF ChainInv, Owners, Construct, Idle, Sane, Records, now, Restricted
<1>2. /\ t \in Tramps /\ t = pool[1] /\ 1 \in 1..Len(pool) /\ Len(pool) \in Nat
      /\ Tail(pool) \in Seq(Tramps) /\ Len(Tail(pool)) = Len(pool) - 1
      /\ (Len(pool) > 1 => Tail(pool) # <<>> /\ Head(Tail(pool)) = u /\ 2 \in 1..Len(pool) /\ u \in Tramps)
  <2>1. /\ t \in Tramps /\ Len(pool) \in Nat /\ Tail(pool) \in Seq(Tramps)
        /\ Len(Tail(pool)) = Len(pool) - 1 /\ t = pool[1] /\ 1 \in 1..Len(pool)
    BY <1>1, HeadTailProperties, EmptySeq, LenProperties
  <2>2. ASSUME Len(pool) > 1
        PROVE  Tail(pool) # <<>> /\ Head(Tail(pool)) = u /\ 2 \in 1..Len(pool) /\ u \in Tramps
    <3>1. 2 \in 1..Len(pool) /\ Len(Tail(pool)) # 0
      BY <2>1, <2>2
    <3>2. u \in Tramps
      BY <1>1, <3>1, ElementOfSeq
    <3>3. Tail(pool) # <<>> /\ Head(Tail(pool)) = Tail(pool)[1]
      <4>1. Tail(pool) # <<>>
        BY <2>1, <3>1, EmptySeq
      <4> QED  BY <2>1, <4>1, HeadTailProperties
    <3>4. Tail(pool)[1] = pool[1 + 1]
      BY <1>1, <2>1, <3>1
    <3> QED  BY <3>1, <3>2, <3>3, <3>4
  <2> QED  BY <2>1, <2>2
<1>3. t \notin Lives["pm"] /\ t \notin Lives["rm"] /\ (Len(pool) > 1 => u # t)
  BY <1>1, <1>2 DEF PoolOK
<1>4. Sane(s, L, a) /\ s.pool = Tail(pool)
  <2>1. /\ now.pool = pool /\ "pm" \in Lists
        /\ \A w \in Lives["pm"] : age[w] < built + 1
    BY <1>1 DEF now, Lists
  <2>2. s.pool = Tail(pool)
    BY DEF Create, now
  <2> QED  BY <1>1, <2>1, <2>2, CreateSane
<1>5. CASE both
  <2> DEFINE z == Create(s, "rm")
             M == [L EXCEPT !["rm"] = @ \cup {u}]
             b == [a EXCEPT ![u] = built + 1]
  <2>1. /\ Len(pool) > 1 /\ Become(z)
        /\ owns' = [owns EXCEPT ![h] = [pm |-> t, rm |-> u]]
        /\ age' = [age EXCEPT ![t] = built', ![u] = built']
    BY <1>5 DEF Construct
  <2>2. Sane(z, M, b)
    <3>1. "rm" \in Lists /\ "pm" \in Lists /\ "rm" # "pm"
      BY DEF Lists
    <3>2. \A w \in L["rm"] : a[w] < built + 1
      <4>1. L["rm"] = Lives["rm"]
        BY <1>1, <3>1
      <4>2. ASSUME NEW w \in Lives["rm"] PROVE a[w] < built + 1
        <5>1. w # t /\ w \in Tramps
          BY <1>1, <1>3, <3>1, <4>2
        <5>2. a[w] = age[w] /\ age[w] \in Nat /\ age[w] <= built
          BY <1>1, <5>1
        <5> QED  BY <1>1, <5>2
      <4> HIDE DEF L, a
      <4> QED  BY <4>1, <4>2
    <3>3. s.pool # <<>> /\ Head(s.pool) = u
      BY <1>2, <1>4, <2>1
    <3> HIDE DEF s, L, a, u
    <3>4. Sane(Create(s, "rm"), [L EXCEPT !["rm"] = @ \cup {Head(s.pool)}],
               [a EXCEPT ![Head(s.pool)] = built + 1])
      BY <1>1, <1>4, <3>1, <3>2, <3>3, CreateSane
    <3> QED  BY <3>3, <3>4
  <2>3. now' = z
    BY <2>1, CreateShape
  <2>4. age' = b /\ \A w \in Tramps : age'[w] <= built'
    <3>1. age' = b
      BY <1>1, <2>1
    <3>2. \A w \in Tramps : b[w] = built + 1 \/ b[w] = age[w]
      BY <1>1, <1>2, <2>1
    <3>3. \A w \in Tramps : age[w] \in Nat /\ age[w] <= built
      BY <1>1
    <3> HIDE DEF b
    <3> QED  BY <1>1, <3>1, <3>2, <3>3
  <2>5. ASSUME NEW k \in TcHandlers
        PROVE  /\ owns'[k].pm = IF k = h THEN t ELSE owns[k].pm
               /\ owns'[k].rm = IF k = h THEN u ELSE owns[k].rm
    <3> HIDE DEF t, u
    <3> QED  BY <1>1, <2>1, <2>5
  <2>6. Used("pm")' = Used("pm") \cup {t} /\ Used("rm")' = Used("rm") \cup {u}
    <3>1. t # NoTrampoline /\ u # NoTrampoline
      BY <1>1, <1>2, <2>1
    <3> HIDE DEF t, u
    <3>2. ASSUME NEW w PROVE w \in Used("pm")' <=> w \in Used("pm") \cup {t}
      <4>1. w \in Used("pm")' <=> w # NoTrampoline /\ \E k \in TcHandlers : owns'[k].pm = w
        BY DEF Used
      <4>2. w \in Used("pm") <=> w # NoTrampoline /\ \E k \in TcHandlers : owns[k].pm = w
        BY DEF Used
      <4> QED  BY <1>1, <2>5, <3>1, <4>1, <4>2
    <3>3. ASSUME NEW w PROVE w \in Used("rm")' <=> w \in Used("rm") \cup {u}
      <4>1. w \in Used("rm")' <=> w # NoTrampoline /\ \E k \in TcHandlers : owns'[k].rm = w
        BY DEF Used
      <4>2. w \in Used("rm") <=> w # NoTrampoline /\ \E k \in TcHandlers : owns[k].rm = w
        BY DEF Used
      <4> QED  BY <1>1, <2>5, <3>1, <4>1, <4>2
    <3> QED  BY <3>2, <3>3
  <2>7. Lives' = M
    <3>1. M = [l \in Lists |-> IF l = "rm" THEN Used("rm") \cup {u} ELSE Used("pm") \cup {t}]
      BY <1>1 DEF Lists, Lives
    <3>2. Lives' = [l \in Lists |-> IF l = "rm" THEN Used("rm")' ELSE Used("pm")']
      BY DEF Lives, Lists
    <3> HIDE DEF M, t, u
    <3> QED  BY <2>6, <3>1, <3>2
  <2>8. Owners'
    <3>1. owns' \in [TcHandlers -> [pm : Tramps \cup {NoTrampoline}, rm : Tramps \cup {NoTrampoline}]]
      BY <1>1, <1>2, <2>1
    <3>2. ASSUME NEW k \in TcHandlers PROVE owns[k].pm # t /\ owns[k].rm # u
      <4>1. t \notin Used("pm") /\ u \notin Used("rm") /\ t # NoTrampoline /\ u # NoTrampoline
        <5>1. u \notin Lives["rm"]
          BY <1>1, <1>2, <2>1 DEF PoolOK
        <5> QED  BY <1>1, <1>2, <1>3, <2>1, <5>1, LivesOf
      <4> HIDE DEF t, u
      <4> QED  BY <3>2, <4>1 DEF Used
    <3>3. t # NoTrampoline
      BY <1>1, <1>2
    <3> HIDE DEF t, u
    <3>4. \A k \in TcHandlers : owns'[k].pm = NoTrampoline => owns'[k].rm = NoTrampoline
      BY <2>5, <3>3 DEF ChainInv, Owners
    <3>5. \A j, k \in TcHandlers : owns'[j].pm = owns'[k].pm => j = k \/ owns'[j].pm = NoTrampoline
      BY <2>5, <3>2 DEF ChainInv, Owners
    <3>6. \A j, k \in TcHandlers : owns'[j].rm = owns'[k].rm => j = k \/ owns'[j].rm = NoTrampoline
      BY <2>5, <3>2 DEF ChainInv, Owners
    <3> QED  BY <3>1, <3>4, <3>5, <3>6 DEF Owners
  <2>9. Sane(now, Lives, age)'
    <3> HIDE DEF z, M, b
    <3> QED  BY <2>2, <2>3, <2>4, <2>7
  <2> QED  BY <1>1, <2>4, <2>8, <2>9 DEF ChainInv
<1>6. CASE ~both
  <2>1. /\ Become(s) /\ owns' = [owns EXCEPT ![h].pm = t]
        /\ age' = [age EXCEPT ![t] = built']
    BY <1>6 DEF Construct
  <2>2. now' = s
    BY <2>1, CreateShape
  <2>3. age' = a /\ \A w \in Tramps : age'[w] <= built'
    BY <1>1, <1>2, <2>1
  <2>4. \A k \in TcHandlers : /\ owns'[k].pm = IF k = h THEN t ELSE owns[k].pm
                            /\ owns'[k].rm = owns[k].rm
    BY <1>1, <2>1
  <2>5. Used("pm")' = Used("pm") \cup {t} /\ Used("rm")' = Used("rm")
    <3>1. t # NoTrampoline
      BY <1>1, <1>2
    <3> HIDE DEF t
    <3>2. ASSUME NEW w PROVE w \in Used("pm")' <=> w \in Used("pm") \cup {t}
      <4>1. w \in Used("pm")' <=> w # NoTrampoline /\ \E k \in TcHandlers : owns'[k].pm = w
        BY DEF Used
      <4>2. w \in Used("pm") <=> w # NoTrampoline /\ \E k \in TcHandlers : owns[k].pm = w
        BY DEF Used
      <4> QED  BY <1>1, <2>4, <3>1, <4>1, <4>2
    <3>3. ASSUME NEW w PROVE w \in Used("rm")' <=> w \in Used("rm")
      <4>1. w \in Used("rm")' <=> w # NoTrampoline /\ \E k \in TcHandlers : owns'[k].rm = w
        BY DEF Used
      <4>2. w \in Used("rm") <=> w # NoTrampoline /\ \E k \in TcHandlers : owns[k].rm = w
        BY DEF Used
      <4> QED  BY <2>4, <4>1, <4>2
    <3> QED  BY <3>2, <3>3
  <2>6. Lives' = L
    <3>1. L = [l \in Lists |-> IF l = "rm" THEN Used("rm") ELSE Used("pm") \cup {t}]
      BY <1>1 DEF Lists, Lives
    <3>2. Lives' = [l \in Lists |-> IF l = "rm" THEN Used("rm")' ELSE Used("pm")']
      BY DEF Lives, Lists
    <3> HIDE DEF L, t
    <3> QED  BY <2>5, <3>1, <3>2
  <2>7. Owners'
    <3>1. owns' \in [TcHandlers -> [pm : Tramps \cup {NoTrampoline}, rm : Tramps \cup {NoTrampoline}]]
      BY <1>1, <1>2, <2>1
    <3>2. ASSUME NEW k \in TcHandlers PROVE owns[k].pm # t
      <4>1. t \notin Used("pm") /\ t # NoTrampoline
        BY <1>1, <1>2, <1>3, LivesOf
      <4> HIDE DEF t
      <4> QED  BY <3>2, <4>1 DEF Used
    <3>3. t # NoTrampoline
      BY <1>1, <1>2
    <3> HIDE DEF t
    <3>4. \A k \in TcHandlers : owns'[k].pm = NoTrampoline => owns'[k].rm = NoTrampoline
      BY <2>4, <3>3 DEF ChainInv, Owners
    <3>5. \A j, k \in TcHandlers : owns'[j].pm = owns'[k].pm => j = k \/ owns'[j].pm = NoTrampoline
      BY <2>4, <3>2 DEF ChainInv, Owners
    <3>6. \A j, k \in TcHandlers : owns'[j].rm = owns'[k].rm => j = k \/ owns'[j].rm = NoTrampoline
      BY <2>4 DEF ChainInv, Owners
    <3> QED  BY <3>1, <3>4, <3>5, <3>6 DEF Owners
  <2>8. Sane(now, Lives, age)'
    <3> HIDE DEF s, L, a
    <3> QED  BY <1>4, <2>2, <2>3, <2>6
  <2> QED  BY <1>1, <2>3, <2>7, <2>8 DEF ChainInv
<1> QED  BY <1>5, <1>6

LEMMA Destructed ==
    ASSUME ChainInv, Restricted, NEW h \in TcHandlers, Destruct(h) PROVE ChainInv'
<1> DEFINE t == owns[h].pm
           u == owns[h].rm
           s == Destroy(now, "pm", t)
           L == [Lives EXCEPT !["pm"] = @ \ {t}]
           M == [L EXCEPT !["rm"] = @ \ {u}]
<1>1. /\ built \in Nat /\ built' = built /\ age \in [Tramps -> Nat]
      /\ \A w \in Tramps : age[w] <= built
      /\ owns \in [TcHandlers -> [pm : Tramps \cup {NoTrampoline}, rm : Tramps \cup {NoTrampoline}]]
      /\ owns' = [owns EXCEPT ![h] = [pm |-> NoTrampoline, rm |-> NoTrampoline]]
      /\ age' = [w \in Tramps |-> IF w \in {t, u} THEN 0 ELSE age[w]]
      /\ Sane(now, Lives, age) /\ Lives \in [Lists -> SUBSET Tramps] /\ NoTrampoline \notin Tramps
      /\ t # NoTrampoline /\ t \in Tramps /\ u \in Tramps \cup {NoTrampoline}
      /\ "pm" \in Lists /\ "rm" \in Lists /\ Lives["pm"] \cap Lives["rm"] = {}
  BY DEF ChainInv, Owners, Destruct, Sane, Restricted, Lists
<1>2. t \in Lives["pm"] /\ (u # NoTrampoline => u \in Lives["rm"])
  <2>1. t \in Used("pm") /\ (u # NoTrampoline => u \in Used("rm"))
    BY <1>1 DEF Used
  <2> QED  BY <2>1, LivesOf
<1>3. Sane(s, L, age)
  <2> HIDE DEF t
  <2> QED  BY <1>1, <1>2, DestroySane
<1>4. Sane(now', M, age)
  <2>1. Become(IF u = NoTrampoline THEN s ELSE Destroy(s, "rm", u))
    BY DEF Destruct
  <2>2. CASE u = NoTrampoline
    <3>1. now' = s
      BY <2>1, <2>2, DestroyShape
    <3>2. M = L
      <4>1. L \in [Lists -> SUBSET Tramps] /\ u \notin L["rm"]
        BY <1>1, <2>2
      <4> HIDE DEF L, u
      <4> QED  BY <1>1, <4>1
    <3> HIDE DEF M, L, s
    <3> QED  BY <1>3, <3>1, <3>2
  <2>3. CASE u # NoTrampoline
    <3>1. now' = Destroy(s, "rm", u)
      BY <2>1, <2>3, DestroyShape
    <3>2. u \in L["rm"]
      BY <1>1, <1>2, <2>3
    <3> HIDE DEF L, s, u, t
    <3> QED  BY <1>1, <1>3, <3>1, <3>2, DestroySane
  <2> QED  BY <2>2, <2>3
<1>5. ASSUME NEW k \in TcHandlers
      PROVE  /\ owns'[k].pm = IF k = h THEN NoTrampoline ELSE owns[k].pm
             /\ owns'[k].rm = IF k = h THEN NoTrampoline ELSE owns[k].rm
  BY <1>1, <1>5
<1>6. Used("pm")' = Used("pm") \ {t} /\ Used("rm")' = Used("rm") \ {u}
  <2>1. ASSUME NEW w PROVE w \in Used("pm")' <=> w \in Used("pm") \ {t}
    <3>1. w \in Used("pm")' <=> w # NoTrampoline /\ \E k \in TcHandlers : owns'[k].pm = w
      BY DEF Used
    <3>2. w \in Used("pm") <=> w # NoTrampoline /\ \E k \in TcHandlers : owns[k].pm = w
      BY DEF Used
    <3>3. \A k \in TcHandlers : owns[k].pm = t => k = h
      BY <1>1 DEF ChainInv, Owners
    <3> QED  BY <1>5, <3>1, <3>2, <3>3
  <2>2. ASSUME NEW w PROVE w \in Used("rm")' <=> w \in Used("rm") \ {u}
    <3>1. w \in Used("rm")' <=> w # NoTrampoline /\ \E k \in TcHandlers : owns'[k].rm = w
      BY DEF Used
    <3>2. w \in Used("rm") <=> w # NoTrampoline /\ \E k \in TcHandlers : owns[k].rm = w
      BY DEF Used
    <3>3. \A k \in TcHandlers : owns[k].rm = u => k = h \/ u = NoTrampoline
      BY <1>1 DEF ChainInv, Owners
    <3> QED  BY <1>5, <3>1, <3>2, <3>3
  <2> QED  BY <2>1, <2>2
<1>7. Lives' = M
  <2>1. M = [l \in Lists |-> IF l = "rm" THEN Used("rm") \ {u} ELSE Used("pm") \ {t}]
    BY <1>1 DEF Lists, Lives
  <2>2. Lives' = [l \in Lists |-> IF l = "rm" THEN Used("rm")' ELSE Used("pm")']
    BY DEF Lives, Lists
  <2> HIDE DEF M, t, u
  <2> QED  BY <1>6, <2>1, <2>2
<1>8. Sane(now', M, age')
  <2>1. age' \in [Tramps -> Nat]
    BY <1>1
  <2>2. M["pm"] = Lives["pm"] \ {t} /\ M["rm"] = Lives["rm"] \ {u}
    BY <1>1
  <2>3. t \notin M["pm"] /\ t \notin M["rm"] /\ u \notin M["rm"] /\ (u # NoTrampoline => u \notin M["pm"])
    BY <1>1, <1>2, <2>2
  <2> HIDE DEF M, t, u
  <2>4. ASSUME NEW l \in Lists, NEW w \in M[l] PROVE age'[w] = age[w]
    <3>1. w \in Tramps
      BY <1>4, <2>4 DEF Sane
    <3>2. w # t /\ w # u
      BY <1>1, <2>3, <2>4, <3>1 DEF Lists
    <3> QED  BY <1>1, <3>1, <3>2
  <2> QED  BY <1>4, <2>1, <2>4, OtherAges
<1>9. Sane(now, Lives, age)'
  <2> HIDE DEF M
  <2> QED  BY <1>7, <1>8
<1>10. Owners'
  <2>1. owns' \in [TcHandlers -> [pm : Tramps \cup {NoTrampoline}, rm : Tramps \cup {NoTrampoline}]]
    BY <1>1
  <2>2. \A k \in TcHandlers : owns'[k].pm = NoTrampoline => owns'[k].rm = NoTrampoline
    BY <1>5 DEF ChainInv, Owners
  <2>3. \A j, k \in TcHandlers : owns'[j].pm = owns'[k].pm => j = k \/ owns'[j].pm = NoTrampoline
    BY <1>5 DEF ChainInv, Owners
  <2>4. \A j, k \in TcHandlers : owns'[j].rm = owns'[k].rm => j = k \/ owns'[j].rm = NoTrampoline
    BY <1>5 DEF ChainInv, Owners
  <2> QED  BY <2>1, <2>2, <2>3, <2>4 DEF Owners
<1>11. \A w \in Tramps : age'[w] <= built'
  BY <1>1
<1> QED  BY <1>1, <1>9, <1>10, <1>11 DEF ChainInv

\* A construction that fails leaves the lists alone, unless it fails half way.
LEMMA Failed ==
    ASSUME ChainInv, Restricted, NEW h \in TcHandlers, ConstructFails(h) PROVE ChainInv'
<1>1. /\ built \in Nat /\ built' = built + 1 /\ UNCHANGED <<pool, tcVector, tcLast, node, owns, age>>
      /\ age \in [Tramps -> Nat]
  BY DEF ChainInv, ConstructFails, Idle, Restricted, Sane
<1>2. \A t \in Tramps : age'[t] <= built'
  BY <1>1 DEF ChainInv
<1>3. Owners'
  BY <1>1 DEF ChainInv, Owners
<1>4. Sane(now, Lives, age)'
  BY <1>1 DEF ChainInv, now, Lives, Used
<1> QED  BY <1>1, <1>2, <1>3, <1>4 DEF ChainInv

\* What the order of the list says of the chain.
LEMMA InvIntact == ASSUME ChainInv, Restricted PROVE ChainIntact
<1> SUFFICES ASSUME NEW l \in Lists
             PROVE  /\ Newest(tcVector[l], Used(l))
                    /\ \A t \in Used(l) : Newest(node[t].to, {u \in Used(l) : age[u] < age[t]})
                    /\ \A i \in 1..Len(pool) : pool[i] \notin Used(l)
  BY DEF ChainIntact
<1>1. /\ Lives[l] = Used(l) /\ Used(l) \subseteq Tramps /\ NoTrampoline \notin Tramps
      /\ \A u \in Used(l) : age[u] \in Nat
      /\ ListOK(now, l, Used(l), age) /\ now.vector[l] = tcVector[l] /\ now.last[l] = tcLast[l]
      /\ now.node = node /\ now.pool = pool
  BY DEF ChainInv, Sane, Lives, Restricted, now
<1>2. Newest(tcVector[l], Used(l))
  BY <1>1 DEF ListOK, AtEnd, Over, Newest
<1>3. ASSUME NEW t \in Used(l)
      PROVE  Newest(node[t].to, {u \in Used(l) : age[u] < age[t]})
  <2>1. Before(node[t].prev, t, Used(l), age) /\ node[t].to = Over(node[t].prev)
    BY <1>1, <1>3 DEF ListOK
  <2>2. age[t] \in Nat
    BY <1>1, <1>3
  <2> QED  BY <1>1, <2>1, <2>2 DEF Before, Over, Newest
<1>4. \A i \in 1..Len(pool) : pool[i] \notin Used(l)
  <2>1. PoolOK(pool, Lives)
    BY <1>1 DEF ChainInv, Sane
  <2> QED  BY <1>1, <2>1 DEF PoolOK, Lists
<1> QED  BY <1>2, <1>3, <1>4

\* Whatever exception_handler objects are constructed, assigned and destroyed, in whatever order:
\* an exception reaches the newest one, and each chains to the next older one and the last to the
\* host's handler, and no trampoline in use is given out again.
THEOREM ChainsStayIntact == (Restricted /\ PoolSize \in Nat) => (TcSpec => []ChainIntact)
<1> SUFFICES ASSUME Restricted, PoolSize \in Nat PROVE TcSpec => []ChainIntact
  OBVIOUS
<1>1. TcInit => ChainInv
  BY InitChain
<1>2. ChainInv /\ [TcNext]_tcVars => ChainInv'
  <2> SUFFICES ASSUME ChainInv, [TcNext]_tcVars PROVE ChainInv'
    OBVIOUS
  <2>1. CASE UNCHANGED tcVars
    BY <2>1 DEF tcVars, ChainInv, Owners, now, Lives, Used
  <2>2. ASSUME NEW h \in TcHandlers, NEW both \in BOOLEAN, Construct(h, both) PROVE ChainInv'
    BY <2>2, Constructed
  <2>3. ASSUME NEW h \in TcHandlers, ConstructFails(h) PROVE ChainInv'
    BY <2>3, Failed
  <2>4. ASSUME NEW h \in TcHandlers, Destruct(h) PROVE ChainInv'
    BY <2>4, Destructed
  <2>5. ASSUME NEW h \in TcHandlers, NEW g \in TcHandlers, Swap(h, g) PROVE ChainInv'
    BY <2>5, Assigned
  <2> QED  BY <2>1, <2>2, <2>3, <2>4, <2>5 DEF TcNext
<1>3. ChainInv => ChainIntact
  BY InvIntact
<1> QED  BY <1>1, <1>2, <1>3, PTL DEF TcSpec

-----------------------------------------------------------------------------
(* Exceptions: the inductive invariant                                     *)

ContextKinds == {"code", "exc", "signal", "irq", "stub", "rethrow"}
ContextType == [kind : ContextKinds, seg : {"main", "safe"}, id : Int, gone : BOOLEAN]

ExTypes ==
    /\ ctx \in Seq(ContextType) /\ pendingExceptions \in Seq(Int)
    /\ free \in Int /\ faults \in Nat /\ raised \in Nat

\* The application is at the bottom, and only what handles an exception is redirected.
Stacked ==
    /\ ctx # <<>> /\ ctx[1].kind = "code"
    /\ \A i \in 1 .. Len(ctx) : ctx[i].gone => ctx[i].kind \in {"exc", "signal"}

\* Nothing that will throw is above a function that rethrows.
RethrowAlone ==
    \A i \in 1 .. Len(ctx) : ctx[i].kind = "rethrow" => i + 1 \notin InFlight

\* While the limit is low without a signal pending, a signal's function runs.
LowForSignal ==
    /\ signals # {} => low
    /\ low => signals # {} \/ \E i \in 1 .. Len(ctx) : ctx[i].kind = "signal" /\ ~ctx[i].gone

ExInv == ExTypes /\ Stacked /\ RethrowAlone /\ LowForSignal /\ ExceptionsNest

-----------------------------------------------------------------------------
(* Exceptions: what is in flight in a stack s of contexts                  *)

Trampolines(s) == {i \in 1 .. Len(s) : s[i].gone \/ s[i].kind = "stub"}
Flying(s) == Trampolines(s) \cup {i \in 1 .. Len(s) : s[i].kind = "rethrow"}

\* In the order of S the exceptions p are those of the contexts.
InOrder(s, S, p) ==
    /\ Len(p) = Cardinality(S)
    /\ \A i \in S : p[Cardinality({j \in S : j <= i})] = s[i].id

\* What a push and a pop leave of a stack.
LEMMA PushFacts ==
    ASSUME NEW B, NEW s \in Seq(B), NEW e \in B
    PROVE  /\ Append(s, e) \in Seq(B) /\ Len(Append(s, e)) = Len(s) + 1 /\ Append(s, e) # << >>
           /\ \A i \in 1 .. Len(s) : Append(s, e)[i] = s[i]
           /\ Append(s, e)[Len(s) + 1] = e
BY AppendProperties

LEMMA PopFacts ==
    ASSUME NEW B, NEW s \in Seq(B), Len(s) > 0
    PROVE  /\ SubSeq(s, 1, Len(s) - 1) \in Seq(B) /\ Len(SubSeq(s, 1, Len(s) - 1)) = Len(s) - 1
           /\ \A i \in 1 .. Len(s) - 1 : SubSeq(s, 1, Len(s) - 1)[i] = s[i]
<1>1. Len(s) \in Nat /\ \A i \in 1 .. Len(s) - 1 : s[i] \in B
  BY LenProperties, ElementOfSeq
<1> DEFINE n == Len(s) - 1
<1>2. n \in Int /\ n = Len(s) - 1
  BY <1>1
<1> HIDE DEF n
<1>3. \A i \in 1 .. n : s[i] \in B
  BY <1>1, <1>2
<1>4. /\ SubSeq(s, 1, n) \in Seq(B) /\ Len(SubSeq(s, 1, n)) = (IF 1 <= n THEN n - 1 + 1 ELSE 0)
      /\ \A i \in 1 .. n - 1 + 1 : SubSeq(s, 1, n)[i] = s[1 + i - 1]
  BY <1>2, <1>3, SubSeqProperties
<1>5. Len(SubSeq(s, 1, n)) = n /\ \A i \in 1 .. n : SubSeq(s, 1, n)[i] = s[i]
  BY <1>1, <1>2, <1>4
<1>6. QED BY <1>4, <1>5 DEF n

LEMMA NestIn ==
    ASSUME ExTypes
    PROVE  /\ WithTrampoline = Trampolines(ctx) /\ InFlight = Flying(ctx)
           /\ ExceptionsNest <=> (~ended => /\ ~wrong
                                            /\ InOrder(ctx, Flying(ctx), pendingExceptions)
                                            /\ Pool = free + Cardinality(Trampolines(ctx)))
<1>1. DOMAIN ctx = 1 .. Len(ctx)
  BY LenProperties DEF ExTypes
<1>2. WithTrampoline = Trampolines(ctx) /\ InFlight = Flying(ctx)
  BY <1>1 DEF WithTrampoline, InFlight, Trampolines, Flying
<1>q. QED
  BY <1>2 DEF ExceptionsNest, InOrder

LEMMA NestInNext ==
    ASSUME ExTypes'
    PROVE  /\ WithTrampoline' = Trampolines(ctx') /\ InFlight' = Flying(ctx')
           /\ ExceptionsNest' <=> (~ended' => /\ ~wrong'
                                             /\ InOrder(ctx', Flying(ctx'), pendingExceptions')
                                             /\ Pool = free' + Cardinality(Trampolines(ctx')))
<1>1. DOMAIN ctx' = 1 .. Len(ctx')
  BY LenProperties DEF ExTypes
<1>2. WithTrampoline' = Trampolines(ctx') /\ InFlight' = Flying(ctx')
  BY <1>1 DEF WithTrampoline, InFlight, Trampolines, Flying
<1>q. QED
  BY <1>2 DEF ExceptionsNest, InOrder

LEMMA FlyingFinite ==
    ASSUME NEW s \in Seq(ContextType)
    PROVE  /\ Len(s) \in Nat /\ Flying(s) \in SUBSET (1 .. Len(s)) /\ IsFiniteSet(Flying(s))
           /\ Trampolines(s) \in SUBSET Flying(s) /\ IsFiniteSet(Trampolines(s))
<1>1. Len(s) \in Nat
  BY LenProperties
<1>2. Flying(s) \in SUBSET (1 .. Len(s)) /\ Trampolines(s) \in SUBSET Flying(s)
  BY DEF Flying, Trampolines
<1>3. IsFiniteSet(1 .. Len(s))
  BY <1>1, FS_Interval
<1>4. IsFiniteSet(Flying(s))
  BY <1>2, <1>3, FS_Subset
<1>q. QED
  BY <1>1, <1>2, <1>4, FS_Subset

LEMMA OrderSame ==
    ASSUME NEW s, NEW t, NEW S, NEW p, InOrder(s, S, p), \A i \in S : t[i].id = s[i].id
    PROVE  InOrder(t, S, p)
BY DEF InOrder

\* A last one is added.
LEMMA OrderGrows ==
    ASSUME NEW s, NEW t, NEW S, IsFiniteSet(S), NEW n \in Int, S \subseteq Int, \A i \in S : i < n,
           NEW p \in Seq(Int), InOrder(s, S, p), \A i \in S : t[i].id = s[i].id, t[n].id \in Int
    PROVE  InOrder(t, S \cup {n}, Append(p, t[n].id))
<1> DEFINE q == Append(p, t[n].id)
<1>1. Cardinality(S \cup {n}) = Cardinality(S) + 1 /\ Cardinality(S) \in Nat
  BY FS_AddElement, FS_CardinalityType
<1>2. /\ Len(p) \in Nat /\ Len(q) = Len(p) + 1 /\ q[Len(p) + 1] = t[n].id
      /\ \A i \in 1 .. Len(p) : q[i] = p[i]
  BY AppendProperties, LenProperties
<1>3. ASSUME NEW i \in S
      PROVE  q[Cardinality({j \in S \cup {n} : j <= i})] = t[i].id
  <2> DEFINE R == {j \in S : j <= i}
  <2>1. {j \in S \cup {n} : j <= i} = R
    BY <1>3
  <2>2. IsFiniteSet(R) /\ Cardinality(R) <= Cardinality(S) /\ Cardinality(R) \in Nat
    BY FS_Subset, FS_CardinalityType
  <2>3. Cardinality(R) # 0
    <3>1. i \in R
      BY <1>3
    <3>q. QED
      BY <2>2, <3>1, FS_EmptySet
  <2>4. Cardinality(R) \in 1 .. Len(p)
    BY <1>1, <2>2, <2>3 DEF InOrder
  <2>5. p[Cardinality(R)] = t[i].id
    BY <1>3 DEF InOrder
  <2>q. QED
    BY <1>2, <2>1, <2>4, <2>5
<1>4. q[Cardinality({j \in S \cup {n} : j <= n})] = t[n].id
  <2>1. \A j \in S \cup {n} : j <= n
    OBVIOUS
  <2>2. {j \in S \cup {n} : j <= n} = S \cup {n}
    BY <2>1
  <2>q. QED
    BY <1>1, <1>2, <2>2 DEF InOrder
<1>q. QED
  BY <1>1, <1>2, <1>3, <1>4 DEF InOrder

\* The last one is that of the last context.
LEMMA LastInOrder ==
    ASSUME NEW s, NEW S, IsFiniteSet(S), NEW n \in S, S \subseteq Int, \A i \in S : i <= n,
           NEW p \in Seq(Int), InOrder(s, S, p)
    PROVE  /\ Len(p) = Cardinality(S) /\ Len(p) \in Nat /\ Len(p) > 0
           /\ p # <<>> /\ p[Len(p)] = s[n].id
           /\ Popped(p) \in Seq(Int) /\ Len(Popped(p)) = Len(p) - 1
           /\ \A i \in 1 .. Len(p) - 1 : Popped(p)[i] = p[i]
<1>1. Cardinality(S) \in Nat /\ Cardinality(S \ {n}) = Cardinality(S) - 1
      /\ Cardinality(S \ {n}) \in Nat
  BY FS_RemoveElement, FS_CardinalityType
<1>2. Len(p) = Cardinality(S) /\ Len(p) \in Nat /\ Len(p) > 0
  BY <1>1 DEF InOrder
<1>3. p # <<>> /\ p[Len(p)] = s[n].id
  <2>1. {j \in S : j <= n} = S
    OBVIOUS
  <2>q. QED
    BY <1>2, <2>1 DEF InOrder
<1>4. /\ Popped(p) \in Seq(Int) /\ Len(Popped(p)) = Len(p) - 1
      /\ \A i \in 1 .. Len(p) - 1 : Popped(p)[i] = p[i]
  BY <1>2, PopFacts DEF Popped
<1>q. QED
  BY <1>2, <1>3, <1>4

\* The last one is taken.
LEMMA OrderShrinks ==
    ASSUME NEW s, NEW t, NEW S, IsFiniteSet(S), NEW n \in S, S \subseteq Int, \A i \in S : i <= n,
           NEW p \in Seq(Int), InOrder(s, S, p),
           NEW T, T = S \ {n}, \A i \in T : t[i].id = s[i].id
    PROVE  InOrder(t, T, Popped(p))
<1>1. /\ Cardinality(S) \in Nat /\ IsFiniteSet(T) /\ Cardinality(T) = Cardinality(S) - 1
      /\ Cardinality(T) \in Nat
  BY FS_RemoveElement, FS_CardinalityType
<1>2. /\ Len(p) = Cardinality(S) /\ Len(p) \in Nat /\ Len(Popped(p)) = Len(p) - 1
      /\ \A i \in 1 .. Len(p) - 1 : Popped(p)[i] = p[i]
  BY LastInOrder
<1>3. ASSUME NEW i \in T PROVE Popped(p)[Cardinality({j \in T : j <= i})] = t[i].id
  <2> DEFINE R == {j \in T : j <= i}
  <2>1. {j \in S : j <= i} = R
    BY <1>3
  <2>2. IsFiniteSet(R) /\ Cardinality(R) <= Cardinality(T) /\ Cardinality(R) \in Nat
    BY <1>1, FS_Subset, FS_CardinalityType
  <2>3. Cardinality(R) # 0
    <3>1. i \in R
      BY <1>3
    <3>q. QED
      BY <2>2, <3>1, FS_EmptySet
  <2>4. Cardinality(R) \in 1 .. Len(p) - 1
    BY <1>1, <1>2, <2>2, <2>3
  <2>5. p[Cardinality(R)] = t[i].id
    BY <1>3, <2>1 DEF InOrder
  <2>q. QED
    BY <1>2, <2>4, <2>5
<1>q. QED
  BY <1>1, <1>2, <1>3 DEF InOrder

-----------------------------------------------------------------------------
(* Exceptions: steps of the stack                                          *)

LEMMA ContextIn ==
    ASSUME NEW k \in ContextKinds, NEW seg \in {"main", "safe"}, NEW id \in Int
    PROVE  Context(k, seg, id) \in ContextType /\ Context(k, seg, id).kind = k
           /\ Context(k, seg, id).id = id /\ ~Context(k, seg, id).gone
BY DEF Context, ContextType

\* What is pushed is not in flight.
LEMMA Pushed ==
    ASSUME ExInv, NEW e \in ContextType, e.kind \in {"exc", "signal", "irq"}, ~e.gone,
           ctx' = Append(ctx, e), pendingExceptions' = pendingExceptions, free' = free,
           faults' \in Nat, raised' \in Nat, wrong' = wrong, ended' = ended
    PROVE  ExTypes' /\ Stacked' /\ RethrowAlone' /\ ExceptionsNest'
<1> DEFINE n == Len(ctx)
<1>1. /\ ctx' \in Seq(ContextType) /\ Len(ctx') = n + 1 /\ ctx' # <<>> /\ n \in Nat
      /\ (\A i \in 1 .. n : ctx'[i] = ctx[i]) /\ ctx'[n + 1] = e
  BY PushFacts, LenProperties DEF ExInv, ExTypes
<1>2. n > 0 /\ ctx[1].kind = "code"
  BY EmptySeq, LenProperties DEF ExInv, ExTypes, Stacked
<1>3. ExTypes' /\ Stacked'
  BY <1>1, <1>2 DEF ExInv, ExTypes, Stacked
<1>4. Trampolines(ctx') = Trampolines(ctx) /\ Flying(ctx') = Flying(ctx)
  BY <1>1 DEF Trampolines, Flying
<1>5. /\ InFlight = Flying(ctx) /\ InFlight' = Flying(ctx')
      /\ Flying(ctx) \in SUBSET (1 .. n)
  BY <1>3, NestIn, NestInNext, FlyingFinite DEF ExInv, ExTypes
<1>6. RethrowAlone'
  BY <1>1, <1>4, <1>5 DEF ExInv, RethrowAlone
<1>7. ExceptionsNest'
  <2>1. ~ended => InOrder(ctx', Flying(ctx), pendingExceptions)
    BY <1>1, <1>5, NestIn, OrderSame DEF ExInv
  <2>q. QED
    BY <1>3, <1>4, <2>1, NestIn, NestInNext DEF ExInv
<1>q. QED
  BY <1>3, <1>6, <1>7

\* The top of the stack
LEMMA TopFacts ==
    ASSUME ExInv
    PROVE  /\ Len(ctx) \in Nat /\ Len(ctx) > 0 /\ \A i \in 1 .. Len(ctx) : ctx[i] \in ContextType
           /\ (top.kind # "code" => Len(ctx) > 1 /\ below \in ContextType)
           /\ Popped(ctx) \in Seq(ContextType) /\ Len(Popped(ctx)) = Len(ctx) - 1
           /\ \A i \in 1 .. Len(ctx) - 1 : Popped(ctx)[i] = ctx[i]
<1>1. /\ Len(ctx) \in Nat /\ Len(ctx) > 0 /\ \A i \in 1 .. Len(ctx) : ctx[i] \in ContextType
      /\ ctx \in Seq(ContextType) /\ ctx[1].kind = "code"
  BY EmptySeq, LenProperties, ElementOfSeq DEF ExInv, ExTypes, Stacked
<1>2. top.kind # "code" => Len(ctx) > 1 /\ below \in ContextType
  BY <1>1 DEF top, below
<1>q. QED
  BY <1>1, <1>2, PopFacts DEF Popped

\* What is popped is not in flight.
LEMMA Dropped ==
    ASSUME ExInv, top.kind \in {"exc", "signal", "irq"}, ~top.gone,
           ctx' = Popped(ctx), pendingExceptions' = pendingExceptions, free' = free,
           UNCHANGED <<faults, raised, wrong, ended>>
    PROVE  ExTypes' /\ Stacked' /\ RethrowAlone' /\ ExceptionsNest'
<1> DEFINE n == Len(ctx)
<1>1. /\ ctx' \in Seq(ContextType) /\ Len(ctx') = n - 1 /\ n \in Nat /\ n > 1
      /\ \A i \in 1 .. n - 1 : ctx'[i] = ctx[i]
  BY TopFacts
<1>2. ctx' # <<>>
  BY <1>1, EmptySeq
<1>3. ExTypes' /\ Stacked'
  BY SMTT(30), <1>1, <1>2 DEF ExInv, ExTypes, Stacked
<1>4. Trampolines(ctx') = Trampolines(ctx) /\ Flying(ctx') = Flying(ctx)
  BY <1>1 DEF Trampolines, Flying, top
<1>5. /\ InFlight = Flying(ctx) /\ InFlight' = Flying(ctx')
      /\ Flying(ctx) \in SUBSET (1 .. n)
  BY <1>3, NestIn, NestInNext, FlyingFinite DEF ExInv, ExTypes
<1>6. RethrowAlone'
  BY <1>1, <1>4, <1>5 DEF ExInv, RethrowAlone
<1>7. ExceptionsNest'
  <2>1. \A i \in Flying(ctx) : ctx'[i].id = ctx[i].id
    <3>1. Flying(ctx') \in SUBSET (1 .. n - 1)
      BY <1>1, FlyingFinite
    <3>q. QED
      BY <1>1, <1>4, <3>1
  <2>2. ~ended => InOrder(ctx', Flying(ctx), pendingExceptions)
    BY <2>1, NestIn, OrderSame DEF ExInv
  <2>q. QED
    BY <1>3, <1>4, <2>2, NestIn, NestInNext DEF ExInv
<1>q. QED
  BY <1>3, <1>6, <1>7

\* The context on top goes from its frame to the stub, or from the stub to the function.
LEMMA Replaced ==
    ASSUME ExInv, NEW e \in ContextType, ~e.gone, e.id = top.id, ctx' = Append(Popped(ctx), e),
           \/ top.gone /\ e.kind = "stub" /\ free' = free
           \/ top.kind = "stub" /\ e.kind = "rethrow" /\ free' = free + 1,
           UNCHANGED <<pendingExceptions, faults, raised, wrong, ended>>
    PROVE  ExTypes' /\ Stacked' /\ RethrowAlone' /\ ExceptionsNest'
<1> DEFINE n == Len(ctx)
<1>0. n \in Nat /\ n > 1
  BY TopFacts DEF ExInv, Stacked, top
<1>1. /\ ctx' \in Seq(ContextType) /\ Len(ctx') = n /\ ctx' # <<>>
      /\ (\A i \in 1 .. n - 1 : ctx'[i] = ctx[i]) /\ ctx'[n] = e
  BY <1>0, TopFacts, PushFacts
<1>2. free' \in Int /\ \A i \in 1 .. n : ctx'[i].gone => i # n
  BY <1>1 DEF ExInv, ExTypes
<1>3. ExTypes' /\ Stacked'
  <2>1. ExTypes'
    BY <1>1, <1>2 DEF ExInv, ExTypes
  <2>2. \A i \in 1 .. n : ctx'[i].gone => ctx'[i].kind \in {"exc", "signal"}
    BY <1>0, <1>1, <1>2 DEF ExInv, Stacked
  <2>3. ctx'[1].kind = "code"
    BY <1>0, <1>1 DEF ExInv, Stacked
  <2>q. QED
    BY <1>1, <2>1, <2>2, <2>3 DEF Stacked
<1>4. Flying(ctx') = Flying(ctx)
  <2>1. ASSUME NEW i \in 1 .. n PROVE i \in Flying(ctx') <=> i \in Flying(ctx)
    <3>1. CASE i = n
      BY <1>0, <1>1, <3>1 DEF Flying, Trampolines, top
    <3>2. CASE i # n
      BY <1>0, <1>1, <3>2 DEF Flying, Trampolines
    <3>q. QED
      BY <3>1, <3>2
  <2>q. QED
    BY <1>1, <2>1 DEF Flying, Trampolines
<1>5. /\ InFlight = Flying(ctx) /\ InFlight' = Flying(ctx')
      /\ Flying(ctx) \in SUBSET (1 .. n) /\ IsFiniteSet(Trampolines(ctx))
  BY <1>3, NestIn, NestInNext, FlyingFinite DEF ExInv, ExTypes
<1>6. RethrowAlone'
  <2> SUFFICES ASSUME NEW i \in 1 .. n, ctx'[i].kind = "rethrow" PROVE i + 1 \notin Flying(ctx)
    BY <1>1, <1>4, <1>5 DEF RethrowAlone
  <2>1. CASE i = n
    BY <1>0, <1>5, <2>1
  <2>2. CASE i # n
    BY <1>0, <1>1, <1>5, <2>2 DEF ExInv, RethrowAlone
  <2>q. QED
    BY <2>1, <2>2
<1>7. ~ended => InOrder(ctx', Flying(ctx), pendingExceptions)
  <2>1. \A i \in Flying(ctx) : ctx'[i].id = ctx[i].id
    BY <1>0, <1>1, <1>5 DEF top
  <2>q. QED
    BY <2>1, NestIn, OrderSame DEF ExInv
<1>8. free' + Cardinality(Trampolines(ctx')) = free + Cardinality(Trampolines(ctx))
  <2>1. CASE top.gone /\ e.kind = "stub" /\ free' = free
    <3>1. ASSUME NEW i \in 1 .. n PROVE i \in Trampolines(ctx') <=> i \in Trampolines(ctx)
      <4>1. CASE i = n
        BY <1>0, <1>1, <2>1, <4>1 DEF Trampolines, top
      <4>2. CASE i # n
        BY <1>0, <1>1, <4>2 DEF Trampolines
      <4>q. QED
        BY <4>1, <4>2
    <3>2. Trampolines(ctx') = Trampolines(ctx)
      BY <1>1, <3>1 DEF Trampolines
    <3>q. QED
      BY <2>1, <3>2
  <2>2. CASE top.kind = "stub" /\ e.kind = "rethrow" /\ free' = free + 1
    <3>1. ASSUME NEW i \in 1 .. n PROVE i \in Trampolines(ctx') <=> i \in Trampolines(ctx) \ {n}
      <4>1. CASE i = n
        BY <1>0, <1>1, <2>2, <4>1 DEF Trampolines
      <4>2. CASE i # n
        BY <1>0, <1>1, <4>2 DEF Trampolines
      <4>q. QED
        BY <4>1, <4>2
    <3>2. Trampolines(ctx') = Trampolines(ctx) \ {n} /\ n \in Trampolines(ctx)
      BY <1>0, <1>1, <2>2, <3>1 DEF Trampolines, top
    <3>3. /\ Cardinality(Trampolines(ctx) \ {n}) = Cardinality(Trampolines(ctx)) - 1
          /\ Cardinality(Trampolines(ctx)) \in Nat
      BY <1>5, <3>2, FS_RemoveElement, FS_CardinalityType
    <3>q. QED
      BY <2>2, <3>2, <3>3 DEF ExInv, ExTypes
  <2>q. QED
    BY <2>1, <2>2
<1>q. QED
  BY <1>3, <1>4, <1>6, <1>7, <1>8, NestIn, NestInNext DEF ExInv

\* A frame is redirected where the function of another redirection does not run below it.
LEMMA Redirected ==
    ASSUME ExInv, handling, ~ended, free # 0, Redirect, below.kind # "rethrow",
           UNCHANGED <<faults, raised, wrong>>
    PROVE  ExTypes' /\ Stacked' /\ RethrowAlone' /\ ExceptionsNest'
<1> DEFINE n == Len(ctx)
<1>0. /\ n \in Nat /\ n > 1 /\ top \in ContextType /\ top = ctx[n] /\ ctx \in Seq(ContextType)
      /\ \A i \in 1 .. n : ctx[i] \in ContextType
  <2>1. top.kind # "code" /\ top = ctx[n]
    BY DEF handling, top
  <2>q. QED
    BY <2>1, TopFacts DEF ExInv, ExTypes
<1>1. /\ ctx' \in Seq(ContextType) /\ Len(ctx') = n
      /\ (\A i \in 1 .. n : i # n => ctx'[i] = ctx[i])
      /\ ctx'[n] = [top EXCEPT !.gone = TRUE]
  <2>1. ctx' = [ctx EXCEPT ![n] = [top EXCEPT !.gone = TRUE]]
    BY <1>0 DEF Redirect
  <2>2. [top EXCEPT !.gone = TRUE] \in ContextType
    BY <1>0 DEF ContextType
  <2>3. n \in DOMAIN ctx /\ DOMAIN ctx = 1 .. n
    BY <1>0, LenProperties
  <2>4. ctx' \in Seq(ContextType) /\ Len(ctx') = n
    BY <1>0, <2>1, <2>2, <2>3, ExceptSeq
  <2>q. QED
    BY <1>0, <2>1, <2>3, <2>4
<1>2. /\ ctx'[n].gone /\ ctx'[n].kind = top.kind /\ ctx'[n].id = top.id /\ top.id \in Int
      /\ ctx'[n].id \in Int
  BY <1>0, <1>1 DEF ContextType
<1>3. /\ free' = free - 1 /\ pendingExceptions' = Append(pendingExceptions, ctx'[n].id)
      /\ ended' = ended /\ pendingExceptions' \in Seq(Int)
  <2>1. pendingExceptions \in Seq(Int)
    BY DEF ExInv, ExTypes
  <2>2. free' = free - 1 /\ pendingExceptions' = Append(pendingExceptions, top.id) /\ ended' = ended
    BY DEF Redirect
  <2>q. QED
    BY <1>2, <2>1, <2>2, AppendProperties
<1>4. ExTypes' /\ Stacked'
  <2>1. ExTypes'
    BY <1>1, <1>3 DEF ExInv, ExTypes
  <2>2. \A i \in 1 .. n : ctx'[i].gone => ctx'[i].kind \in {"exc", "signal"}
    BY <1>1, <1>2 DEF ExInv, Stacked, handling
  <2>3. ctx' # <<>> /\ ctx'[1].kind = "code"
    BY <1>0, <1>1, EmptySeq DEF ExInv, Stacked
  <2>q. QED
    BY <1>1, <2>1, <2>2, <2>3 DEF Stacked
<1>5. Trampolines(ctx') = Trampolines(ctx) \cup {n} /\ n \notin Flying(ctx)
  <2>1. n \notin Flying(ctx)
    BY <1>0 DEF Flying, Trampolines, handling
  <2>2. ASSUME NEW i \in 1 .. n PROVE i \in Trampolines(ctx') <=> i \in Trampolines(ctx) \cup {n}
    BY <1>0, <1>1, <1>2 DEF Trampolines
  <2>q. QED
    BY <1>0, <1>1, <2>1, <2>2 DEF Trampolines
<1>6. Flying(ctx') = Flying(ctx) \cup {n}
  <2>1. ASSUME NEW i \in 1 .. n PROVE i \in Flying(ctx') <=> i \in Flying(ctx) \cup {n}
    BY <1>0, <1>1, <1>2 DEF Flying, Trampolines
  <2>q. QED
    BY <1>0, <1>1, <2>1 DEF Flying, Trampolines
<1>7. /\ InFlight = Flying(ctx) /\ InFlight' = Flying(ctx') /\ IsFiniteSet(Flying(ctx))
      /\ Flying(ctx) \in SUBSET (1 .. n) /\ IsFiniteSet(Trampolines(ctx)) /\ n \notin Trampolines(ctx)
  BY <1>0, <1>4, <1>5, NestIn, NestInNext, FlyingFinite DEF ExInv
<1>8. RethrowAlone'
  <2> SUFFICES ASSUME NEW i \in 1 .. n, ctx'[i].kind = "rethrow"
               PROVE  i + 1 \notin Flying(ctx) \cup {n}
    BY <1>1, <1>6, <1>7 DEF RethrowAlone
  <2>1. i # n /\ ctx[i].kind = "rethrow"
    BY <1>1, <1>2 DEF handling
  <2>2. i + 1 \notin Flying(ctx)
    BY <1>7, <2>1 DEF ExInv, RethrowAlone
  <2>3. i + 1 # n
    BY <1>0, <2>1 DEF below
  <2>q. QED
    BY <2>2, <2>3
<1>9. ~ended => InOrder(ctx', Flying(ctx'), pendingExceptions')
  <2> SUFFICES ASSUME ~ended PROVE InOrder(ctx', Flying(ctx'), pendingExceptions')
    OBVIOUS
  <2>1. InOrder(ctx, Flying(ctx), pendingExceptions) /\ pendingExceptions \in Seq(Int)
    BY NestIn DEF ExInv, ExTypes
  <2>2. /\ Flying(ctx) \subseteq Int /\ (\A i \in Flying(ctx) : i < n) /\ n \in Int
        /\ \A i \in Flying(ctx) : ctx'[i].id = ctx[i].id
    BY <1>0, <1>1, <1>5, <1>7
  <2>3. InOrder(ctx', Flying(ctx) \cup {n}, Append(pendingExceptions, ctx'[n].id))
    BY <1>2, <1>7, <2>1, <2>2, OrderGrows
  <2>q. QED
    BY <1>3, <1>6, <2>3
<1>10. free' + Cardinality(Trampolines(ctx')) = free + Cardinality(Trampolines(ctx))
  <2>1. /\ Cardinality(Trampolines(ctx) \cup {n}) = Cardinality(Trampolines(ctx)) + 1
        /\ Cardinality(Trampolines(ctx)) \in Nat
    BY <1>7, FS_AddElement, FS_CardinalityType
  <2>q. QED
    BY <1>3, <1>5, <2>1 DEF ExInv, ExTypes
<1>q. QED
  BY <1>3, <1>4, <1>8, <1>9, <1>10, NestIn, NestInNext DEF ExInv

\* What is rethrown is the exception of the frame that was redirected.
LEMMA Rethrown ==
    ASSUME ExInv, ~ended, Rethrow
    PROVE  /\ ExTypes' /\ Stacked' /\ RethrowAlone' /\ ExceptionsNest'
           /\ ctx' = Popped(ctx)
<1> DEFINE n == Len(ctx)
<1> DEFINE S == Flying(ctx)
<1>0. n \in Nat /\ n > 1 /\ top = ctx[n] /\ top.kind = "rethrow"
  BY TopFacts DEF Rethrow, top
<1>1. ~top.gone
  BY <1>0 DEF ExInv, Stacked
<1>2. /\ InFlight = S /\ S \in SUBSET (1 .. n) /\ IsFiniteSet(S) /\ n \in S /\ n \notin Trampolines(ctx)
      /\ InOrder(ctx, S, pendingExceptions) /\ pendingExceptions \in Seq(Int)
  <2>1. ctx \in Seq(ContextType) /\ pendingExceptions \in Seq(Int)
    BY DEF ExInv, ExTypes
  <2>2. n \in S /\ n \notin Trampolines(ctx)
    BY <1>0, <1>1 DEF Flying, Trampolines
  <2>3. InFlight = S /\ InOrder(ctx, S, pendingExceptions)
    BY NestIn DEF ExInv
  <2> HIDE DEF S
  <2>4. S \in SUBSET (1 .. n) /\ IsFiniteSet(S)
    BY <2>1, FlyingFinite DEF S
  <2>q. QED
    BY <2>1, <2>2, <2>3, <2>4
<1>3. below.kind # "rethrow"
  BY <1>0, <1>2 DEF ExInv, RethrowAlone, below
<1>4. /\ Popped(ctx) \in Seq(ContextType) /\ Len(Popped(ctx)) = n - 1
      /\ \A i \in 1 .. n - 1 : Popped(ctx)[i] = ctx[i]
  BY TopFacts
<1>5. /\ pendingExceptions # <<>> /\ pendingExceptions[Len(pendingExceptions)] = top.id
      /\ Popped(pendingExceptions) \in Seq(Int)
      /\ InOrder(Popped(ctx), S \ {n}, Popped(pendingExceptions))
  <2>1. /\ S \subseteq Int /\ (\A i \in S : i <= n)
        /\ \A i \in S \ {n} : Popped(ctx)[i].id = ctx[i].id
    BY <1>0, <1>2, <1>4
  <2> HIDE DEF S, n
  <2>2. /\ pendingExceptions # <<>> /\ pendingExceptions[Len(pendingExceptions)] = ctx[n].id
        /\ Popped(pendingExceptions) \in Seq(Int)
        /\ InOrder(Popped(ctx), S \ {n}, Popped(pendingExceptions))
    <3>1. n \in S /\ S \subseteq Int /\ (\A i \in S : i <= n) /\ IsFiniteSet(S)
      BY <1>2, <2>1
    <3>2. /\ pendingExceptions \in Seq(Int) /\ InOrder(ctx, S, pendingExceptions)
          /\ \A i \in S \ {n} : Popped(ctx)[i].id = ctx[i].id
      BY <1>2, <2>1
    <3>3. PICK T : T = S \ {n}
      OBVIOUS
    <3>4. PICK t : t = Popped(ctx)
      OBVIOUS
    <3>5. \A i \in T : t[i].id = ctx[i].id
      BY <3>2, <3>3, <3>4
    <3>6. /\ pendingExceptions # <<>> /\ pendingExceptions[Len(pendingExceptions)] = ctx[n].id
          /\ Popped(pendingExceptions) \in Seq(Int)
      BY ZenonT(30), <3>1, <3>2, LastInOrder
    <3>7. InOrder(t, T, Popped(pendingExceptions))
      BY <3>1, <3>2, <3>3, <3>5, OrderShrinks
    <3>q. QED
      BY <3>3, <3>4, <3>6, <3>7
  <2>q. QED
    BY <1>0, <2>2
<1>6. /\ ctx' = Popped(ctx) /\ pendingExceptions' = Popped(pendingExceptions) /\ ~wrong'
      /\ UNCHANGED <<free, faults, raised, ended>>
  <2>1. ~wrong'
    <3>1. ~wrong /\ wrong' = (wrong \/ pendingExceptions[Len(pendingExceptions)] # top.id)
      BY <1>5 DEF Rethrow, TakePending, ExInv, ExceptionsNest
    <3>2. (pendingExceptions[Len(pendingExceptions)] # top.id) = FALSE
      BY <1>5
    <3>3. wrong' = (wrong \/ FALSE)
      BY <3>1, <3>2
    <3>q. QED
      BY <3>1, <3>3
  <2>q. QED
    BY <1>3, <1>5, <2>1 DEF Rethrow, TakePending
<1>7. ExTypes' /\ Stacked'
  <2>1. ctx' # <<>>
    BY <1>0, <1>4, <1>6, EmptySeq
  <2>q. QED
    <3>1. ExTypes'
      BY <1>4, <1>5, <1>6 DEF ExInv, ExTypes
    <3>2. Stacked'
      BY <1>0, <1>4, <1>6, <2>1 DEF ExInv, Stacked
    <3>q. QED
      BY <3>1, <3>2
<1>8. Trampolines(ctx') = Trampolines(ctx) /\ Flying(ctx') = S \ {n}
  <2>1. Len(ctx') = n - 1 /\ \A i \in 1 .. n - 1 : ctx'[i] = ctx[i]
    BY <1>4, <1>6
  <2>2. Trampolines(ctx') = Trampolines(ctx) \ {n} /\ Flying(ctx') = S \ {n}
    BY <1>0, <2>1 DEF Trampolines, Flying
  <2>q. QED
    BY <1>2, <2>2
<1>9. RethrowAlone'
  <2>1. InFlight' = S \ {n}
    BY <1>7, <1>8, NestInNext
  <2>q. QED
    BY <1>0, <1>2, <1>4, <1>6, <2>1 DEF ExInv, RethrowAlone
<1>10. ExceptionsNest'
  BY <1>5, <1>6, <1>7, <1>8, NestIn, NestInNext DEF ExInv
<1>q. QED
  BY <1>6, <1>7, <1>9, <1>10

-----------------------------------------------------------------------------
(* Exceptions: every step                                                  *)

\* What leaves the stack alone
LEMMA StackKept ==
    ASSUME ExInv, ctx' = ctx, faults' \in Nat, raised' \in Nat, pendingExceptions' = pendingExceptions,
           free' = free, wrong' = wrong, ended' = ended
    PROVE  ExTypes' /\ Stacked' /\ RethrowAlone' /\ ExceptionsNest'
<1>1. ExTypes' /\ Stacked'
  BY DEF ExInv, ExTypes, Stacked
<1>2. InFlight' = InFlight /\ WithTrampoline' = WithTrampoline
  BY DEF InFlight, WithTrampoline
<1>3. RethrowAlone' /\ ExceptionsNest'
  BY <1>2 DEF ExInv, RethrowAlone, ExceptionsNest
<1>q. QED
  BY <1>1, <1>3

\* A signal's function keeps the limit low while it runs.
LEMMA LowKept ==
    ASSUME ExInv, Len(ctx') \in Nat,
           \A i \in 1 .. Len(ctx) :
              ctx[i].kind = "signal" /\ ~ctx[i].gone =>
                 i \in 1 .. Len(ctx') /\ ctx'[i].kind = "signal" /\ ~ctx'[i].gone,
           low' = low, signals' = signals
    PROVE  LowForSignal'
BY DEF ExInv, LowForSignal

LEMMA FaultKeeps ==
    ASSUME ExInv, Fault PROVE ExInv'
<1> DEFINE e == Context("exc", "safe", faults + raised + 1)
<1>1. /\ e \in ContextType /\ e.kind = "exc" /\ ~e.gone /\ ctx' = Append(ctx, e)
      /\ faults' \in Nat /\ raised' \in Nat
  BY ContextIn DEF ExInv, ExTypes, Fault, EnterHandler, ContextKinds
<1>2. ExTypes' /\ Stacked' /\ RethrowAlone' /\ ExceptionsNest'
  BY <1>1, Pushed DEF Fault
<1>3. LowForSignal'
  BY <1>1, PushFacts, LenProperties, LowKept DEF ExInv, ExTypes, Fault
<1>q. QED
  BY <1>2, <1>3 DEF ExInv

LEMMA SignalKeeps ==
    ASSUME ExInv, Signal PROVE ExInv'
<1> DEFINE e == Context("signal", "safe", faults + raised + 1)
<1>1. /\ e \in ContextType /\ e.kind = "signal" /\ ~e.gone /\ ctx' = Append(ctx, e)
      /\ faults' \in Nat /\ raised' \in Nat
  BY ContextIn DEF ExInv, ExTypes, Signal, EnterHandler, ContextKinds
<1>2. ExTypes' /\ Stacked' /\ RethrowAlone' /\ ExceptionsNest'
  BY <1>1, Pushed DEF Signal
<1>3. low' = low /\ low
  BY DEF Signal
<1>4. Len(ctx) + 1 \in 1 .. Len(ctx') /\ ctx'[Len(ctx) + 1] = e
  BY <1>1, PushFacts, LenProperties DEF ExInv, ExTypes
<1>5. LowForSignal'
  BY <1>1, <1>3, <1>4 DEF LowForSignal
<1>q. QED
  BY <1>2, <1>5 DEF ExInv

LEMMA HandledKeeps ==
    ASSUME ExInv, Handled PROVE ExInv'
<1>1. ExTypes' /\ Stacked' /\ RethrowAlone' /\ ExceptionsNest'
  BY Dropped DEF Handled, handling
<1>2. /\ ctx' = Popped(ctx) /\ Len(ctx) \in Nat /\ Len(ctx) > 0 /\ Len(ctx') = Len(ctx) - 1
      /\ \A i \in 1 .. Len(ctx) - 1 : ctx'[i] = ctx[i]
  BY TopFacts DEF Handled
<1>3. signals' = signals /\ (low' <=> low /\ (top.kind = "signal" => signals # {}))
  BY DEF Handled, RestoreLimit
<1>4. LowForSignal'
  BY <1>2, <1>3 DEF ExInv, LowForSignal, top
<1>q. QED
  BY <1>1, <1>4 DEF ExInv

LEMMA ThrownKeeps ==
    ASSUME ExInv, Thrown, "in_rethrow" \notin ExOps PROVE ExInv'
<1>1. handling /\ ~ended /\ Redirect /\ below.kind # "rethrow" /\ UNCHANGED <<signals, faults, raised, wrong>>
  BY DEF Thrown
<1>2. signals' = signals /\ (low' <=> low /\ (top.kind = "signal" => signals # {}))
  BY DEF Thrown, RestoreLimit
<1>3. CASE free = 0
  <2>1. ended' /\ UNCHANGED <<ctx, pendingExceptions, free>>
    BY <1>1, <1>3 DEF Redirect
  <2>2. ExTypes' /\ Stacked'
    BY <1>1, <2>1 DEF ExInv, ExTypes, Stacked
  <2>3. RethrowAlone' /\ ExceptionsNest'
    BY <2>1 DEF ExInv, RethrowAlone, ExceptionsNest, InFlight, WithTrampoline
  <2>4. LowForSignal'
    BY <1>2, <2>1 DEF ExInv, LowForSignal
  <2>q. QED
    BY <2>2, <2>3, <2>4 DEF ExInv
<1>4. CASE free # 0
  <2>1. ExTypes' /\ Stacked' /\ RethrowAlone' /\ ExceptionsNest'
    BY <1>1, <1>4, Redirected
  <2>2. /\ ctx \in Seq(ContextType) /\ Len(ctx) \in Nat /\ Len(ctx) > 0 /\ DOMAIN ctx = 1 .. Len(ctx)
        /\ ctx' = [ctx EXCEPT ![Len(ctx)].gone = TRUE] /\ ctx' \in Seq(ContextType)
    BY <1>1, <1>4, <2>1, TopFacts, LenProperties DEF ExInv, ExTypes, Redirect
  <2>3. DOMAIN ctx' = 1 .. Len(ctx') /\ Len(ctx') \in Nat /\ DOMAIN ctx' = DOMAIN ctx
    BY <2>2, LenProperties
  <2>4. Len(ctx') = Len(ctx) /\ \A i \in 1 .. Len(ctx) : i # Len(ctx) => ctx'[i] = ctx[i]
    BY <2>2, <2>3
  <2>5. LowForSignal'
    BY <1>2, <2>2, <2>4 DEF ExInv, LowForSignal, top
  <2>q. QED
    BY <2>1, <2>5 DEF ExInv
<1>q. QED
  BY <1>3, <1>4

LEMMA ChainKeeps ==
    ASSUME ExInv, ChainToHost PROVE ExInv'
<1>1. ended' /\ UNCHANGED <<ctx, pendingExceptions, free, signals, low, faults, raised, wrong>>
  BY DEF ChainToHost
<1>2. ExTypes' /\ Stacked' /\ LowForSignal'
  BY <1>1 DEF ExInv, ExTypes, Stacked, LowForSignal
<1>3. RethrowAlone' /\ ExceptionsNest'
  BY <1>1 DEF ExInv, RethrowAlone, ExceptionsNest, InFlight, WithTrampoline
<1>q. QED
  BY <1>2, <1>3 DEF ExInv

\* The stub and the function take the place of what was not a signal's function.
LEMMA LowReplaced ==
    ASSUME ExInv, NEW e \in ContextType, ctx' = Append(Popped(ctx), e),
           top.gone \/ top.kind = "stub", low' = low, signals' = signals
    PROVE  LowForSignal'
<1>1. /\ Len(ctx) \in Nat /\ Len(ctx) > 0 /\ Len(ctx') = Len(ctx)
      /\ \A i \in 1 .. Len(ctx) - 1 : ctx'[i] = ctx[i]
  BY TopFacts, PushFacts
<1>q. QED
  BY <1>1, LowKept DEF top

LEMMA EnterStubKeeps ==
    ASSUME ExInv, EnterStub PROVE ExInv'
<1> DEFINE e == Context("stub", below.seg, top.id)
<1>1. top \in ContextType /\ below \in ContextType
  BY TopFacts DEF ExInv, Stacked, top, EnterStub
<1>2. e \in ContextType /\ e.kind = "stub" /\ e.id = top.id /\ ~e.gone /\ ctx' = Append(Popped(ctx), e)
  BY <1>1, ContextIn DEF ContextType, ContextKinds, EnterStub
<1>3. top.gone /\ UNCHANGED <<pendingExceptions, free, signals, low, faults, raised, wrong, ended>>
  BY DEF EnterStub
<1>4. ExTypes' /\ Stacked' /\ RethrowAlone' /\ ExceptionsNest'
  BY <1>2, <1>3, Replaced
<1>5. LowForSignal'
  BY <1>2, <1>3, LowReplaced
<1>q. QED
  BY <1>4, <1>5 DEF ExInv

LEMMA Stage3Keeps ==
    ASSUME ExInv, Stage3 PROVE ExInv'
<1> DEFINE e == Context("rethrow", top.seg, top.id)
<1>1. top \in ContextType
  BY TopFacts DEF top
<1>2. e \in ContextType /\ e.kind = "rethrow" /\ e.id = top.id /\ ~e.gone /\ ctx' = Append(Popped(ctx), e)
  BY <1>1, ContextIn DEF ContextType, ContextKinds, Stage3
<1>3. /\ top.kind = "stub" /\ free' = free + 1
      /\ UNCHANGED <<pendingExceptions, signals, low, faults, raised, wrong, ended>>
  BY DEF Stage3
<1>4. ExTypes' /\ Stacked' /\ RethrowAlone' /\ ExceptionsNest'
  BY <1>2, <1>3, Replaced
<1>5. LowForSignal'
  BY <1>2, <1>3, LowReplaced
<1>q. QED
  BY <1>4, <1>5 DEF ExInv

\* What is popped was not a signal's function.
LEMMA LowPopped ==
    ASSUME ExInv, ctx' = Popped(ctx), top.kind # "signal", low' = low, signals' = signals
    PROVE  LowForSignal'
<1>1. /\ Len(ctx) \in Nat /\ Len(ctx) > 0 /\ Len(ctx') = Len(ctx) - 1
      /\ \A i \in 1 .. Len(ctx) - 1 : ctx'[i] = ctx[i]
  BY TopFacts
<1>q. QED
  BY <1>1, LowKept DEF top

LEMMA RethrowKeeps ==
    ASSUME ExInv, Rethrow PROVE ExInv'
<1>1. ~ended /\ top.kind # "signal" /\ low' = low /\ signals' = signals
  BY DEF Rethrow
<1>2. ExTypes' /\ Stacked' /\ RethrowAlone' /\ ExceptionsNest' /\ ctx' = Popped(ctx)
  BY <1>1, Rethrown
<1>3. LowForSignal'
  BY <1>1, <1>2, LowPopped
<1>q. QED
  BY <1>2, <1>3 DEF ExInv

LEMMA IrqBeginKeeps ==
    ASSUME ExInv, IrqBegin PROVE ExInv'
<1> DEFINE e == Context("irq", "safe", 0)
<1>1. /\ e \in ContextType /\ e.kind = "irq" /\ ~e.gone /\ ctx' = Append(ctx, e)
      /\ faults' \in Nat /\ raised' \in Nat
  BY ContextIn DEF ExInv, ExTypes, IrqBegin, ContextKinds
<1>2. ExTypes' /\ Stacked' /\ RethrowAlone' /\ ExceptionsNest'
  BY <1>1, Pushed DEF IrqBegin
<1>3. LowForSignal'
  BY <1>1, PushFacts, LenProperties, LowKept DEF ExInv, ExTypes, IrqBegin
<1>q. QED
  BY <1>2, <1>3 DEF ExInv

LEMMA IrqEndKeeps ==
    ASSUME ExInv, IrqEnd PROVE ExInv'
<1>1. top.kind = "irq" /\ ctx' = Popped(ctx) /\ low' = low /\ signals' = signals
  BY DEF IrqEnd
<1>2. ~top.gone
  BY <1>1, TopFacts DEF ExInv, Stacked, top
<1>3. ExTypes' /\ Stacked' /\ RethrowAlone' /\ ExceptionsNest'
  BY <1>1, <1>2, Dropped DEF IrqEnd
<1>4. LowForSignal'
  BY <1>1, LowPopped
<1>q. QED
  BY <1>3, <1>4 DEF ExInv

LEMMA RaiseKeeps ==
    ASSUME ExInv, NEW s, RaiseSignal(s) PROVE ExInv'
<1>1. ExTypes' /\ Stacked' /\ LowForSignal'
  BY DEF ExInv, ExTypes, Stacked, LowForSignal, RaiseSignal
<1>2. RethrowAlone' /\ ExceptionsNest'
  BY DEF ExInv, RethrowAlone, ExceptionsNest, InFlight, WithTrampoline, RaiseSignal
<1>q. QED
  BY <1>1, <1>2 DEF ExInv

LEMMA ExStep ==
    ASSUME ExInv, [ExNext]_exVars, "in_rethrow" \notin ExOps PROVE ExInv'
<1>1. CASE UNCHANGED exVars
  BY <1>1 DEF exVars, ExInv, ExTypes, Stacked, RethrowAlone, LowForSignal, ExceptionsNest,
              InFlight, WithTrampoline
<1>2. CASE ExNext
  BY <1>2, FaultKeeps, SignalKeeps, HandledKeeps, ThrownKeeps, ChainKeeps, EnterStubKeeps,
     Stage3Keeps, RethrowKeeps, IrqBeginKeeps, RaiseKeeps, IrqEndKeeps DEF ExNext
<1>q. QED
  BY <1>1, <1>2

LEMMA ExStarts ==
    ASSUME ExInit PROVE ExInv
<1> DEFINE e == Context("code", "main", 0)
<1>1. e \in ContextType /\ e.kind = "code" /\ ~e.gone /\ ctx = <<e>>
  BY ContextIn DEF ExInit, ContextKinds
<1>2. ctx \in Seq(ContextType) /\ Len(ctx) = 1 /\ ctx[1] = e /\ ctx # <<>> /\ pendingExceptions = <<>>
  BY <1>1 DEF ExInit
<1>3. ExTypes /\ Stacked /\ LowForSignal
  <2>1. ExTypes /\ LowForSignal
    BY <1>2, ExAssumption DEF ExInit, ExTypes, LowForSignal
  <2>2. Stacked
    BY <1>1, <1>2 DEF Stacked
  <2>q. QED
    BY <2>1, <2>2
<1>4. Flying(ctx) = {} /\ Trampolines(ctx) = {}
  BY <1>1, <1>2 DEF Flying, Trampolines
<1>5. RethrowAlone
  BY <1>1, <1>2 DEF RethrowAlone
<1>6. ExceptionsNest
  <2>1. Cardinality(Flying(ctx)) = 0 /\ Cardinality(Trampolines(ctx)) = 0
    BY <1>4, FS_EmptySet
  <2>2. InOrder(ctx, Flying(ctx), pendingExceptions)
    BY <1>2, <1>4, <2>1 DEF InOrder
  <2>q. QED
    BY <1>3, <2>1, <2>2, NestIn, ExAssumption DEF ExInit
<1>q. QED
  BY <1>3, <1>5, <1>6 DEF ExInv

LEMMA ExShows ==
    ASSUME ExInv PROVE ExceptionsNest /\ SignalsPend
<1>1. DOMAIN ctx = 1 .. Len(ctx)
  BY LenProperties DEF ExInv, ExTypes
<1>q. QED
  BY <1>1 DEF ExInv, LowForSignal, SignalsPend

\* However faults, interrupts and signals nest, whatever handlers return and whatever they throw:
\* an exception reaches the newest handler and each older one in turn, rethrow_cpu_exception()
\* throws the exception of the very frame it returned for, no trampoline is lost, and the limit
\* of main_ds stays low while a raised signal waits, and no longer.
THEOREM ExceptionsStayArriving ==
    (Restricted /\ PoolSize \in Nat /\ "in_rethrow" \notin ExOps)
        => (ExSpec /\ TcSpec => []ExceptionsArrive)
<1> SUFFICES ASSUME Restricted, PoolSize \in Nat, "in_rethrow" \notin ExOps
             PROVE  ExSpec /\ TcSpec => []ExceptionsArrive
  OBVIOUS
<1>1. ExInit => ExInv
  BY ExStarts
<1>2. ExInv /\ [ExNext]_exVars => ExInv'
  BY ExStep
<1>3. TcSpec => []ChainIntact
  BY ChainsStayIntact
<1>4. ExInv /\ ChainIntact => ExceptionsArrive
  BY ExShows DEF ExceptionsArrive
<1>q. QED
  BY <1>1, <1>2, <1>3, <1>4, PTL DEF ExSpec
=============================================================================
