---------------------------- MODULE IrqMaskProofs ----------------------------
(***************************************************************************)
(* Theorems about irq_mask, for every set of lines, every number of        *)
(* objects and every depth of nested interrupts, when no interrupt handler *)
(* calls unmask().                                                         *)
(***************************************************************************)
EXTENDS IrqMask, TLAPS

\* The objects of a context x that the counter of the line includes: those alive, and the
\* one a destructor has not yet taken off.
Owns(x, i) == x.held[i] + (IF x.pc = "sti_store" /\ x.irq = i THEN 1 ELSE 0)

\* base[d][i] is the number of objects that the contexts below d own.
Alive(base, d, i) == base[d][i] + Owns(ctx[d], i)

\* The context has masked the line and not yet counted its object, or counted its last
\* object off and not yet opened the line.
Turning(x, i) == x.pc \in {"cli_load", "cli_store", "sti_read", "sti_write"} /\ x.irq = i

\* Whether context d finds the line masked where no objects are alive.
Shut(d, i) == i \notin wanted \/ \E e \in Depths : e < d /\ Turning(ctx[e], i)

\* The same for the context of the first object, if it is below d: what the top bit of the
\* counter is to remember.
ShutAtFirst(base, d, i) ==
    \/ i \notin wanted
    \/ \E e \in Depths : e < d /\ Turning(ctx[e], i) /\ Alive(base, e, i) = 0

BaseOK(base) ==
    /\ base \in [Depths -> [Lines -> Nat]]
    /\ \A i \in Lines : base[1][i] = 0
    /\ \A d \in Depths, i \in Lines : d < depth => base[d + 1][i] = Alive(base, d, i)
    /\ \A d \in Depths, i \in Lines : d <= depth => base[d][i] <= MaxHeld * (d - 1)
    /\ \A d, e \in Depths, i \in Lines : e < d /\ d <= depth => Alive(base, e, i) <= base[d][i]
    /\ \A d \in Depths, i \in Lines : d <= depth /\ base[d][i] > 0 =>
           \E e \in Depths : e < d /\ Owns(ctx[e], i) > 0

AboveIdle == \A d \in Depths : d > depth => ctx[d] = Idle

\* The object under way has its place among the MaxHeld.
HasRoom(x) ==
    x.pc \in {"cli_write", "cli_load", "cli_store", "sti_store"} => x.held[x.irq] < MaxHeld

Basic == TypeOK /\ AboveIdle /\ \A d \in Depths : HasRoom(ctx[d])

CountOK(base) == \A i \in Lines : Low(count[i]) = Alive(base, depth, i)

RegisterOK(base) ==
    \A i \in Lines : i \in imr <=>
        Alive(base, depth, i) > 0 \/ Shut(depth, i) \/ Turning(ctx[depth], i)

MemoryOK(base) ==
    \A i \in Lines : Alive(base, depth, i) > 0 =>
        (count[i] >= Msb <=> ShutAtFirst(base, depth, i))

\* The locals of context d, whatever contexts above it do.
CurrentOK(base, d) ==
    /\ ctx[d].pc \in {"cli_write", "sti_write"} =>
           \A j \in Lines : j \in ctx[d].current <=>
               Alive(base, d, j) > 0 \/ Shut(d, j) \/ Turning(ctx[d], j)
    /\ ctx[d].pc = "cli_load" /\ Alive(base, d, ctx[d].irq) = 0 =>
           (ctx[d].irq \in ctx[d].current <=> Shut(d, ctx[d].irq))

CopyOK(base, d) ==
    /\ ctx[d].pc = "cli_store" => Low(ctx[d].c) = Alive(base, d, ctx[d].irq)
    /\ ctx[d].pc = "sti_store" => Low(ctx[d].c) = Alive(base, d, ctx[d].irq) - 1
    /\ ctx[d].pc \in {"cli_store", "sti_store"} =>
           (ctx[d].c >= Msb <=> ShutAtFirst(base, d, ctx[d].irq))

OpeningOK(base, d) ==
    ctx[d].pc \in {"sti_read", "sti_write"} =>
        Alive(base, d, ctx[d].irq) = 0 /\ ~ Shut(d, ctx[d].irq)

LocalsOK(base, d) == CurrentOK(base, d) /\ CopyOK(base, d) /\ OpeningOK(base, d)

Inv(base) ==
    /\ BaseOK(base)
    /\ CountOK(base)
    /\ RegisterOK(base)
    /\ MemoryOK(base)
    /\ \A d \in Depths : d <= depth => LocalsOK(base, d)

IInv == Basic /\ \E base : Inv(base)

-----------------------------------------------------------------------------
(* Numbers *)

LEMMA LowFacts ==
    ASSUME NEW c \in Counters
    PROVE  /\ Low(c) \in 0..Msb - 1
           /\ c < Msb => Low(c) = c
           /\ c >= Msb => Low(c) = c - Msb
BY BoundsAssumption DEF Low, Counters

LEMMA OwnsType ==
    ASSUME NEW x \in Contexts, NEW i \in Lines, HasRoom(x)
    PROVE  Owns(x, i) \in 0..MaxHeld
BY BoundsAssumption DEF Contexts, HasRoom, Owns

\* Times a number of contexts, the bound on one context's objects.
LEMMA Product ==
    ASSUME NEW d \in Nat, NEW e \in Nat, d <= e
    PROVE  /\ MaxHeld * d \in Nat
           /\ MaxHeld * d <= MaxHeld * e
           /\ d > 0 => MaxHeld * (d - 1) + MaxHeld = MaxHeld * d
<1>1. MaxHeld \in Nat
  BY BoundsAssumption
<1>2. PICK k \in Nat : e = d + k
  <2>1. e - d \in Nat /\ e = d + (e - d)
    OBVIOUS
  <2> QED
    BY <2>1
<1>3. MaxHeld * d \in Nat /\ MaxHeld * k \in Nat
  BY <1>1
<1>4. MaxHeld * e = MaxHeld * d + MaxHeld * k
  BY <1>1, <1>2
<1>5. MaxHeld * (d - 1) + MaxHeld = MaxHeld * d
  BY <1>1
<1> QED
  BY <1>3, <1>4, <1>5

\* No counter reaches its top bit.
LEMMA AliveBound ==
    ASSUME Basic, NEW base, BaseOK(base), NEW d \in Depths, d <= depth, NEW i \in Lines
    PROVE  /\ Alive(base, d, i) \in Nat
           /\ Owns(ctx[d], i) \in 0..MaxHeld
           /\ Alive(base, d, i) <= MaxHeld * d
           /\ Alive(base, d, i) + 1 < Msb
<1>1. Owns(ctx[d], i) \in 0..MaxHeld
  BY OwnsType DEF Basic, TypeOK
<1>2. base[d][i] \in Nat /\ base[d][i] <= MaxHeld * (d - 1)
  BY DEF BaseOK
<1>3. d \in Nat /\ d > 0 /\ MaxDepth + 1 \in Nat /\ d <= MaxDepth + 1
  BY BoundsAssumption DEF Depths
<1>4. /\ MaxHeld * (d - 1) + MaxHeld = MaxHeld * d
      /\ MaxHeld * d <= MaxHeld * (MaxDepth + 1)
      /\ MaxHeld * d \in Nat /\ MaxHeld * (MaxDepth + 1) \in Nat
  BY <1>3, Product
<1>5. MaxHeld * (d - 1) \in Nat
  BY <1>3, Product
<1> DEFINE a == MaxHeld * (d - 1)
           b == MaxHeld * d
           m == MaxHeld * (MaxDepth + 1)
<1>6. /\ a + MaxHeld = b /\ b <= m /\ a \in Nat /\ b \in Nat /\ m \in Nat
      /\ base[d][i] <= a /\ m + 1 < Msb /\ MaxHeld \in Nat /\ Msb \in Nat
  BY <1>2, <1>4, <1>5, BoundsAssumption
<1> HIDE DEF a, b, m
<1>7. /\ base[d][i] + Owns(ctx[d], i) \in Nat
      /\ base[d][i] + Owns(ctx[d], i) <= b
      /\ base[d][i] + Owns(ctx[d], i) + 1 < Msb
  BY <1>1, <1>2, <1>6
<1> QED
  BY <1>1, <1>7 DEF Alive, b

\* Where the contexts below own no objects, the first object is not among them.
LEMMA ShutSame ==
    ASSUME Basic, NEW base, BaseOK(base), NEW d \in Depths, d <= depth, NEW i \in Lines,
           base[d][i] = 0
    PROVE  ShutAtFirst(base, d, i) <=> Shut(d, i)
<1>1. \A e \in Depths : e < d => Alive(base, e, i) = 0
  <2> SUFFICES ASSUME NEW e \in Depths, e < d PROVE Alive(base, e, i) = 0
    OBVIOUS
  <2>1. Alive(base, e, i) <= base[d][i]
    BY DEF BaseOK
  <2>2. e <= depth
    BY DEF Basic, TypeOK, Depths
  <2>3. Alive(base, e, i) \in Nat
    BY <2>2, AliveBound
  <2> QED
    BY <2>1, <2>3
<1> QED
  BY <1>1 DEF ShutAtFirst, Shut

-----------------------------------------------------------------------------
(* A step of the running context leaves those below it alone.              *)

LEMMA ContextsBelow ==
    ASSUME Basic, NEW x, Becomes(x)
    PROVE  /\ depth' = depth /\ depth \in Depths
           /\ ctx'[depth] = x
           /\ \A e \in Depths : e # depth => ctx'[e] = ctx[e]
           /\ \A e \in Depths : e < depth => ctx'[e] = ctx[e]
BY DEF Basic, TypeOK, Becomes, Depths

LEMMA BaseBelow ==
    ASSUME Basic, NEW base, BaseOK(base), NEW x, Becomes(x)
    PROVE  /\ BaseOK(base)'
           /\ \A e \in Depths, i \in Lines : e < depth => Alive(base, e, i)' = Alive(base, e, i)
           /\ \A i \in Lines : Alive(base, depth, i)' = base[depth][i] + Owns(x, i)
<1>1. /\ depth' = depth /\ depth \in Depths /\ ctx'[depth] = x
      /\ \A e \in Depths : e < depth => ctx'[e] = ctx[e]
  BY ContextsBelow
<1>2. \A e \in Depths, i \in Lines : e < depth => Owns(ctx[e], i)' = Owns(ctx[e], i)
  BY <1>1 DEF Owns
<1>3. \A e \in Depths, i \in Lines : e < depth => Alive(base, e, i)' = Alive(base, e, i)
  BY <1>2 DEF Alive
<1>4. \A i \in Lines : Alive(base, depth, i)' = base[depth][i] + Owns(x, i)
  BY <1>1 DEF Alive, Owns
<1>5. BaseOK(base)'
  <2>1. \A d \in Depths, i \in Lines : d < depth => base[d + 1][i] = Alive(base, d, i)'
    BY <1>3 DEF BaseOK
  <2>2. \A d, e \in Depths, i \in Lines :
            e < d /\ d <= depth => Alive(base, e, i)' <= base[d][i]
    <3> SUFFICES ASSUME NEW d \in Depths, NEW e \in Depths, NEW i \in Lines, e < d, d <= depth
                 PROVE  Alive(base, e, i)' <= base[d][i]
      OBVIOUS
    <3>1. e < depth
      BY <1>1 DEF Depths
    <3> QED
      BY <1>3, <3>1 DEF BaseOK
  <2>3. \A d \in Depths, i \in Lines : d <= depth /\ base[d][i] > 0 =>
            \E e \in Depths : e < d /\ Owns(ctx[e], i)' > 0
    <3> SUFFICES ASSUME NEW d \in Depths, NEW i \in Lines, d <= depth, base[d][i] > 0
                 PROVE  \E e \in Depths : e < d /\ Owns(ctx[e], i)' > 0
      OBVIOUS
    <3>1. PICK e \in Depths : e < d /\ Owns(ctx[e], i) > 0
      BY DEF BaseOK
    <3>2. e < depth
      BY <1>1, <3>1 DEF Depths
    <3> QED
      BY <1>2, <3>1, <3>2
  <2> QED
    BY <1>1, <2>1, <2>2, <2>3 DEF BaseOK
<1> QED
  BY <1>3, <1>4, <1>5

LEMMA ShutBelow ==
    ASSUME Basic, NEW base, BaseOK(base), NEW x, Becomes(x), wanted' = wanted,
           NEW d \in Depths, d <= depth, NEW i \in Lines
    PROVE  /\ Shut(d, i)' <=> Shut(d, i)
           /\ ShutAtFirst(base, d, i)' <=> ShutAtFirst(base, d, i)
<1>1. \A e \in Depths : e < d => ctx'[e] = ctx[e] /\ e < depth
  BY ContextsBelow DEF Basic, TypeOK, Depths
<1>2. \A e \in Depths : e < d => /\ Turning(ctx[e], i)' <=> Turning(ctx[e], i)
                                 /\ Alive(base, e, i)' = Alive(base, e, i)
  BY <1>1, BaseBelow DEF Turning
<1> QED
  BY <1>2 DEF Shut, ShutAtFirst

LEMMA LocalsBelow ==
    ASSUME Basic, NEW base, BaseOK(base), NEW x, Becomes(x), wanted' = wanted,
           NEW d \in Depths, d < depth, LocalsOK(base, d)
    PROVE  LocalsOK(base, d)'
<1>1. ctx'[d] = ctx[d] /\ ctx[d].irq \in Lines
  BY ContextsBelow DEF Basic, TypeOK, Contexts
<1>2. d <= depth
  BY DEF Basic, TypeOK, Depths
<1>3. \A i \in Lines : /\ Alive(base, d, i)' = Alive(base, d, i)
                       /\ Shut(d, i)' <=> Shut(d, i)
                       /\ ShutAtFirst(base, d, i)' <=> ShutAtFirst(base, d, i)
                       /\ Turning(ctx[d], i)' <=> Turning(ctx[d], i)
  BY <1>1, <1>2, BaseBelow, ShutBelow DEF Turning
<1>4. CurrentOK(base, d)'
  BY <1>1, <1>3 DEF LocalsOK, CurrentOK
<1>5. CopyOK(base, d)'
  BY <1>1, <1>3 DEF LocalsOK, CopyOK
<1>6. OpeningOK(base, d)'
  BY <1>1, <1>3 DEF LocalsOK, OpeningOK
<1> QED
  BY <1>4, <1>5, <1>6 DEF LocalsOK

\* What is left to prove of a step of the running context.
LEMMA RunningStep ==
    ASSUME Basic, NEW base, Inv(base), NEW x \in Contexts, HasRoom(x), Becomes(x),
           wanted' = wanted, imr' \subseteq Lines, count' \in [Lines -> Counters],
           CountOK(base)', RegisterOK(base)', MemoryOK(base)', LocalsOK(base, depth)'
    PROVE  IInv'
<1>1. /\ depth' = depth /\ depth \in Depths /\ ctx'[depth] = x
      /\ \A e \in Depths : e # depth => ctx'[e] = ctx[e]
  BY ContextsBelow
<1>2. Basic'
  <2>1. TypeOK'
    BY <1>1 DEF Basic, TypeOK, Becomes
  <2>2. AboveIdle'
    <3>1. \A d \in Depths : d > depth => d # depth
      BY <1>1 DEF Depths
    <3> QED
      BY <1>1, <3>1 DEF Basic, AboveIdle, Idle
  <2>3. \A d \in Depths : HasRoom(ctx'[d])
    BY <1>1 DEF Basic
  <2> QED
    BY <2>1, <2>2, <2>3 DEF Basic, HasRoom
<1>3. BaseOK(base)'
  BY BaseBelow DEF Inv
<1>4. \A d \in Depths : d <= depth => LocalsOK(base, d)'
  <2> SUFFICES ASSUME NEW d \in Depths, d <= depth PROVE LocalsOK(base, d)'
    OBVIOUS
  <2>1. CASE d = depth
    BY <1>1, <2>1
  <2>2. CASE d < depth
    BY <2>2, LocalsBelow DEF Inv
  <2> QED
    BY <1>1, <2>1, <2>2 DEF Depths
<1>5. Inv(base)'
  BY <1>1, <1>3, <1>4 DEF Inv
<1> QED
  BY <1>2, <1>5 DEF IInv

LEMMA Running ==
    ASSUME Basic, NEW base, Inv(base), NEW x \in Contexts, Becomes(x), wanted' = wanted
    PROVE  /\ depth' = depth /\ ctx'[depth] = x /\ depth \in Depths
           /\ Top \in Contexts /\ HasRoom(Top)
           /\ \A i \in Lines :
                  /\ base[depth][i] \in Nat
                  /\ Owns(Top, i) \in 0..MaxHeld
                  /\ Alive(base, depth, i) = base[depth][i] + Owns(Top, i)
                  /\ Alive(base, depth, i)' = base[depth][i] + Owns(x, i)
                  /\ Alive(base, depth, i) + 1 < Msb
                  /\ Shut(depth, i)' <=> Shut(depth, i)
                  /\ ShutAtFirst(base, depth, i)' <=> ShutAtFirst(base, depth, i)
                  /\ Turning(ctx[depth], i)' <=> Turning(x, i)
                  /\ base[depth][i] = 0 => (ShutAtFirst(base, depth, i) <=> Shut(depth, i))
<1>1. BaseOK(base)
  BY DEF Inv
<1>2. depth' = depth /\ ctx'[depth] = x /\ depth \in Depths
  BY ContextsBelow
<1>3. depth <= depth
  BY <1>2 DEF Depths
<1>4. Top \in Contexts /\ HasRoom(Top)
  BY <1>2 DEF Basic, TypeOK, Top
<1> SUFFICES ASSUME NEW i \in Lines
             PROVE  /\ base[depth][i] \in Nat
                    /\ Owns(Top, i) \in 0..MaxHeld
                    /\ Alive(base, depth, i) = base[depth][i] + Owns(Top, i)
                    /\ Alive(base, depth, i)' = base[depth][i] + Owns(x, i)
                    /\ Alive(base, depth, i) + 1 < Msb
                    /\ Shut(depth, i)' <=> Shut(depth, i)
                    /\ ShutAtFirst(base, depth, i)' <=> ShutAtFirst(base, depth, i)
                    /\ Turning(ctx[depth], i)' <=> Turning(x, i)
                    /\ base[depth][i] = 0 => (ShutAtFirst(base, depth, i) <=> Shut(depth, i))
  BY <1>2, <1>4
<1>5. base[depth][i] \in Nat
  BY <1>1, <1>2 DEF BaseOK
<1>6. Alive(base, depth, i) = base[depth][i] + Owns(Top, i)
  BY DEF Alive, Top
<1>7. Alive(base, depth, i)' = base[depth][i] + Owns(x, i)
  BY <1>1, BaseBelow
<1>8. Alive(base, depth, i) + 1 < Msb /\ Owns(Top, i) \in 0..MaxHeld
  BY <1>1, <1>2, <1>3, AliveBound DEF Top
<1>9. /\ Shut(depth, i)' <=> Shut(depth, i)
      /\ ShutAtFirst(base, depth, i)' <=> ShutAtFirst(base, depth, i)
  <2>1. /\ Shut(depth, i)' <=> (i \notin wanted \/
                  \E e \in Depths : e < depth /\ Turning(ctx[e], i))
        /\ ShutAtFirst(base, depth, i)' <=> (i \notin wanted \/
                  \E e \in Depths : e < depth /\ Turning(ctx[e], i) /\ Alive(base, e, i) = 0)
    <3>1. \A e \in Depths : e < depth => /\ Turning(ctx[e], i)' <=> Turning(ctx[e], i)
                                         /\ Alive(base, e, i)' = Alive(base, e, i)
      BY <1>1, ContextsBelow, BaseBelow DEF Turning
    <3> QED
      BY <1>2, <3>1 DEF Shut, ShutAtFirst
  <2> QED
    BY <2>1 DEF Shut, ShutAtFirst
<1>10. Turning(ctx[depth], i)' <=> Turning(x, i)
  BY <1>2 DEF Turning
<1>11. base[depth][i] = 0 => (ShutAtFirst(base, depth, i) <=> Shut(depth, i))
  BY <1>1, <1>2, <1>3, ShutSame
<1> QED
  BY <1>5, <1>6, <1>7, <1>8, <1>9, <1>10, <1>11

-----------------------------------------------------------------------------
(* The constructor                                                         *)

LEMMA CliReadStep ==
    ASSUME Basic, NEW base, Inv(base), NEW i \in Lines, CliRead(i)
    PROVE  IInv'
<1> DEFINE x == [Top EXCEPT !.pc = "cli_write", !.irq = i, !.current = imr]
<1>1. Becomes(x) /\ UNCHANGED <<imr, count, wanted>> /\ Top.pc = "idle" /\ Top.held[i] < MaxHeld
  BY DEF CliRead, At
<1>2. depth \in Depths /\ Top \in Contexts /\ imr \subseteq Lines
  BY DEF Basic, TypeOK, Top
<1>3. /\ x \in Contexts /\ HasRoom(x) /\ x.pc = "cli_write" /\ x.irq = i /\ x.current = imr
      /\ \A j \in Lines : Owns(x, j) = Owns(Top, j) /\ ~Turning(x, j) /\ ~Turning(Top, j)
  BY <1>1, <1>2 DEF Contexts, Pcs, HasRoom, Owns, Turning
<1> HIDE DEF x
<1>4. CountOK(base)' /\ RegisterOK(base)' /\ MemoryOK(base)'
  BY <1>1, <1>3, Running DEF Inv, CountOK, RegisterOK, MemoryOK, Top
<1>5. LocalsOK(base, depth)'
  <2>1. \A j \in Lines : j \in x.current <=>
            Alive(base, depth, j)' > 0 \/ Shut(depth, j)' \/ Turning(x, j)
    BY <1>1, <1>3, Running DEF Inv, RegisterOK, Top
  <2> QED
    BY <1>1, <1>3, <2>1, Running DEF LocalsOK, CurrentOK, CopyOK, OpeningOK
<1> QED
  BY <1>1, <1>2, <1>3, <1>4, <1>5, RunningStep DEF Basic, TypeOK

LEMMA CliWriteStep ==
    ASSUME Basic, NEW base, Inv(base), CliWrite
    PROVE  IInv'
<1> DEFINE x == [Top EXCEPT !.pc = "cli_load"]
<1>1. /\ Becomes(x) /\ UNCHANGED <<count, wanted>> /\ Top.pc = "cli_write"
      /\ imr' = Top.current \cup {Top.irq}
  BY DEF CliWrite, At
<1>2. depth \in Depths /\ Top \in Contexts /\ HasRoom(Top)
  BY DEF Basic, TypeOK, Top
<1>3. /\ x \in Contexts /\ HasRoom(x) /\ x.pc = "cli_load" /\ x.irq = Top.irq
      /\ x.current = Top.current /\ Top.irq \in Lines /\ Top.current \subseteq Lines
      /\ \A j \in Lines : /\ Owns(x, j) = Owns(Top, j)
                          /\ Turning(x, j) <=> j = Top.irq
                          /\ ~Turning(Top, j)
  BY <1>1, <1>2 DEF Contexts, Pcs, HasRoom, Owns, Turning
<1> HIDE DEF x
<1>4. \A j \in Lines : j \in Top.current <=> Alive(base, depth, j) > 0 \/ Shut(depth, j)
  <2>1. LocalsOK(base, depth)
    BY <1>2 DEF Inv, Depths
  <2> QED
    BY <1>1, <1>3, <2>1 DEF LocalsOK, CurrentOK, Top
<1>5. CountOK(base)' /\ MemoryOK(base)'
  BY <1>1, <1>3, Running DEF Inv, CountOK, MemoryOK
<1>6. RegisterOK(base)'
  BY <1>1, <1>3, <1>4, Running DEF RegisterOK
<1>7. LocalsOK(base, depth)'
  BY <1>1, <1>3, <1>4, Running DEF LocalsOK, CurrentOK, CopyOK, OpeningOK
<1> QED
  BY <1>1, <1>2, <1>3, <1>5, <1>6, <1>7, RunningStep DEF Basic, TypeOK

LEMMA CliLoadStep ==
    ASSUME Basic, NEW base, Inv(base), CliLoad
    PROVE  IInv'
<1> DEFINE k == InitialState(Top)
           x == [Top EXCEPT !.pc = "cli_store", !.c = k]
<1>1. Becomes(x) /\ UNCHANGED <<imr, count, wanted>> /\ Top.pc = "cli_load"
  BY DEF CliLoad, At
<1>2. depth \in Depths /\ Top \in Contexts /\ HasRoom(Top) /\ count \in [Lines -> Counters]
  BY DEF Basic, TypeOK, Top
<1>3. Top.irq \in Lines /\ count[Top.irq] \in Counters
  BY <1>2 DEF Contexts
<1>4. LocalsOK(base, depth)
  BY <1>2 DEF Inv, Depths
<1>5. /\ k \in Counters /\ Low(k) = Alive(base, depth, Top.irq)
      /\ k >= Msb <=> ShutAtFirst(base, depth, Top.irq)
  <2>1. Low(count[Top.irq]) = Alive(base, depth, Top.irq)
    BY <1>3 DEF Inv, CountOK
  <2>2. CASE Alive(base, depth, Top.irq) = 0
    <3>1. Top.irq \in Top.current <=> ShutAtFirst(base, depth, Top.irq)
      <4>1. Top.irq \in Top.current <=> Shut(depth, Top.irq)
        BY <1>1, <1>4, <2>2 DEF LocalsOK, CurrentOK, Top
      <4>2. BaseOK(base) /\ depth <= depth
        BY <1>2 DEF Inv, Depths
      <4>3. base[depth][Top.irq] = 0
        <5>1. base[depth][Top.irq] \in Nat /\ Owns(Top, Top.irq) \in 0..MaxHeld
          BY <1>2, <1>3, <4>2, OwnsType DEF BaseOK
        <5>2. Alive(base, depth, Top.irq) = base[depth][Top.irq] + Owns(Top, Top.irq)
          BY DEF Alive, Top
        <5> QED
          BY <2>2, <5>1, <5>2, BoundsAssumption
      <4> QED
        BY <1>2, <1>3, <4>1, <4>2, <4>3, ShutSame
    <3>2. k = IF Top.irq \in Top.current THEN Msb ELSE 0
      BY <2>1, <2>2 DEF InitialState
    <3> QED
      BY <2>2, <3>1, <3>2, BoundsAssumption DEF Low, Counters
  <2>3. CASE Alive(base, depth, Top.irq) # 0
    <3>1. k = count[Top.irq]
      BY <2>1, <2>3 DEF InitialState
    <3>2. Alive(base, depth, Top.irq) > 0
      BY <1>3, <2>1, <2>3, LowFacts
    <3> QED
      BY <1>3, <2>1, <3>1, <3>2 DEF Inv, MemoryOK
  <2> QED
    BY <2>2, <2>3
<1> HIDE DEF k
<1>6. /\ x \in Contexts /\ HasRoom(x) /\ x.pc = "cli_store" /\ x.irq = Top.irq /\ x.c = k
      /\ \A j \in Lines : /\ Owns(x, j) = Owns(Top, j)
                          /\ Turning(x, j) <=> Turning(Top, j)
  BY <1>1, <1>2, <1>5 DEF Contexts, Pcs, HasRoom, Owns, Turning
<1> HIDE DEF x
<1>7. CountOK(base)' /\ RegisterOK(base)' /\ MemoryOK(base)'
  BY <1>1, <1>6, Running DEF Inv, CountOK, RegisterOK, MemoryOK, Top
<1>8. LocalsOK(base, depth)'
  BY <1>1, <1>3, <1>5, <1>6, Running DEF LocalsOK, CurrentOK, CopyOK, OpeningOK
<1> QED
  BY <1>1, <1>2, <1>6, <1>7, <1>8, RunningStep DEF Basic, TypeOK

\* A context between two operations has no locals.
LEMMA HoldingType ==
    ASSUME NEW held \in [Lines -> 0..MaxHeld]
    PROVE  /\ Holding(held) \in Contexts
           /\ Holding(held).pc = "idle" /\ HasRoom(Holding(held))
           /\ \A j \in Lines : Owns(Holding(held), j) = held[j] /\ ~Turning(Holding(held), j)
<1>1. (CHOOSE i \in Lines : TRUE) \in Lines
  BY LinesAssumption
<1>2. 0 \in 0..MaxHeld /\ 0 \in Counters
  BY BoundsAssumption DEF Counters
<1>3. Idle \in Contexts /\ Idle.pc = "idle"
  BY <1>1, <1>2 DEF Idle, Contexts, Pcs
<1>4. Holding(held) \in Contexts /\ Holding(held).pc = "idle" /\ Holding(held).held = held
  BY <1>3 DEF Holding, Contexts
<1>5. \A j \in Lines : held[j] + 0 = held[j]
  BY BoundsAssumption
<1> QED
  BY <1>4, <1>5 DEF HasRoom, Owns, Turning

LEMMA CliStoreStep ==
    ASSUME Basic, NEW base, Inv(base), CliStore
    PROVE  IInv'
<1> DEFINE h == [Top.held EXCEPT ![Top.irq] = @ + 1]
           x == Holding(h)
<1>1. /\ Becomes(x) /\ UNCHANGED <<imr, wanted>> /\ Top.pc = "cli_store"
      /\ count' = [count EXCEPT ![Top.irq] = Top.c + 1]
  BY DEF CliStore, At
<1>2. depth \in Depths /\ Top \in Contexts /\ HasRoom(Top) /\ count \in [Lines -> Counters]
  BY DEF Basic, TypeOK, Top
<1>3. /\ Top.irq \in Lines /\ Top.c \in Counters
      /\ Top.held \in [Lines -> 0..MaxHeld] /\ Top.held[Top.irq] < MaxHeld
  BY <1>1, <1>2 DEF Contexts, HasRoom
<1>4. h \in [Lines -> 0..MaxHeld]
  BY <1>3, BoundsAssumption
<1>5. /\ x \in Contexts /\ HasRoom(x) /\ x.pc = "idle"
      /\ \A j \in Lines : Owns(x, j) = h[j] /\ ~Turning(x, j)
  BY <1>4, HoldingType
<1>6. \A j \in Lines : /\ Owns(Top, j) = Top.held[j]
                       /\ Turning(Top, j) <=> j = Top.irq
                       /\ h[j] = IF j = Top.irq THEN Owns(Top, j) + 1 ELSE Owns(Top, j)
  BY <1>1, <1>3 DEF Owns, Turning
<1> HIDE DEF h, x
<1>7. \A j \in Lines : Alive(base, depth, j)' =
          IF j = Top.irq THEN Alive(base, depth, j) + 1 ELSE Alive(base, depth, j)
  BY <1>1, <1>5, <1>6, Running
<1>8. LocalsOK(base, depth)
  BY <1>2 DEF Inv, Depths
<1>9. /\ Low(Top.c) = Alive(base, depth, Top.irq)
      /\ Top.c >= Msb <=> ShutAtFirst(base, depth, Top.irq)
  BY <1>1, <1>8 DEF LocalsOK, CopyOK, Top
<1>10. /\ Top.c + 1 \in Counters /\ Low(Top.c + 1) = Alive(base, depth, Top.irq) + 1
       /\ Top.c + 1 >= Msb <=> ShutAtFirst(base, depth, Top.irq)
  <2>1. Alive(base, depth, Top.irq) + 1 < Msb
    BY <1>1, <1>3, <1>5, Running
  <2> QED
    BY <1>3, <1>9, <2>1, BoundsAssumption DEF Low, Counters
<1>11. CountOK(base)'
  BY <1>1, <1>2, <1>3, <1>7, <1>10 DEF Inv, CountOK
<1>12. MemoryOK(base)'
  <2>1. \A j \in Lines : ShutAtFirst(base, depth, j)' <=> ShutAtFirst(base, depth, j)
    BY <1>1, <1>5, Running
  <2> QED
    BY <1>1, <1>2, <1>3, <1>7, <1>10, <2>1 DEF Inv, MemoryOK
<1>13. RegisterOK(base)'
  <2>1. \A j \in Lines : j # Top.irq => (j \in imr' <=>
            Alive(base, depth, j)' > 0 \/ Shut(depth, j)' \/ Turning(x, j))
    BY <1>1, <1>5, <1>6, <1>7, Running DEF Inv, RegisterOK, Top
  <2>2. \A j \in Lines : j = Top.irq => Alive(base, depth, j)' > 0
    <3> SUFFICES ASSUME NEW j \in Lines, j = Top.irq PROVE Alive(base, depth, j)' > 0
      OBVIOUS
    <3>1. Alive(base, depth, j) \in Nat
      BY <1>1, <1>5, Running, BoundsAssumption
    <3> QED
      BY <1>7, <3>1
  <2>3. Top.irq \in imr'
    BY <1>1, <1>3, <1>6 DEF Inv, RegisterOK, Top
  <2>4. \A j \in Lines : j \in imr' <=>
            Alive(base, depth, j)' > 0 \/ Shut(depth, j)' \/ Turning(x, j)
    BY <2>1, <2>2, <2>3
  <2> QED
    BY <1>1, <1>5, <2>4, Running DEF RegisterOK
<1>14. LocalsOK(base, depth)'
  BY <1>1, <1>5, Running DEF LocalsOK, CurrentOK, CopyOK, OpeningOK
<1>15. count' \in [Lines -> Counters]
  BY <1>1, <1>2, <1>10
<1> QED
  BY <1>1, <1>5, <1>11, <1>12, <1>13, <1>14, <1>15, RunningStep DEF Basic, TypeOK

-----------------------------------------------------------------------------
(* The destructor                                                          *)

LEMMA StiLoadStep ==
    ASSUME Basic, NEW base, Inv(base), NEW i \in Lines, StiLoad(i)
    PROVE  IInv'
<1> DEFINE k == IF count[i] = 0 THEN 2 * Msb - 1 ELSE count[i] - 1
           h == [Top.held EXCEPT ![i] = @ - 1]
           x == [Top EXCEPT !.pc = "sti_store", !.irq = i, !.held = h, !.c = k]
<1>1. Becomes(x) /\ UNCHANGED <<imr, count, wanted>> /\ Top.pc = "idle" /\ Top.held[i] > 0
  BY DEF StiLoad, At
<1>2. depth \in Depths /\ Top \in Contexts /\ count[i] \in Counters
  BY DEF Basic, TypeOK, Top
<1>3. /\ Top.held \in [Lines -> 0..MaxHeld] /\ h \in [Lines -> 0..MaxHeld]
      /\ h[i] < MaxHeld /\ h[i] + 1 = Top.held[i]
      /\ \A j \in Lines : j # i => h[j] + 0 = Top.held[j]
  BY <1>1, <1>2, BoundsAssumption DEF Contexts
<1>4. /\ k \in Counters /\ Low(k) = Alive(base, depth, i) - 1
      /\ k >= Msb <=> ShutAtFirst(base, depth, i)
  <2>1. Owns(Top, i) > 0 /\ Owns(Top, i) \in Nat
    BY <1>1, <1>3, BoundsAssumption DEF Owns
  <2>2. base[depth][i] \in Nat /\ Alive(base, depth, i) = base[depth][i] + Owns(Top, i)
    BY <1>2 DEF Inv, BaseOK, Alive, Top
  <2>3. Alive(base, depth, i) > 0 /\ Alive(base, depth, i) \in Nat
    BY <2>1, <2>2
  <2>4. Low(count[i]) = Alive(base, depth, i)
    BY DEF Inv, CountOK
  <2>5. /\ k \in Counters /\ Low(k) = Low(count[i]) - 1
        /\ k >= Msb <=> count[i] >= Msb
    BY <1>2, <2>3, <2>4, BoundsAssumption DEF Low, Counters
  <2> QED
    BY <2>3, <2>4, <2>5 DEF Inv, MemoryOK
<1> HIDE DEF k
<1> HIDE DEF h
<1>6. x \in Contexts /\ x.pc = "sti_store" /\ x.irq = i /\ x.c = k /\ x.held = h
  BY <1>2, <1>3, <1>4 DEF Contexts, Pcs
<1> HIDE DEF x
<1>7. HasRoom(x)
  BY <1>3, <1>6 DEF HasRoom
<1>8. \A j \in Lines : Owns(x, j) = Owns(Top, j) /\ ~Turning(x, j) /\ ~Turning(Top, j)
  <2>1. \A j \in Lines : Owns(x, j) = h[j] + (IF j = i THEN 1 ELSE 0)
    BY <1>6 DEF Owns
  <2>2. \A j \in Lines : Owns(Top, j) = Top.held[j]
    BY <1>1, <1>3, BoundsAssumption DEF Owns
  <2>3. \A j \in Lines : Owns(x, j) = Owns(Top, j)
    BY <1>3, <2>1, <2>2
  <2> QED
    BY <1>1, <1>6, <2>3 DEF Turning
<1>9. CountOK(base)' /\ RegisterOK(base)' /\ MemoryOK(base)'
  BY <1>1, <1>6, <1>8, Running DEF Inv, CountOK, RegisterOK, MemoryOK, Top
<1>10. LocalsOK(base, depth)'
  BY <1>1, <1>4, <1>6, <1>8, Running DEF LocalsOK, CurrentOK, CopyOK, OpeningOK
<1> QED
  BY <1>1, <1>6, <1>7, <1>9, <1>10, RunningStep DEF Basic, TypeOK

LEMMA StiStoreStep ==
    ASSUME Basic, NEW base, Inv(base), StiStore
    PROVE  IInv'
<1> DEFINE x == IF LastObject(Top.c) THEN [Top EXCEPT !.pc = "sti_read"] ELSE Holding(Top.held)
<1>1. /\ Becomes(x) /\ UNCHANGED <<imr, wanted>> /\ Top.pc = "sti_store"
      /\ count' = [count EXCEPT ![Top.irq] = Top.c]
  BY DEF StiStore, At
<1>2. depth \in Depths /\ Top \in Contexts /\ HasRoom(Top) /\ count \in [Lines -> Counters]
  BY DEF Basic, TypeOK, Top
<1>3. Top.irq \in Lines /\ Top.c \in Counters /\ Top.held \in [Lines -> 0..MaxHeld]
  BY <1>2 DEF Contexts
<1>4. LocalsOK(base, depth)
  BY <1>2 DEF Inv, Depths
<1>5. /\ Low(Top.c) = Alive(base, depth, Top.irq) - 1
      /\ Top.c >= Msb <=> ShutAtFirst(base, depth, Top.irq)
  BY <1>1, <1>4 DEF LocalsOK, CopyOK, Top
<1>6. \A j \in Lines : /\ Owns(Top, j) = Top.held[j] + (IF j = Top.irq THEN 1 ELSE 0)
                       /\ ~Turning(Top, j)
  BY <1>1 DEF Owns, Turning
<1>7. /\ x \in Contexts /\ HasRoom(x) /\ x.irq \in Lines
      /\ \A j \in Lines : Owns(x, j) = Top.held[j]
      /\ Top.c = 0 => x.pc = "sti_read" /\ x.irq = Top.irq
      /\ Top.c # 0 => x.pc = "idle"
  <2>1. CASE LastObject(Top.c)
    <3>1. /\ x \in Contexts /\ x.pc = "sti_read" /\ x.irq = Top.irq /\ x.held = Top.held
      BY <1>2, <2>1 DEF Contexts, Pcs
    <3>2. \A j \in Lines : Top.held[j] + 0 = Top.held[j]
      BY <1>3, BoundsAssumption
    <3> QED
      BY <1>3, <2>1, <3>1, <3>2 DEF HasRoom, Owns, LastObject
  <2>2. CASE ~LastObject(Top.c)
    <3>1. x = Holding(Top.held)
      BY <2>2
    <3>2. Holding(Top.held) \in Contexts /\ Holding(Top.held).irq \in Lines
      BY <1>3, HoldingType DEF Contexts
    <3> QED
      BY <1>3, <2>2, <3>1, <3>2, HoldingType DEF LastObject
  <2> QED
    BY <2>1, <2>2
<1> HIDE DEF x
<1>8. \A j \in Lines : Turning(x, j) <=> Top.c = 0 /\ j = Top.irq
  BY <1>7 DEF Turning
<1>9. \A j \in Lines :
          /\ Alive(base, depth, j) \in Nat
          /\ Alive(base, depth, j)' =
                 IF j = Top.irq THEN Alive(base, depth, j) - 1 ELSE Alive(base, depth, j)
  <2> SUFFICES ASSUME NEW j \in Lines
               PROVE  /\ Alive(base, depth, j) \in Nat
                      /\ Alive(base, depth, j)' = IF j = Top.irq THEN Alive(base, depth, j) - 1
                                                  ELSE Alive(base, depth, j)
    OBVIOUS
  <2>1. /\ base[depth][j] \in Nat /\ Owns(Top, j) \in 0..MaxHeld
        /\ Alive(base, depth, j) = base[depth][j] + Owns(Top, j)
        /\ Alive(base, depth, j)' = base[depth][j] + Owns(x, j)
    BY <1>1, <1>7, Running
  <2> QED
    BY <1>3, <1>6, <1>7, <2>1, BoundsAssumption
<1>10. Alive(base, depth, Top.irq) > 0
  <2>1. Low(Top.c) \in 0..Msb - 1
    BY <1>3, LowFacts
  <2> QED
    BY <1>3, <1>5, <1>9, <2>1, BoundsAssumption
<1>11. CountOK(base)'
  BY <1>1, <1>2, <1>3, <1>5, <1>9 DEF Inv, CountOK
<1>12. MemoryOK(base)'
  <2>1. \A j \in Lines : ShutAtFirst(base, depth, j)' <=> ShutAtFirst(base, depth, j)
    BY <1>1, <1>7, Running
  <2> QED
    BY <1>1, <1>2, <1>3, <1>5, <1>9, <2>1 DEF Inv, MemoryOK
\* The counter reaches zero in a line that the context below the first object finds open.
<1>13. Top.c = 0 => Alive(base, depth, Top.irq) = 1 /\ ~ShutAtFirst(base, depth, Top.irq)
  BY <1>3, <1>5, <1>9, BoundsAssumption DEF Low
<1>14. \A j \in Lines : j = Top.irq /\ Alive(base, depth, j)' = 0 =>
           (Shut(depth, j)' <=> Top.c # 0)
  <2> SUFFICES ASSUME NEW j \in Lines, j = Top.irq, Alive(base, depth, j)' = 0
               PROVE  Shut(depth, j)' <=> Top.c # 0
    OBVIOUS
  <2>1. ShutAtFirst(base, depth, j) <=> Top.c >= Msb
    BY <1>5
  <2>2. Top.c # 0 <=> Top.c >= Msb
    <3>1. Low(Top.c) = 0
      BY <1>5, <1>9
    <3> QED
      BY <1>3, <3>1, BoundsAssumption DEF Low, Counters
  <2>3. base[depth][j] = 0
    <3>1. /\ base[depth][j] \in Nat /\ Owns(x, j) \in Nat
          /\ Alive(base, depth, j)' = base[depth][j] + Owns(x, j)
      BY <1>1, <1>3, <1>7, Running, BoundsAssumption
    <3> QED
      BY <3>1
  <2>4. /\ ShutAtFirst(base, depth, j) <=> Shut(depth, j)
        /\ Shut(depth, j)' <=> Shut(depth, j)
    BY <1>1, <1>7, <2>3, Running
  <2> QED
    BY <2>1, <2>2, <2>4
<1>15. RegisterOK(base)'
  <2>1. \A j \in Lines : j \in imr' <=>
            Alive(base, depth, j)' > 0 \/ Shut(depth, j)' \/ Turning(x, j)
    <3> SUFFICES ASSUME NEW j \in Lines
                 PROVE  j \in imr' <=>
                            Alive(base, depth, j)' > 0 \/ Shut(depth, j)' \/ Turning(x, j)
      OBVIOUS
    <3>1. CASE j = Top.irq
      <4>1. j \in imr'
        BY <1>1, <1>10, <3>1 DEF Inv, RegisterOK
      <4>2. CASE Alive(base, depth, j)' = 0
        BY <1>8, <1>14, <3>1, <4>1, <4>2
      <4>3. CASE Alive(base, depth, j)' # 0
        BY <1>9, <1>10, <3>1, <4>1, <4>3
      <4> QED
        BY <4>2, <4>3
    <3>2. CASE j # Top.irq
      BY <1>1, <1>6, <1>7, <1>8, <1>9, <3>2, Running DEF Inv, RegisterOK, Top
    <3> QED
      BY <3>1, <3>2
  <2> QED
    BY <1>1, <1>7, <2>1, Running DEF RegisterOK
<1>16. LocalsOK(base, depth)'
  <2>1. x.pc = "sti_read" => \A j \in Lines : j = x.irq =>
            Alive(base, depth, j)' = 0 /\ ~Shut(depth, j)'
    <3>1. x.pc = "sti_read" => Top.c = 0 /\ x.irq = Top.irq
      BY <1>7
    <3> QED
      BY <1>9, <1>13, <1>14, <3>1
  <2>2. x.pc \in {"sti_read", "idle"}
    BY <1>7
  <2>3. \A j \in Lines : j = x.irq /\ x.pc = "sti_read" =>
            Alive(base, depth, j)' = 0 /\ ~Shut(depth, j)'
    BY <2>1
  <2>4. depth' = depth /\ ctx'[depth] = x
    BY <1>1, <1>7, Running
  <2>5. OpeningOK(base, depth)'
    BY <1>7, <2>2, <2>3, <2>4 DEF OpeningOK
  <2> QED
    BY <2>2, <2>4, <2>5 DEF LocalsOK, CurrentOK, CopyOK
<1>17. count' \in [Lines -> Counters]
  BY <1>1, <1>2, <1>3
<1> QED
  BY <1>1, <1>7, <1>11, <1>12, <1>15, <1>16, <1>17, RunningStep DEF Basic, TypeOK

LEMMA StiReadStep ==
    ASSUME Basic, NEW base, Inv(base), StiRead
    PROVE  IInv'
<1> DEFINE x == [Top EXCEPT !.pc = "sti_write", !.current = imr]
<1>1. Becomes(x) /\ UNCHANGED <<imr, count, wanted>> /\ Top.pc = "sti_read"
  BY DEF StiRead, At
<1>2. depth \in Depths /\ Top \in Contexts /\ imr \subseteq Lines
  BY DEF Basic, TypeOK, Top
<1>3. /\ x \in Contexts /\ HasRoom(x) /\ x.pc = "sti_write" /\ x.irq = Top.irq
      /\ x.current = imr /\ Top.irq \in Lines
      /\ \A j \in Lines : Owns(x, j) = Owns(Top, j) /\ (Turning(x, j) <=> Turning(Top, j))
  BY <1>1, <1>2 DEF Contexts, Pcs, HasRoom, Owns, Turning
<1> HIDE DEF x
<1>4. CountOK(base)' /\ RegisterOK(base)' /\ MemoryOK(base)'
  BY <1>1, <1>3, Running DEF Inv, CountOK, RegisterOK, MemoryOK, Top
<1>5. LocalsOK(base, depth)'
  <2>1. \A j \in Lines : j \in x.current <=>
            Alive(base, depth, j)' > 0 \/ Shut(depth, j)' \/ Turning(x, j)
    BY <1>1, <1>3, Running DEF Inv, RegisterOK, Top
  <2>2. Alive(base, depth, Top.irq) = 0 /\ ~Shut(depth, Top.irq)
    <3>1. LocalsOK(base, depth)
      BY <1>2 DEF Inv, Depths
    <3> QED
      BY <1>1, <3>1 DEF LocalsOK, OpeningOK, Top
  <2>3. \A j \in Lines : j = x.irq => Alive(base, depth, j)' = 0 /\ ~Shut(depth, j)'
    BY <1>1, <1>3, <2>2, Running
  <2>4. depth' = depth /\ ctx'[depth] = x
    BY <1>1, <1>3, Running
  <2>5. CurrentOK(base, depth)' /\ CopyOK(base, depth)'
    BY <1>1, <1>3, <2>1, Running DEF CurrentOK, CopyOK
  <2>6. OpeningOK(base, depth)'
    BY <1>3, <2>3, <2>4 DEF OpeningOK
  <2> QED
    BY <2>5, <2>6 DEF LocalsOK
<1> QED
  BY <1>1, <1>2, <1>3, <1>4, <1>5, RunningStep DEF Basic, TypeOK

LEMMA StiWriteStep ==
    ASSUME Basic, NEW base, Inv(base), StiWrite
    PROVE  IInv'
<1> DEFINE x == Holding(Top.held)
<1>1. /\ Becomes(x) /\ UNCHANGED <<count, wanted>> /\ Top.pc = "sti_write"
      /\ imr' = Top.current \ {Top.irq}
  BY DEF StiWrite, At
<1>2. depth \in Depths /\ Top \in Contexts
  BY DEF Basic, TypeOK, Top
<1>3. /\ Top.irq \in Lines /\ Top.current \subseteq Lines
      /\ Top.held \in [Lines -> 0..MaxHeld]
  BY <1>2 DEF Contexts
<1>4. \A j \in Lines : /\ Owns(Top, j) = Top.held[j]
                       /\ Turning(Top, j) <=> j = Top.irq
  BY <1>1, <1>3, BoundsAssumption DEF Owns, Turning
<1>5. /\ x \in Contexts /\ HasRoom(x) /\ x.pc = "idle"
      /\ \A j \in Lines : Owns(x, j) = Owns(Top, j) /\ ~Turning(x, j)
  BY <1>3, <1>4, HoldingType
<1> HIDE DEF x
<1>6. LocalsOK(base, depth)
  BY <1>2 DEF Inv, Depths
<1>7. /\ Alive(base, depth, Top.irq) = 0 /\ ~Shut(depth, Top.irq)
      /\ \A j \in Lines : j \in Top.current <=>
             Alive(base, depth, j) > 0 \/ Shut(depth, j) \/ j = Top.irq
  BY <1>1, <1>4, <1>6 DEF LocalsOK, CurrentOK, OpeningOK, Top
<1>8. CountOK(base)' /\ MemoryOK(base)'
  BY <1>1, <1>5, Running DEF Inv, CountOK, MemoryOK
<1>9. RegisterOK(base)'
  <2>1. \A j \in Lines : j \in imr' <=> Alive(base, depth, j) > 0 \/ Shut(depth, j)
    BY <1>1, <1>7
  <2> QED
    BY <1>1, <1>5, <2>1, Running DEF RegisterOK
<1>10. LocalsOK(base, depth)'
  BY <1>1, <1>5, Running DEF LocalsOK, CurrentOK, CopyOK, OpeningOK
<1> QED
  BY <1>1, <1>3, <1>5, <1>8, <1>9, <1>10, RunningStep DEF Basic, TypeOK

-----------------------------------------------------------------------------
(* unmask(), by the threads                                                *)

LEMMA UnmaskStep ==
    ASSUME Basic, NEW base, Inv(base), NEW i \in Lines, Unmask(i), "irq_unmask" \notin Ops
    PROVE  IInv'
<1>1. /\ Top.pc = "idle" /\ depth = 1 /\ Open(i)
      /\ wanted' = wanted \cup {i} /\ UNCHANGED <<ctx, depth>>
  BY DEF Unmask, At
<1>2. /\ \A d \in Depths : ~(d < 1)
      /\ \A d \in Depths : d <= 1 => d = 1
      /\ 1 \in Depths /\ ctx[1].pc = "idle" /\ count \in [Lines -> Counters]
  BY <1>1, BoundsAssumption DEF Depths, Top, Basic, TypeOK
<1>3. \A d \in Depths, j \in Lines : Alive(base, d, j)' = Alive(base, d, j)
  BY <1>1 DEF Alive, Owns
<1>4. /\ \A j \in Lines : Shut(depth, j)' <=> j \notin wanted'
      /\ \A j \in Lines : ShutAtFirst(base, depth, j)' <=> j \notin wanted'
      /\ \A j \in Lines : Shut(depth, j) <=> j \notin wanted
      /\ \A j \in Lines : ShutAtFirst(base, depth, j) <=> j \notin wanted
      /\ \A j \in Lines : ~Turning(ctx[depth], j) /\ ~Turning(ctx[depth], j)'
  BY <1>1, <1>2 DEF Shut, ShutAtFirst, Turning
<1>5. \A j \in Lines : Alive(base, depth, j) \in Nat
  BY <1>1, <1>2, AliveBound DEF Inv
<1>6. \A j \in Lines : Low(count[j]) = Alive(base, depth, j)
  BY DEF Inv, CountOK
<1>7. /\ count' \in [Lines -> Counters] /\ imr' \subseteq Lines
      /\ \A j \in Lines : Low(count'[j]) = Low(count[j])
      /\ \A j \in Lines : j # i => count'[j] = count[j] /\ (j \in imr' <=> j \in imr)
      /\ Low(count[i]) > 0 => count'[i] < Msb /\ imr' = imr
      /\ Low(count[i]) = 0 => i \notin imr'
  <2>1. imr \subseteq Lines
    BY DEF Basic, TypeOK
  <2>2. CASE Low(count[i]) > 0
    <3>1. imr' = imr /\ count' = [count EXCEPT ![i] = Low(count[i])]
      BY <1>1, <2>2 DEF Open
    <3>2. /\ Low(count[i]) \in Counters /\ Low(count[i]) < Msb
          /\ Low(Low(count[i])) = Low(count[i])
      BY <1>2, BoundsAssumption DEF Low, Counters
    <3> QED
      BY <1>2, <2>1, <2>2, <3>1, <3>2
  <2>3. CASE ~(Low(count[i]) > 0)
    BY <1>1, <1>2, <2>1, <2>3 DEF Open
  <2> QED
    BY <2>2, <2>3
<1>8. Basic'
  BY <1>1, <1>7 DEF Basic, TypeOK, AboveIdle, HasRoom, Idle
<1>9. BaseOK(base)'
  BY <1>1, <1>3 DEF Inv, BaseOK, Owns
<1>10. CountOK(base)'
  BY <1>1, <1>2, <1>3, <1>6, <1>7 DEF CountOK
<1>11. RegisterOK(base)'
  <2>1. \A j \in Lines : j \in imr <=> Alive(base, depth, j) > 0 \/ j \notin wanted
    BY <1>4 DEF Inv, RegisterOK
  <2>2. \A j \in Lines : j \in imr' <=> Alive(base, depth, j) > 0 \/ j \notin wanted'
    <3> SUFFICES ASSUME NEW j \in Lines
                 PROVE  j \in imr' <=> Alive(base, depth, j) > 0 \/ j \notin wanted'
      OBVIOUS
    <3>1. CASE j = i
      BY <1>1, <1>5, <1>6, <1>7, <2>1, <3>1
    <3>2. CASE j # i
      BY <1>1, <1>7, <2>1, <3>2
    <3> QED
      BY <3>1, <3>2
  <2> QED
    BY <1>1, <1>2, <1>3, <1>4, <2>2 DEF RegisterOK
<1>12. MemoryOK(base)'
  <2>1. \A j \in Lines : Alive(base, depth, j) > 0 => (count[j] >= Msb <=> j \notin wanted)
    BY <1>4 DEF Inv, MemoryOK
  <2>2. \A j \in Lines : Alive(base, depth, j) > 0 => (count'[j] >= Msb <=> j \notin wanted')
    <3> SUFFICES ASSUME NEW j \in Lines, Alive(base, depth, j) > 0
                 PROVE  count'[j] >= Msb <=> j \notin wanted'
      OBVIOUS
    <3>1. CASE j = i
      <4>1. count'[i] < Msb /\ count'[i] \in Counters
        BY <1>6, <1>7, <3>1
      <4> QED
        BY <1>1, <3>1, <4>1, BoundsAssumption DEF Counters
    <3>2. CASE j # i
      BY <1>1, <1>7, <2>1, <3>2
    <3> QED
      BY <3>1, <3>2
  <2> QED
    BY <1>1, <1>2, <1>3, <1>4, <2>2 DEF MemoryOK
<1>13. \A d \in Depths : d <= depth' => LocalsOK(base, d)'
  <2>1. LocalsOK(base, 1)'
    BY <1>1, <1>2 DEF LocalsOK, CurrentOK, CopyOK, OpeningOK
  <2> QED
    BY <1>1, <1>2, <2>1
<1> QED
  BY <1>8, <1>9, <1>10, <1>11, <1>12, <1>13 DEF IInv, Inv

-----------------------------------------------------------------------------
(* Interrupts                                                              *)

\* What a context finds, from what the one below it finds.
LEMMA ShutNext ==
    ASSUME NEW base, NEW d \in Depths, NEW i \in Lines
    PROVE  /\ Shut(d + 1, i) <=> Shut(d, i) \/ Turning(ctx[d], i)
           /\ Alive(base, d, i) # 0 => (ShutAtFirst(base, d + 1, i) <=> ShutAtFirst(base, d, i))
           /\ Alive(base, d, i) = 0 => (ShutAtFirst(base, d + 1, i) <=>
                                            ShutAtFirst(base, d, i) \/ Turning(ctx[d], i))
<1>1. \A e \in Depths : e < d + 1 <=> e < d \/ e = d
  BY DEF Depths
<1> QED
  BY <1>1 DEF Shut, ShutAtFirst

LEMMA IdleFacts ==
    /\ Idle \in Contexts /\ Idle.pc = "idle" /\ HasRoom(Idle)
    /\ \A j \in Lines : Owns(Idle, j) = 0 /\ ~Turning(Idle, j)
<1>1. (CHOOSE i \in Lines : TRUE) \in Lines
  BY LinesAssumption
<1>2. 0 \in 0..MaxHeld /\ 0 \in Counters
  BY BoundsAssumption DEF Counters
<1>3. Idle \in Contexts /\ Idle.pc = "idle" /\ \A j \in Lines : Idle.held[j] = 0
  BY <1>1, <1>2 DEF Idle, Contexts, Pcs
<1> QED
  BY <1>3 DEF HasRoom, Owns, Turning

LEMMA InterruptStep ==
    ASSUME Basic, NEW base, Inv(base), NEW i \in Lines, Interrupt(i)
    PROVE  IInv'
<1>1. PICK m \in Depths : m = depth
  BY DEF Basic, TypeOK
<1>2. PICK n : n = m + 1
  OBVIOUS
<1>3. /\ depth = m /\ depth' = n /\ UNCHANGED <<imr, count, ctx, wanted>>
      /\ n \in Depths /\ m <= depth /\ m < n /\ n > depth
      /\ \A d \in Depths : d <= n <=> d <= m \/ d = n
      /\ \A d \in Depths : d < n <=> d <= m
      /\ \A d \in Depths : d > n => d > depth
  BY <1>1, <1>2, BoundsAssumption DEF Interrupt, Depths
<1>4. PICK b : b = [base EXCEPT ![n] = [j \in Lines |-> Alive(base, m, j)]]
  OBVIOUS
<1>5. /\ base \in [Depths -> [Lines -> Nat]]
      /\ \A d \in Depths, j \in Lines : d <= m => Alive(base, d, j) \in Nat
  BY <1>3, AliveBound DEF Inv, BaseOK
<1>6. /\ b \in [Depths -> [Lines -> Nat]]
      /\ \A j \in Lines : b[n][j] = Alive(base, m, j)
      /\ \A d \in Depths : d <= m => b[d] = base[d]
  <2>1. [j \in Lines |-> Alive(base, m, j)] \in [Lines -> Nat]
    BY <1>3, <1>5
  <2>2. \A d \in Depths : d <= m => d # n
    BY <1>2 DEF Depths
  <2> QED
    BY <1>3, <1>4, <1>5, <2>1, <2>2
<1>7. ctx[n] = Idle /\ ctx' = ctx
  BY <1>3 DEF Basic, AboveIdle
<1>8. \A j \in Lines : /\ \A d \in Depths : d <= m => Alive(b, d, j) = Alive(base, d, j)
                       /\ Alive(b, n, j) = Alive(base, m, j)
                       /\ ~Turning(ctx[n], j)
  <2>1. \A d \in Depths, j \in Lines : d <= m => Alive(b, d, j) = Alive(base, d, j)
    BY <1>6 DEF Alive
  <2>2. \A j \in Lines : Alive(b, n, j) = Alive(base, m, j)
    BY <1>3, <1>5, <1>6, <1>7, IdleFacts DEF Alive
  <2> QED
    BY <1>7, <2>1, <2>2, IdleFacts
\* What the contexts find does not depend on the new base.
<1>9. \A j \in Lines : /\ \A d \in Depths : d <= m =>
                              (ShutAtFirst(b, d, j) <=> ShutAtFirst(base, d, j))
                       /\ Shut(n, j) <=> Shut(m, j) \/ Turning(ctx[m], j)
                       /\ Alive(base, m, j) # 0 =>
                              (ShutAtFirst(b, n, j) <=> ShutAtFirst(base, m, j))
  <2>1. \A d \in Depths, j \in Lines : d <= m =>
            (ShutAtFirst(b, d, j) <=> ShutAtFirst(base, d, j))
    <3>1. \A d, e \in Depths : d <= m /\ e < d => e <= m
      BY DEF Depths
    <3> QED
      BY <1>8, <3>1 DEF ShutAtFirst
  <2>2. m <= m
    BY DEF Depths
  <2>3. \A j \in Lines : /\ Shut(n, j) <=> Shut(m, j) \/ Turning(ctx[m], j)
                         /\ Alive(b, m, j) # 0 =>
                                (ShutAtFirst(b, n, j) <=> ShutAtFirst(b, m, j))
    BY <1>2, ShutNext
  <2> QED
    BY <1>8, <2>1, <2>2, <2>3
<1>10. Basic'
  BY <1>3 DEF Basic, TypeOK, AboveIdle, HasRoom, Idle
<1>11. BaseOK(b)'
  <2>1. \A j \in Lines : b[1][j] = 0
    <3>1. 1 \in Depths /\ 1 <= m
      BY BoundsAssumption DEF Depths
    <3> QED
      BY <1>6, <3>1 DEF Inv, BaseOK
  <2>2. \A d \in Depths, j \in Lines : d < n => b[d + 1][j] = Alive(b, d, j)
    <3> SUFFICES ASSUME NEW d \in Depths, NEW j \in Lines, d < n
                 PROVE  b[d + 1][j] = Alive(b, d, j)
      OBVIOUS
    <3>1. CASE d = m
      BY <1>2, <1>6, <1>8, <3>1 DEF Depths
    <3>2. CASE d < m
      <4>1. d + 1 \in Depths /\ d + 1 <= m /\ d <= m
        BY <3>2, BoundsAssumption DEF Depths
      <4> QED
        BY <1>3, <1>6, <1>8, <3>2, <4>1 DEF Inv, BaseOK
    <3> QED
      BY <1>2, <3>1, <3>2 DEF Depths
  <2>3. \A d \in Depths, j \in Lines : d <= n => b[d][j] <= MaxHeld * (d - 1)
    <3>1. \A j \in Lines : b[n][j] <= MaxHeld * (n - 1)
      <4>1. n - 1 = m
        BY <1>2 DEF Depths
      <4> QED
        BY <1>3, <1>6, <4>1, AliveBound DEF Inv
    <3>2. \A d \in Depths, j \in Lines : d <= m => b[d][j] <= MaxHeld * (d - 1)
      BY <1>3, <1>6 DEF Inv, BaseOK
    <3> QED
      BY <1>3, <3>1, <3>2
  <2>4. \A d, e \in Depths, j \in Lines : e < d /\ d <= n => Alive(b, e, j) <= b[d][j]
    <3> SUFFICES ASSUME NEW d \in Depths, NEW e \in Depths, NEW j \in Lines, e < d, d <= n
                 PROVE  Alive(b, e, j) <= b[d][j]
      OBVIOUS
    <3>1. \A c \in Depths : e < c /\ c <= m => Alive(b, e, j) <= base[c][j]
      <4>1. \A c \in Depths : e < c /\ c <= m => e <= m
        BY DEF Depths
      <4> QED
        BY <1>3, <1>8, <4>1 DEF Inv, BaseOK
    <3>2. CASE d <= m
      BY <1>6, <3>1, <3>2
    <3>3. CASE d = n /\ e = m
      <4>1. Alive(base, m, j) \in Nat /\ Alive(b, e, j) = Alive(base, m, j)
        BY <1>3, <1>5, <1>8, <3>3
      <4> QED
        BY <1>6, <3>3, <4>1
    <3>4. CASE d = n /\ e < m
      <4>1. Alive(b, e, j) <= base[m][j]
        BY <3>1, <3>4 DEF Depths
      <4>2. base[m][j] <= Alive(base, m, j)
        <5>1. Owns(ctx[m], j) \in 0..MaxHeld /\ base[m][j] \in Nat
          BY <1>3, <1>5, AliveBound DEF Inv
        <5> QED
          BY <5>1, BoundsAssumption DEF Alive
      <4>3. e <= m /\ Alive(base, e, j) \in Nat /\ Alive(base, m, j) \in Nat /\ base[m][j] \in Nat
        BY <1>3, <1>5, <3>4 DEF Depths
      <4>4. Alive(b, e, j) \in Nat /\ b[d][j] = Alive(base, m, j)
        BY <1>6, <1>8, <3>4, <4>3
      <4> QED
        BY <4>1, <4>2, <4>3, <4>4
    <3> QED
      BY <1>2, <1>3, <3>2, <3>3, <3>4 DEF Depths
  <2>5. \A d \in Depths, j \in Lines : d <= n /\ b[d][j] > 0 =>
            \E e \in Depths : e < d /\ Owns(ctx[e], j) > 0
    <3> SUFFICES ASSUME NEW d \in Depths, NEW j \in Lines, d <= n, b[d][j] > 0
                 PROVE  \E e \in Depths : e < d /\ Owns(ctx[e], j) > 0
      OBVIOUS
    <3>1. CASE d <= m
      BY <1>3, <1>6, <3>1 DEF Inv, BaseOK
    <3>2. CASE d = n
      <4>1. Owns(ctx[m], j) \in 0..MaxHeld /\ base[m][j] \in Nat
        BY <1>3, <1>5, AliveBound DEF Inv
      <4>2. base[m][j] + Owns(ctx[m], j) > 0
        BY <1>6, <3>2 DEF Alive
      <4>3. CASE Owns(ctx[m], j) > 0
        BY <1>3, <3>2, <4>3
      <4>4. CASE base[m][j] > 0
        <5>1. PICK e \in Depths : e < m /\ Owns(ctx[e], j) > 0
          BY <1>3, <4>4 DEF Inv, BaseOK
        <5>2. e < d
          BY <1>2, <3>2, <5>1 DEF Depths
        <5> QED
          BY <5>1, <5>2
      <4> QED
        BY <4>1, <4>2, <4>3, <4>4, BoundsAssumption
    <3> QED
      BY <1>3, <3>1, <3>2
  <2>6. BaseOK(b)' <=> /\ b \in [Depths -> [Lines -> Nat]]
                       /\ \A j \in Lines : b[1][j] = 0
                       /\ \A d \in Depths, j \in Lines : d < n => b[d + 1][j] = Alive(b, d, j)
                       /\ \A d \in Depths, j \in Lines : d <= n => b[d][j] <= MaxHeld * (d - 1)
                       /\ \A d, e \in Depths, j \in Lines :
                              e < d /\ d <= n => Alive(b, e, j) <= b[d][j]
                       /\ \A d \in Depths, j \in Lines : d <= n /\ b[d][j] > 0 =>
                              \E e \in Depths : e < d /\ Owns(ctx[e], j) > 0
    BY <1>3 DEF BaseOK, Alive, Owns
  <2> QED
    BY <1>6, <2>1, <2>2, <2>3, <2>4, <2>5, <2>6
<1>12. /\ \A d \in Depths, j \in Lines : /\ Alive(b, d, j)' = Alive(b, d, j)
                                         /\ Shut(d, j)' <=> Shut(d, j)
                                         /\ ShutAtFirst(b, d, j)' <=> ShutAtFirst(b, d, j)
                                         /\ Turning(ctx[d], j)' <=> Turning(ctx[d], j)
  BY <1>3 DEF Alive, Shut, ShutAtFirst, Turning, Owns
<1>13. CountOK(b)'
  <2>1. \A j \in Lines : Low(count[j]) = Alive(b, n, j)
    BY <1>3, <1>8 DEF Inv, CountOK
  <2> QED
    BY <1>3, <2>1 DEF CountOK, Alive, Owns
<1>14. RegisterOK(b)'
  <2>1. \A j \in Lines : j \in imr <=> Alive(b, n, j) > 0 \/ Shut(n, j) \/ Turning(ctx[n], j)
    BY <1>3, <1>8, <1>9 DEF Inv, RegisterOK
  <2> QED
    BY <1>3, <2>1 DEF RegisterOK, Alive, Owns, Shut, Turning
<1>15. MemoryOK(b)'
  <2>1. \A j \in Lines : Alive(b, n, j) > 0 => (count[j] >= Msb <=> ShutAtFirst(b, n, j))
    BY <1>3, <1>8, <1>9 DEF Inv, MemoryOK
  <2> QED
    BY <1>3, <2>1 DEF MemoryOK, Alive, Owns, ShutAtFirst, Turning
<1>16. \A d \in Depths : d <= n => LocalsOK(b, d)'
  <2> SUFFICES ASSUME NEW d \in Depths, d <= n PROVE LocalsOK(b, d)'
    OBVIOUS
  <2>1. CASE d = n
    <3>1. ctx'[d].pc = "idle"
      BY <1>7, <2>1, IdleFacts
    <3> QED
      BY <3>1 DEF LocalsOK, CurrentOK, CopyOK, OpeningOK
  <2>2. CASE d <= m
    <3>1. LocalsOK(base, d) /\ ctx[d].irq \in Lines /\ ctx' = ctx
      BY <1>3, <2>2 DEF Inv, Basic, TypeOK, Contexts
    <3>2. \A j \in Lines : /\ Alive(b, d, j)' = Alive(base, d, j)
                           /\ Shut(d, j)' <=> Shut(d, j)
                           /\ ShutAtFirst(b, d, j)' <=> ShutAtFirst(base, d, j)
                           /\ Turning(ctx[d], j)' <=> Turning(ctx[d], j)
      BY <1>8, <1>9, <1>12, <2>2
    <3>3. CurrentOK(b, d)'
      BY <3>1, <3>2 DEF LocalsOK, CurrentOK
    <3>4. CopyOK(b, d)'
      BY <3>1, <3>2 DEF LocalsOK, CopyOK
    <3>5. OpeningOK(b, d)'
      BY <3>1, <3>2 DEF LocalsOK, OpeningOK
    <3> QED
      BY <3>3, <3>4, <3>5 DEF LocalsOK
  <2> QED
    BY <1>3, <2>1, <2>2
<1> QED
  BY <1>3, <1>10, <1>11, <1>13, <1>14, <1>15, <1>16 DEF IInv, Inv

LEMMA ReturnStep ==
    ASSUME Basic, NEW base, Inv(base), Return
    PROVE  IInv'
<1>1. PICK n \in Depths : n = depth
  BY DEF Basic, TypeOK
<1>2. PICK m : m = n - 1
  OBVIOUS
<1>3. /\ depth = n /\ depth' = m /\ UNCHANGED <<imr, count, ctx, wanted>>
      /\ m \in Depths /\ n = m + 1 /\ m < depth
      /\ \A d \in Depths : /\ d <= m => d < n /\ d <= n
                           /\ d < m => d < n
                           /\ d > m => d > n \/ d = n
  BY <1>1, <1>2, BoundsAssumption DEF Return, Depths
<1>4. ctx[n] = Idle
  BY <1>1 DEF Return, Top
<1>5. \A j \in Lines : /\ Alive(base, n, j) = Alive(base, m, j)
                       /\ Shut(n, j) <=> Shut(m, j) \/ Turning(ctx[m], j)
                       /\ Alive(base, m, j) # 0 =>
                              (ShutAtFirst(base, n, j) <=> ShutAtFirst(base, m, j))
                       /\ ~Turning(ctx[n], j)
  <2>1. \A j \in Lines : Alive(base, n, j) = Alive(base, m, j)
    <3> SUFFICES ASSUME NEW j \in Lines PROVE Alive(base, n, j) = Alive(base, m, j)
      OBVIOUS
    <3>1. base[n][j] = Alive(base, m, j) /\ base[n][j] \in Nat
      BY <1>3 DEF Inv, BaseOK
    <3>2. Owns(ctx[n], j) = 0
      BY <1>4, IdleFacts
    <3> QED
      BY <3>1, <3>2 DEF Alive
  <2>2. \A j \in Lines : ~Turning(ctx[n], j)
    BY <1>4, IdleFacts
  <2> QED
    BY <1>3, <2>1, <2>2, ShutNext
<1>6. Basic'
  BY <1>3, <1>4 DEF Basic, TypeOK, AboveIdle, HasRoom, Idle
<1>7. BaseOK(base)'
  <2>1. BaseOK(base)' <=>
            /\ base \in [Depths -> [Lines -> Nat]]
            /\ \A j \in Lines : base[1][j] = 0
            /\ \A d \in Depths, j \in Lines : d < m => base[d + 1][j] = Alive(base, d, j)
            /\ \A d \in Depths, j \in Lines : d <= m => base[d][j] <= MaxHeld * (d - 1)
            /\ \A d, e \in Depths, j \in Lines :
                   e < d /\ d <= m => Alive(base, e, j) <= base[d][j]
            /\ \A d \in Depths, j \in Lines : d <= m /\ base[d][j] > 0 =>
                   \E e \in Depths : e < d /\ Owns(ctx[e], j) > 0
    BY <1>3 DEF BaseOK, Alive, Owns
  <2> QED
    BY <1>3, <2>1 DEF Inv, BaseOK
<1>8. CountOK(base)'
  <2>1. \A j \in Lines : Low(count[j]) = Alive(base, m, j)
    BY <1>3, <1>5 DEF Inv, CountOK
  <2> QED
    BY <1>3, <2>1 DEF CountOK, Alive, Owns
<1>9. RegisterOK(base)'
  <2>1. \A j \in Lines : j \in imr <=> Alive(base, m, j) > 0 \/ Shut(m, j) \/ Turning(ctx[m], j)
    BY <1>3, <1>5 DEF Inv, RegisterOK
  <2> QED
    BY <1>3, <2>1 DEF RegisterOK, Alive, Owns, Shut, Turning
<1>10. MemoryOK(base)'
  <2>1. \A j \in Lines : Alive(base, m, j) > 0 => (count[j] >= Msb <=> ShutAtFirst(base, m, j))
    BY <1>3, <1>5 DEF Inv, MemoryOK
  <2> QED
    BY <1>3, <2>1 DEF MemoryOK, Alive, Owns, ShutAtFirst, Turning
<1>11. \A d \in Depths : d <= m => LocalsOK(base, d)'
  <2> SUFFICES ASSUME NEW d \in Depths, d <= m PROVE LocalsOK(base, d)'
    OBVIOUS
  <2>1. LocalsOK(base, d)
    BY <1>3 DEF Inv
  <2>2. LocalsOK(base, d)' <=> LocalsOK(base, d)
    BY <1>3 DEF LocalsOK, CurrentOK, CopyOK, OpeningOK, Alive, Owns, Shut, ShutAtFirst, Turning
  <2> QED
    BY <2>1, <2>2
<1> QED
  BY <1>3, <1>6, <1>7, <1>8, <1>9, <1>10, <1>11 DEF IInv, Inv

-----------------------------------------------------------------------------
(* The theorems                                                            *)

LEMMA InitStep == Init => IInv
<1> SUFFICES ASSUME Init PROVE IInv
  OBVIOUS
<1>1. /\ 1 \in Depths /\ depth = 1 /\ \A d \in Depths : ctx[d] = Idle /\ ~(d < 1)
      /\ \A d \in Depths : d <= 1 => d = 1
  BY BoundsAssumption DEF Init, Depths
<1>2. Basic
  <2>1. 0 \in Counters
    BY BoundsAssumption DEF Counters
  <2> QED
    BY <1>1, <2>1, IdleFacts DEF Init, Basic, TypeOK, AboveIdle
<1>3. PICK base : base = [d \in Depths |-> [i \in Lines |-> 0]]
  OBVIOUS
<1>4. \A d \in Depths, i \in Lines :
          base[d][i] = 0 /\ Owns(ctx[d], i) = 0 /\ Alive(base, d, i) = 0 /\ ~Turning(ctx[d], i)
  BY <1>1, <1>3, IdleFacts DEF Alive
<1>5. BaseOK(base)
  <2>1. \A d \in Depths : d <= depth => MaxHeld * (d - 1) = 0
    BY <1>1, BoundsAssumption
  <2>2. base \in [Depths -> [Lines -> Nat]]
    BY <1>3
  <2>3. \A d \in Depths, i \in Lines : d < depth => base[d + 1][i] = Alive(base, d, i)
    BY <1>1
  <2>4. \A d, e \in Depths, i \in Lines : e < d /\ d <= depth => Alive(base, e, i) <= base[d][i]
    BY <1>4
  <2>5. \A d \in Depths, i \in Lines : d <= depth => base[d][i] <= MaxHeld * (d - 1)
    BY <1>4, <2>1
  <2> QED
    BY <1>1, <1>4, <2>2, <2>3, <2>4, <2>5 DEF BaseOK
<1>6. CountOK(base)
  <2>1. Msb > 0
    <3>1. MaxDepth + 1 \in Nat
      BY BoundsAssumption
    <3>2. MaxHeld * (MaxDepth + 1) \in Nat
      BY <3>1, Product
    <3> QED
      BY <3>2, BoundsAssumption
  <2>2. Low(0) = 0
    BY <2>1, BoundsAssumption DEF Low
  <2> QED
    BY <1>1, <1>4, <2>2 DEF Init, CountOK
<1>7. RegisterOK(base) /\ MemoryOK(base)
  BY <1>1, <1>4 DEF Init, RegisterOK, MemoryOK, Shut
<1>8. \A d \in Depths : LocalsOK(base, d)
  BY <1>1, IdleFacts DEF LocalsOK, CurrentOK, CopyOK, OpeningOK
<1> QED
  BY <1>2, <1>5, <1>6, <1>7, <1>8 DEF IInv, Inv

LEMMA NextStep ==
    ASSUME "irq_unmask" \notin Ops, IInv, [Next]_vars
    PROVE  IInv'
<1>1. Basic
  BY DEF IInv
<1>2. PICK base : Inv(base)
  BY DEF IInv
<1>3. CASE \E i \in Lines : CliRead(i) \/ StiLoad(i) \/ Unmask(i) \/ Interrupt(i)
  BY <1>1, <1>2, <1>3, CliReadStep, StiLoadStep, UnmaskStep, InterruptStep
<1>4. CASE CliWrite \/ CliLoad \/ CliStore
  BY <1>1, <1>2, <1>4, CliWriteStep, CliLoadStep, CliStoreStep
<1>5. CASE StiStore \/ StiRead \/ StiWrite
  BY <1>1, <1>2, <1>5, StiStoreStep, StiReadStep, StiWriteStep
<1>6. CASE Return
  BY <1>1, <1>2, <1>6, ReturnStep
<1>7. CASE UNCHANGED vars
  BY <1>7 DEF vars, IInv, Basic, TypeOK, AboveIdle, HasRoom, Inv, BaseOK, CountOK, RegisterOK,
              MemoryOK, LocalsOK, CurrentOK, CopyOK, OpeningOK, Alive, Owns, Shut, ShutAtFirst,
              Turning
<1> QED
  BY <1>3, <1>4, <1>5, <1>6, <1>7 DEF Next

LEMMA Invariance ==
    ASSUME "irq_unmask" \notin Ops
    PROVE  Spec => []IInv
<1>1. IInv /\ [Next]_vars => IInv'
  BY NextStep
<1> QED
  BY <1>1, InitStep, PTL DEF Spec

\* The mask register holds lines, and the counters and the locals are numbers of the counter's
\* width, whose top bit is part of it: 0 .. 2 * Msb - 1 (irq_mask.cpp).
THEOREM MaskTypeCorrect ==
    ASSUME "irq_unmask" \notin Ops
    PROVE  Spec => []TypeOK
<1>1. IInv => TypeOK
  BY DEF IInv, Basic
<1> QED
  BY <1>1, Invariance, PTL

\* A context that owns objects of a line makes the counter of the line positive.
LEMMA HeldAlive ==
    ASSUME Basic, NEW base, Inv(base), NEW i \in Lines, NEW d \in Depths, ctx[d].held[i] > 0
    PROVE  Alive(base, depth, i) > 0
<1>1. ~(d > depth)
  <2>1. Idle.held[i] = 0
    BY DEF Idle
  <2> QED
    BY <2>1 DEF Basic, AboveIdle
<1>2. d <= depth /\ depth \in Depths /\ depth <= depth
  BY <1>1 DEF Basic, TypeOK, Depths
<1>3. Alive(base, d, i) > 0 /\ Alive(base, d, i) \in Nat
  <2>1. base[d][i] \in Nat /\ ctx[d].held[i] \in Nat
    BY DEF Basic, TypeOK, Contexts, Inv, BaseOK
  <2>2. Owns(ctx[d], i) >= ctx[d].held[i] /\ Owns(ctx[d], i) \in Nat
    BY <2>1 DEF Owns
  <2> QED
    BY <2>1, <2>2 DEF Alive
<1>4. Alive(base, d, i) <= Alive(base, depth, i)
  <2>1. CASE d = depth
    BY <1>3, <2>1
  <2>2. CASE d < depth
    <3>1. Alive(base, d, i) <= base[depth][i] /\ base[depth][i] \in Nat
      BY <1>2, <2>2 DEF Inv, BaseOK
    <3>2. Owns(ctx[depth], i) \in 0..MaxHeld
      BY <1>2, AliveBound DEF Inv
    <3> QED
      BY <1>3, <3>1, <3>2, BoundsAssumption DEF Alive
  <2> QED
    BY <1>2, <2>1, <2>2 DEF Depths
<1>5. Alive(base, depth, i) \in Nat
  BY <1>2, AliveBound DEF Inv
<1> QED
  BY <1>3, <1>4, <1>5

\* A line with a live irq_mask is masked, however its objects overlap and are interrupted.
THEOREM MaskProtects ==
    ASSUME "irq_unmask" \notin Ops
    PROVE  Spec => []MaskHolds
<1>1. IInv => MaskHolds
  <2> SUFFICES ASSUME Basic, NEW base, Inv(base), NEW i \in Lines, Held(i)
               PROVE  i \in imr
    BY DEF IInv, MaskHolds
  <2>1. Alive(base, depth, i) > 0
    BY HeldAlive DEF Held
  <2> QED
    BY <2>1 DEF Inv, RegisterOK
<1> QED
  BY <1>1, Invariance, PTL

\* When its last irq_mask has ended, a line is as it was before the first.
THEOREM MaskLeavesNoTrace ==
    ASSUME "irq_unmask" \notin Ops
    PROVE  Spec => []MaskRestores
<1>1. IInv => MaskRestores
  <2> SUFFICES ASSUME Basic, NEW base, Inv(base), NEW i \in Lines, ~Held(i), ~Busy(i)
               PROVE  i \in imr <=> i \notin wanted
    BY DEF IInv, MaskRestores
  <2>1. \A d \in Depths : ~(Owns(ctx[d], i) > 0) /\ ~Turning(ctx[d], i)
    <3> SUFFICES ASSUME NEW d \in Depths
                 PROVE  ~(Owns(ctx[d], i) > 0) /\ ~Turning(ctx[d], i)
      OBVIOUS
    <3>1. ctx[d].held[i] \in Nat /\ ~(ctx[d].held[i] > 0)
      BY DEF Held, Basic, TypeOK, Contexts
    <3>2. ctx[d].pc = "idle" \/ ctx[d].irq # i
      BY DEF Busy
    <3> QED
      BY <3>1, <3>2 DEF Owns, Turning
  <2>2. depth \in Depths /\ depth <= depth
    BY DEF Basic, TypeOK, Depths
  <2>3. ~(Alive(base, depth, i) > 0)
    <3>1. ~(base[depth][i] > 0)
      BY <2>1, <2>2 DEF Inv, BaseOK
    <3>2. base[depth][i] \in Nat /\ Owns(ctx[depth], i) \in 0..MaxHeld
      BY <2>2, AliveBound DEF Inv, BaseOK
    <3> QED
      BY <2>1, <2>2, <3>1, <3>2, BoundsAssumption DEF Alive
  <2>4. Shut(depth, i) <=> i \notin wanted
    BY <2>1 DEF Shut
  <2> QED
    BY <2>1, <2>2, <2>3, <2>4 DEF Inv, RegisterOK
<1> QED
  BY <1>1, Invariance, PTL
=============================================================================
