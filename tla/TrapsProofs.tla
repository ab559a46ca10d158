----------------------------- MODULE TrapsProofs -----------------------------
(***************************************************************************)
(* Theorems about exits, real-mode interrupts and breakpoints, for any     *)
(* handlers, callbacks, breakpoints and addresses.  Each names what it     *)
(* excludes as a hypothesis.                                               *)
(***************************************************************************)
EXTENDS Shutdown, Realmode, GdbStops, SequenceTheorems, NaturalsInduction, WellFoundedInduction,
        TLAPS

-----------------------------------------------------------------------------
(* Shutdown: the inductive invariant                                       *)

ExitTypes ==
    /\ stage \in {"main", "cleanup", "after", "ended"} /\ handlers \in Seq({"terminate", "abort"})
    /\ terminated \in Nat /\ step \in Nat /\ irq \in BOOLEAN /\ ring \in {0, 3} /\ masked \in BOOLEAN
    /\ access \in {"unknown", "yes", "no"} /\ objects \in Seq(BOOLEAN)
    /\ limit \in Nat /\ limit0 \in Nat /\ hooked \in BOOLEAN /\ keyboard \in BOOLEAN /\ gdb \in BOOLEAN
    /\ result \in {"none", "exited", "halted"}

\* Only the outermost ring0_privilege object may leave ring 0.
OutermostLeaves == stage = "main" => \A i \in 1 .. Len(objects) : objects[i] = (i > 1)

\* What terminate_cleanup() has undone when it is at a step, and when it is through.
Undone ==
    /\ stage = "cleanup" => /\ handlers # << >> /\ step \in 1 .. 4
                            /\ (step > 1 => ring = 3) /\ (step > 3 => ~hooked)
    /\ stage = "after" => handlers # << >> /\ ring = 3 /\ ~hooked /\ ~keyboard
    /\ stage # "ended" => result = "none"

ExitInv == ExitTypes /\ OutermostLeaves /\ Undone /\ ExitsClean

-----------------------------------------------------------------------------

\* The stack of dont_leave flags: what an object's constructor and destructor leave of it.
LEMMA PushFacts ==
    ASSUME NEW B, NEW s \in Seq(B), NEW e \in B
    PROVE  /\ Append(s, e) \in Seq(B) /\ Len(Append(s, e)) = Len(s) + 1 /\ Append(s, e) # << >>
           /\ \A i \in 1 .. Len(s) : Append(s, e)[i] = s[i]
           /\ Append(s, e)[Len(s) + 1] = e
BY AppendProperties

LEMMA PopFacts ==
    ASSUME NEW B, NEW s \in Seq(B), Len(s) > 0
    PROVE  /\ SubSeq(s, 1, Len(s) - 1) \in Seq(B) /\ Len(SubSeq(s, 1, Len(s) - 1)) = Len(s) - 1
           /\ \A i \in 1 .. Len(s) - 1 : SubSeq(s, 1, Len(s) - 1)[i] = s[i]
<1>1. Len(s) \in Nat /\ \A i \in 1 .. Len(s) - 1 : s[i] \in B
  BY LenProperties, ElementOfSeq
<1> DEFINE n == Len(s) - 1
<1>2. n \in Int /\ n = Len(s) - 1
  BY <1>1
<1> HIDE DEF n
<1>3. \A i \in 1 .. n : s[i] \in B
  BY <1>1, <1>2
<1>4. /\ SubSeq(s, 1, n) \in Seq(B) /\ Len(SubSeq(s, 1, n)) = (IF 1 <= n THEN n - 1 + 1 ELSE 0)
      /\ \A i \in 1 .. n - 1 + 1 : SubSeq(s, 1, n)[i] = s[1 + i - 1]
  BY <1>2, <1>3, SubSeqProperties
<1>5. Len(SubSeq(s, 1, n)) = n /\ \A i \in 1 .. n : SubSeq(s, 1, n)[i] = s[i]
  BY <1>1, <1>2, <1>4
<1>6. QED BY <1>4, <1>5 DEF n

LEMMA ExitInvInit == ExitInit => ExitInv
<1> SUFFICES ASSUME ExitInit PROVE ExitInv
  OBVIOUS
<1>1. ExitTypes
  <2>1. handlers \in Seq({"terminate", "abort"}) /\ objects \in Seq(BOOLEAN)
    BY DEF ExitInit
  <2>2. hooked \in BOOLEAN /\ keyboard \in BOOLEAN /\ gdb \in BOOLEAN /\ irq \in BOOLEAN
    BY DEF ExitInit
  <2>3. QED BY <2>1, <2>2 DEF ExitInit, ExitTypes
<1>2. Len(objects) = 0 /\ objects = << >>
  BY DEF ExitInit
<1>3. OutermostLeaves /\ Undone /\ ExitsClean
  BY <1>2 DEF ExitInit, OutermostLeaves, Undone, ExitsClean, Ring0Held
<1>4. QED BY <1>1, <1>3 DEF ExitInv

LEMMA EnterRing0Keeps == ASSUME ExitInv, EnterRing0 PROVE ExitInv'
<1> USE DEF ExitInv
<1>1. /\ stage = "main" /\ UNCHANGED <<irq, limit, hooked, keyboard, gdb, stage, handlers,
                                         terminated, step, result>>
  BY DEF EnterRing0, endVars
<1>2. result = "none" /\ Ring0Held
  BY <1>1 DEF Undone, ExitsClean
<1>3. CASE ring = 3 /\ access' = "no" /\ UNCHANGED <<ring, masked, objects, limit0>>
  <2>1. ExitTypes'
    BY <1>1, <1>3 DEF ExitTypes
  <2>2. OutermostLeaves' /\ Undone' /\ Ring0Held'
    BY <1>1, <1>2, <1>3 DEF OutermostLeaves, Undone, Ring0Held
  <2>3. QED BY <1>1, <1>2, <2>1, <2>2 DEF ExitsClean
<1>4. CASE /\ ring = 3 /\ access' = "yes" /\ ring' = 0 /\ masked' = TRUE /\ objects' = <<FALSE>>
           /\ limit0' = IF access = "unknown" THEN limit ELSE Grown
  <2>1. limit0' \in Nat /\ limit0' >= limit'
    BY <1>1, <1>4 DEF Grown, ExitTypes
  <2>2. Len(objects') = 1 /\ objects'[1] = FALSE /\ objects' \in Seq(BOOLEAN) /\ objects' # << >>
    BY <1>4
  <2>3. ExitTypes'
    BY <1>1, <1>4, <2>1, <2>2 DEF ExitTypes
  <2>4. OutermostLeaves'
    BY <2>2 DEF OutermostLeaves
  <2>5. Undone' /\ Ring0Held'
    BY <1>1, <1>2, <1>4, <2>1, <2>2 DEF Undone, Ring0Held
  <2>6. QED BY <1>1, <1>2, <2>3, <2>4, <2>5 DEF ExitsClean
<1>5. CASE ring = 0 /\ objects' = Append(objects, TRUE) /\ UNCHANGED <<ring, masked, access, limit0>>
  <2>1. Len(objects) > 0
    BY <1>1, <1>2, <1>5, EmptySeq, LenProperties DEF Ring0Held, ExitTypes
  <2>2. /\ objects' \in Seq(BOOLEAN) /\ Len(objects') = Len(objects) + 1
        /\ \A i \in 1 .. Len(objects) : objects'[i] = objects[i]
        /\ objects'[Len(objects) + 1] = TRUE /\ objects' # << >>
    <3>1. TRUE \in BOOLEAN /\ objects \in Seq(BOOLEAN)
      BY Zenon DEF ExitInv, ExitTypes
    <3>2. PICK e : e = TRUE
      OBVIOUS
    <3>3. PICK B : B = BOOLEAN
      OBVIOUS
    <3>4. objects' = Append(objects, e) /\ e \in B /\ objects \in Seq(B)
      BY <1>5, <3>1, <3>2, <3>3, Zenon
    <3>5. /\ Append(objects, e) \in Seq(B) /\ Len(Append(objects, e)) = Len(objects) + 1
          /\ Append(objects, e) # << >>
          /\ \A i \in 1 .. Len(objects) : Append(objects, e)[i] = objects[i]
          /\ Append(objects, e)[Len(objects) + 1] = e
      BY <3>4, PushFacts
    <3>6. QED BY <3>2, <3>4, <3>5, <3>3, Zenon
  <2>3. ExitTypes'
    BY <1>1, <1>5, <2>2 DEF ExitTypes
  <2>4. OutermostLeaves'
    BY <1>1, <2>1, <2>2, LenProperties DEF OutermostLeaves, ExitTypes
  <2>5. Undone' /\ Ring0Held'
    BY <1>1, <1>2, <1>5, <2>2 DEF Undone, Ring0Held
  <2>6. QED BY <1>1, <1>2, <2>3, <2>4, <2>5 DEF ExitsClean
<1>6. QED BY <1>3, <1>4, <1>5 DEF EnterRing0, Reachable, ExitTypes

LEMMA LeaveRing0Keeps == ASSUME ExitInv, LeaveRing0 PROVE ExitInv'
<1> USE DEF ExitInv, ExitTypes
<1>1. /\ stage = "main" /\ objects # << >> /\ objects' = SubSeq(objects, 1, Len(objects) - 1)
      /\ ring' = (IF ~objects[Len(objects)] THEN 3 ELSE ring) /\ masked' = (Len(objects) > 1)
      /\ UNCHANGED <<irq, access, limit, limit0, hooked, keyboard, gdb, stage, handlers,
                     terminated, step, result>>
  BY DEF LeaveRing0, LeavesRing0, endVars
<1>2. result = "none" /\ ring = 0 /\ limit0 >= limit
  BY <1>1 DEF Undone, ExitsClean, Ring0Held
<1>3. Len(objects) \in Nat /\ Len(objects) > 0
  BY <1>1, EmptySeq, LenProperties
<1>4. /\ objects' \in Seq(BOOLEAN) /\ Len(objects') = Len(objects) - 1
      /\ \A i \in 1 .. Len(objects) - 1 : objects'[i] = objects[i]
  <2>1. objects \in Seq(BOOLEAN)
    BY Zenon DEF ExitInv, ExitTypes
  <2>2. QED BY <1>1, <1>3, <2>1, PopFacts, Zenon
<1>5. objects[Len(objects)] = (Len(objects) > 1)
  BY <1>1, <1>3 DEF OutermostLeaves
<1>6. (objects' # << >>) = (Len(objects) > 1)
  BY <1>3, <1>4, EmptySeq, LenProperties
<1>7. ring' = (IF Len(objects) > 1 THEN 0 ELSE 3)
  BY <1>1, <1>2, <1>5
<1>8. ExitTypes'
  BY <1>1, <1>3, <1>4, <1>7
<1>9. OutermostLeaves'
  BY <1>1, <1>3, <1>4 DEF OutermostLeaves
<1>10. Undone' /\ Ring0Held'
  BY <1>1, <1>2, <1>6, <1>7 DEF Undone, Ring0Held
<1>11. QED BY <1>1, <1>2, <1>8, <1>9, <1>10 DEF ExitsClean

LEMMA MainKeeps ==
    ASSUME ExitInv, "grow" \notin ExitOps, Grow \/ BeginOrEndIrq PROVE ExitInv'
<1> USE DEF ExitInv, ExitTypes
<1>1. /\ stage = "main" /\ irq' \in BOOLEAN /\ limit' \in Nat /\ (ring = 0 => limit' = limit)
      /\ UNCHANGED <<ring, masked, access, objects, limit0, hooked, keyboard, gdb, stage, handlers,
                     terminated, step, result>>
  <2>1. CASE Grow
    BY <2>1 DEF Grow, endVars
  <2>2. CASE BeginOrEndIrq
    <3>1. irq' = ~irq
      BY <2>2 DEF BeginOrEndIrq
    <3>2. irq' \in BOOLEAN
      BY <3>1
    <3>3. QED BY <2>2, <3>2 DEF BeginOrEndIrq, endVars, ring0Vars
  <2>3. QED BY <2>1, <2>2
<1>2. result = "none" /\ Ring0Held
  BY <1>1 DEF Undone, ExitsClean
<1>3. ExitTypes'
  BY <1>1
<1>4. OutermostLeaves' /\ Undone' /\ Ring0Held'
  BY <1>1, <1>2 DEF OutermostLeaves, Undone, Ring0Held
<1>5. QED BY <1>1, <1>2, <1>3, <1>4 DEF ExitsClean

\* A handler begins, at whatever point: terminate_cleanup() starts over.
LEMMA BeginKeeps ==
    ASSUME ExitInv, NEW h \in {"terminate", "abort"}, Begin(h), terminated' \in Nat, result' = result,
           stage # "ended", UNCHANGED <<irq, hooked, keyboard, gdb>>, UNCHANGED ring0Vars
    PROVE  ExitInv'
<1> USE DEF ExitInv, ExitTypes
<1>1. /\ stage' = "cleanup" /\ step' = 1 /\ handlers' = <<h>> \o handlers
      /\ UNCHANGED <<ring, masked, access, objects, limit, limit0>>
  BY DEF Begin, ring0Vars
<1>2. handlers' \in Seq({"terminate", "abort"}) /\ handlers' # << >>
  <2>1. <<h>> \in Seq({"terminate", "abort"}) /\ Len(<<h>>) = 1
    OBVIOUS
  <2>2. Len(handlers') = 1 + Len(handlers) /\ handlers' \in Seq({"terminate", "abort"})
    BY <1>1, <2>1, ConcatProperties
  <2>3. QED BY <2>2, EmptySeq, LenProperties
<1>3. result' = "none"
  BY DEF Undone
<1>4. ExitTypes'
  BY <1>1, <1>2, <1>3
<1>5. QED BY <1>1, <1>2, <1>3, <1>4 DEF OutermostLeaves, Undone, ExitsClean, Ring0Held

LEMMA CalledKeeps ==
    ASSUME ExitInv, Called, stage # "ended", UNCHANGED <<irq, hooked, keyboard, gdb>>,
           UNCHANGED ring0Vars
    PROVE  ExitInv'
<1> USE DEF ExitInv, ExitTypes
<1>1. terminated' \in Nat
  BY DEF Called
<1>2. CASE terminated = 0
  BY <1>1, <1>2, BeginKeeps DEF Called
<1>3. CASE terminated = 1
  BY <1>1, <1>3, BeginKeeps DEF Called
<1>4. CASE terminated # 0 /\ terminated # 1
  <2>1. /\ stage' = "ended" /\ result' = "halted"
        /\ UNCHANGED <<handlers, step, ring, masked, access, objects, limit, limit0>>
    BY <1>4 DEF Called, ring0Vars
  <2>2. ExitTypes'
    BY <1>1, <2>1
  <2>3. QED BY <2>1, <2>2 DEF OutermostLeaves, Undone, ExitsClean, Ring0Held
<1>5. QED BY <1>2, <1>3, <1>4

LEMMA CleanupKeeps == ASSUME ExitInv, Cleanup PROVE ExitInv'
<1> USE DEF ExitInv, ExitTypes
<1>1. /\ stage = "cleanup" /\ step' = step + 1 /\ stage' = (IF step = 4 THEN "after" ELSE "cleanup")
      /\ UNCHANGED <<handlers, terminated, result, irq, gdb, masked, access, objects, limit, limit0>>
  BY DEF Cleanup
<1>2. step \in 1 .. 4 /\ handlers # << >> /\ (step > 1 => ring = 3) /\ (step > 3 => ~hooked) /\ result = "none"
  BY <1>1 DEF Undone
<1>3. /\ ring' = 3 /\ hooked' \in BOOLEAN /\ keyboard' \in BOOLEAN
      /\ (step >= 3 => ~hooked') /\ (step = 4 => ~keyboard')
  <2>1. CASE step = 1
    BY <2>1 DEF Cleanup, ForceLeave
  <2>2. CASE step = 2
    BY <1>2, <2>2 DEF Cleanup
  <2>3. CASE step = 3
    <3>1. hooked' = FALSE /\ UNCHANGED <<ring, keyboard>>
      BY <2>3 DEF Cleanup
    <3>2. hooked' \in BOOLEAN /\ keyboard' \in BOOLEAN /\ ~hooked'
      BY <3>1, Zenon DEF ExitInv, ExitTypes
    <3>3. ring' = 3
      BY <1>2, <2>3, <3>1
    <3>4. QED BY <2>3, <3>2, <3>3
  <2>4. CASE step = 4
    <3>1. keyboard' = FALSE /\ UNCHANGED <<ring, hooked>>
      BY <2>4 DEF Cleanup
    <3>2. hooked' \in BOOLEAN /\ keyboard' \in BOOLEAN /\ ~keyboard'
      BY <3>1, Zenon DEF ExitInv, ExitTypes
    <3>3. ring' = 3 /\ ~hooked
      BY <1>2, <2>4, <3>1
    <3>4. ~hooked'
      BY <3>1, <3>3, Zenon
    <3>5. QED BY <2>4, <3>2, <3>3, <3>4
  <2>5. QED BY <1>2, <2>1, <2>2, <2>3, <2>4
<1>4. ExitTypes'
  BY <1>1, <1>2, <1>3
<1>5. Undone'
  <2>1. CASE step = 4
    BY <1>1, <1>2, <1>3, <2>1 DEF Undone
  <2>2. CASE step # 4
    <3>1. stage' = "cleanup" /\ step' \in 1 .. 4 /\ (step' > 3 => step >= 3)
      BY <1>1, <1>2, <2>2
    <3>2. QED BY <1>1, <1>2, <1>3, <3>1 DEF Undone
  <2>3. QED BY <2>1, <2>2
<1>6. stage' # "main"
  BY <1>1
<1>7. QED BY <1>1, <1>2, <1>4, <1>5, <1>6 DEF OutermostLeaves, ExitsClean, Ring0Held

LEMMA EndKeeps == ASSUME ExitInv, AfterCleanup \/ ReturnFromMain PROVE ExitInv'
<1> USE DEF ExitInv, ExitTypes
<1>1. CASE AfterCleanup
  <2>1. /\ stage = "after" /\ stage' = "ended"
        /\ result' = (IF Head(handlers) = "terminate" /\ irq THEN "halted" ELSE "exited")
        /\ UNCHANGED <<handlers, terminated, step, irq, hooked, keyboard, gdb>>
        /\ UNCHANGED <<ring, masked, access, objects, limit, limit0>>
    BY <1>1 DEF AfterCleanup, ring0Vars
  <2>2. handlers # << >> /\ ring = 3 /\ ~hooked /\ ~keyboard
    BY <2>1 DEF Undone
  <2>3. Head(handlers) \in {"terminate", "abort"}
    BY <2>2, HeadTailProperties
  <2>4. ExitTypes'
    BY <2>1
  <2>5. QED BY <2>1, <2>2, <2>3, <2>4 DEF OutermostLeaves, Undone, ExitsClean, Ring0Held
<1>2. CASE ReturnFromMain
  <2>1. /\ stage = "main" /\ ~irq /\ objects = << >>
        /\ stage' = "ended" /\ result' = "exited" /\ hooked' = FALSE /\ keyboard' = FALSE /\ gdb' = FALSE
        /\ UNCHANGED <<handlers, terminated, step, irq, ring, masked, access, objects, limit, limit0>>
    BY <1>2 DEF ReturnFromMain, ring0Vars
  <2>2. ring = 3
    BY <2>1 DEF ExitsClean, Ring0Held
  <2>3. ExitTypes'
    BY <2>1
  <2>4. QED BY <2>1, <2>2, <2>3 DEF OutermostLeaves, Undone, ExitsClean, Ring0Held
<1>3. QED BY <1>1, <1>2

LEMMA ExitInvNext == ASSUME ExitInv, "grow" \notin ExitOps, [ExitNext]_sdVars PROVE ExitInv'
<1>1. CASE EnterRing0
  BY <1>1, EnterRing0Keeps
<1>2. CASE LeaveRing0
  BY <1>2, LeaveRing0Keeps
<1>3. CASE Grow \/ BeginOrEndIrq
  BY <1>3, MainKeeps
<1>4. CASE Terminate \/ CleanupThrows
  BY <1>4, CalledKeeps DEF Terminate, CleanupThrows
<1>5. CASE Abort
  BY <1>5, BeginKeeps DEF Abort, ExitInv, ExitTypes
<1>6. CASE Cleanup
  BY <1>6, CleanupKeeps
<1>7. CASE AfterCleanup \/ ReturnFromMain
  BY <1>7, EndKeeps
<1>8. CASE UNCHANGED sdVars
  <2>1. UNCHANGED ExitTypes
    BY <1>8 DEF sdVars, ExitTypes
  <2>2. UNCHANGED OutermostLeaves /\ UNCHANGED Undone /\ UNCHANGED ExitsClean
    BY <1>8 DEF sdVars, OutermostLeaves, Undone, ExitsClean, Ring0Held
  <2>3. QED BY <2>1, <2>2 DEF ExitInv
<1>9. QED BY <1>1, <1>2, <1>3, <1>4, <1>5, <1>6, <1>7, <1>8 DEF ExitNext

\* Unless memory allocated in ring 0 makes the limit grow there: whatever throws, aborts or
\* interrupts, a program that exits has left ring 0 and given interrupt 2f and the keyboard back,
\* is in an interrupt only by abort, and until then holds ring 0, with interrupts off and a limit
\* that reaches all memory, exactly while it has ring0_privilege objects.
THEOREM ExitsStayClean == "grow" \notin ExitOps => (ExitSpec => []ExitsClean)
<1> SUFFICES ASSUME "grow" \notin ExitOps PROVE ExitSpec => []ExitsClean
  OBVIOUS
<1>1. ExitInv /\ [ExitNext]_sdVars => ExitInv'
  BY ExitInvNext
<1>2. ExitInv => ExitsClean
  BY DEF ExitInv
<1>3. QED BY ExitInvInit, <1>1, <1>2, PTL DEF ExitSpec

-----------------------------------------------------------------------------
(* Realmode: the inductive invariant                                       *)

CallType == [reg : Nat, at : RmHandlers \cup {NoHandler}, asked : Seq(RmHandlers), lost : BOOLEAN]

RmTypes ==
    /\ vector \in {"bios", "callback"} /\ last \in RmHandlers \cup {NoHandler}
    /\ prev \in [RmHandlers -> RmHandlers \cup {NoHandler}]
    /\ next \in [RmHandlers -> RmHandlers \cup {NoHandler}]
    /\ born \in [RmHandlers -> Nat] /\ made \in Nat /\ taken \in Nat
    /\ isIrq \in BOOLEAN /\ halted \in BOOLEAN
    /\ calls \in Seq(CallType)

\* No two live handlers are of one age, and none is from the future.
AgesApart ==
    /\ \A h \in RmHandlers : born[h] <= made
    /\ \A g, h \in Live : born[g] = born[h] => g = h

\* l is the newest of the live handlers made before b.
NewestBefore(l, b) ==
    /\ l = NoHandler => \A h \in Live : born[h] >= b
    /\ l # NoHandler => l \in Live /\ born[l] < b /\ \A h \in Live : born[h] < b => born[h] <= born[l]

\* l is the oldest of the live handlers made after b.
OldestAfter(l, b) ==
    /\ l = NoHandler => \A h \in Live : born[h] <= b
    /\ l # NoHandler => l \in Live /\ born[l] > b /\ \A h \in Live : born[h] > b => born[h] >= born[l]

\* The links are the order in which the live handlers were made.
LinksByAge ==
    /\ NewestBefore(last, made + 1)
    /\ \A h \in Live : NewestBefore(prev[h], born[h]) /\ OldestAfter(next[h], born[h])

RegsInOrder == \A i \in 1 .. Len(calls) : calls[i].reg = i - 1

RmInv == RmTypes /\ AgesApart /\ LinksByAge /\ RegsInOrder /\ HandlersAsked

-----------------------------------------------------------------------------

\* Following prev from last reaches the live handlers and no other.
LEMMA ReachedIsLive ==
    ASSUME RmTypes, AgesApart, LinksByAge, last # NoHandler
    PROVE  Reached(last, prev) = Live
<1>1. last \in Live /\ Live \in SUBSET RmHandlers
  BY DEF LinksByAge, NewestBefore, Live
<1>2. \A g \in Live : prev[g] \in Live \cup {NoHandler}
  BY DEF LinksByAge, NewestBefore
<1>3. Reached(last, prev) \subseteq Live
  BY <1>1, <1>2 DEF Reached
<1>4. ASSUME NEW S \in SUBSET RmHandlers, last \in S, \A g \in S : prev[g] \in S \cup {NoHandler},
             NEW h \in Live
      PROVE  h \in S
  <2> SUFFICES ASSUME h \notin S PROVE FALSE
    OBVIOUS
  <2> DEFINE Gaps == {made - born[g] : g \in Live \ S}
  <2>1. made - born[h] \in Gaps /\ Gaps \in SUBSET Nat
    BY DEF RmTypes, AgesApart, Live
  <2>2. IsWellFoundedOn(OpToRel(<, Nat), Nat)
    BY NatLessThanWellFounded
  <2>3. PICK m \in Gaps : \A y \in Gaps : ~(<<y, m>> \in OpToRel(<, Nat))
    BY <2>1, <2>2, WFMin
  <2>4. PICK x \in Live \ S : m = made - born[x]
    BY <2>3
  <2>5. \A g \in Live \ S : born[g] <= born[x]
    <3> SUFFICES ASSUME NEW g \in Live \ S PROVE born[g] <= born[x]
      OBVIOUS
    <3>1. made - born[g] \in Gaps /\ made - born[g] \in Nat /\ made - born[x] \in Nat
      BY <2>1, <2>4
    <3>2. ~(made - born[g] < made - born[x])
      BY <2>3, <2>4, <3>1 DEF OpToRel
    <3>3. born[g] \in Nat /\ born[x] \in Nat /\ made \in Nat
      BY <2>4 DEF RmTypes, Live
    <3>4. QED BY <3>2, <3>3
  <2>6. x # last /\ x \in RmHandlers /\ next[x] \in RmHandlers \cup {NoHandler}
    BY <1>4, <2>4 DEF Live, RmTypes
  <2>7. next[x] # NoHandler /\ next[x] \in Live /\ born[next[x]] > born[x]
    BY <1>1, <2>4, <2>6 DEF LinksByAge, NewestBefore, OldestAfter, AgesApart, RmTypes, Live
  <2>8. next[x] \in S
    BY <2>4, <2>5, <2>7 DEF RmTypes, Live
  <2>9. prev[next[x]] = x
    <3> DEFINE y == next[x]
    <3>1. y \in Live /\ x \in Live /\ born[x] \in Nat /\ born[y] \in Nat /\ born[x] < born[y]
      BY <2>4, <2>7 DEF RmTypes, Live
    <3>2. prev[y] \in Live /\ born[prev[y]] < born[y] /\ born[x] <= born[prev[y]] /\ born[prev[y]] \in Nat
      BY <3>1 DEF LinksByAge, NewestBefore, RmTypes, Live
    <3>3. ~(born[prev[y]] > born[x])
      BY <3>1, <3>2, <2>7 DEF LinksByAge, OldestAfter
    <3>4. QED BY <3>1, <3>2, <3>3 DEF AgesApart
  <2>10. QED BY <1>4, <2>4, <2>6, <2>8, <2>9, RmAssumption
<1>5. Live \subseteq Reached(last, prev)
  BY <1>4, <1>1 DEF Reached
<1>6. QED BY <1>3, <1>5

\* The flag that update_irq() leaves is that of the live handlers.
LEMMA IsIrqOfLive ==
    RmTypes /\ AgesApart /\ LinksByAge => IsIrq(last, prev) = (Live \cap IrqHandlers # {})
<1> SUFFICES ASSUME RmTypes, AgesApart, LinksByAge
             PROVE  IsIrq(last, prev) = (Live \cap IrqHandlers # {})
  OBVIOUS
<1>1. CASE last = NoHandler
  <2>1. Live = {}
    BY <1>1 DEF LinksByAge, NewestBefore, AgesApart, RmTypes, Live
  <2>2. QED BY <1>1, <2>1 DEF IsIrq
<1>2. CASE last # NoHandler
  BY <1>2, ReachedIsLive DEF IsIrq
<1>3. QED BY <1>1, <1>2

LEMMA IsIrqOfLiveNext ==
    (RmTypes /\ AgesApart /\ LinksByAge => IsIrq(last, prev) = (Live \cap IrqHandlers # {}))'
BY IsIrqOfLive, PTL

LEMMA RmInvInit == RmInit => RmInv
<1> SUFFICES ASSUME RmInit PROVE RmInv
  OBVIOUS
<1>1. RmTypes
  <2>1. calls \in Seq(CallType)
    BY DEF RmInit
  <2>2. isIrq \in BOOLEAN /\ halted \in BOOLEAN
    BY Zenon DEF RmInit
  <2>3. QED BY <2>1, <2>2 DEF RmInit, RmTypes
<1>2. Live = {} /\ Len(calls) = 0 /\ DOMAIN calls = {} /\ \A h \in RmHandlers : born[h] = 0
  BY DEF RmInit, Live
<1>3. AgesApart /\ LinksByAge /\ RegsInOrder
  BY <1>2 DEF AgesApart, LinksByAge, NewestBefore, RegsInOrder, RmInit
<1>4. HandlersAsked
  BY <1>2 DEF RmInit, HandlersAsked, CallsApart
<1>5. QED BY <1>1, <1>3, <1>4 DEF RmInv

\* The order of the asked is carried to a state with the same live handlers.
LEMMA RmStands == ASSUME RmInv, UNCHANGED rmVars PROVE RmInv'
<1>1. RmTypes' /\ AgesApart' /\ LinksByAge' /\ RegsInOrder'
  BY DEF RmInv, rmVars, RmTypes, AgesApart, LinksByAge, NewestBefore, OldestAfter, RegsInOrder, Live
<1>2. HandlersAsked'
  BY DEF RmInv, rmVars, HandlersAsked, CallsApart, AsksInOrder, Asks, Live
<1>3. QED BY <1>1, <1>2 DEF RmInv

\* While no call runs, the part of HandlersAsked about calls is nothing.
LEMMA AskedAtRest ==
    ASSUME RmInv, calls = << >>, calls' = calls, taken' = taken, halted' = halted,
           isIrq' = (Live' \cap IrqHandlers # {}),
           vector' = IF Live' = {} THEN "bios" ELSE "callback"
    PROVE  HandlersAsked' /\ RegsInOrder'
<1>1. DOMAIN calls' = {} /\ Len(calls') = 0 /\ calls' = << >>
  OBVIOUS
<1>2. CallsApart'
  BY <1>1 DEF RmInv, HandlersAsked, CallsApart
<1>3. QED BY <1>1, <1>2 DEF HandlersAsked, RegsInOrder

LEMMA AddHandlerKeeps == ASSUME RmInv, NEW h \in RmHandlers, AddHandler(h) PROVE RmInv'
<1> USE DEF RmInv
<1>1. /\ calls = << >> /\ h \notin Live /\ made' = made + 1
      /\ prev' = [prev EXCEPT ![h] = last]
      /\ next' = [n \in RmHandlers |-> IF n = h THEN NoHandler ELSE IF n = last THEN h ELSE next[n]]
      /\ last' = h /\ born' = [born EXCEPT ![h] = made'] /\ vector' = "callback"
      /\ isIrq' = ((isIrq /\ last # NoHandler) \/ h \in IrqHandlers)
      /\ calls' = calls /\ taken' = taken /\ halted' = halted
  BY DEF AddHandler
<1>2. RmTypes'
  <2>1. isIrq' \in BOOLEAN /\ halted' \in BOOLEAN
    BY <1>1, Zenon DEF RmTypes
  <2>2. last' \in RmHandlers \cup {NoHandler} /\ next' \in [RmHandlers -> RmHandlers \cup {NoHandler}]
    BY <1>1 DEF RmTypes
  <2>3. /\ prev' \in [RmHandlers -> RmHandlers \cup {NoHandler}] /\ born' \in [RmHandlers -> Nat]
        /\ made' \in Nat /\ taken' \in Nat /\ calls' \in Seq(CallType) /\ vector' \in {"bios", "callback"}
    BY <1>1 DEF RmTypes
  <2>4. QED BY <2>1, <2>2, <2>3 DEF RmTypes
<1>3. /\ Live' = Live \cup {h} /\ born'[h] = made + 1
      /\ \A g \in Live : g # h /\ born'[g] = born[g] /\ born[g] \in Nat /\ born[g] <= made
  BY <1>1 DEF Live, RmTypes, AgesApart
<1>4. AgesApart'
  BY <1>1, <1>3 DEF AgesApart, RmTypes
<1>5. LinksByAge'
  <2>1. NewestBefore(last, made + 1)'
    BY <1>1, <1>3, RmAssumption DEF NewestBefore, RmTypes
  <2>2. NewestBefore(prev[h], born[h])' /\ OldestAfter(next[h], born[h])'
    <3>1. prev'[h] = last /\ next'[h] = NoHandler /\ last' # NoHandler
      BY <1>1, RmAssumption DEF RmTypes
    <3>2. NewestBefore(prev[h], born[h])'
      BY <1>3, <3>1 DEF NewestBefore, LinksByAge, RmTypes
    <3>3. OldestAfter(next[h], born[h])'
      BY <1>3, <3>1 DEF OldestAfter, RmTypes
    <3>4. QED BY <3>2, <3>3
  <2>3. ASSUME NEW g \in Live PROVE NewestBefore(prev[g], born[g])' /\ OldestAfter(next[g], born[g])'
    <3>1. /\ g # h /\ g \in RmHandlers /\ prev'[g] = prev[g] /\ born'[g] = born[g] /\ born[g] \in Nat
          /\ born[g] <= made /\ next'[g] = IF g = last THEN h ELSE next[g]
      BY <1>1, <1>3 DEF RmTypes, Live
    <3>2. NewestBefore(prev[g], born[g]) /\ OldestAfter(next[g], born[g])
      BY DEF LinksByAge
    <3>0. /\ made + 1 \in Nat /\ made + 1 > made
          /\ \A k \in Live' : (k = h /\ born'[k] = made + 1)
                             \/ (k \in Live /\ born'[k] = born[k] /\ born[k] \in Nat /\ born[k] <= made)
      BY <1>3 DEF RmTypes
    <3>3. NewestBefore(prev[g], born[g])'
      <4>1. CASE prev[g] = NoHandler
        <5>1. \A k \in Live' : born'[k] >= born'[g]
          BY <4>1, <3>0, <3>1, <3>2 DEF NewestBefore, RmTypes
        <5>2. QED BY <5>1, <4>1, <3>1 DEF NewestBefore
      <4>2. CASE prev[g] # NoHandler
        <5>1. prev[g] \in Live /\ born'[prev[g]] = born[prev[g]] /\ born[prev[g]] < born'[g]
          BY <4>2, <1>3, <3>1, <3>2 DEF NewestBefore
        <5>2. \A k \in Live' : born'[k] < born'[g] => born'[k] <= born'[prev[g]]
          BY <4>2, <5>1, <3>0, <3>1, <3>2 DEF NewestBefore, RmTypes
        <5>3. QED BY <5>1, <5>2, <4>2, <3>1, <1>3 DEF NewestBefore
      <4>3. QED BY <4>1, <4>2
    <3>4. CASE g = last
      <4>1. \A k \in Live : born[k] <= born[g]
        BY <3>4, <1>3, RmAssumption, <3>1 DEF LinksByAge, NewestBefore, RmTypes
      <4>2. next'[g] = h /\ h # NoHandler /\ h \in Live' /\ born'[h] > born'[g]
        BY <1>3, <3>0, <3>1, <3>4, RmAssumption DEF RmTypes
      <4>3. \A k \in Live' : born'[k] > born'[g] => born'[k] >= born'[h]
        BY <1>3, <3>0, <3>1, <4>1
      <4>4. QED BY <3>3, <4>2, <4>3 DEF OldestAfter
    <3>5. CASE g # last
      <4>1. next[g] # NoHandler
        BY <3>5, <3>1, <3>2, <1>3 DEF LinksByAge, NewestBefore, OldestAfter, AgesApart, RmTypes
      <4>2. /\ next'[g] = next[g] /\ next[g] \in Live /\ born'[next[g]] = born[next[g]]
            /\ born[next[g]] <= made /\ born[next[g]] \in Nat /\ born[next[g]] > born'[g]
        BY <1>3, <3>1, <3>2, <3>5, <4>1 DEF OldestAfter
      <4>3. \A k \in Live' : born'[k] > born'[g] => born'[k] >= born[next[g]]
        BY <3>0, <3>1, <3>2, <4>1, <4>2 DEF OldestAfter, RmTypes
      <4>4. QED BY <3>3, <4>1, <4>2, <4>3, <1>3 DEF OldestAfter
    <3>6. QED BY <3>3, <3>4, <3>5
  <2>4. QED BY <1>3, <2>1, <2>2, <2>3 DEF LinksByAge
<1>6. HandlersAsked' /\ RegsInOrder'
  <2>1. isIrq' = (Live' \cap IrqHandlers # {})
    <3>1. CASE last = NoHandler
      <4>1. Live = {}
        BY <3>1, <1>3 DEF LinksByAge, NewestBefore, RmTypes
      <4>2. QED BY <1>1, <1>3, <3>1, <4>1
    <3>2. CASE last # NoHandler
      BY <1>1, <1>3, <3>2 DEF HandlersAsked
    <3>3. QED BY <3>1, <3>2
  <2>2. QED BY <1>1, <1>3, <2>1, AskedAtRest
<1>7. QED BY <1>2, <1>4, <1>5, <1>6

LEMMA RemoveHandlerKeeps ==
    ASSUME RmInv, "newer" \notin RmOps, NEW h \in RmHandlers, RemoveHandler(h)
    PROVE  RmInv'
<1> USE DEF RmInv
<1>1. /\ calls = << >> /\ h \in Live /\ prev[h] = NoHandler /\ born' = [born EXCEPT ![h] = 0]
      /\ isIrq' = IsIrq(last', prev') /\ next' = next /\ calls' = calls /\ taken' = taken
      /\ halted' = halted /\ made' = made
      /\ IF next[h] # NoHandler
         THEN prev' = [prev EXCEPT ![next[h]] = NoHandler] /\ last' = last /\ vector' = vector
         ELSE last' = NoHandler /\ vector' = "bios" /\ prev' = prev
  BY DEF RemoveHandler
<1>2. /\ Live' = Live \ {h} /\ \A g \in Live' : born'[g] = born[g] /\ born[g] \in Nat /\ born[g] <= made
      /\ born[h] \in Nat
  BY <1>1 DEF Live, RmTypes, AgesApart
<1>3. \A g \in Live' : born[g] > born[h]
  BY <1>1, <1>2 DEF LinksByAge, NewestBefore, AgesApart
<1>4. RmTypes'
  <2>1. isIrq' \in BOOLEAN /\ halted' \in BOOLEAN
    BY <1>1, Zenon DEF RmTypes, IsIrq
  <2>2. last' \in RmHandlers \cup {NoHandler} /\ prev' \in [RmHandlers -> RmHandlers \cup {NoHandler}]
    BY <1>1 DEF RmTypes
  <2>3. /\ next' \in [RmHandlers -> RmHandlers \cup {NoHandler}] /\ born' \in [RmHandlers -> Nat]
        /\ made' \in Nat /\ taken' \in Nat /\ calls' \in Seq(CallType) /\ vector' \in {"bios", "callback"}
    BY <1>1 DEF RmTypes
  <2>4. QED BY <2>1, <2>2, <2>3 DEF RmTypes
<1>5. AgesApart'
  BY <1>1, <1>2 DEF AgesApart, RmTypes
<1>6. LinksByAge' /\ vector' = IF Live' = {} THEN "bios" ELSE "callback"
  <2>1. CASE next[h] = NoHandler
    <3>1. Live' = {}
      BY <1>1, <1>2, <1>3, <2>1 DEF LinksByAge, OldestAfter
    <3>2. QED BY <1>1, <2>1, <3>1 DEF LinksByAge, NewestBefore
  <2>2. CASE next[h] # NoHandler
    <3> DEFINE n == next[h]
    <3>1. /\ n \in Live /\ n # h /\ n \in Live' /\ n \in RmHandlers /\ born[n] > born[h]
          /\ \A g \in Live' : born[g] >= born[n]
      BY <1>1, <1>2, <1>3, <2>2 DEF LinksByAge, OldestAfter, Live
    <3>2. /\ prev' = [prev EXCEPT ![n] = NoHandler] /\ last' = last /\ vector' = vector
          /\ prev \in [RmHandlers -> RmHandlers \cup {NoHandler}] /\ made + 1 \in Nat
      BY <1>1, <2>2 DEF RmTypes
    <3> HIDE DEF n
    <3>3. NewestBefore(last, made + 1)'
      <4>1. NewestBefore(last, made + 1)
        BY DEF LinksByAge
      <4>2. last # NoHandler
        BY <4>1, <1>2, <3>1, <3>2 DEF NewestBefore, RmTypes
      <4>3. last # h
        BY <4>1, <4>2, <1>2, <3>1, <3>2 DEF NewestBefore, RmTypes
      <4>4. last \in Live' /\ made' = made
        BY <4>1, <4>2, <4>3, <1>1, <1>2 DEF NewestBefore
      <4>5. QED BY <4>1, <4>2, <4>4, <1>2, <3>2 DEF NewestBefore
    <3>4. ASSUME NEW g \in Live'
          PROVE  NewestBefore(prev[g], born[g])' /\ OldestAfter(next[g], born[g])'
      <4>1. /\ g \in Live /\ g \in RmHandlers /\ g # h /\ born'[g] = born[g] /\ born[g] \in Nat
            /\ born[g] > born[h] /\ next'[g] = next[g] /\ NewestBefore(prev[g], born[g])
            /\ OldestAfter(next[g], born[g]) /\ prev'[g] = IF g = n THEN NoHandler ELSE prev[g]
        BY <1>1, <1>2, <1>3, <3>2 DEF LinksByAge, Live
      <4>2. OldestAfter(next[g], born[g])'
        <5>1. CASE next[g] = NoHandler
          BY <5>1, <4>1, <1>2 DEF OldestAfter
        <5>2. CASE next[g] # NoHandler
          <6>1. next[g] \in Live' /\ born[next[g]] > born[g]
            BY <5>2, <4>1, <1>2 DEF OldestAfter
          <6>2. \A k \in Live' : born[k] > born[g] => born[k] >= born[next[g]]
            BY <5>2, <4>1, <1>2 DEF OldestAfter
          <6>3. QED BY <5>2, <6>1, <6>2, <4>1, <1>2 DEF OldestAfter
        <5>3. QED BY <5>1, <5>2
      <4>3. CASE g = n
        <5>1. prev'[g] = NoHandler /\ \A k \in Live' : born'[k] >= born'[g]
          BY <4>1, <4>3, <3>1, <1>2
        <5>2. QED BY <4>2, <5>1 DEF NewestBefore
      <4>4. CASE g # n
        <5>1. born[g] > born[n] /\ prev'[g] = prev[g]
          BY <4>1, <4>4, <3>1, <1>2 DEF AgesApart
        <5>2. prev[g] # NoHandler /\ prev[g] # h
          BY <4>1, <5>1, <3>1, <1>2 DEF NewestBefore
        <5>3. prev[g] \in Live' /\ born[prev[g]] < born[g]
          BY <4>1, <5>2, <1>2 DEF NewestBefore
        <5>4. \A k \in Live' : born[k] < born[g] => born[k] <= born[prev[g]]
          BY <4>1, <5>2, <1>2 DEF NewestBefore
        <5>5. NewestBefore(prev[g], born[g])'
          BY <5>1, <5>2, <5>3, <5>4, <4>1, <1>2 DEF NewestBefore
        <5>6. QED BY <4>2, <5>5
      <4>5. QED BY <4>3, <4>4
    <3>5. vector = "callback"
      BY <1>1 DEF HandlersAsked
    <3>6. QED BY <3>1, <3>2, <3>3, <3>4, <3>5 DEF LinksByAge
  <2>3. QED BY <2>1, <2>2
<1>7. isIrq' = (Live' \cap IrqHandlers # {})
  BY <1>1, <1>4, <1>5, <1>6, IsIrqOfLiveNext
<1>8. HandlersAsked' /\ RegsInOrder'
  BY <1>1, <1>6, <1>7, AskedAtRest
<1>9. QED BY <1>4, <1>5, <1>6, <1>8

-----------------------------------------------------------------------------
(* Realmode: the steps of a call                                           *)

\* q names live handlers, each after all that are newer.
InOrder(q) ==
    /\ \A i \in 1 .. Len(q) : q[i] \in Live
    /\ \A i, j \in 1 .. Len(q) : i < j => born[q[i]] > born[q[j]]
    /\ \A i \in 1 .. Len(q), h \in Live : born[h] > born[q[i]] => \E j \in 1 .. Len(q) : q[j] = h

\* What AsksInOrder says, in terms of InOrder.
LEMMA AsksAreInOrder ==
    ASSUME RmTypes, NEW c \in CallType
    PROVE  /\ Asks(c) \in Seq(RmHandlers)
           /\ AsksInOrder(c) <=> /\ InOrder(Asks(c))
                                 /\ c.at = NoHandler => \A h \in Live : \E j \in 1 .. Len(c.asked) : c.asked[j] = h
<1>1. c.asked \in Seq(RmHandlers) /\ c.at \in RmHandlers \cup {NoHandler}
  BY DEF CallType
<1>2. Asks(c) \in Seq(RmHandlers)
  BY <1>1, AppendProperties DEF Asks
<1>3. DOMAIN Asks(c) = 1 .. Len(Asks(c)) /\ DOMAIN c.asked = 1 .. Len(c.asked)
  BY <1>1, <1>2, LenProperties
<1>4. QED BY <1>2, <1>3 DEF AsksInOrder, InOrder

\* The next handler asked keeps the order; when there is none, all have been asked.
LEMMA NextInOrder ==
    ASSUME RmTypes, AgesApart, NEW q \in Seq(RmHandlers), InOrder(q), NEW a, Len(q) > 0, q[Len(q)] = a,
           NEW p, NewestBefore(p, born[a])
    PROVE  /\ p = NoHandler => \A h \in Live : \E j \in 1 .. Len(q) : q[j] = h
           /\ p # NoHandler => InOrder(Append(q, p))
<1>1. Len(q) \in Nat /\ Len(q) \in 1 .. Len(q) /\ \A i \in 1 .. Len(q) : q[i] \in RmHandlers
  BY LenProperties, ElementOfSeq
<1>2. /\ a \in Live /\ born[a] \in Nat
      /\ \A h \in Live : h \in RmHandlers /\ born[h] \in Nat
  BY <1>1 DEF InOrder, Live, RmTypes
<1>3. \A h \in Live : born[h] >= born[a] => \E j \in 1 .. Len(q) : q[j] = h
  BY <1>1, <1>2 DEF InOrder, AgesApart
<1>4. p = NoHandler => \A h \in Live : \E j \in 1 .. Len(q) : q[j] = h
  BY <1>3 DEF NewestBefore
<1>5. ASSUME p # NoHandler PROVE InOrder(Append(q, p))
  <2>1. p \in Live /\ born[p] < born[a] /\ \A h \in Live : born[h] < born[a] => born[h] <= born[p]
    BY <1>5 DEF NewestBefore
  <2> DEFINE r == Append(q, p)
  <2>2. Len(r) = Len(q) + 1 /\ r[Len(q) + 1] = p /\ \A i \in 1 .. Len(q) : r[i] = q[i]
    BY <2>1, <1>2, AppendProperties
  <2> HIDE DEF r
  <2>3. \A i \in 1 .. Len(r) : (i \in 1 .. Len(q) /\ r[i] = q[i]) \/ (i = Len(q) + 1 /\ r[i] = p)
    BY <1>1, <2>2
  <2>4. \A i \in 1 .. Len(q) : born[q[i]] >= born[a] /\ born[q[i]] \in Nat
    <3>1. TAKE i \in 1 .. Len(q)
    <3>2. q[i] \in Live /\ born[q[i]] \in Nat
      BY <1>2 DEF InOrder
    <3>3. CASE i = Len(q)
      BY <3>2, <3>3, <1>2
    <3>4. CASE i # Len(q)
      <4>1. i < Len(q)
        BY <3>4, <1>1
      <4>2. born[q[i]] > born[a]
        BY <4>1, <1>1 DEF InOrder
      <4>3. QED BY <3>2, <4>2, <1>2
    <3>5. QED BY <3>3, <3>4
  <2>5. \A i \in 1 .. Len(r) : r[i] \in Live
    BY <2>1, <2>3 DEF InOrder
  <2>6. \A i, j \in 1 .. Len(r) : i < j => born[r[i]] > born[r[j]]
    <3>1. TAKE i, j \in 1 .. Len(r)
    <3>2. CASE j \in 1 .. Len(q)
      BY <3>2, <1>1, <2>2, <2>3 DEF InOrder
    <3>3. CASE j = Len(q) + 1
      <4>1. CASE i \in 1 .. Len(q)
        BY <3>3, <4>1, <2>1, <2>2, <2>4, <1>2
      <4>2. CASE i = Len(q) + 1
        BY <3>3, <4>2, <1>1
      <4>3. QED BY <4>1, <4>2, <2>3
    <3>4. QED BY <3>2, <3>3, <2>3
  <2>7. \A i \in 1 .. Len(r), h \in Live : born[h] > born[r[i]] => \E j \in 1 .. Len(r) : r[j] = h
    <3>1. SUFFICES ASSUME NEW i \in 1 .. Len(r), NEW h \in Live, born[h] > born[r[i]]
                   PROVE  \E j \in 1 .. Len(q) : q[j] = h
      BY <1>1, <2>2
    <3>2. CASE i \in 1 .. Len(q)
      BY <3>1, <3>2, <2>2 DEF InOrder
    <3>3. CASE i = Len(q) + 1
      <4>1. born[h] > born[p] /\ ~(born[h] < born[a])
        BY <3>1, <3>3, <2>1, <2>2, <1>2
      <4>2. QED BY <4>1, <1>2, <1>3
    <3>4. QED BY <3>2, <3>3, <2>3
  <2>8. QED BY <2>5, <2>6, <2>7 DEF InOrder, r
<1>6. QED BY <1>4, <1>5

\* A call's step leaves the handlers alone: what is left to show is the calls' part.
LEMMA CallStep ==
    ASSUME RmInv, UNCHANGED <<vector, last, prev, next, born, isIrq, made>>,
           calls' \in Seq(CallType), taken' \in Nat, halted' \in BOOLEAN,
           ~halted' => taken' = Len(calls'),
           \A i \in 1 .. Len(calls') : calls'[i].reg = i - 1 /\ calls'[i].lost = FALSE,
           \A i \in 1 .. Len(calls') : AsksInOrder(calls'[i])
    PROVE  RmInv'
<1>1. vector' = vector /\ last' = last /\ prev' = prev /\ next' = next /\ born' = born
      /\ isIrq' = isIrq /\ made' = made /\ Live' = Live
  BY DEF Live
<1>2. DOMAIN calls' = 1 .. Len(calls') /\ Len(calls') \in Nat
  BY LenProperties
<1>3. RmTypes'
  <2>1. isIrq' \in BOOLEAN
    BY <1>1, Zenon DEF RmInv, RmTypes
  <2>2. QED BY <1>1, <2>1 DEF RmInv, RmTypes
<1>4. AgesApart' /\ LinksByAge'
  BY <1>1 DEF RmInv, AgesApart, LinksByAge, NewestBefore, OldestAfter
<1>5. RegsInOrder'
  BY DEF RegsInOrder
<1>6. CallsApart'
  BY <1>2 DEF CallsApart
<1>7. \A i \in 1 .. Len(calls') : AsksInOrder(calls[i])'
  <2>1. TAKE i \in 1 .. Len(calls')
  <2>2. AsksInOrder(calls'[i]) /\ Asks(calls[i])' = Asks(calls'[i])
    BY DEF Asks
  <2>3. QED BY <1>1, <2>2 DEF AsksInOrder
<1>8. HandlersAsked'
  BY <1>1, <1>2, <1>6, <1>7 DEF RmInv, HandlersAsked
<1>9. QED BY <1>3, <1>4, <1>5, <1>8 DEF RmInv

\* What is known of a call.
LEMMA CallFacts ==
    ASSUME RmInv, NEW i \in 1 .. Len(calls)
    PROVE  /\ calls[i] \in CallType /\ calls[i].reg = i - 1 /\ calls[i].lost = FALSE
           /\ AsksInOrder(calls[i])
<1>1. calls \in Seq(CallType) /\ DOMAIN calls = 1 .. Len(calls)
  BY LenProperties DEF RmInv, RmTypes
<1>2. calls[i] \in CallType
  BY <1>1, ElementOfSeq
<1>3. calls[i].reg = i - 1 /\ AsksInOrder(calls[i])
  BY <1>1 DEF RmInv, RegsInOrder, HandlersAsked
<1>4. ~calls[i].lost /\ calls[i].lost \in BOOLEAN
  BY <1>1, <1>2 DEF RmInv, HandlersAsked, CallsApart, CallType
<1>5. QED BY <1>2, <1>3, <1>4

LEMMA EnterCallbackKeeps ==
    ASSUME RmInv, "nest" \notin RmOps, NEW keep \in BOOLEAN, EnterCallback(keep)
    PROVE  RmInv'
<1>1. /\ ~halted /\ vector = "callback" /\ taken' = taken + 1
      /\ IF calls = <<>> THEN ~keep ELSE keep
      /\ UNCHANGED <<vector, last, prev, next, born, isIrq, made>>
  BY DEF EnterCallback
<1>2. RmTypes /\ taken = Len(calls) /\ calls \in Seq(CallType) /\ Len(calls) \in Nat
  BY <1>1, LenProperties DEF RmInv, HandlersAsked, CallsApart, RmTypes
<1>3. CASE taken' > RegPool /\ halted' = TRUE /\ calls' = calls
  <2>1. \A i \in 1 .. Len(calls') :
           calls'[i].reg = i - 1 /\ calls'[i].lost = FALSE /\ AsksInOrder(calls'[i])
    BY <1>3, CallFacts
  <2>2. calls' \in Seq(CallType) /\ taken' \in Nat /\ halted' = TRUE
    BY <1>1, <1>2, <1>3 DEF RmTypes
  <2>3. QED BY <1>1, <2>1, <2>2, CallStep
<1>4. CASE /\ halted' = halted
           /\ calls' = Append([i \in DOMAIN calls |-> [calls[i] EXCEPT !.lost = @ \/ ~keep]],
                              [reg |-> taken, at |-> last, asked |-> <<>>, lost |-> FALSE])
  <2> DEFINE c == [reg |-> taken, at |-> last, asked |-> <<>>, lost |-> FALSE]
  <2> DEFINE old == [i \in DOMAIN calls |-> [calls[i] EXCEPT !.lost = @ \/ ~keep]]
  <2>1. old = calls
    <3>1. DOMAIN calls = 1 .. Len(calls) /\ calls = [i \in 1 .. Len(calls) |-> calls[i]]
      BY <1>2, LenProperties
    <3>2. ASSUME NEW i \in 1 .. Len(calls) PROVE [calls[i] EXCEPT !.lost = @ \/ ~keep] = calls[i]
      <4>1. calls # <<>> /\ keep
        BY <1>1, <1>2
      <4>2. (calls[i].lost \/ ~keep) = FALSE /\ calls[i].lost = FALSE
        BY <4>1, CallFacts
      <4>3. calls[i] = [reg |-> calls[i].reg, at |-> calls[i].at, asked |-> calls[i].asked,
                        lost |-> calls[i].lost]
        BY CallFacts DEF CallType
      <4>4. QED BY <4>2, <4>3
    <3>3. QED BY <3>1, <3>2
  <2>2. c \in CallType
    BY <1>2 DEF CallType, RmTypes
  <2>3. /\ calls' \in Seq(CallType) /\ Len(calls') = Len(calls) + 1 /\ calls'[Len(calls) + 1] = c
        /\ \A i \in 1 .. Len(calls) : calls'[i] = calls[i]
    <3>1. calls' = Append(calls, c)
      BY <1>4, <2>1, Zenon
    <3> HIDE DEF c
    <3>2. QED BY <1>2, <2>2, <3>1, AppendProperties
  <2>4. AsksInOrder(c)
    <3>1. last # NoHandler
      BY <1>1, <1>2 DEF RmInv, HandlersAsked, LinksByAge, NewestBefore, AgesApart, RmTypes, Live
    <3>2. NewestBefore(last, made + 1)
      BY DEF RmInv, LinksByAge
    <3>3. Asks(c) = <<last>> /\ Len(Asks(c)) = 1 /\ Asks(c)[1] = last /\ DOMAIN Asks(c) = {1}
      BY <3>1 DEF Asks
    <3>4. last \in Live /\ \A h \in Live : ~(born[h] > born[last])
      BY <3>1, <3>2 DEF NewestBefore, RmInv, RmTypes, AgesApart, Live
    <3>5. c.at # NoHandler
      BY <3>1
    <3> DEFINE q == Asks(c)
    <3>6. \A i, j \in DOMAIN q : ~(i < j)
      BY <3>3
    <3>7. \A i \in DOMAIN q, h \in Live : q[i] \in Live /\ ~(born[h] > born[q[i]])
      BY <3>3, <3>4
    <3>8. \A i \in DOMAIN q : q[i] \in Live
      BY <3>3, <3>4
    <3> HIDE DEF c, q
    <3>9. QED BY <3>5, <3>6, <3>7, <3>8 DEF AsksInOrder, q
  <2>5. \A i \in 1 .. Len(calls') : i \in 1 .. Len(calls) \/ i = Len(calls) + 1
    BY <1>2, <2>3
  <2>6. \A i \in 1 .. Len(calls') :
           calls'[i].reg = i - 1 /\ calls'[i].lost = FALSE /\ AsksInOrder(calls'[i])
    <3>1. TAKE i \in 1 .. Len(calls')
    <3>2. CASE i \in 1 .. Len(calls)
      BY <3>2, <2>3, CallFacts
    <3>3. CASE i = Len(calls) + 1
      <4>1. c.reg = i - 1 /\ c.lost = FALSE
        BY <3>3, <1>2
      <4>2. calls'[i] = c
        BY <3>3, <2>3
      <4> HIDE DEF c
      <4>3. QED BY <4>1, <4>2, <2>4
    <3>4. QED BY <3>2, <3>3, <2>5
  <2>7. taken' \in Nat /\ halted' \in BOOLEAN /\ taken' = Len(calls')
    BY <1>1, <1>2, <1>4, <2>3 DEF RmTypes
  <2>8. QED BY <1>1, <2>3, <2>6, <2>7, CallStep
<1>5. QED BY <1>1, <1>3, <1>4 DEF EnterCallback

LEMMA CallUpdated ==
    ASSUME NEW c \in CallType, NEW a, NEW q
    PROVE  [c EXCEPT !.at = a, !.asked = q] = [reg |-> c.reg, at |-> a, asked |-> q, lost |-> c.lost]
<1>1. c = [reg |-> c.reg, at |-> c.at, asked |-> c.asked, lost |-> c.lost]
  BY DEF CallType
<1>2. PICK x, y, z, w : c = [reg |-> x, at |-> y, asked |-> z, lost |-> w]
  BY <1>1
<1>3. PICK d : d = [c EXCEPT !.at = a]
  OBVIOUS
<1>4. d = [reg |-> x, at |-> a, asked |-> z, lost |-> w]
  BY <1>2, <1>3
<1>5. [d EXCEPT !.asked = q] = [reg |-> x, at |-> a, asked |-> q, lost |-> w]
  BY <1>4
<1>6. [c EXCEPT !.at = a, !.asked = q] = [d EXCEPT !.asked = q]
  BY <1>2, <1>3
<1>7. c.reg = x /\ c.lost = w
  BY <1>2
<1>8. QED BY <1>5, <1>6, <1>7

LEMMA DeclinedKeeps == ASSUME RmInv, Declined PROVE RmInv'
<1> DEFINE n == Len(calls)
<1>1. /\ ~halted /\ calls # <<>> /\ calls[n].at # NoHandler
      /\ calls' = [calls EXCEPT ![n] = [calls[n] EXCEPT !.at = prev[@], !.asked = Append(@, calls[n].at)]]
      /\ UNCHANGED <<vector, last, prev, next, born, isIrq, made>> /\ taken' = taken /\ halted' = halted
  BY DEF Declined, innermost
<1>2. RmTypes /\ AgesApart /\ LinksByAge /\ calls \in Seq(CallType) /\ taken = n
  BY <1>1 DEF RmInv, RmTypes, HandlersAsked, CallsApart
<1>3. n \in Nat /\ n \in 1 .. n /\ DOMAIN calls = 1 .. n
  BY <1>1, <1>2, LenProperties, EmptySeq
<1> DEFINE c == calls[n]
<1> DEFINE d == [reg |-> c.reg, at |-> prev[c.at], asked |-> Append(c.asked, c.at), lost |-> c.lost]
<1>4. c \in CallType /\ c.reg = n - 1 /\ c.lost = FALSE /\ AsksInOrder(c)
  BY <1>3, CallFacts
<1>5. c.at \in RmHandlers /\ c.asked \in Seq(RmHandlers) /\ c.at # NoHandler /\ c.reg \in Nat
  BY <1>1, <1>4 DEF CallType
<1>6. prev[c.at] \in RmHandlers \cup {NoHandler}
  BY <1>2, <1>5 DEF RmTypes
<1>7. /\ Append(c.asked, c.at) \in Seq(RmHandlers) /\ Asks(c) = Append(c.asked, c.at)
      /\ Len(Asks(c)) > 0 /\ Asks(c)[Len(Asks(c))] = c.at
  BY <1>5, AppendProperties, LenProperties DEF Asks
<1>8. d \in CallType
  BY <1>4, <1>5, <1>6, <1>7 DEF CallType
<1>9. calls' = [calls EXCEPT ![n] = d]
  <2> DEFINE e == [c EXCEPT !.at = prev[c.at], !.asked = Append(c.asked, c.at)]
  <2>1. e = d
    <3> HIDE DEF c
    <3>1. QED BY <1>4, CallUpdated
  <2>2. calls' = [calls EXCEPT ![n] = e]
    BY <1>1
  <2>3. QED BY <2>1, <2>2
<1>10. calls' \in Seq(CallType) /\ Len(calls') = n /\ \A i \in 1 .. n : calls'[i] = IF i = n THEN d ELSE calls[i]
  BY <1>2, <1>3, <1>8, <1>9, ExceptSeq, LenProperties
<1>11. AsksInOrder(d)
  <2>1. InOrder(Asks(c))
    BY <1>2, <1>4, AsksAreInOrder
  <2>2. c.at \in Live
    BY <1>7, <2>1, LenProperties DEF InOrder
  <2>3. NewestBefore(prev[c.at], born[c.at])
    BY <1>2, <2>2 DEF LinksByAge
  <2>4. /\ prev[c.at] = NoHandler => \A h \in Live : \E j \in 1 .. Len(Asks(c)) : Asks(c)[j] = h
        /\ prev[c.at] # NoHandler => InOrder(Append(Asks(c), prev[c.at]))
    BY <1>2, <1>7, <2>1, <2>3, NextInOrder
  <2>5. d.asked = Asks(c) /\ d.at = prev[c.at]
    BY <1>7
  <2> HIDE DEF d, c
  <2>6. InOrder(Asks(d))
    BY <2>1, <2>4, <2>5 DEF Asks
  <2>7. QED BY <1>2, <1>8, <2>4, <2>5, <2>6, AsksAreInOrder
<1>12. d.reg = n - 1 /\ d.lost = FALSE
  BY <1>4
<1> HIDE DEF d, c
<1>13. \A i \in 1 .. n : calls'[i].reg = i - 1 /\ calls'[i].lost = FALSE /\ AsksInOrder(calls'[i])
  <2>1. TAKE i \in 1 .. n
  <2>2. CASE i = n
    BY <2>2, <1>10, <1>11, <1>12
  <2>3. CASE i # n
    BY <2>3, <1>10, CallFacts
  <2>4. QED BY <2>2, <2>3
<1>14. taken' \in Nat /\ halted' \in BOOLEAN /\ taken' = Len(calls')
  BY <1>1, <1>2, <1>10 DEF RmTypes
<1>15. QED BY <1>1, <1>10, <1>13, <1>14, CallStep

LEMMA DoneKeeps == ASSUME RmInv, Done PROVE RmInv'
<1> DEFINE n == Len(calls)
<1>1. /\ ~halted /\ calls # <<>> /\ calls' = SubSeq(calls, 1, n - 1) /\ taken' = taken - 1
      /\ UNCHANGED <<vector, last, prev, next, born, isIrq, made>> /\ halted' = halted
  BY DEF Done, LeaveCallback
<1>2. calls \in Seq(CallType) /\ taken = n /\ n \in Nat /\ n > 0
  BY <1>1, LenProperties, EmptySeq DEF RmInv, RmTypes, HandlersAsked, CallsApart
<1>3. calls' \in Seq(CallType) /\ Len(calls') = n - 1 /\ \A i \in 1 .. n - 1 : calls'[i] = calls[i]
  BY <1>1, <1>2, PopFacts
<1>4. \A i \in 1 .. Len(calls') :
         calls'[i].reg = i - 1 /\ calls'[i].lost = FALSE /\ AsksInOrder(calls'[i])
  <2>1. TAKE i \in 1 .. Len(calls')
  <2>2. i \in 1 .. Len(calls) /\ calls'[i] = calls[i]
    BY <1>2, <1>3
  <2>3. QED BY <2>2, CallFacts
<1>5. taken' \in Nat /\ halted' \in BOOLEAN /\ taken' = Len(calls')
  BY <1>1, <1>2, <1>3 DEF RmInv, RmTypes
<1>6. QED BY <1>1, <1>3, <1>4, <1>5, CallStep

LEMMA RmInvNext ==
    ASSUME RmInv, "newer" \notin RmOps, "nest" \notin RmOps, [RmNext]_rmVars
    PROVE  RmInv'
<1>1. CASE \E h \in RmHandlers : AddHandler(h) \/ RemoveHandler(h)
  BY <1>1, AddHandlerKeeps, RemoveHandlerKeeps
<1>2. CASE \E keep \in BOOLEAN : EnterCallback(keep)
  BY <1>2, EnterCallbackKeeps
<1>3. CASE Declined \/ Done
  BY <1>3, DeclinedKeeps, DoneKeeps
<1>4. CASE UNCHANGED rmVars
  BY <1>4, RmStands
<1>5. QED BY <1>1, <1>2, <1>3, <1>4 DEF RmNext

\* "If false, the next handler in the chain will be called" (realmode.h:211): while handlers are
\* destroyed in the order that they were made in and the host enters the callback only on a stack
\* of its own while it runs, every call asks the live handlers newest first, the callback is an
\* interrupt's exactly while one of them asks for that, the vector is the callback's exactly while
\* there are any, and nested calls share no registers and no stack.
THEOREM HandlersStayAsked ==
    "newer" \notin RmOps /\ "nest" \notin RmOps => (RmSpec => []HandlersAsked)
<1> SUFFICES ASSUME "newer" \notin RmOps, "nest" \notin RmOps PROVE RmSpec => []HandlersAsked
  OBVIOUS
<1>1. RmInv /\ [RmNext]_rmVars => RmInv'
  BY RmInvNext
<1>2. RmInv => HandlersAsked
  BY DEF RmInv
<1>3. QED BY RmInvInit, <1>1, <1>2, PTL DEF RmSpec

-----------------------------------------------------------------------------
(* GdbStops: the inductive invariant                                       *)

EntryType == [address : Addrs, opcode : {"op", "int3"}]
SavedType == [at : Addrs, trap : BOOLEAN, excused : Int]
InfoType == [signal : Benign, stepping : BOOLEAN, range : SUBSET Int, mask : {0, 1}, report : BOOLEAN]

GsTypes ==
    /\ mem \in [0 .. Iret -> {"op", "int3"}] /\ entries \in Seq(EntryType)
    /\ at \in 0 .. Iret /\ trap \in BOOLEAN /\ pending \in {Nothing, "trap", "breakpoint"}
    /\ saved \in Seq(SavedType) /\ Len(saved) <= 1 /\ stopped \in BOOLEAN
    /\ ti \in InfoType
    /\ current \in Benign /\ excused \in Int /\ missed \in BOOLEAN /\ stops \in Nat

\* The table holds an address once, with the code's own byte, and breakpoints apart.
TableKept ==
    /\ \A i, j \in 1 .. Len(entries) : entries[i].address = entries[j].address => i = j
    /\ \A i \in 1 .. Len(entries) : entries[i].opcode = Original[entries[i].address]
    /\ \A a \in Broken, r \in BOOLEAN : Following(a, r) \notin Broken
    /\ \A a \in 0 .. Iret : mem[a] = Original[a] \/ (a \in Broken /\ mem[a] = "int3")

MaskedAddrs == MaskOn + 1 .. MaskOff

\* A trap mask lasts while the program is in its scope, and nothing stops or traps there.
MaskHeld ==
    /\ saved = <<>> => at \in Addrs /\ ti.mask = IF at \in MaskedAddrs THEN 1 ELSE 0
    /\ saved # <<>> => at \in {IrqAt, Iret} /\ ti.mask = IF saved[1].at \in MaskedAddrs THEN 1 ELSE 0
    /\ ti.mask = 1 => ~stopped /\ (pending = Nothing => ~trap) /\ (saved # <<>> => ~saved[1].trap)

\* The trap flag is set for a step or to enable a breakpoint again.
TrapFlagMeant ==
    /\ stopped => pending = Nothing /\ current = Nothing
    /\ ~stopped => /\ ti.range \cap Broken = {}
                   /\ ti.signal = "trap" \/ current = "trap" => ti.stepping
                   /\ saved # <<>> /\ saved[1].trap => ti.stepping \/ saved[1].at \in Broken
    /\ running /\ trap => ti.stepping \/ at \in Broken
    /\ pending = "trap" /\ current = Nothing => ti.stepping \/ at \notin Broken

Disabled == {a \in Broken : mem[a] # "int3"}

\* While the program runs, a breakpoint that is disabled is the one where it goes on, one that a mask
\* has put the report of off, or the program is about to report.
DisabledMeant ==
    running => \A a \in Disabled :
        \/ a = at /\ excused = at /\ (trap \/ (ti.mask = 1 /\ ti.report))
        \/ a # at /\ ti.mask = 1 /\ ti.report /\ (a = IrqAt \/ (saved = <<>> /\ a \in MaskedAddrs /\ a < at))
        \/ saved = <<>> /\ at = MaskOff + 1

GsInv == GsTypes /\ TableKept /\ MaskHeld /\ TrapFlagMeant /\ DisabledMeant /\ BreakpointsHit

-----------------------------------------------------------------------------
(* GdbStops: the code and the table                                        *)

LEMMA FollowingFacts ==
    ASSUME NEW a \in Addrs, NEW r \in BOOLEAN
    PROVE  /\ Following(a, r) \in Addrs
           /\ a = MaskOff /\ ~r => Following(a, r) = IF a + 2 = Iret THEN 0 ELSE a + 2
           /\ a # MaskOff \/ r => Following(a, r) = IF a + 1 = Iret THEN 0 ELSE a + 1
<1>1. /\ a \in Int /\ 0 <= a /\ a <= LastAddr /\ LastAddr \in Int /\ MaskOff \in Int
      /\ MaskOff < LastAddr /\ Iret = LastAddr + 1
  BY StopsAssumption DEF Addrs, Iret
<1>2. ASSUME NEW n \in Int, 0 <= n, n <= Iret PROVE n % Iret = IF n = Iret THEN 0 ELSE n
  BY <1>1, <1>2
<1>3. CASE a = MaskOff /\ ~r
  <2>1. Following(a, r) = (a + 2) % Iret
    BY <1>3 DEF Following
  <2>2. (a + 2) % Iret = IF a + 2 = Iret THEN 0 ELSE a + 2
    BY <1>1, <1>2, <1>3
  <2>3. QED BY <1>1, <1>3, <2>1, <2>2 DEF Addrs
<1>4. CASE a # MaskOff \/ r
  <2>1. Following(a, r) = (a + 1) % Iret
    BY <1>4 DEF Following
  <2>2. (a + 1) % Iret = IF a + 1 = Iret THEN 0 ELSE a + 1
    BY <1>1, <1>2
  <2>3. QED BY <1>1, <1>4, <2>1, <2>2 DEF Addrs
<1>5. QED BY <1>3, <1>4

\* Where execution goes on after an instruction: into a mask's scope only from its constructor, and
\* never into the handler.
LEMMA ScopeFacts ==
    ASSUME NEW a \in Addrs, NEW r \in BOOLEAN
    PROVE  /\ Following(a, r) \in Addrs
           /\ a \in MaskedAddrs /\ a # MaskOff => Following(a, r) \in MaskedAddrs /\ a < Following(a, r)
           /\ a = MaskOn => Following(a, r) \in MaskedAddrs
           /\ a = MaskOff => Following(a, r) \notin MaskedAddrs /\ (r => Following(a, r) = MaskOff + 1)
           /\ a \notin MaskedAddrs /\ a # MaskOn => Following(a, r) \notin MaskedAddrs
<1>1. /\ a \in Int /\ 0 <= a /\ a <= LastAddr /\ LastAddr \in Int /\ MaskOff \in Int /\ MaskOn \in Int
      /\ 0 <= MaskOn /\ MaskOn < MaskOff /\ MaskOff < LastAddr /\ Iret = LastAddr + 1
  BY StopsAssumption DEF Addrs, Iret
<1>2. Following(a, r) \in Addrs /\ Following(a, r) \in Int
  BY FollowingFacts DEF Addrs
<1>3. a = MaskOff => Following(a, r) \notin MaskedAddrs /\ (r => Following(a, r) = MaskOff + 1)
  BY <1>1, FollowingFacts DEF MaskedAddrs
<1>4. a # MaskOff => Following(a, r) = IF a + 1 = Iret THEN 0 ELSE a + 1
  BY FollowingFacts
<1>5. QED BY <1>1, <1>2, <1>3, <1>4 DEF MaskedAddrs

LEMMA OriginalFacts ==
    /\ Original \in [0 .. Iret -> {"op", "int3"}]
    /\ \A a \in 0 .. Iret : Original[a] = "int3" <=> a = MaskOff + 1
    /\ MaskOff + 1 \in Addrs /\ Iret \notin Addrs /\ Addrs \subseteq 0 .. Iret
    /\ MaskOff + 1 # IrqAt /\ MaskOff + 1 \notin MaskedAddrs /\ IrqAt \notin MaskedAddrs
    /\ MaskOn \notin MaskedAddrs /\ IrqAt \in Addrs /\ IrqAt # MaskOn /\ IrqAt # MaskOff
    /\ MaskOff \in MaskedAddrs /\ MaskedAddrs \subseteq Addrs /\ Iret \in 0 .. Iret
BY StopsAssumption DEF Original, Addrs, Iret, MaskedAddrs

LEMMA EntryFacts ==
    ASSUME GsTypes, TableKept, NEW a \in Broken
    PROVE  /\ a \in Addrs /\ EntryOf(a) \in 1 .. Len(entries) /\ entries[EntryOf(a)].address = a
           /\ entries[EntryOf(a)].opcode = Original[a]
<1>1. /\ Len(entries) \in Nat /\ DOMAIN entries = 1 .. Len(entries)
      /\ \A i \in 1 .. Len(entries) : entries[i] \in EntryType
  BY LenProperties, ElementOfSeq DEF GsTypes
<1>2. PICK i \in 1 .. Len(entries) : entries[i].address = a
  BY <1>1 DEF Broken
<1>3. \A j \in DOMAIN entries : entries[j].address = a => j <= i
  BY <1>1, <1>2 DEF TableKept
<1>4. EntryOf(a) \in DOMAIN entries /\ entries[EntryOf(a)].address = a
  BY <1>1, <1>2, <1>3 DEF EntryOf
<1>5. a \in Addrs
  BY <1>1, <1>2 DEF EntryType
<1>6. QED BY <1>1, <1>4, <1>5 DEF TableKept

LEMMA EnableFacts ==
    ASSUME GsTypes, TableKept, NEW x
    PROVE  /\ EnableAllExcept(x) \in [0 .. Iret -> {"op", "int3"}]
           /\ \A a \in 0 .. Iret :
                 EnableAllExcept(x)[a] = IF a \in Broken /\ a # x THEN "int3" ELSE Original[a]
<1>1. DOMAIN mem = 0 .. Iret
  BY DEF GsTypes
<1>2. \A a \in 0 .. Iret : EnableAllExcept(x)[a] = IF a \in Broken /\ a # x THEN "int3" ELSE Original[a]
  BY <1>1, EntryFacts DEF EnableAllExcept, TableKept
<1>3. EnableAllExcept(x) \in [0 .. Iret -> {"op", "int3"}]
  <2>1. EnableAllExcept(x) = [a \in 0 .. Iret |-> EnableAllExcept(x)[a]]
    BY <1>1 DEF EnableAllExcept
  <2>2. \A a \in 0 .. Iret : EnableAllExcept(x)[a] \in {"op", "int3"}
    BY <1>2, OriginalFacts
  <2>3. QED BY <2>1, <2>2
<1>4. QED BY <1>2, <1>3

\* leave() puts every breakpoint back but the one where execution goes on, and a program that would
\* go on at the int 3 of its own goes on behind it.
LEMMA LeaveFacts ==
    ASSUME GsTypes, TableKept, NEW a \in 0 .. Iret, Leave(a)
    PROVE  /\ mem' \in [0 .. Iret -> {"op", "int3"}]
           /\ \A b \in 0 .. Iret : mem'[b] = IF b \in Broken /\ b # a THEN "int3" ELSE Original[b]
           /\ at' = a \/ (a = MaskOff + 1 /\ at' = Following(a, FALSE) /\ a \notin Broken)
<1>1. /\ mem' = EnableAllExcept(a)
      /\ at' = IF a \notin Broken /\ mem'[a] = "int3" THEN Following(a, FALSE) ELSE a
  BY DEF Leave
<1>2. mem'[a] = Original[a]
  BY <1>1, EnableFacts
<1>3. QED BY <1>1, <1>2, EnableFacts, OriginalFacts

LEMMA GsInvInit == StopsInit => GsInv
<1> SUFFICES ASSUME StopsInit PROVE GsInv
  OBVIOUS
<1>1. /\ mem = Original /\ entries = <<>> /\ at = 0 /\ trap = FALSE /\ pending = Nothing /\ saved = <<>>
      /\ stopped = TRUE /\ current = Nothing /\ excused = -1 /\ missed = FALSE /\ stops = 0
      /\ ti = [signal |-> "breakpoint", stepping |-> FALSE, range |-> {}, mask |-> 0, report |-> FALSE]
  BY DEF StopsInit
<1>2. GsTypes
  <2>1. trap \in BOOLEAN /\ stopped \in BOOLEAN /\ missed \in BOOLEAN
    BY <1>1, Zenon
  <2>2. ti \in InfoType
    BY <1>1 DEF InfoType, Benign
  <2>3. entries \in Seq(EntryType) /\ saved \in Seq(SavedType) /\ Len(saved) <= 1
    BY <1>1
  <2>4. at \in 0 .. Iret /\ mem \in [0 .. Iret -> {"op", "int3"}]
    BY <1>1, OriginalFacts DEF Addrs, Iret
  <2>5. QED BY <1>1, <2>1, <2>2, <2>3, <2>4 DEF GsTypes, Benign, Nothing
<1>3. Broken = {} /\ Len(entries) = 0 /\ DOMAIN entries = {} /\ ~running
  BY <1>1 DEF Broken, running
<1>4. TableKept
  BY <1>1, <1>3 DEF TableKept
<1>5. MaskHeld
  <2>1. at \in Addrs /\ at \notin MaskedAddrs
    BY <1>1, StopsAssumption DEF Addrs, MaskedAddrs
  <2>2. QED BY <1>1, <2>1 DEF MaskHeld
<1>6. TrapFlagMeant /\ DisabledMeant
  BY <1>1, <1>3 DEF TrapFlagMeant, DisabledMeant, Nothing
<1>7. BreakpointsHit
  BY <1>1, <1>3 DEF BreakpointsHit, CodeKept
<1>8. QED BY <1>2, <1>4, <1>5, <1>6, <1>7 DEF GsInv

LEMMA GsStands == ASSUME GsInv, UNCHANGED gsVars PROVE GsInv'
<1>1. /\ mem' = mem /\ entries' = entries /\ at' = at /\ trap' = trap /\ pending' = pending
      /\ saved' = saved /\ stopped' = stopped /\ ti' = ti /\ current' = current
      /\ excused' = excused /\ missed' = missed /\ stops' = stops
  BY DEF gsVars
<1>2. Broken' = Broken /\ Disabled' = Disabled /\ running' = running
  BY <1>1 DEF Broken, Disabled, running
<1>3. GsTypes'
  BY <1>1 DEF GsInv, GsTypes
<1>4. TableKept'
  BY <1>1, <1>2 DEF GsInv, TableKept
<1>5. MaskHeld' /\ TrapFlagMeant' /\ DisabledMeant'
  BY <1>1, <1>2 DEF GsInv, MaskHeld, TrapFlagMeant, DisabledMeant
<1>6. BreakpointsHit'
  BY <1>1, <1>2 DEF GsInv, BreakpointsHit, CodeKept
<1>7. QED BY <1>3, <1>4, <1>5, <1>6 DEF GsInv

\* CodeKept is part of what is kept of the table.
LEMMA TableIsCode == GsTypes /\ TableKept => CodeKept
<1> SUFFICES ASSUME GsTypes, TableKept PROVE CodeKept
  OBVIOUS
<1>1. DOMAIN mem = 0 .. Iret /\ DOMAIN entries = 1 .. Len(entries)
  BY LenProperties DEF GsTypes
<1>2. QED BY <1>1 DEF TableKept, CodeKept

LEMMA TableIsCodeNext == (GsTypes /\ TableKept => CodeKept)'
BY TableIsCode, PTL

\* What GDB does to the table while the program is stopped leaves the rest alone.
LEMMA StoppedStep ==
    ASSUME GsInv, stopped, UNCHANGED <<at, trap, pending, saved, stopped, ti, current, excused, missed, stops>>,
           mem' \in [0 .. Iret -> {"op", "int3"}], entries' \in Seq(EntryType), TableKept'
    PROVE  GsInv'
<1>1. /\ at' = at /\ trap' = trap /\ pending' = pending /\ saved' = saved /\ stopped' = stopped
      /\ ti' = ti /\ current' = current /\ excused' = excused /\ missed' = missed /\ stops' = stops
  OBVIOUS
<1>2. GsTypes'
  BY <1>1 DEF GsInv, GsTypes
<1>3. pending = Nothing /\ current = Nothing /\ ~running /\ ~running'
  BY <1>1 DEF GsInv, TrapFlagMeant, running
<1>4. MaskHeld'
  BY <1>1 DEF GsInv, MaskHeld
<1>5. TrapFlagMeant' /\ DisabledMeant'
  BY <1>1, <1>3 DEF TrapFlagMeant, DisabledMeant, Nothing
<1>6. BreakpointsHit'
  BY <1>1, <1>2, TableIsCodeNext DEF GsInv, BreakpointsHit
<1>7. QED BY <1>2, <1>4, <1>5, <1>6 DEF GsInv

LEMMA InsertsKeeps ==
    ASSUME GsInv, "quiet" \notin StopsOps, "twice" \notin StopsOps, NEW a \in Addrs, Inserts(a)
    PROVE  GsInv'
<1>1. /\ stopped /\ entries' = Append(entries, [address |-> a, opcode |-> mem[a]]) /\ a \notin Broken
      /\ Reported(Broken \cup {a}) /\ mem' = mem
      /\ UNCHANGED <<at, trap, pending, saved, stopped, ti, current, excused, missed, stops>>
  BY DEF Inserts, InsertBreakpoint
<1>2. GsTypes /\ TableKept /\ a \in 0 .. Iret
  BY OriginalFacts DEF GsInv
<1> DEFINE e == [address |-> a, opcode |-> mem[a]]
<1>3. e \in EntryType /\ mem[a] = Original[a]
  BY <1>1, <1>2 DEF EntryType, GsTypes, TableKept
<1>4. e.address = a /\ e.opcode = Original[a]
  BY <1>3
<1> HIDE DEF e
<1>5. /\ entries' \in Seq(EntryType) /\ Len(entries) \in Nat /\ Len(entries') = Len(entries) + 1
      /\ entries'[Len(entries) + 1] = e /\ \A i \in 1 .. Len(entries) : entries'[i] = entries[i]
      /\ DOMAIN entries = 1 .. Len(entries) /\ DOMAIN entries' = 1 .. Len(entries')
  <2>1. entries' = Append(entries, e) /\ entries \in Seq(EntryType)
    BY <1>1, <1>2 DEF e, GsTypes
  <2>2. QED BY <1>3, <2>1, AppendProperties, LenProperties
<1>6. Broken' = Broken \cup {a}
  BY <1>4, <1>5 DEF Broken
<1>7. \A i \in 1 .. Len(entries) : entries[i].address \in Broken
  BY <1>5 DEF Broken
<1>8. TableKept'
  <2>1. \A i \in 1 .. Len(entries') : (i \in 1 .. Len(entries) /\ entries'[i] = entries[i])
                                     \/ (i = Len(entries) + 1 /\ entries'[i] = e)
    BY <1>5
  <2>2. \A i, j \in 1 .. Len(entries') : entries'[i].address = entries'[j].address => i = j
    BY <1>1, <1>2, <1>4, <1>7, <2>1 DEF TableKept
  <2>3. \A i \in 1 .. Len(entries') : entries'[i].opcode = Original[entries'[i].address]
    BY <1>2, <1>4, <2>1 DEF TableKept
  <2>4. \A b \in Broken', r \in BOOLEAN : Following(b, r) \notin Broken'
    BY <1>1, <1>6 DEF Reported
  <2>5. \A b \in 0 .. Iret : mem'[b] = Original[b] \/ (b \in Broken' /\ mem'[b] = "int3")
    BY <1>1, <1>2, <1>6 DEF TableKept
  <2>6. QED BY <2>2, <2>3, <2>4, <2>5 DEF TableKept
<1>9. QED BY <1>1, <1>2, <1>5, <1>8, StoppedStep DEF GsTypes

LEMMA RemovesKeeps == ASSUME GsInv, NEW a \in Addrs, Removes(a) PROVE GsInv'
<1> DEFINE n == Len(entries)
<1> DEFINE x == EntryOf(a)
<1>1. /\ stopped /\ a \in Broken /\ entries' = SubSeq([entries EXCEPT ![x] = entries[n]], 1, n - 1)
      /\ mem' = [mem EXCEPT ![a] = entries[x].opcode]
      /\ UNCHANGED <<at, trap, pending, saved, stopped, ti, current, excused, missed, stops>>
  BY DEF Removes, EraseBreakpoint, EraseEntry
<1>2. GsTypes /\ TableKept /\ a \in 0 .. Iret /\ entries \in Seq(EntryType)
  BY OriginalFacts DEF GsInv, GsTypes
<1>3. x \in 1 .. n /\ entries[x].address = a /\ entries[x].opcode = Original[a]
  BY <1>1, <1>2, EntryFacts
<1>4. n \in Nat /\ DOMAIN entries = 1 .. n /\ n \in 1 .. n /\ entries[n] \in EntryType
  BY <1>2, <1>3, LenProperties, ElementOfSeq
<1> DEFINE s == [entries EXCEPT ![x] = entries[n]]
<1>5. /\ s \in Seq(EntryType) /\ Len(s) = n /\ \A i \in 1 .. n : s[i] = IF i = x THEN entries[n] ELSE entries[i]
  BY <1>2, <1>3, <1>4, ExceptSeq
<1>6. entries' = SubSeq(s, 1, Len(s) - 1)
  BY <1>1, <1>5
<1> HIDE DEF s, x, n
<1>7. /\ entries' \in Seq(EntryType) /\ Len(entries') = n - 1 /\ DOMAIN entries' = 1 .. n - 1
      /\ \A i \in 1 .. n - 1 : entries'[i] = IF i = x THEN entries[n] ELSE entries[i]
  BY <1>4, <1>5, <1>6, PopFacts, LenProperties
<1>8. Broken' = Broken \ {a}
  <2>1. ASSUME NEW b \in Broken' PROVE b \in Broken \ {a}
    <3>1. PICK i \in 1 .. n - 1 : b = entries'[i].address
      BY <1>7 DEF Broken
    <3>2. CASE i = x
      BY <3>1, <3>2, <1>2, <1>3, <1>4, <1>7 DEF Broken, TableKept
    <3>3. CASE i # x
      <4>1. entries'[i] = entries[i] /\ i \in 1 .. n /\ x \in 1 .. n
        BY <3>1, <3>3, <1>3, <1>4, <1>7
      <4>2. b = entries[i].address /\ b # a
        BY <3>1, <3>3, <4>1, <1>2, <1>3 DEF TableKept, n
      <4>3. QED BY <4>1, <4>2, <1>4 DEF Broken
    <3>4. QED BY <3>2, <3>3
  <2>2. ASSUME NEW b \in Broken \ {a} PROVE b \in Broken'
    <3>1. PICK i \in 1 .. n : b = entries[i].address
      BY <1>4 DEF Broken
    <3>2. i # x
      BY <3>1, <1>3
    <3>3. CASE i = n
      <4>1. x \in 1 .. n - 1 /\ entries'[x] = entries[n]
        BY <3>2, <3>3, <1>3, <1>4, <1>7
      <4>2. QED BY <3>1, <3>3, <4>1, <1>7 DEF Broken
    <3>4. CASE i # n
      <4>1. i \in 1 .. n - 1 /\ entries'[i] = entries[i]
        <5>1. i \in 1 .. n - 1
          BY <3>4, <1>4
        <5>2. QED BY <5>1, <3>2, <1>7
      <4>2. QED BY <3>1, <4>1, <1>7 DEF Broken
    <3>5. QED BY <3>3, <3>4
  <2>3. QED BY <2>1, <2>2
<1>9. /\ mem' \in [0 .. Iret -> {"op", "int3"}] /\ mem'[a] = Original[a]
      /\ \A b \in 0 .. Iret : b # a => mem'[b] = mem[b]
  BY <1>1, <1>2, <1>3, OriginalFacts DEF GsTypes, x
<1>10. TableKept'
  <2>1. \A i, j \in 1 .. Len(entries') : entries'[i].address = entries'[j].address => i = j
    BY <1>2, <1>4, <1>7 DEF TableKept
  <2>2. \A i \in 1 .. Len(entries') : entries'[i].opcode = Original[entries'[i].address]
    BY <1>2, <1>4, <1>7 DEF TableKept
  <2>3. \A b \in Broken', r \in BOOLEAN : Following(b, r) \notin Broken'
    BY <1>2, <1>8 DEF TableKept
  <2>4. \A b \in 0 .. Iret : mem'[b] = Original[b] \/ (b \in Broken' /\ mem'[b] = "int3")
    BY <1>2, <1>8, <1>9 DEF TableKept
  <2>5. QED BY <2>1, <2>2, <2>3, <2>4 DEF TableKept
<1>11. QED BY <1>1, <1>7, <1>9, <1>10, StoppedStep

LEMMA ConnectsKeeps == ASSUME GsInv, Connects PROVE GsInv'
<1>1. /\ stopped /\ entries' = <<>>
      /\ mem' = [a \in DOMAIN mem |-> IF a \in Broken THEN entries[EntryOf(a)].opcode ELSE mem[a]]
      /\ UNCHANGED <<at, trap, pending, saved, stopped, ti, current, excused, missed, stops>>
  BY DEF Connects, ClearBreakpoints
<1>2. GsTypes /\ TableKept /\ DOMAIN mem = 0 .. Iret
  BY DEF GsInv, GsTypes
<1>3. \A a \in 0 .. Iret : mem'[a] = Original[a]
  BY <1>1, <1>2, EntryFacts DEF TableKept
<1>4. mem' \in [0 .. Iret -> {"op", "int3"}]
  <2>1. mem' = [a \in 0 .. Iret |-> mem'[a]]
    BY <1>1, <1>2
  <2>2. QED BY <2>1, <1>3, OriginalFacts
<1>5. entries' \in Seq(EntryType) /\ Len(entries') = 0 /\ Broken' = {}
  BY <1>1 DEF Broken
<1>6. TableKept'
  BY <1>3, <1>5 DEF TableKept
<1>7. QED BY <1>1, <1>4, <1>5, <1>6, StoppedStep

-----------------------------------------------------------------------------
(* GdbStops: exceptions and the program                                    *)

\* leave() at the program's own position: the table is kept, at most the breakpoint there is
\* disabled, and a jump is over the int 3 after the mask's scope.
LEMMA LeaveKeeps ==
    ASSUME GsTypes, TableKept, MaskHeld, entries' = entries, Leave(at)
    PROVE  /\ mem' \in [0 .. Iret -> {"op", "int3"}] /\ TableKept' /\ Broken' = Broken
           /\ at' \in 0 .. Iret /\ Disabled' \subseteq Broken \cap {at}
           /\ at' = at \/ (/\ saved = <<>> /\ at \in Addrs /\ at \notin Broken /\ at \notin MaskedAddrs
                           /\ at' \in Addrs /\ at' \notin MaskedAddrs)
<1>1. at \in 0 .. Iret /\ Broken' = Broken
  BY DEF GsTypes, Broken
<1>2. /\ mem' \in [0 .. Iret -> {"op", "int3"}]
      /\ \A b \in 0 .. Iret : mem'[b] = IF b \in Broken /\ b # at THEN "int3" ELSE Original[b]
      /\ at' = at \/ (at = MaskOff + 1 /\ at' = Following(at, FALSE) /\ at \notin Broken)
  BY <1>1, LeaveFacts
<1>3. TableKept'
  BY <1>1, <1>2 DEF TableKept
<1>4. Broken \subseteq 0 .. Iret
  BY EntryFacts, OriginalFacts
<1>5. Disabled' \subseteq Broken \cap {at}
  BY <1>1, <1>2, <1>4 DEF Disabled
<1>6. CASE at = MaskOff + 1 /\ at' = Following(at, FALSE) /\ at \notin Broken
  <2>1. saved = <<>> /\ at \in Addrs /\ at \notin MaskedAddrs /\ at # MaskOn
    BY <1>6, OriginalFacts, StopsAssumption DEF MaskHeld
  <2>2. at' \in Addrs /\ at' \notin MaskedAddrs
    BY <1>6, <2>1, ScopeFacts
  <2>3. QED BY <1>1, <1>2, <1>3, <1>5, <1>6, <2>1, <2>2, OriginalFacts
<1>7. CASE at' = at
  BY <1>1, <1>2, <1>3, <1>5, <1>7
<1>8. QED BY <1>2, <1>6, <1>7

LEMMA ResumeKeeps ==
    ASSUME GsInv, "quiet" \notin StopsOps, NEW steps \in BOOLEAN, NEW range \in {{}, {2, 3}},
           Resume(steps, range)
    PROVE  GsInv'
<1>1. /\ stopped /\ stopped' = FALSE /\ range \cap Broken = {}
      /\ steps \/ \A i \in DOMAIN saved : ~saved[i].trap
      /\ ti' = [ti EXCEPT !.signal = Nothing, !.stepping = steps, !.range = range]
      /\ Leave(at) /\ trap' = (steps \/ at \in Broken) /\ excused' = at
      /\ entries' = entries /\ pending' = pending /\ saved' = saved /\ current' = current
      /\ missed' = missed /\ stops' = stops
  BY DEF Resume, TrapAfter
<1>2. GsTypes /\ TableKept /\ MaskHeld
  BY DEF GsInv
<1>3. /\ mem' \in [0 .. Iret -> {"op", "int3"}] /\ TableKept' /\ Broken' = Broken
      /\ at' \in 0 .. Iret /\ Disabled' \subseteq Broken \cap {at}
      /\ at' = at \/ (/\ saved = <<>> /\ at \in Addrs /\ at \notin Broken /\ at \notin MaskedAddrs
                      /\ at' \in Addrs /\ at' \notin MaskedAddrs)
  BY <1>1, <1>2, LeaveKeeps
<1>4. /\ ti \in InfoType /\ ti' \in InfoType /\ ti'.signal = Nothing /\ ti'.stepping = steps
      /\ ti'.range = range /\ ti'.mask = ti.mask /\ ti.mask = 0
  <2>1. ti \in InfoType /\ Nothing \in Benign /\ range \in SUBSET Int /\ ti.mask = 0
    BY <1>1, <1>2 DEF GsTypes, Benign, MaskHeld, InfoType
  <2>2. QED BY <1>1, <2>1 DEF InfoType
<1>5. GsTypes'
  <2>1. trap' \in BOOLEAN /\ stopped' \in BOOLEAN /\ missed' \in BOOLEAN
    BY <1>1, <1>2, Zenon DEF GsTypes
  <2>2. excused' \in Int
    BY <1>1, <1>2, StopsAssumption DEF GsTypes, Iret
  <2>3. QED BY <1>1, <1>2, <1>3, <1>4, <2>1, <2>2 DEF GsTypes
<1>6. MaskHeld'
  BY <1>1, <1>2, <1>3, <1>4 DEF MaskHeld
<1>7. pending = Nothing /\ current = Nothing
  BY <1>1 DEF GsInv, TrapFlagMeant
<1>8. TrapFlagMeant'
  <2>1. ti'.range \cap Broken' = {} /\ ti'.signal # "trap" /\ current' # "trap" /\ pending' # "trap"
    BY <1>1, <1>3, <1>4, <1>7 DEF Nothing
  <2>2. saved' # <<>> /\ saved'[1].trap => steps
    <3>1. saved # <<>> => 1 \in DOMAIN saved
      BY <1>2, EmptySeq, LenProperties DEF GsTypes
    <3>2. QED BY <1>1, <3>1
  <2>3. trap' => steps \/ at' \in Broken'
    BY <1>1, <1>3
  <2>4. QED BY <1>1, <1>4, <2>1, <2>2, <2>3 DEF TrapFlagMeant
<1>9. DisabledMeant'
  <2>1. \A a \in Disabled' : a = at' /\ excused' = at' /\ trap'
    BY <1>1, <1>3
  <2>2. QED BY <2>1 DEF DisabledMeant
<1>10. BreakpointsHit'
  BY <1>1, <1>3, <1>5, TableIsCodeNext DEF GsInv, BreakpointsHit
<1>11. QED BY <1>3, <1>5, <1>6, <1>8, <1>9, <1>10 DEF GsInv

LEMMA BreakKeeps == ASSUME GsInv, Break PROVE GsInv'
<1>1. /\ running /\ saved = <<>> /\ current' = "packet" /\ pending' = "trap"
      /\ mem' = mem /\ entries' = entries /\ at' = at /\ trap' = trap /\ saved' = saved
      /\ stopped' = stopped /\ ti' = ti /\ excused' = excused /\ missed' = missed /\ stops' = stops
  BY DEF Break
<1>2. Broken' = Broken /\ ~running' /\ ~stopped /\ ~stopped' /\ pending = Nothing
  BY <1>1 DEF Broken, running, Nothing
<1>3. GsTypes'
  BY <1>1 DEF GsInv, GsTypes, Benign
<1>4. TableKept'
  BY <1>1, <1>2 DEF GsInv, TableKept
<1>5. MaskHeld'
  BY <1>1, <1>2 DEF GsInv, MaskHeld, Nothing
<1>6. TrapFlagMeant' /\ DisabledMeant'
  BY <1>1, <1>2 DEF GsInv, TrapFlagMeant, DisabledMeant, Nothing
<1>7. BreakpointsHit'
  BY <1>1, <1>2 DEF GsInv, BreakpointsHit, CodeKept
<1>8. QED BY <1>3, <1>4, <1>5, <1>6, <1>7 DEF GsInv

\* A quiet exception never is at a breakpoint, and one that is reported as a trap is a step's.
LEMMA SignalFacts ==
    ASSUME GsInv, pending # Nothing
    PROVE  /\ SignalOf(pending) \in Benign
           /\ SignalOf(pending) = Nothing => at \notin Broken
           /\ SignalOf(pending) = "trap" => ti.stepping
<1>1. /\ pending \in {"trap", "breakpoint"} /\ current \in Benign /\ ti.signal \in Benign /\ ~stopped
      /\ ti.range \cap Broken = {} /\ (ti.signal = "trap" \/ current = "trap" => ti.stepping)
      /\ (pending = "trap" /\ current = Nothing => ti.stepping \/ at \notin Broken)
  BY DEF GsInv, GsTypes, TrapFlagMeant, InfoType
<1> DEFINE signal == IF current = "packet" /\ ti.signal # Nothing THEN ti.signal
                     ELSE IF current # Nothing THEN current ELSE pending
<1>2. /\ signal \in Benign \ {Nothing} /\ (signal = "trap" /\ ~ti.stepping => at \notin Broken)
  BY <1>1 DEF Benign, Nothing
<1>3. SignalOf(pending) = IF signal = "trap" /\ (~ti.stepping \/ at \in ti.range) THEN Nothing ELSE signal
  BY DEF SignalOf
<1> HIDE DEF signal
<1>4. QED BY <1>1, <1>2, <1>3 DEF Benign, Nothing

LEMMA HandleExceptionKeeps == ASSUME GsInv, HandleException PROVE GsInv'
<1> DEFINE signal == SignalOf(pending)
<1>1. /\ pending # Nothing /\ pending' = Nothing /\ current' = Nothing
      /\ entries' = entries /\ saved' = saved /\ missed' = missed
  BY DEF HandleException
<1>2. GsTypes /\ TableKept /\ MaskHeld /\ ~stopped /\ ti \in InfoType /\ BreakpointsHit
  BY <1>1 DEF GsInv, GsTypes, TrapFlagMeant
<1>3. signal \in Benign /\ (signal = Nothing => at \notin Broken) /\ (signal = "trap" => ti.stepping)
  BY <1>1, SignalFacts
<1>4. /\ ti.range \cap Broken = {} /\ Broken' = Broken
      /\ saved # <<>> /\ saved[1].trap => ti.stepping \/ saved[1].at \in Broken
  BY <1>1, <1>2 DEF GsInv, TrapFlagMeant, Broken
<1> HIDE DEF signal
<1>5. CASE /\ ti.mask > 0
           /\ ti' = [ti EXCEPT !.signal = signal, !.report = TRUE]
           /\ Leave(at) /\ trap' = FALSE /\ excused' = at /\ stopped' = stopped /\ stops' = stops
  <2>1. ti.mask = 1
    BY <1>2, <1>5 DEF InfoType
  <2>2. /\ mem' \in [0 .. Iret -> {"op", "int3"}] /\ TableKept'
        /\ Disabled' \subseteq Broken \cap {at} /\ at' = at
    <3>1. at # MaskOff + 1 \/ saved # <<>>
      BY <1>2, <2>1, OriginalFacts DEF MaskHeld
    <3>2. saved = <<>> => at \in MaskedAddrs
      BY <1>2, <2>1 DEF MaskHeld
    <3>3. QED BY <1>1, <1>2, <1>5, <3>2, LeaveKeeps
  <2>3. /\ ti' \in InfoType /\ ti'.signal = signal /\ ti'.report = TRUE /\ ti'.stepping = ti.stepping
        /\ ti'.range = ti.range /\ ti'.mask = 1
    BY <1>2, <1>3, <1>5, <2>1 DEF InfoType
  <2>4. GsTypes'
    <3>1. trap' \in BOOLEAN /\ stopped' \in BOOLEAN /\ missed' \in BOOLEAN
      BY <1>1, <1>2, <1>5, Zenon DEF GsTypes
    <3>2. excused' \in Int
      BY <1>2, <1>5, StopsAssumption DEF GsTypes, Iret
    <3>3. QED BY <1>1, <1>2, <1>5, <2>2, <2>3, <3>1, <3>2 DEF GsTypes, Benign
  <2>5. MaskHeld'
    BY <1>1, <1>2, <1>5, <2>1, <2>2, <2>3 DEF MaskHeld
  <2>6. TrapFlagMeant'
    BY <1>1, <1>2, <1>3, <1>4, <1>5, <2>3 DEF TrapFlagMeant, Nothing
  <2>7. DisabledMeant'
    BY <1>5, <2>2, <2>3 DEF DisabledMeant
  <2>8. BreakpointsHit'
    BY <1>1, <1>2, <2>2, <2>4, TableIsCodeNext DEF BreakpointsHit
  <2>9. QED BY <2>2, <2>4, <2>5, <2>6, <2>7, <2>8 DEF GsInv
<1>6. CASE /\ ~(ti.mask > 0) /\ signal = Nothing
           /\ ti' = [ti EXCEPT !.signal = Nothing, !.mask = 0]
           /\ Leave(at) /\ trap' = TrapAfter(at, ti.stepping)
           /\ stopped' = stopped /\ stops' = stops /\ excused' = excused
  <2>1. ti.mask = 0 /\ at \notin Broken
    BY <1>2, <1>3, <1>6 DEF InfoType
  <2>2. /\ mem' \in [0 .. Iret -> {"op", "int3"}] /\ TableKept'
        /\ at' \in 0 .. Iret /\ Disabled' = {}
        /\ at' = at \/ (/\ saved = <<>> /\ at \in Addrs /\ at \notin MaskedAddrs
                        /\ at' \in Addrs /\ at' \notin MaskedAddrs)
    BY <1>1, <1>2, <1>6, <2>1, LeaveKeeps
  <2>3. /\ ti' \in InfoType /\ ti'.signal = Nothing /\ ti'.stepping = ti.stepping
        /\ ti'.range = ti.range /\ ti'.mask = 0
    BY <1>2, <1>6, <2>1 DEF InfoType, Benign
  <2>4. trap' = (ti.stepping \/ at \in Broken)
    BY <1>6 DEF TrapAfter
  <2>5. GsTypes'
    <3>1. trap' \in BOOLEAN /\ stopped' \in BOOLEAN /\ missed' \in BOOLEAN
      BY <1>1, <1>2, <1>6, <2>4, Zenon DEF GsTypes
    <3>2. QED BY <1>1, <1>2, <1>6, <2>2, <2>3, <3>1 DEF GsTypes, Benign
  <2>6. MaskHeld'
    BY <1>1, <1>2, <1>6, <2>1, <2>2, <2>3 DEF MaskHeld
  <2>7. TrapFlagMeant'
    BY <1>1, <1>2, <1>4, <1>6, <2>1, <2>3, <2>4 DEF TrapFlagMeant, Nothing
  <2>8. DisabledMeant'
    BY <2>2 DEF DisabledMeant
  <2>9. BreakpointsHit'
    BY <1>1, <1>2, <2>2, <2>5, TableIsCodeNext DEF BreakpointsHit
  <2>10. QED BY <2>2, <2>5, <2>6, <2>7, <2>8, <2>9 DEF GsInv
<1>7. CASE /\ ~(ti.mask > 0)
           /\ stops' = stops + 1 /\ stopped' = TRUE
           /\ ti' = [ti EXCEPT !.signal = signal, !.mask = 0, !.report = FALSE]
           /\ mem' = mem /\ at' = at /\ trap' = trap /\ excused' = excused
  <2>1. ti' \in InfoType /\ ti'.mask = 0 /\ ti.mask = 0
    <3>2. ti.mask = 0
      BY <1>2, <1>7 DEF InfoType
    <3> DEFINE c == [ti EXCEPT !.signal = signal]
    <3>3. c \in InfoType
      BY <1>2, <1>3 DEF InfoType
    <3> HIDE DEF c
    <3>4. PICK d : d = [c EXCEPT !.mask = 0]
      OBVIOUS
    <3>5. d \in InfoType /\ d.mask = 0
      BY <3>3, <3>4 DEF InfoType
    <3>6. ti' = [d EXCEPT !.report = FALSE]
      BY <1>7, <1>2, <3>4 DEF InfoType, c
    <3>7. QED BY <3>2, <3>5, <3>6 DEF InfoType
  <2>2. GsTypes'
    BY <1>1, <1>2, <1>7, <2>1 DEF GsTypes, Benign
  <2>3. TableKept'
    BY <1>1, <1>2, <1>4, <1>7 DEF TableKept
  <2>4. MaskHeld'
    BY <1>1, <1>2, <1>7, <2>1 DEF MaskHeld
  <2>5. TrapFlagMeant' /\ DisabledMeant'
    BY <1>1, <1>7 DEF TrapFlagMeant, DisabledMeant, running, Nothing
  <2>6. BreakpointsHit'
    BY <1>1, <1>2, <2>2, <2>3, TableIsCodeNext DEF BreakpointsHit
  <2>7. QED BY <2>2, <2>3, <2>4, <2>5, <2>6 DEF GsInv
<1>8. QED BY <1>3, <1>5, <1>6, <1>7 DEF HandleException, signal

LEMMA InterruptKeeps == ASSUME GsInv, "irq" \notin StopsOps, Interrupt PROVE GsInv'
<1>1. /\ running /\ saved = <<>> /\ saved' = <<[at |-> at, trap |-> trap, excused |-> excused]>>
      /\ \A a \in Broken : mem[a] = "int3"
      /\ at' = IrqAt /\ trap' = FALSE /\ excused' = -1
      /\ mem' = mem /\ entries' = entries /\ pending' = pending /\ stopped' = stopped /\ ti' = ti
      /\ current' = current /\ missed' = missed /\ stops' = stops
  BY DEF Interrupt
<1>2. GsTypes /\ TableKept /\ MaskHeld /\ ~stopped /\ pending = Nothing /\ Broken' = Broken
  BY <1>1 DEF GsInv, running, Broken
<1>3. /\ at \in Addrs /\ (ti.mask = IF at \in MaskedAddrs THEN 1 ELSE 0) /\ (ti.mask = 1 => ~trap)
      /\ (trap => ti.stepping \/ at \in Broken)
  BY <1>1, <1>2 DEF GsInv, MaskHeld, TrapFlagMeant
<1> DEFINE s == [at |-> at, trap |-> trap, excused |-> excused]
<1>4. s \in SavedType /\ s.at = at /\ s.trap = trap
  <2>1. trap \in BOOLEAN /\ excused \in Int
    BY <1>2 DEF GsTypes
  <2>2. QED BY <1>3, <2>1, Zenon DEF SavedType
<1>5. saved' \in Seq(SavedType) /\ Len(saved') = 1 /\ saved'[1] = s /\ saved' # <<>>
  <2> HIDE DEF s
  <2>1. saved' = <<s>>
    BY <1>1 DEF s
  <2>2. QED BY <1>4, <2>1
<1> HIDE DEF s
<1>6. GsTypes'
  <2>1. trap' \in BOOLEAN /\ stopped' \in BOOLEAN /\ missed' \in BOOLEAN
    BY <1>1, <1>2, Zenon DEF GsTypes
  <2>2. QED BY <1>1, <1>2, <1>5, <2>1, OriginalFacts DEF GsTypes
<1>7. TableKept'
  BY <1>1, <1>2 DEF TableKept
<1>8. MaskHeld'
  BY <1>1, <1>2, <1>3, <1>4, <1>5 DEF MaskHeld
<1>9. TrapFlagMeant'
  BY <1>1, <1>2, <1>3, <1>4, <1>5 DEF GsInv, TrapFlagMeant, Nothing
<1>10. DisabledMeant'
  BY <1>1, <1>2 DEF DisabledMeant, Disabled
<1>11. BreakpointsHit'
  BY <1>1, <1>6, <1>7, TableIsCodeNext DEF GsInv, BreakpointsHit
<1>12. QED BY <1>6, <1>7, <1>8, <1>9, <1>10, <1>11 DEF GsInv

LEMMA ReturnKeeps == ASSUME GsInv, Return PROVE GsInv'
<1>1. /\ running /\ at = Iret /\ saved' = <<>>
      /\ at' = saved[1].at /\ trap' = saved[1].trap /\ excused' = saved[1].excused
      /\ pending' = (IF trap THEN "trap" ELSE Nothing)
      /\ mem' = mem /\ entries' = entries /\ stopped' = stopped /\ ti' = ti /\ current' = current
      /\ missed' = missed /\ stops' = stops
  BY DEF Return
<1>2. GsTypes /\ TableKept /\ MaskHeld /\ ~stopped /\ pending = Nothing /\ Broken' = Broken
  BY <1>1 DEF GsInv, running, Broken
<1>3. saved # <<>> /\ Len(saved) = 1 /\ saved[1] \in SavedType
  <2>1. saved # <<>>
    BY <1>1, <1>2, OriginalFacts DEF MaskHeld
  <2>2. saved \in Seq(SavedType) /\ Len(saved) \in Nat /\ Len(saved) <= 1 /\ Len(saved) # 0
    BY <1>2, <2>1, EmptySeq, LenProperties DEF GsTypes
  <2>3. Len(saved) = 1
    <3> DEFINE l == Len(saved)
    <3>1. l \in Nat /\ l <= 1 /\ l # 0
      BY <2>2
    <3> HIDE DEF l
    <3>2. l = 1
      BY <3>1
    <3>3. QED BY <3>2 DEF l
  <2>4. QED BY <2>1, <2>2, <2>3, ElementOfSeq
<1>4. Iret \notin Broken
  BY <1>2, EntryFacts, OriginalFacts
<1>5. trap => ti.stepping
  BY <1>1, <1>4 DEF GsInv, TrapFlagMeant
<1>6. /\ at' \in Addrs /\ (ti.mask = IF at' \in MaskedAddrs THEN 1 ELSE 0) /\ (ti.mask = 1 => ~trap /\ ~trap')
      /\ (trap' => ti.stepping \/ at' \in Broken)
  BY <1>1, <1>2, <1>3, <1>5 DEF GsInv, MaskHeld, TrapFlagMeant, SavedType
<1>7. \A a \in Disabled : ti.mask = 1 /\ ti.report /\ a = IrqAt
  BY <1>1, <1>3, <1>4 DEF GsInv, DisabledMeant, Disabled
<1>8. GsTypes'
  <2>1. trap' \in BOOLEAN /\ stopped' \in BOOLEAN /\ missed' \in BOOLEAN /\ excused' \in Int
    <3>1. saved[1].trap \in BOOLEAN /\ saved[1].excused \in Int
      BY <1>3 DEF SavedType
    <3>2. QED BY <1>1, <1>2, <3>1, Zenon DEF GsTypes
  <2>2. saved' \in Seq(SavedType) /\ Len(saved') = 0
    BY <1>1
  <2>3. QED BY <1>1, <1>2, <1>6, <2>1, <2>2, OriginalFacts DEF GsTypes
<1>9. TableKept'
  BY <1>1, <1>2 DEF TableKept
<1>10. MaskHeld'
  BY <1>1, <1>2, <1>6 DEF MaskHeld
<1>11. TrapFlagMeant'
  BY <1>1, <1>2, <1>5, <1>6 DEF GsInv, TrapFlagMeant, Nothing
<1>12. DisabledMeant'
  <2>1. Disabled' = Disabled
    BY <1>1, <1>2 DEF Disabled
  <2>2. SUFFICES ASSUME NEW a \in Disabled'
                 PROVE  a # at' /\ ti'.mask = 1 /\ ti'.report /\ a = IrqAt
    BY DEF DisabledMeant
  <2>3. ti.mask = 1 /\ ti.report /\ a = IrqAt
    BY <1>7, <2>1, <2>2
  <2>4. QED BY <1>1, <1>6, <2>3, OriginalFacts
<1>13. BreakpointsHit'
  BY <1>1, <1>8, <1>9, TableIsCodeNext DEF GsInv, BreakpointsHit
<1>14. QED BY <1>8, <1>9, <1>10, <1>11, <1>12, <1>13 DEF GsInv

\* An instruction that executes and has a breakpoint is where the program was let go on.
LEMMA ExecutedExcused ==
    ASSUME GsInv, running, mem[at] # "int3", at \in Broken
    PROVE  excused = at
<1>1. at \in Disabled /\ at \in 0 .. Iret /\ TableKept
  BY DEF GsInv, GsTypes, Disabled
<1>2. at # MaskOff + 1
  BY <1>1, OriginalFacts DEF TableKept
<1>3. QED BY <1>1, <1>2 DEF GsInv, DisabledMeant

LEMMA ExecuteKeeps == ASSUME GsInv, Execute PROVE GsInv'
<1>1. /\ running /\ at # Iret
      /\ mem' = mem /\ entries' = entries /\ trap' = trap /\ saved' = saved /\ stopped' = stopped
      /\ stops' = stops
  BY DEF Execute
<1>2. GsTypes /\ TableKept /\ MaskHeld /\ ~stopped /\ pending = Nothing /\ Broken' = Broken /\ Disabled' = Disabled
  BY <1>1 DEF GsInv, running, Broken, Disabled
<1>3. TableKept'
  BY <1>1, <1>2 DEF TableKept
<1>4. CASE /\ mem[at] = "int3" /\ pending' = "breakpoint" /\ at' = at /\ ti' = ti
           /\ current' = current /\ excused' = excused /\ missed' = missed
  <2>1. GsTypes'
    BY <1>1, <1>2, <1>4 DEF GsTypes
  <2>2. MaskHeld'
    BY <1>1, <1>2, <1>4 DEF MaskHeld, Nothing
  <2>3. TrapFlagMeant' /\ DisabledMeant'
    BY <1>1, <1>2, <1>4 DEF GsInv, TrapFlagMeant, DisabledMeant, running, Nothing
  <2>4. BreakpointsHit'
    BY <1>3, <1>4, <2>1, TableIsCodeNext DEF GsInv, BreakpointsHit
  <2>5. QED BY <1>3, <2>1, <2>2, <2>3, <2>4 DEF GsInv
<1> DEFINE masks == IF at = MaskOn THEN ti.mask + 1 ELSE IF at = MaskOff /\ ti.mask > 0 THEN ti.mask - 1 ELSE ti.mask
<1> DEFINE reports == at = MaskOff /\ masks = 0 /\ ti.report
<1>5. CASE /\ mem[at] # "int3"
           /\ ti' = [ti EXCEPT !.mask = masks]
           /\ current' = (IF reports THEN ti.signal ELSE current)
           /\ at' = (IF saved # <<>> THEN Iret ELSE Following(at, reports))
           /\ pending' = (IF trap THEN "trap" ELSE Nothing)
           /\ missed' = (missed \/ (at \in Broken /\ excused # at)) /\ excused' = -1
  <2>1. /\ ti \in InfoType /\ ti.mask \in {0, 1} /\ ti.report \in BOOLEAN
        /\ \A a \in Disabled :
              \/ a = at /\ excused = at /\ (trap \/ (ti.mask = 1 /\ ti.report))
              \/ a # at /\ ti.mask = 1 /\ ti.report /\ (a = IrqAt \/ (saved = <<>> /\ a \in MaskedAddrs /\ a < at))
    <3>1. at # MaskOff + 1
      BY <1>2, <1>5, OriginalFacts DEF TableKept, GsTypes
    <3>2. QED BY <1>1, <1>2, <3>1 DEF GsInv, DisabledMeant, GsTypes, InfoType
  <2>2. missed' = FALSE
    BY <1>1, <1>5, ExecutedExcused DEF GsInv, BreakpointsHit
  <2>3. /\ ti.mask = 1 => ~trap
        /\ trap => ti.stepping \/ at \in Broken
        /\ ti.range \cap Broken = {} /\ (ti.signal = "trap" \/ current = "trap" => ti.stepping)
        /\ saved # <<>> /\ saved[1].trap => ti.stepping \/ saved[1].at \in Broken
    BY <1>1, <1>2 DEF GsInv, MaskHeld, TrapFlagMeant
  <2>4. masks \in {0, 1} => /\ ti' \in InfoType /\ ti'.mask = masks /\ ti'.stepping = ti.stepping
                            /\ ti'.range = ti.range /\ ti'.signal = ti.signal /\ ti'.report = ti.report
    BY <1>5, <2>1 DEF InfoType
  <2>5. current' \in Benign /\ pending' \in {Nothing, "trap"} /\ (pending' = Nothing <=> ~trap)
    BY <1>2, <1>5, <2>1 DEF GsTypes, InfoType, Nothing
  <2>6. running' => ~trap
    BY <2>5 DEF running
  <2>7. CASE saved # <<>>
    <3>1. at = IrqAt /\ at' = Iret /\ masks = ti.mask /\ ~reports /\ (ti.mask = IF saved[1].at \in MaskedAddrs THEN 1 ELSE 0)
          /\ (ti.mask = 1 => ~saved[1].trap)
      BY <1>1, <1>2, <1>5, <2>7, OriginalFacts DEF MaskHeld
    <3> HIDE DEF masks, reports
    <3>2. /\ ti' \in InfoType /\ ti'.mask = ti.mask /\ ti'.stepping = ti.stepping /\ ti'.range = ti.range
          /\ ti'.signal = ti.signal /\ ti'.report = ti.report /\ current' = current
      BY <1>5, <2>1, <2>4, <3>1
    <3>3. GsTypes'
      BY <1>1, <1>2, <1>5, <2>2, <2>5, <3>1, <3>2, OriginalFacts DEF GsTypes
    <3>4. MaskHeld'
      BY <1>1, <1>2, <2>3, <2>5, <2>7, <3>1, <3>2 DEF MaskHeld
    <3>5. Iret \notin Broken
      BY <1>2, EntryFacts, OriginalFacts
    <3>6. TrapFlagMeant'
      BY <1>1, <1>2, <2>3, <2>6, <3>1, <3>2, <3>5 DEF TrapFlagMeant
    <3>7. DisabledMeant'
      BY <1>1, <1>2, <2>1, <2>6, <2>7, <3>1, <3>2, OriginalFacts DEF DisabledMeant
    <3>8. BreakpointsHit'
      BY <1>3, <2>2, <3>3, TableIsCodeNext DEF BreakpointsHit
    <3>9. QED BY <1>3, <3>3, <3>4, <3>6, <3>7, <3>8 DEF GsInv
  <2>8. CASE saved = <<>>
    <3>1. at \in Addrs /\ ti.mask = (IF at \in MaskedAddrs THEN 1 ELSE 0) /\ at' = Following(at, reports)
          /\ reports \in BOOLEAN
      BY <1>2, <1>5, <2>8 DEF MaskHeld
    <3>2. /\ at' \in Addrs
          /\ at \in MaskedAddrs /\ at # MaskOff => at' \in MaskedAddrs /\ at < at'
          /\ at = MaskOn => at' \in MaskedAddrs
          /\ at = MaskOff => at' \notin MaskedAddrs /\ (reports => at' = MaskOff + 1)
          /\ at \notin MaskedAddrs /\ at # MaskOn => at' \notin MaskedAddrs
      BY <3>1, ScopeFacts
    <3>3. masks = IF at' \in MaskedAddrs THEN 1 ELSE 0
      BY <3>1, <3>2, OriginalFacts
    <3>4. /\ at = MaskOff /\ ti.report => reports
          /\ reports => current' = ti.signal
          /\ ~reports => current' = current
      BY <1>5, <3>2, <3>3
    <3> HIDE DEF masks, reports
    <3>5. /\ ti' \in InfoType /\ ti'.mask = masks /\ ti'.stepping = ti.stepping /\ ti'.range = ti.range
          /\ ti'.signal = ti.signal /\ ti'.report = ti.report
      BY <2>4, <3>3
    <3>6. GsTypes'
      BY <1>1, <1>2, <1>5, <2>2, <2>5, <3>2, <3>5, OriginalFacts DEF GsTypes
    <3>7. MaskHeld'
      BY <1>1, <1>2, <2>5, <2>8, <3>2, <3>3, <3>5 DEF MaskHeld
    <3>8. trap => ti.stepping \/ at' \notin Broken
      BY <1>2, <2>3, <3>1 DEF TableKept
    <3>9. TrapFlagMeant'
      BY <1>1, <1>2, <2>3, <2>5, <2>6, <2>8, <3>4, <3>5, <3>8 DEF TrapFlagMeant
    <3>10. DisabledMeant'
      <4>1. SUFFICES ASSUME running', NEW a \in Disabled'
                     PROVE  \/ a # at' /\ ti'.mask = 1 /\ ti'.report
                               /\ (a = IrqAt \/ (a \in MaskedAddrs /\ a < at'))
                            \/ at' = MaskOff + 1
        BY <1>1, <2>8 DEF DisabledMeant
      <4>2. /\ ti.mask = 1 /\ ti.report /\ at \in MaskedAddrs
            /\ a = at \/ a = IrqAt \/ (a \in MaskedAddrs /\ a < at)
        BY <1>2, <2>1, <2>6, <3>1, <4>1
      <4>3. CASE at = MaskOff
        BY <3>2, <3>4, <4>2, <4>3
      <4>4. CASE at # MaskOff
        <5>1. at' \in MaskedAddrs /\ at < at' /\ ti'.mask = 1 /\ ti'.report
          BY <3>2, <3>3, <3>5, <4>2, <4>4
        <5>2. a = IrqAt \/ (a \in MaskedAddrs /\ a < at')
          BY <4>2, <5>1, StopsAssumption DEF MaskedAddrs
        <5>3. a # at'
          BY <5>1, <5>2, OriginalFacts, StopsAssumption DEF MaskedAddrs
        <5>4. QED BY <5>1, <5>2, <5>3
      <4>5. QED BY <4>3, <4>4
    <3>11. BreakpointsHit'
      BY <1>3, <2>2, <3>6, TableIsCodeNext DEF BreakpointsHit
    <3>12. QED BY <1>3, <3>6, <3>7, <3>9, <3>10, <3>11 DEF GsInv
  <2>9. QED BY <2>7, <2>8
<1>6. QED BY <1>1, <1>4, <1>5 DEF Execute

LEMMA GsInvNext ==
    ASSUME GsInv, "quiet" \notin StopsOps, "irq" \notin StopsOps, "twice" \notin StopsOps,
           [StopsNext]_gsVars
    PROVE  GsInv'
<1>1. CASE HandleException \/ Execute \/ Interrupt \/ Return \/ Break \/ Connects
  BY <1>1, HandleExceptionKeeps, ExecuteKeeps, InterruptKeeps, ReturnKeeps, BreakKeeps, ConnectsKeeps
<1>2. CASE \E a \in Addrs : Inserts(a) \/ Removes(a)
  BY <1>2, InsertsKeeps, RemovesKeeps
<1>3. CASE \E steps \in BOOLEAN, range \in {{}, {2, 3}} : (range # {} => steps) /\ Resume(steps, range)
  BY <1>3, ResumeKeeps
<1>4. CASE UNCHANGED gsVars
  BY <1>4, GsStands
<1>5. QED BY <1>1, <1>2, <1>3, <1>4 DEF StopsNext

\* While GDB sets no breakpoint twice, none where a trap goes unreported (behind another breakpoint,
\* or in a range that it steps), and no interrupt comes while one is disabled, the program stops at every breakpoint it comes to, unless GDB let it go on from
\* there or a trap mask has put the report off, and breakpoints leave the code as it was: the whole
\* of handle_exception(), its leave(), vCont and the breakpoint table.
THEOREM BreakpointsStayHit ==
    "quiet" \notin StopsOps /\ "irq" \notin StopsOps /\ "twice" \notin StopsOps
        => (StopsSpec => []BreakpointsHit)
<1> SUFFICES ASSUME "quiet" \notin StopsOps, "irq" \notin StopsOps, "twice" \notin StopsOps
             PROVE  StopsSpec => []BreakpointsHit
  OBVIOUS
<1>1. GsInv /\ [StopsNext]_gsVars => GsInv'
  BY GsInvNext
<1>2. GsInv => BreakpointsHit
  BY DEF GsInv
<1>3. QED BY GsInvInit, <1>1, <1>2, PTL DEF StopsSpec
=============================================================================
