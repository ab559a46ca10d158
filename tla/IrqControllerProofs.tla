------------------------- MODULE IrqControllerProofs -------------------------
(***************************************************************************)
(* Theorems about shared interrupt lines, for any lines, handlers, flags   *)
(* and devices, within the limits that Restricted names.                   *)
(***************************************************************************)
EXTENDS IrqController, SequenceTheorems, FiniteSetTheorems, TLAPS

\* What the driver programs must keep to, each a known limit of the code: only threads enable
\* and disable handlers, no fallback handler is alone on its line and a line has at most one,
\* and the devices of the previous handler are quiet between the halves of assign().
Restricted ==
    /\ Ops \cap {"irq", "alone", "window"} = {}
    /\ \A g, h \in Handlers : IsFallback(g) /\ IsFallback(h) /\ Line[g] = Line[h] => g = h

-----------------------------------------------------------------------------
(* The inductive invariant: the lists.                                     *)

Pointers == Handlers \cup {Null}
Nodes == [irq : Irqs \cup {Null}, enabled : BOOLEAN, next : Pointers, prev : Pointers]
Entries == [first : Pointers, last : Pointers, fallback : Pointers, flags : SUBSET FlagNames]

ListTypes == handler \in [Handlers -> Nodes] /\ entry \in [Irqs -> Entries] /\ alloc \subseteq Irqs

\* Handlers are on the line of their device, on no list while they are not assigned, and
\* never on a list if they are fallback handlers.
OwnLine ==
    \A h \in Handlers :
        /\ Member(h) => handler[h].irq = Line[h]
        /\ ~Member(h) => handler[h] = Unassigned
        /\ IsFallback(h) => handler[h].next = Null /\ handler[h].prev = Null

\* next and prev are each other's inverse, among the ordinary handlers of a line.
Linked ==
    \A h \in Handlers :
        LET n == handler[h].next
            p == handler[h].prev
        IN  /\ n # Null => n \in Ordinary(handler[h].irq) /\ handler[n].prev = h
            /\ p # Null => p \in Ordinary(handler[h].irq) /\ handler[p].next = h

\* first and last are the ends of the line's list.
Ends ==
    \A i \in alloc :
        LET e == entry[i]
        IN  /\ e.first # Null => e.first \in Ordinary(i) /\ handler[e.first].prev = Null
            /\ e.last # Null => e.last \in Ordinary(i) /\ handler[e.last].next = Null
            /\ e.last = Null <=> e.first = Null

\* Every ordinary handler of the line is on the list: no set is closed under next, holds the
\* first, and leaves one out.
Reached ==
    \A i \in alloc : \A S \in SUBSET Handlers :
        entry[i].first \in S \cup {Null} /\ Closed(S) => Ordinary(i) \subseteq S

\* The flags of a line are those of its enabled handlers.
EnabledOn(i) == {h \in Handlers : handler[h].irq = i /\ handler[h].enabled}
FlagsSum == \A i \in alloc : entry[i].flags = UNION {Flags[h] : h \in EnabledOn(i)}

\* A fallback handler is registered and has ordinary handlers beside it.
Fallbacks ==
    /\ \A h \in Handlers : Member(h) /\ IsFallback(h) =>
          entry[Line[h]].fallback = h /\ Ordinary(Line[h]) # {}
    /\ \A i \in Irqs : entry[i].fallback # Null =>
          IsFallback(entry[i].fallback) /\ handler[entry[i].fallback].irq = i

\* Handlers are assigned to hooked lines only; what is not hooked has no list.
Hooked ==
    /\ \A h \in Handlers : Member(h) => handler[h].irq \in alloc
    /\ \A i \in Irqs \ alloc : entry[i].first = Null /\ entry[i].last = Null

ListInv ==
    /\ ListTypes /\ OwnLine /\ Linked /\ Ends /\ Reached /\ FlagsSum /\ Fallbacks /\ Hooked

-----------------------------------------------------------------------------
(* The inductive invariant: the activations.                               *)

Acks == {"no", "eoi_sent", "yes"}
Stages == {"first", "func", "served", "acked", "next", "end"}
Frames == [irq : Irqs \cup {Null}, flags : SUBSET FlagNames, ack : Acks, cur : Pointers,
           pc : Stages \cup {"thread", "link"}]

\* The thread is idle or between the halves of assign().
BaseOK(x) ==
    /\ x.irq = Null /\ x.flags = {}
    /\ x.pc \in {"thread", "link"}
    /\ x.pc = "link" =>
          /\ x.cur \in Handlers /\ ~Member(x.cur)
          /\ Line[x.cur] \in alloc
          /\ IsFallback(x.cur) => Ordinary(Line[x.cur]) # {}

\* An activation of handle_irq(): its cached flags are still those of the line, the handler
\* it is at is assigned to the line, and it asks the fallback handler only if nobody else
\* acknowledged.
ActivationOK(x) ==
    /\ x.irq \in alloc /\ entry[x.irq].first # Null
    /\ x.flags = entry[x.irq].flags
    /\ x.pc \in Stages
    /\ x.pc # "first" => x.cur \in Handlers /\ handler[x.cur].irq = x.irq
    /\ x.pc = "func" /\ IsFallback(x.cur) => x.ack # "yes"
    /\ x.pc = "end" => handler[x.cur].next = Null
    /\ x.ack = "eoi_sent" => AutoEoi(x.flags)
    /\ x.ack = "no" => ~AutoEoi(x.flags)

FramesOK ==
    /\ frames \in Seq(Frames) /\ frames # <<>>
    /\ BaseOK(Base)
    /\ \A k \in 1..Len(frames) - 1 : ActivationOK(frames[k])

\* A hooked line is empty only inside assign(), and then not about to interrupt.
EmptyQuiet ==
    \A i \in alloc : entry[i].first = Null =>
        Base.pc = "link" /\ Line[Base.cur] = i /\ (i \in irr => i \in imr)

\* A line is in service while an activation for it has not sent its EOI, and such an
\* activation is not interrupted by its own line.
Unsent(k, i) == frames[k].irq = i /\ ~EoiSent(frames[k])
InService ==
    /\ \A i \in isr : \E k \in 1..Len(frames) - 1 : Unsent(k, i)
    /\ \A k \in 1..Len(frames) - 1 : ~EoiSent(frames[k]) => frames[k].irq \in isr
    /\ \A l \in 1..Len(frames) - 1 : \A k \in 1..l - 1 :
          frames[k].irq = frames[l].irq => EoiSent(frames[l])

\* A line that is being served is masked only by its own irq_mask object.
SelfMasked ==
    \A k \in 1..Len(frames) - 1 : frames[k].irq \in imr => MaskSelf(frames[k].flags)

\* A waiting device has an enabled handler.
Waiting == \A h \in request : h \in Handlers /\ Member(h) /\ handler[h].enabled

PicTypes ==
    /\ imr \subseteq Irqs /\ irr \subseteq Irqs /\ isr \subseteq Irqs
    /\ request \subseteq Handlers /\ biosReq \subseteq BiosLines
    /\ left \in [Handlers \cup BiosLines -> 0..MaxReq]
    /\ fault \in {"none", "null", "noeoi"}

ActivityInv ==
    /\ FramesOK /\ PicTypes /\ EmptyQuiet
    /\ InService /\ SelfMasked /\ NestingAllowed /\ fault = "none"
    /\ Waiting /\ RequestKept

IInv == ListInv /\ ActivityInv

-----------------------------------------------------------------------------
(* The stack of activations. *)

LEMMA NullFacts == Null \notin Handlers /\ Null \notin Irqs
BY ConstantsAssumption

LEMMA FrameFacts ==
    ASSUME FramesOK
    PROVE  /\ Len(frames) \in Nat /\ Len(frames) >= 1
           /\ \A k \in 1..Len(frames) : frames[k] \in Frames
           /\ 1 \in 1..Len(frames) /\ Len(frames) \in 1..Len(frames)
<1>1. frames \in Seq(Frames) /\ frames # <<>>
  BY DEF FramesOK
<1>2. Len(frames) \in Nat /\ Len(frames) # 0
  BY <1>1, EmptySeq, LenProperties
<1>3. \A k \in 1..Len(frames) : frames[k] \in Frames
  BY <1>1, ElementOfSeq
<1> QED
  BY <1>2, <1>3

\* Only the thread has the stages "thread" and "link", and it is the last frame.
LEMMA TopIsBase ==
    ASSUME FramesOK, At("thread") \/ At("link")
    PROVE  Len(frames) = 1 /\ Top = Base
<1>1. Len(frames) = 1
  <2> SUFFICES ASSUME Len(frames) # 1 PROVE FALSE
    OBVIOUS
  <2>1. 1 \in 1..Len(frames) - 1
    BY FrameFacts
  <2> QED
    BY <2>1 DEF FramesOK, ActivationOK, At, Top, Stages
<1> QED
  BY <1>1 DEF Top, Base

LEMMA TopIsActivation ==
    ASSUME FramesOK, NEW st \in Stages, At(st)
    PROVE  /\ Len(frames) > 1 /\ 1 \in 1..Len(frames) - 1
           /\ Top \in Frames /\ ActivationOK(Top)
<1>1. Len(frames) # 1
  BY DEF FramesOK, BaseOK, Base, At, Top, Stages
<1>2. 1 \in 1..Len(frames) - 1 /\ Len(frames) > 1
  <2>1. Len(frames) \in Nat /\ Len(frames) >= 1
    BY FrameFacts
  <2> QED
    BY <1>1, <2>1
<1>3. ActivationOK(frames[1]) /\ frames[1] \in Frames
  BY <1>2, FrameFacts DEF FramesOK
<1> QED
  BY <1>2, <1>3, Zenon DEF Top

LEMMA PushFrame ==
    ASSUME FramesOK, NEW x \in Frames, frames' = <<x>> \o frames
    PROVE  /\ frames' \in Seq(Frames) /\ frames' # <<>>
           /\ Len(frames') = Len(frames) + 1
           /\ Top' = x /\ frames'[1] = x /\ Base' = Base
           /\ \A k \in 2..Len(frames') : frames'[k] = frames[k - 1] /\ k - 1 \in 1..Len(frames)
           /\ \A k \in 1..Len(frames) : frames'[k + 1] = frames[k] /\ k + 1 \in 2..Len(frames')
<1>1. <<x>> \in Seq(Frames) /\ Len(<<x>>) = 1 /\ frames \in Seq(Frames)
  BY DEF FramesOK
<1>2. /\ frames' \in Seq(Frames)
      /\ Len(frames') = 1 + Len(frames)
      /\ \A k \in 1..1 + Len(frames) :
            frames'[k] = IF k <= 1 THEN <<x>>[k] ELSE frames[k - 1]
  BY <1>1, ConcatProperties
<1>3. Len(frames) \in Nat /\ Len(frames) >= 1
  BY FrameFacts
<1>4. frames'[1] = x
  BY <1>2, <1>3
<1>5. \A k \in 2..Len(frames') : frames'[k] = frames[k - 1] /\ k - 1 \in 1..Len(frames)
  BY <1>2, <1>3
<1>6. frames' # <<>>
  BY <1>2, <1>3
<1>7. Base' = Base
  BY <1>2, <1>3, <1>5 DEF Base
<1> QED
  BY <1>2, <1>3, <1>4, <1>5, <1>6, <1>7 DEF Top

LEMMA PopFrame ==
    ASSUME FramesOK, Len(frames) > 1, frames' = Tail(frames)
    PROVE  /\ frames' \in Seq(Frames) /\ frames' # <<>>
           /\ Len(frames') = Len(frames) - 1 /\ Base' = Base
           /\ \A k \in 1..Len(frames') : frames'[k] = frames[k + 1] /\ k + 1 \in 2..Len(frames)
           /\ \A k \in 2..Len(frames) : frames'[k - 1] = frames[k] /\ k - 1 \in 1..Len(frames')
<1>1. frames \in Seq(Frames) /\ frames # <<>>
  BY DEF FramesOK
<1>2. /\ frames' \in Seq(Frames)
      /\ Len(frames') = Len(frames) - 1
      /\ \A k \in 1..Len(frames') : frames'[k] = frames[k + 1]
  BY <1>1, HeadTailProperties
<1>3. Len(frames) \in Nat
  BY FrameFacts
<1>4. frames' # <<>>
  BY <1>2, <1>3
<1>5. Base' = Base
  BY <1>2, <1>3 DEF Base
<1> QED
  BY <1>2, <1>3, <1>4, <1>5

LEMMA TopBecomes ==
    ASSUME FramesOK, NEW x \in Frames, Becomes(x)
    PROVE  /\ frames' \in Seq(Frames) /\ frames' # <<>>
           /\ Len(frames') = Len(frames)
           /\ Top' = x /\ frames'[1] = x
           /\ \A k \in 2..Len(frames) : frames'[k] = frames[k]
           /\ Base' = IF Len(frames) = 1 THEN x ELSE Base
<1>1. frames \in Seq(Frames) /\ 1 \in 1..Len(frames) /\ Len(frames) \in Nat
  BY FrameFacts DEF FramesOK
<1>2. /\ frames' \in Seq(Frames)
      /\ Len(frames') = Len(frames)
      /\ \A k \in 1..Len(frames) : frames'[k] = IF k = 1 THEN x ELSE frames[k]
  BY <1>1, ExceptSeq DEF Becomes
<1>3. frames' # <<>>
  BY <1>1, <1>2
<1> QED
  BY <1>1, <1>2, <1>3 DEF Top, Base

-----------------------------------------------------------------------------
(* The lists. *)

\* Following the list of a hooked line finds its ordinary handlers and no others.
LEMMA FollowIsOrdinary ==
    ASSUME ListInv, NEW i \in alloc
    PROVE  Follow(entry[i]) = Ordinary(i)
<1>1. Ordinary(i) \subseteq Handlers
  BY DEF Ordinary
<1>2. entry[i].first \in Ordinary(i) \cup {Null}
  BY DEF ListInv, Ends
<1>3. Closed(Ordinary(i))
  BY DEF Closed, Ordinary, ListInv, Linked
<1>4. Follow(entry[i]) \subseteq Ordinary(i)
  BY <1>1, <1>2, <1>3 DEF Follow, From
<1>5. ASSUME NEW h \in Ordinary(i) PROVE h \in Follow(entry[i])
  BY <1>1, <1>5 DEF Follow, From, ListInv, Reached
<1> QED
  BY <1>4, <1>5

\* What remains of the flags is what the other enabled handlers bring.
LEMMA FlagsWithoutIs ==
    ASSUME ListInv, NEW i \in alloc, NEW h \in Handlers
    PROVE  FlagsWithout(entry[i], h) = UNION {Flags[g] : g \in EnabledOn(i) \ {h}}
<1> DEFINE Found == {g \in Follow(entry[i]) \cup ({entry[i].fallback} \ {Null}) :
                        handler[g].enabled} \ {h}
<1>1. i \in Irqs
  BY DEF ListInv, ListTypes
<1>2. ASSUME NEW g \in Found PROVE g \in EnabledOn(i) \ {h}
  <2>1. g \in Handlers /\ handler[g].irq = i
    <3>1. CASE g \in Follow(entry[i])
      BY <3>1, FollowIsOrdinary DEF Ordinary
    <3>2. CASE g = entry[i].fallback /\ g # Null
      BY <1>1, <3>2 DEF ListInv, ListTypes, Fallbacks, Entries, Pointers
    <3> QED
      BY <1>2, <3>1, <3>2
  <2> QED
    BY <1>2, <2>1 DEF EnabledOn
<1>3. ASSUME NEW g \in EnabledOn(i) \ {h} PROVE g \in Found
  <2>1. g \in Handlers /\ handler[g].irq = i /\ handler[g].enabled /\ g # h /\ Member(g)
    BY <1>1, <1>3, NullFacts DEF EnabledOn, Member
  <2>2. CASE IsFallback(g)
    <3>1. entry[i].fallback = g
      BY <2>1, <2>2 DEF ListInv, Fallbacks, OwnLine
    <3> QED
      BY <2>1, <3>1, NullFacts
  <2>3. CASE ~IsFallback(g)
    BY <2>1, <2>3, FollowIsOrdinary DEF Ordinary
  <2> QED
    BY <2>2, <2>3
<1>4. Found = EnabledOn(i) \ {h}
  BY <1>2, <1>3
<1>5. FlagsWithout(entry[i], h) = UNION {Flags[g] : g \in Found}
  BY Zenon DEF FlagsWithout
<1> QED
  BY <1>4, <1>5

\* Only the first handler has none before it, and if it has none after it, it is alone.
LEMMA ListEnds ==
    ASSUME ListInv, NEW i \in alloc, NEW h \in Ordinary(i)
    PROVE  /\ handler[h].prev = Null => entry[i].first = h
           /\ entry[i].first = h /\ handler[h].next = Null => Ordinary(i) = {h}
           /\ entry[i].first # Null /\ entry[i].last # Null
<1>1. Ordinary(i) \subseteq Handlers /\ h \in Handlers /\ handler[h].irq = i
  BY DEF Ordinary
<1>2. entry[i].first \in Ordinary(i) \cup {Null}
  BY DEF ListInv, Ends
<1>3. entry[i].first # Null
  <2> SUFFICES ASSUME entry[i].first = Null PROVE FALSE
    OBVIOUS
  <2>1. Closed({}) /\ {} \in SUBSET Handlers
    BY DEF Closed
  <2> QED
    BY <2>1 DEF ListInv, Reached
<1>4. ASSUME handler[h].prev = Null, entry[i].first # h PROVE FALSE
  <2> DEFINE S == Ordinary(i) \ {h}
  <2>1. entry[i].first \in S
    BY <1>2, <1>3, <1>4
  <2>2. Closed(S)
    <3> SUFFICES ASSUME NEW g \in S, handler[g].next # Null PROVE handler[g].next \in S
      BY DEF Closed
    <3>1. handler[g].next \in Ordinary(i) /\ handler[handler[g].next].prev = g
      BY DEF ListInv, Linked, Ordinary
    <3> QED
      BY <1>1, <1>4, <3>1, NullFacts
  <2>3. S \in SUBSET Handlers
    BY <1>1
  <2>4. Ordinary(i) \subseteq S
    BY <2>1, <2>2, <2>3 DEF ListInv, Reached
  <2> QED
    BY <2>4
<1>5. ASSUME entry[i].first = h, handler[h].next = Null PROVE Ordinary(i) = {h}
  <2>1. Closed({h}) /\ {h} \in SUBSET Handlers
    BY <1>1, <1>5 DEF Closed
  <2>2. Ordinary(i) \subseteq {h}
    BY <1>5, <2>1 DEF ListInv, Reached
  <2> QED
    BY <2>2
<1> QED
  BY <1>3, <1>4, <1>5 DEF ListInv, Ends

\* A line without a list has no ordinary handlers.
LEMMA NoFirst ==
    ASSUME ListInv, NEW i \in Irqs
    PROVE  entry[i].first = Null <=> Ordinary(i) = {}
<1>1. CASE i \in alloc
  BY <1>1, ListEnds DEF ListInv, Ends
<1>2. CASE i \notin alloc
  BY <1>2, NullFacts DEF ListInv, Hooked, Ordinary, Member
<1> QED
  BY <1>1, <1>2

LEMMA ListsUnchanged ==
    ASSUME ListInv, UNCHANGED lists
    PROVE  ListInv'
<1>1. UNCHANGED <<entry, alloc, handler>>
  BY DEF lists
<1>2. ListTypes' /\ OwnLine' /\ Hooked' /\ Fallbacks' /\ FlagsSum'
  BY <1>1 DEF ListInv, ListTypes, OwnLine, Hooked, Fallbacks, FlagsSum, Member, Ordinary, EnabledOn
<1>3. Linked' /\ Ends' /\ Reached'
  BY <1>1 DEF ListInv, Linked, Ends, Reached, Ordinary, Closed
<1> QED
  BY <1>2, <1>3 DEF ListInv

\* A step that changes neither links nor lines.
LEMMA LinksUnchanged ==
    ASSUME ListInv, ListTypes', alloc' = alloc,
           \A g \in Handlers : /\ handler'[g].irq = handler[g].irq
                               /\ handler'[g].next = handler[g].next
                               /\ handler'[g].prev = handler[g].prev,
           \A j \in Irqs : /\ entry'[j].first = entry[j].first
                           /\ entry'[j].last = entry[j].last
                           /\ entry'[j].fallback = entry[j].fallback
    PROVE  Linked' /\ Ends' /\ Reached' /\ Fallbacks' /\ Hooked'
<1>1. /\ \A j : Ordinary(j)' = Ordinary(j)
      /\ \A h \in Handlers : Member(h)' <=> Member(h)
  BY DEF Ordinary, Member
<1>2. \A S \in SUBSET Handlers : Closed(S)' <=> Closed(S)
  BY DEF Closed
<1>3. alloc \subseteq Irqs
  BY DEF ListInv, ListTypes
<1>4. Linked'
  BY <1>1 DEF ListInv, ListTypes, Linked, Nodes, Pointers
<1>5. Ends'
  <2> SUFFICES ASSUME NEW i \in alloc
               PROVE  /\ entry'[i].first # Null => entry'[i].first \in Ordinary(i) /\ handler'[entry'[i].first].prev = Null
                      /\ entry'[i].last # Null => entry'[i].last \in Ordinary(i) /\ handler'[entry'[i].last].next = Null
                      /\ entry'[i].last = Null <=> entry'[i].first = Null
    BY <1>1 DEF Ends
  <2> QED
    BY <1>3 DEF ListInv, Ends, Ordinary
<1>6. Reached'
  BY <1>1, <1>2, <1>3 DEF ListInv, Reached
<1>7. Fallbacks'
  <2>1. \A i \in Irqs : entry[i].fallback \in Handlers \cup {Null}
    BY DEF ListInv, ListTypes, Entries, Pointers
  <2>2. \A h \in Handlers : Line[h] \in Irqs
    BY ConstantsAssumption
  <2>3. ASSUME NEW h \in Handlers, Member(h)', IsFallback(h)
        PROVE  entry'[Line[h]].fallback = h /\ Ordinary(Line[h])' # {}
    BY <1>1, <2>2, <2>3 DEF ListInv, Fallbacks
  <2>4. ASSUME NEW i \in Irqs, entry'[i].fallback # Null
        PROVE  IsFallback(entry'[i].fallback) /\ handler'[entry'[i].fallback].irq = i
    BY <2>1, <2>4 DEF ListInv, Fallbacks
  <2> QED
    BY <2>3, <2>4, Zenon DEF Fallbacks
<1>8. Hooked'
  BY <1>1 DEF ListInv, Hooked
<1> QED
  BY <1>4, <1>5, <1>6, <1>7, <1>8

\* Drivers change lists only when no activation is under way.
LEMMA RunningIsThread ==
    ASSUME Restricted, FramesOK, Running
    PROVE  At("thread") /\ Len(frames) = 1 /\ Top = Base
<1>1. At("thread")
  BY DEF Restricted, Running
<1> QED
  BY <1>1, TopIsBase

LEMMA MemberLine ==
    ASSUME ListInv, NEW h \in Handlers, Member(h)
    PROVE  handler[h].irq = Line[h] /\ Line[h] \in alloc /\ Line[h] \in Irqs
BY DEF ListInv, OwnLine, Hooked, ListTypes

LEMMA EnableList ==
    ASSUME ListInv, NEW h \in Handlers, Enable(h)
    PROVE  ListInv'
<1> DEFINE i == Line[h]
<1>1. Member(h) /\ handler[h].irq = i /\ i \in alloc /\ i \in Irqs
  BY MemberLine DEF Enable
<1>2. /\ handler' = [handler EXCEPT ![h].enabled = TRUE]
      /\ entry' = [entry EXCEPT ![i].flags = @ \cup Flags[h]]
      /\ alloc' = alloc
  BY <1>1 DEF Enable
<1> HIDE DEF i
<1>3. Flags[h] \subseteq FlagNames
  BY ConstantsAssumption
<1>4. ListTypes'
  <2>1. handler' \in [Handlers -> Nodes]
    BY <1>2 DEF ListInv, ListTypes, Nodes
  <2>2. entry' \in [Irqs -> Entries]
    BY <1>1, <1>2, <1>3 DEF ListInv, ListTypes, Entries
  <2> QED
    BY <1>2, <2>1, <2>2 DEF ListInv, ListTypes
<1>5. \A g \in Handlers : /\ handler'[g].irq = handler[g].irq
                          /\ handler'[g].next = handler[g].next
                          /\ handler'[g].prev = handler[g].prev
                          /\ handler'[g].enabled = IF g = h THEN TRUE ELSE handler[g].enabled
  BY <1>2 DEF ListInv, ListTypes, Nodes
<1>6. \A j \in Irqs : /\ entry'[j].first = entry[j].first
                      /\ entry'[j].last = entry[j].last
                      /\ entry'[j].fallback = entry[j].fallback
                      /\ entry'[j].flags = IF j = i THEN entry[j].flags \cup Flags[h]
                                                    ELSE entry[j].flags
  BY <1>1, <1>2 DEF ListInv, ListTypes, Entries
<1>7. Linked' /\ Ends' /\ Reached' /\ Fallbacks' /\ Hooked'
  BY <1>2, <1>4, <1>5, <1>6, LinksUnchanged
<1>8. OwnLine'
  BY <1>1, <1>2, <1>5 DEF ListInv, ListTypes, OwnLine, Member
<1>9. FlagsSum'
  <2>1. \A j \in Irqs : EnabledOn(j)' = IF j = i THEN EnabledOn(j) \cup {h} ELSE EnabledOn(j)
    BY <1>1, <1>5 DEF EnabledOn
  <2>2. alloc \subseteq Irqs
    BY DEF ListInv, ListTypes
  <2>3. ASSUME NEW j \in alloc, j # i
        PROVE  entry'[j].flags = UNION {Flags[g] : g \in EnabledOn(j)'}
    <3>1. EnabledOn(j)' = EnabledOn(j)
      BY <2>1, <2>2, <2>3
    <3> QED
      BY <1>6, <2>2, <2>3, <3>1 DEF ListInv, FlagsSum
  <2>4. entry'[i].flags = UNION {Flags[g] : g \in EnabledOn(i)'}
    <3>1. entry'[i].flags = (UNION {Flags[g] : g \in EnabledOn(i)}) \cup Flags[h]
      BY <1>1, <1>6 DEF ListInv, FlagsSum
    <3>2. (UNION {Flags[g] : g \in EnabledOn(i)}) \cup Flags[h] =
              UNION {Flags[g] : g \in EnabledOn(i) \cup {h}}
      OBVIOUS
    <3> QED
      BY <1>1, <2>1, <3>1, <3>2
  <2> QED
    BY <1>2, <2>3, <2>4 DEF FlagsSum
<1> QED
  BY <1>4, <1>7, <1>8, <1>9 DEF ListInv

LEMMA DisableList ==
    ASSUME ListInv, NEW h \in Handlers, Disable(h)
    PROVE  ListInv'
<1> DEFINE i == Line[h]
<1>0. Member(h) /\ handler[h].enabled
  BY DEF Disable, ListInv, OwnLine, Unassigned
<1>1. handler[h].irq = i /\ i \in alloc /\ i \in Irqs
  BY <1>0, MemberLine
<1>2. /\ handler' = [handler EXCEPT ![h].enabled = FALSE]
      /\ entry' = [entry EXCEPT ![i].flags = FlagsWithout(entry[i], h)]
      /\ alloc' = alloc
  BY <1>0, <1>1 DEF Disable, Disabled
<1>3. FlagsWithout(entry[i], h) = UNION {Flags[g] : g \in EnabledOn(i) \ {h}}
  BY <1>1, FlagsWithoutIs
<1> HIDE DEF i
<1>4. FlagsWithout(entry[i], h) \subseteq FlagNames
  BY <1>3, ConstantsAssumption DEF EnabledOn
<1>5. ListTypes'
  <2>1. handler' \in [Handlers -> Nodes]
    BY <1>2 DEF ListInv, ListTypes, Nodes
  <2>2. entry' \in [Irqs -> Entries]
    BY <1>1, <1>2, <1>4 DEF ListInv, ListTypes, Entries
  <2> QED
    BY <1>2, <2>1, <2>2 DEF ListInv, ListTypes
<1>6. \A g \in Handlers : /\ handler'[g].irq = handler[g].irq
                          /\ handler'[g].next = handler[g].next
                          /\ handler'[g].prev = handler[g].prev
                          /\ handler'[g].enabled = IF g = h THEN FALSE ELSE handler[g].enabled
  BY <1>2 DEF ListInv, ListTypes, Nodes
<1>7. \A j \in Irqs : /\ entry'[j].first = entry[j].first
                      /\ entry'[j].last = entry[j].last
                      /\ entry'[j].fallback = entry[j].fallback
                      /\ entry'[j].flags = IF j = i THEN FlagsWithout(entry[i], h)
                                                    ELSE entry[j].flags
  BY <1>1, <1>2 DEF ListInv, ListTypes, Entries
<1>8. Linked' /\ Ends' /\ Reached' /\ Fallbacks' /\ Hooked'
  BY <1>2, <1>5, <1>6, <1>7, LinksUnchanged
<1>9. OwnLine'
  BY <1>0, <1>2, <1>6 DEF ListInv, ListTypes, OwnLine, Member
<1>10. FlagsSum'
  <2>1. \A j \in Irqs : EnabledOn(j)' = EnabledOn(j) \ {h}
    BY <1>6 DEF EnabledOn
  <2>2. \A j \in Irqs : j # i => h \notin EnabledOn(j)
    BY <1>1 DEF EnabledOn
  <2>3. alloc \subseteq Irqs
    BY DEF ListInv, ListTypes
  <2>4. ASSUME NEW j \in alloc, j # i
        PROVE  entry'[j].flags = UNION {Flags[g] : g \in EnabledOn(j)'}
    <3>1. EnabledOn(j)' = EnabledOn(j)
      BY <2>1, <2>2, <2>3, <2>4
    <3> QED
      BY <1>7, <2>3, <2>4, <3>1 DEF ListInv, FlagsSum
  <2>5. entry'[i].flags = UNION {Flags[g] : g \in EnabledOn(i)'}
    BY <1>1, <1>3, <1>7, <2>1
  <2> QED
    BY <1>2, <2>4, <2>5 DEF FlagsSum
<1> QED
  BY <1>5, <1>8, <1>9, <1>10 DEF ListInv

LEMMA AssignList ==
    ASSUME ListInv, NEW h \in Handlers, Assign(h)
    PROVE  ListInv'
<1> DEFINE i == Line[h]
<1>1. i \in Irqs
  BY ConstantsAssumption
<1>2. /\ handler' = handler /\ alloc' = alloc \cup {i}
      /\ entry' = IF i \in alloc THEN entry ELSE [entry EXCEPT ![i] = Empty]
  BY DEF Assign
<1> HIDE DEF i
<1>3. CASE i \in alloc
  <2>1. UNCHANGED lists
    BY <1>2, <1>3 DEF lists
  <2> QED
    BY <2>1, ListsUnchanged
<1>4. CASE i \notin alloc
  <2>1. \A g \in Handlers : handler[g].irq # i
    BY <1>1, <1>4, NullFacts DEF ListInv, Hooked, Member
  <2>2. Ordinary(i) = {} /\ EnabledOn(i) = {}
    BY <2>1 DEF Ordinary, EnabledOn
  <2>3. Empty \in Entries
    BY DEF Empty, Entries, Pointers
  <2>4. entry'[i] = Empty /\ \A j \in Irqs : j # i => entry'[j] = entry[j]
    BY <1>1, <1>2, <1>4 DEF ListInv, ListTypes
  <2>5. ListTypes'
    BY <1>1, <1>2, <1>4, <2>3 DEF ListInv, ListTypes
  <2>6. /\ \A j : Ordinary(j)' = Ordinary(j) /\ EnabledOn(j)' = EnabledOn(j)
        /\ \A g : Member(g)' = Member(g)
    BY <1>2 DEF Ordinary, EnabledOn, Member
  <2>7. OwnLine' /\ Linked'
    BY <1>2, <2>6 DEF ListInv, OwnLine, Linked
  <2>8. Ends'
    <3>1. \A j \in alloc : j # i /\ j \in Irqs /\ entry'[j] = entry[j]
      BY <1>4, <2>4 DEF ListInv, ListTypes
    <3>2. entry'[i].first = Null /\ entry'[i].last = Null
      BY <2>4 DEF Empty
    <3> QED
      BY <1>2, <2>6, <3>1, <3>2 DEF ListInv, Ends
  <2>9. Reached'
    <3>1. \A S : Closed(S)' = Closed(S)
      BY <1>2 DEF Closed
    <3>2. \A j \in alloc : j # i /\ j \in Irqs /\ entry'[j] = entry[j]
      BY <1>4, <2>4 DEF ListInv, ListTypes
    <3> QED
      BY <1>2, <2>2, <2>6, <3>1, <3>2 DEF ListInv, Reached
  <2>10. FlagsSum'
    <3>1. UNION {Flags[g] : g \in EnabledOn(i)} = {}
      BY <2>2
    <3>2. \A j \in alloc : j # i /\ j \in Irqs /\ entry'[j] = entry[j]
      BY <1>4, <2>4 DEF ListInv, ListTypes
    <3>3. entry'[i].flags = {}
      BY <2>4 DEF Empty
    <3> QED
      BY <1>2, <2>6, <3>1, <3>2, <3>3 DEF ListInv, FlagsSum
  <2>11. Fallbacks'
    <3>1. ASSUME NEW g \in Handlers, Member(g), IsFallback(g)
          PROVE  entry'[Line[g]].fallback = g /\ Ordinary(Line[g]) # {}
      <4>1. Line[g] # i /\ Line[g] \in Irqs
        BY <2>1, <3>1, ConstantsAssumption DEF ListInv, OwnLine
      <4> QED
        BY <2>4, <3>1, <4>1 DEF ListInv, Fallbacks
    <3>2. ASSUME NEW j \in Irqs, entry'[j].fallback # Null
          PROVE  IsFallback(entry'[j].fallback) /\ handler[entry'[j].fallback].irq = j
      <4>1. j # i
        BY <2>4, <3>2 DEF Empty
      <4> QED
        BY <2>4, <3>2, <4>1 DEF ListInv, Fallbacks
    <3> QED
      BY <1>2, <2>6, <3>1, <3>2 DEF Fallbacks
  <2>12. Hooked'
    BY <1>2, <1>4, <2>4, <2>6 DEF ListInv, ListTypes, Hooked
  <2> QED
    BY <2>5, <2>7, <2>8, <2>9, <2>10, <2>11, <2>12 DEF ListInv
<1> QED
  BY <1>3, <1>4

\* An ordinary handler is linked behind the last one.
LEMMA LinkLastList ==
    ASSUME ListInv, NEW h \in Handlers, ~Member(h), ~IsFallback(h), NEW i \in alloc, i = Line[h],
           LinkLast(h, i), alloc' = alloc
    PROVE  /\ ListInv' /\ Ordinary(i)' = Ordinary(i) \cup {h}
           /\ \A j \in Irqs : j # i => Ordinary(j)' = Ordinary(j)
           /\ \A g \in Handlers : (Member(g) => Member(g)') /\ handler'[g].enabled = handler[g].enabled
<1> DEFINE last == entry[i].last
<1>1. i \in Irqs /\ h # Null /\ i # Null
  BY NullFacts DEF ListInv, ListTypes
<1>2. /\ handler[h].irq = Null /\ ~handler[h].enabled
      /\ handler[h].next = Null /\ handler[h].prev = Null
  BY DEF ListInv, OwnLine, Unassigned
<1>3. last # Null => last \in Ordinary(i) /\ handler[last].next = Null
  BY DEF ListInv, Ends
<1>4. last # h /\ (last # Null => last \in Handlers /\ handler[last].irq = i)
  BY <1>1, <1>2, <1>3 DEF Ordinary
<1>5. /\ handler' \in [Handlers -> Nodes]
      /\ handler'[h] = [handler[h] EXCEPT !.irq = i, !.prev = last]
      /\ \A g \in Handlers \ {h} :
            handler'[g] = IF g = last THEN [handler[g] EXCEPT !.next = h] ELSE handler[g]
  <2>1. handler' = [g \in Handlers |->
               CASE g = h -> [handler[g] EXCEPT !.irq = i, !.prev = last]
                 [] g = last -> [handler[g] EXCEPT !.next = h]
                 [] OTHER -> handler[g]]
    BY DEF LinkLast
  <2> HIDE DEF last
  <2>2. last \in Pointers
    BY <1>4 DEF Pointers
  <2>3. \A g \in Handlers : handler[g] \in Nodes /\ [handler[g] EXCEPT !.next = h] \in Nodes
    BY DEF ListInv, ListTypes, Nodes, Pointers
  <2>4. /\ handler'[h] = [handler[h] EXCEPT !.irq = i, !.prev = last]
        /\ \A g \in Handlers \ {h} :
              handler'[g] = IF g = last THEN [handler[g] EXCEPT !.next = h] ELSE handler[g]
    BY <1>4, <2>1
  <2>5. [handler[h] EXCEPT !.irq = i, !.prev = last] \in Nodes
    BY <1>1, <2>2, <2>3 DEF Nodes
  <2> DEFINE N(g) == CASE g = h -> [handler[g] EXCEPT !.irq = i, !.prev = last]
                       [] g = last -> [handler[g] EXCEPT !.next = h]
                       [] OTHER -> handler[g]
  <2>6. \A g \in Handlers : N(g) \in Nodes
    BY <1>4, <2>3, <2>5
  <2>7. handler' = [g \in Handlers |-> N(g)]
    BY <2>1
  <2> HIDE DEF N
  <2>8. handler' \in [Handlers -> Nodes]
    BY <2>6, <2>7
  <2> QED
    BY <2>4, <2>8
<1>6. /\ entry'[i] = [entry[i] EXCEPT !.first = IF @ = Null THEN h ELSE @, !.last = h]
      /\ \A j \in Irqs : j # i => entry'[j] = entry[j]
      /\ entry' \in [Irqs -> Entries]
  <2> DEFINE E == [entry[i] EXCEPT !.first = IF @ = Null THEN h ELSE @, !.last = h]
  <2>1. E \in Entries
    BY <1>1 DEF ListInv, ListTypes, Entries, Pointers
  <2>2. entry' = [entry EXCEPT ![i] = E]
    BY Zenon DEF LinkLast
  <2>3. entry \in [Irqs -> Entries]
    BY DEF ListInv, ListTypes
  <2> HIDE DEF E
  <2>4. entry'[i] = E /\ (\A j \in Irqs : j # i => entry'[j] = entry[j]) /\ entry' \in [Irqs -> Entries]
    BY <1>1, <2>1, <2>2, <2>3
  <2> QED
    BY <2>4 DEF E
<1> HIDE DEF last
<1>7. \A g \in Handlers :
          /\ handler'[g].enabled = handler[g].enabled
          /\ handler'[g].irq = IF g = h THEN i ELSE handler[g].irq
          /\ handler'[g].prev = IF g = h THEN last ELSE handler[g].prev
          /\ handler'[g].next = IF g = last THEN h ELSE handler[g].next
  <2>1. /\ handler'[h].enabled = handler[h].enabled /\ handler'[h].irq = i
        /\ handler'[h].prev = last /\ handler'[h].next = handler[h].next
    <3>1. handler[h] \in Nodes
      BY DEF ListInv, ListTypes
    <3> QED
      BY <1>5, <3>1 DEF Nodes
  <2>2. ASSUME NEW g \in Handlers, g # h
        PROVE  /\ handler'[g].enabled = handler[g].enabled
               /\ handler'[g].irq = handler[g].irq
               /\ handler'[g].prev = handler[g].prev
               /\ handler'[g].next = IF g = last THEN h ELSE handler[g].next
    <3>1. handler[g] \in Nodes
      BY DEF ListInv, ListTypes
    <3>2. handler'[g] = IF g = last THEN [handler[g] EXCEPT !.next = h] ELSE handler[g]
      BY <1>5, <2>2
    <3>3. CASE g = last
      BY <3>1, <3>2, <3>3 DEF Nodes
    <3>4. CASE g # last
      BY <3>2, <3>4
    <3> QED
      BY <3>3, <3>4
  <2> QED
    BY <1>4, <2>1, <2>2
<1>8. /\ entry'[i].last = h /\ entry'[i].first = IF entry[i].first = Null THEN h ELSE entry[i].first
      /\ entry'[i].fallback = entry[i].fallback /\ entry'[i].flags = entry[i].flags
  BY <1>1, <1>6 DEF ListInv, ListTypes, Entries
<1>9. /\ Ordinary(i)' = Ordinary(i) \cup {h}
      /\ \A j \in Irqs : j # i => Ordinary(j)' = Ordinary(j)
      /\ \A j \in Irqs : EnabledOn(j)' = EnabledOn(j)
  <2>1. \A j \in Irqs : \A g \in Handlers :
            handler'[g].irq = j /\ handler'[g].enabled <=> handler[g].irq = j /\ handler[g].enabled
    BY <1>2, <1>7
  <2>2. \A j \in Irqs : EnabledOn(j)' = EnabledOn(j)
    BY <2>1 DEF EnabledOn
  <2>3. \A j \in Irqs : \A g \in Handlers :
            handler'[g].irq = j <=> handler[g].irq = j \/ (g = h /\ j = i)
    BY <1>1, <1>2, <1>7, NullFacts
  <2> QED
    BY <1>1, <2>2, <2>3 DEF Ordinary
<1>10. \A g \in Handlers : Member(g)' <=> Member(g) \/ g = h
  BY <1>1, <1>7 DEF Member
\* Nobody pointed to h.
<1>11. \A g \in Handlers : handler[g].next # h /\ handler[g].prev # h
  BY <1>1, <1>2, NullFacts DEF ListInv, ListTypes, Nodes, Linked, Ordinary
<1>12. ListTypes'
  BY <1>5, <1>6 DEF ListInv, ListTypes
<1>13. OwnLine'
  <2>1. Member(h)' /\ handler'[h].irq = Line[h]
    BY <1>7, <1>10
  <2>2. ASSUME NEW g \in Handlers, g # h
        PROVE  /\ Member(g)' => handler'[g].irq = Line[g]
               /\ ~Member(g)' => handler'[g] = Unassigned
               /\ IsFallback(g) => handler'[g].next = Null /\ handler'[g].prev = Null
    <3>1. /\ Member(g)' <=> Member(g)
          /\ handler'[g].irq = handler[g].irq /\ handler'[g].prev = handler[g].prev
      BY <1>7, <1>10, <2>2
    <3>2. ~Member(g) \/ IsFallback(g) => g # last
      BY <1>1, <1>3, <1>4, NullFacts DEF Ordinary, Member
    <3>3. g # last => handler'[g] = handler[g]
      BY <1>5, <2>2
    <3> QED
      BY <3>1, <3>2, <3>3 DEF ListInv, OwnLine
  <2> QED
    BY <2>1, <2>2 DEF OwnLine
<1>14. Linked'
  <2>1. ASSUME NEW g \in Handlers, handler'[g].next # Null
        PROVE  handler'[g].next \in Ordinary(handler[g].irq)' /\ handler'[handler'[g].next].prev = g
    <3>1. CASE g = last
      <4>1. last # Null /\ last # h /\ handler[last].irq = i
        BY <1>4, <3>1, NullFacts
      <4>2. handler'[g].next = h /\ handler'[g].irq = i /\ handler'[h].prev = g
        BY <1>7, <3>1, <4>1
      <4> QED
        BY <1>9, <4>2 DEF Ordinary
    <3>2. CASE g # last
      <4>1. g # h /\ handler'[g].next = handler[g].next /\ handler'[g].irq = handler[g].irq
        BY <1>2, <1>7, <2>1, <3>2
      <4>2. handler[g].next \in Ordinary(handler[g].irq) /\ handler[handler[g].next].prev = g
        BY <2>1, <4>1 DEF ListInv, Linked
      <4>3. handler[g].next \in Handlers /\ handler[g].next # h
        BY <1>11, <4>2 DEF Ordinary
      <4>4. /\ handler'[handler[g].next].irq = handler[handler[g].next].irq
            /\ handler'[handler[g].next].prev = handler[handler[g].next].prev
        BY <1>7, <4>3
      <4> QED
        BY <4>1, <4>2, <4>3, <4>4 DEF Ordinary
    <3> QED
      BY <3>1, <3>2
  <2>2. ASSUME NEW g \in Handlers, handler'[g].prev # Null
        PROVE  handler'[g].prev \in Ordinary(handler[g].irq)' /\ handler'[handler'[g].prev].next = g
    <3>1. CASE g = h
      <4>1. handler'[g].prev = last /\ handler'[g].irq = i
        BY <1>7, <3>1
      <4>2. last \in Ordinary(i) /\ last \in Handlers /\ handler'[last].next = h
        BY <1>3, <1>4, <1>7, <2>2, <4>1
      <4> QED
        BY <1>9, <3>1, <4>1, <4>2 DEF Ordinary
    <3>2. CASE g # h
      <4>1. handler'[g].prev = handler[g].prev /\ handler'[g].irq = handler[g].irq
        BY <1>7, <3>2
      <4>2. handler[g].prev \in Ordinary(handler[g].irq) /\ handler[handler[g].prev].next = g
        BY <2>2, <4>1 DEF ListInv, Linked
      <4>3. handler[g].prev \in Handlers /\ handler[g].prev # h /\ handler[g].prev # last
        BY <1>3, <1>11, <4>2, NullFacts DEF Ordinary
      <4>4. /\ handler'[handler[g].prev].irq = handler[handler[g].prev].irq
            /\ handler'[handler[g].prev].next = handler[handler[g].prev].next
        BY <1>7, <4>3
      <4> QED
        BY <4>1, <4>2, <4>3, <4>4 DEF Ordinary
    <3> QED
      BY <3>1, <3>2
  <2> QED
    BY <2>1, <2>2, Zenon DEF Linked
<1>15. Ends'
  <2>1. ASSUME NEW j \in alloc, j # i
        PROVE  /\ entry'[j].first # Null => entry'[j].first \in Ordinary(j)' /\ handler'[entry'[j].first].prev = Null
               /\ entry'[j].last # Null => entry'[j].last \in Ordinary(j)' /\ handler'[entry'[j].last].next = Null
               /\ entry'[j].last = Null <=> entry'[j].first = Null
    <3>1. j \in Irqs /\ entry'[j] = entry[j] /\ Ordinary(j)' = Ordinary(j)
      BY <1>6, <1>9, <2>1 DEF ListInv, ListTypes
    <3>2. \A g \in Ordinary(j) : g \in Handlers \ {h, last}
      BY <1>1, <1>2, <1>4, <2>1, <3>1, NullFacts DEF Ordinary
    <3> QED
      BY <1>7, <3>1, <3>2 DEF ListInv, Ends
  <2>2. entry'[i].first # Null /\ entry'[i].first \in Ordinary(i)' /\ handler'[entry'[i].first].prev = Null
    <3>1. CASE entry[i].first = Null
      BY <1>1, <1>7, <1>8, <1>9, <3>1 DEF last, ListInv, Ends
    <3>2. CASE entry[i].first # Null
      <4>1. entry[i].first \in Ordinary(i) /\ handler[entry[i].first].prev = Null
        BY <3>2 DEF ListInv, Ends
      <4>2. entry[i].first \in Handlers \ {h}
        BY <1>1, <1>2, <4>1 DEF Ordinary
      <4> QED
        BY <1>7, <1>8, <1>9, <3>2, <4>1, <4>2
    <3> QED
      BY <3>1, <3>2
  <2>3. entry'[i].last # Null /\ entry'[i].last \in Ordinary(i)' /\ handler'[entry'[i].last].next = Null
    <3>1. handler'[h].next = Null
      BY <1>2, <1>4, <1>7
    <3> QED
      BY <1>1, <1>8, <1>9, <3>1
  <2> QED
    BY <2>1, <2>2, <2>3 DEF Ends
<1>16. Reached'
  <2> SUFFICES ASSUME NEW j \in alloc, NEW S \in SUBSET Handlers,
                      entry'[j].first \in S \cup {Null}, Closed(S)'
               PROVE  Ordinary(j)' \subseteq S
    BY DEF Reached
  <2> DEFINE T == S \ {h}
  <2>1. Closed(T) /\ T \in SUBSET Handlers
    <3> SUFFICES ASSUME NEW g \in T PROVE handler[g].next \in T \cup {Null}
      BY DEF Closed
    <3>1. CASE g = last
      BY <1>3, <3>1, NullFacts
    <3>2. CASE g # last
      <4>1. handler'[g].next = handler[g].next /\ handler[g].next # h
        BY <1>7, <1>11, <3>2
      <4> QED
        BY <4>1 DEF Closed
    <3> QED
      BY <3>1, <3>2
  <2>2. \A k \in alloc : entry[k].first # h
    BY <1>1, <1>2, NullFacts DEF ListInv, ListTypes, Ends, Ordinary
  <2>3. CASE j # i
    <3>1. entry'[j] = entry[j] /\ Ordinary(j)' = Ordinary(j)
      BY <1>6, <1>9, <2>3 DEF ListInv, ListTypes
    <3> QED
      BY <2>1, <2>2, <3>1 DEF ListInv, Reached
  <2>4. CASE j = i /\ entry[i].first = Null
    <3>1. Ordinary(i) = {}
      BY <1>1, <2>4, NoFirst
    <3> QED
      BY <1>1, <1>8, <1>9, <2>4, <3>1
  <2>5. CASE j = i /\ entry[i].first # Null
    <3>1. entry[i].first \in T
      BY <1>8, <2>2, <2>5
    <3>2. Ordinary(i) \subseteq T
      BY <2>1, <3>1 DEF ListInv, Reached
    <3>3. last # Null
      BY <2>5 DEF last, ListInv, Ends
    <3>4. last \in S
      BY <1>3, <3>2, <3>3
    <3>5. h \in S
      BY <1>1, <1>7, <3>3, <3>4 DEF Closed
    <3> QED
      BY <1>9, <2>5, <3>2, <3>5
  <2> QED
    BY <2>3, <2>4, <2>5
<1>17. FlagsSum'
  <2>1. \A j \in alloc : j \in Irqs /\ entry'[j].flags = entry[j].flags
    BY <1>6, <1>8 DEF ListInv, ListTypes
  <2>2. \A j \in alloc : EnabledOn(j)' = EnabledOn(j)
    BY <1>9, <2>1
  <2> QED
    BY <2>1, <2>2 DEF ListInv, FlagsSum
<1>18. Fallbacks'
  <2>1. ASSUME NEW g \in Handlers, Member(g)', IsFallback(g)
        PROVE  entry'[Line[g]].fallback = g /\ Ordinary(Line[g])' # {}
    <3>1. Member(g) /\ Line[g] \in Irqs
      BY <1>10, <2>1, ConstantsAssumption
    <3>2. entry[Line[g]].fallback = g /\ Ordinary(Line[g]) # {}
      BY <2>1, <3>1 DEF ListInv, Fallbacks
    <3> QED
      BY <1>6, <1>8, <1>9, <3>1, <3>2
  <2>2. ASSUME NEW j \in Irqs, entry'[j].fallback # Null
        PROVE  IsFallback(entry'[j].fallback) /\ handler'[entry'[j].fallback].irq = j
    <3>1. entry'[j].fallback = entry[j].fallback
      BY <1>6, <1>8
    <3>2. entry[j].fallback \in Handlers /\ IsFallback(entry[j].fallback)
              /\ handler[entry[j].fallback].irq = j
      BY <2>2, <3>1 DEF ListInv, ListTypes, Entries, Pointers, Fallbacks
    <3> QED
      BY <1>7, <3>1, <3>2
  <2> QED
    BY <2>1, <2>2, Zenon DEF Fallbacks
<1>19. Hooked'
  BY <1>6, <1>7, <1>10 DEF ListInv, ListTypes, Hooked
<1> QED
  BY <1>7, <1>9, <1>10, <1>12, <1>13, <1>14, <1>15, <1>16, <1>17, <1>18, <1>19 DEF ListInv

\* The fallback handler of a line is registered, beside its ordinary handlers.
LEMMA LinkFallbackList ==
    ASSUME ListInv, NEW h \in Handlers, ~Member(h), IsFallback(h), NEW i \in alloc, i = Line[h],
           entry[i].fallback = Null, Ordinary(i) # {}, alloc' = alloc,
           handler' = [handler EXCEPT ![h].irq = i], entry' = [entry EXCEPT ![i].fallback = h]
    PROVE  /\ ListInv' /\ \A j \in Irqs : Ordinary(j)' = Ordinary(j)
           /\ \A g \in Handlers : (Member(g) => Member(g)') /\ handler'[g].enabled = handler[g].enabled
<1>1. i \in Irqs /\ h # Null /\ i # Null
  BY NullFacts DEF ListInv, ListTypes
<1>2. /\ handler[h].irq = Null /\ ~handler[h].enabled
      /\ handler[h].next = Null /\ handler[h].prev = Null
  BY DEF ListInv, OwnLine, Unassigned
<1>3. /\ ListTypes'
      /\ \A g \in Handlers : /\ handler'[g].irq = IF g = h THEN i ELSE handler[g].irq
                             /\ handler'[g].next = handler[g].next
                             /\ handler'[g].prev = handler[g].prev
                             /\ handler'[g].enabled = handler[g].enabled
                             /\ g # h => handler'[g] = handler[g]
  BY <1>1 DEF ListInv, ListTypes, Nodes, Entries, Pointers
<1>4. \A j \in Irqs : /\ entry'[j].first = entry[j].first
                      /\ entry'[j].last = entry[j].last
                      /\ entry'[j].fallback = IF j = i THEN h ELSE entry[j].fallback
                      /\ entry'[j].flags = entry[j].flags
  BY <1>1 DEF ListInv, ListTypes, Entries
<1>5. \A g \in Handlers : Member(g)' <=> Member(g) \/ g = h
  BY <1>1, <1>3 DEF Member
<1>6. \A j \in Irqs : Ordinary(j)' = Ordinary(j)
  BY <1>3 DEF Ordinary
<1>7. \A j \in Irqs : EnabledOn(j)' = EnabledOn(j)
  <2>1. \A j \in Irqs : \A g \in Handlers :
            handler'[g].irq = j /\ handler'[g].enabled <=> handler[g].irq = j /\ handler[g].enabled
    BY <1>2, <1>3
  <2> QED
    BY <2>1 DEF EnabledOn
<1>8. OwnLine'
  BY <1>3, <1>5 DEF ListInv, OwnLine
<1>9. Linked'
  <2>1. ASSUME NEW g \in Handlers, handler'[g].next # Null
        PROVE  handler'[g].next \in Ordinary(handler[g].irq)' /\ handler'[handler'[g].next].prev = g
    <3>1. g # h /\ handler'[g].next = handler[g].next /\ handler'[g].irq = handler[g].irq
      BY <1>2, <1>3, <2>1
    <3>2. handler[g].next \in Ordinary(handler[g].irq) /\ handler[handler[g].next].prev = g
      BY <2>1, <3>1 DEF ListInv, Linked
    <3>3. handler[g].next \in Handlers /\ handler[g].next # h
      BY <3>2 DEF Ordinary
    <3> QED
      BY <1>3, <3>1, <3>2, <3>3 DEF Ordinary
  <2>2. ASSUME NEW g \in Handlers, handler'[g].prev # Null
        PROVE  handler'[g].prev \in Ordinary(handler[g].irq)' /\ handler'[handler'[g].prev].next = g
    <3>1. g # h /\ handler'[g].prev = handler[g].prev /\ handler'[g].irq = handler[g].irq
      BY <1>2, <1>3, <2>2
    <3>2. handler[g].prev \in Ordinary(handler[g].irq) /\ handler[handler[g].prev].next = g
      BY <2>2, <3>1 DEF ListInv, Linked
    <3>3. handler[g].prev \in Handlers /\ handler[g].prev # h
      BY <3>2 DEF Ordinary
    <3> QED
      BY <1>3, <3>1, <3>2, <3>3 DEF Ordinary
  <2> QED
    BY <2>1, <2>2, Zenon DEF Linked
<1>10. Ends'
  <2> SUFFICES ASSUME NEW j \in alloc
               PROVE  /\ entry'[j].first # Null => entry'[j].first \in Ordinary(j)' /\ handler'[entry'[j].first].prev = Null
                      /\ entry'[j].last # Null => entry'[j].last \in Ordinary(j)' /\ handler'[entry'[j].last].next = Null
                      /\ entry'[j].last = Null <=> entry'[j].first = Null
    BY DEF Ends
  <2>1. j \in Irqs /\ \A g \in Ordinary(j) : g \in Handlers
    BY DEF ListInv, ListTypes, Ordinary
  <2> QED
    BY <1>3, <1>4, <1>6, <2>1 DEF ListInv, Ends
<1>11. Reached'
  <2>1. \A S \in SUBSET Handlers : Closed(S)' <=> Closed(S)
    BY <1>3 DEF Closed
  <2>2. \A j \in alloc : j \in Irqs /\ entry'[j].first = entry[j].first /\ Ordinary(j)' = Ordinary(j)
    BY <1>4, <1>6 DEF ListInv, ListTypes
  <2> QED
    BY <2>1, <2>2 DEF ListInv, Reached
<1>12. FlagsSum'
  <2>1. \A j \in alloc : j \in Irqs /\ entry'[j].flags = entry[j].flags /\ EnabledOn(j)' = EnabledOn(j)
    BY <1>4, <1>7 DEF ListInv, ListTypes
  <2> QED
    BY <2>1 DEF ListInv, FlagsSum
<1>13. Fallbacks'
  <2>1. ASSUME NEW g \in Handlers, Member(g)', IsFallback(g)
        PROVE  entry'[Line[g]].fallback = g /\ Ordinary(Line[g])' # {}
    <3>1. CASE g = h
      BY <1>1, <1>4, <1>6, <3>1
    <3>2. CASE g # h
      <4>1. Member(g) /\ Line[g] \in Irqs
        BY <1>5, <2>1, <3>2, ConstantsAssumption
      <4>2. entry[Line[g]].fallback = g /\ Ordinary(Line[g]) # {}
        BY <2>1, <4>1 DEF ListInv, Fallbacks
      <4>3. Line[g] # i
        BY <4>2, NullFacts
      <4> QED
        BY <1>4, <1>6, <4>1, <4>2, <4>3
    <3> QED
      BY <3>1, <3>2
  <2>2. ASSUME NEW j \in Irqs, entry'[j].fallback # Null
        PROVE  IsFallback(entry'[j].fallback) /\ handler'[entry'[j].fallback].irq = j
    <3>1. CASE j = i
      BY <1>3, <1>4, <3>1
    <3>2. CASE j # i
      <4>1. entry'[j].fallback = entry[j].fallback
        BY <1>4, <3>2
      <4>2. entry[j].fallback \in Handlers /\ IsFallback(entry[j].fallback)
              /\ handler[entry[j].fallback].irq = j
        BY <2>2, <4>1 DEF ListInv, ListTypes, Entries, Pointers, Fallbacks
      <4>3. entry[j].fallback # h
        BY <1>2, <4>2, NullFacts
      <4> QED
        BY <1>3, <4>1, <4>2, <4>3
    <3> QED
      BY <3>1, <3>2
  <2> QED
    BY <2>1, <2>2, Zenon DEF Fallbacks
<1>14. Hooked'
  BY <1>3, <1>4, <1>5 DEF ListInv, ListTypes, Hooked
<1> QED
  BY <1>3, <1>5, <1>6, <1>8, <1>9, <1>10, <1>11, <1>12, <1>13, <1>14 DEF ListInv

LEMMA LinkList ==
    ASSUME Restricted, ListInv, FramesOK, Link, NEW h, h = Top.cur, NEW i, i = Line[h]
    PROVE  /\ ListInv' /\ UNCHANGED <<alloc, request>>
           /\ \A j \in Irqs : Ordinary(j) \subseteq Ordinary(j)'
           /\ \A j \in Irqs : j # i => Ordinary(j)' = Ordinary(j)
           /\ Ordinary(i)' # {} /\ i \in alloc
           /\ \A g \in Handlers : (Member(g) => Member(g)') /\ handler'[g].enabled = handler[g].enabled
<1>1. BaseOK(Top)
  BY TopIsBase DEF FramesOK, Link
<1>2. h \in Handlers /\ ~Member(h) /\ i \in alloc /\ (IsFallback(h) => Ordinary(i) # {})
  BY <1>1 DEF BaseOK, Link, At
<1>3. entry[i].fallback # Null => ~IsFallback(h)
  <2>1. entry[i].fallback # Null => entry[i].fallback \in Handlers
              /\ IsFallback(entry[i].fallback) /\ handler[entry[i].fallback].irq = i
    BY <1>2 DEF ListInv, ListTypes, Entries, Pointers, Fallbacks
  <2>2. i \in Irqs /\ i # Null
    BY <1>2, NullFacts DEF ListInv, ListTypes
  <2>3. entry[i].fallback # Null => Line[entry[i].fallback] = i /\ Member(entry[i].fallback)
    BY <2>1, <2>2 DEF ListInv, OwnLine, Member
  <2> QED
    BY <1>2, <2>1, <2>3 DEF Restricted
<1>4. CASE ~IsFallback(h)
  <2>1. LinkLast(h, i) /\ UNCHANGED <<alloc, request>>
    BY <1>4 DEF Link
  <2>2. /\ ListInv' /\ Ordinary(i)' = Ordinary(i) \cup {h}
        /\ \A j \in Irqs : j # i => Ordinary(j)' = Ordinary(j)
        /\ \A g \in Handlers : (Member(g) => Member(g)') /\ handler'[g].enabled = handler[g].enabled
    BY <1>2, <1>4, <2>1, LinkLastList
  <2> QED
    BY <1>2, <2>1, <2>2
<1>5. CASE IsFallback(h)
  <2>1. /\ entry[i].fallback = Null
        /\ handler' = [handler EXCEPT ![h].irq = i]
        /\ entry' = [entry EXCEPT ![i].fallback = h]
        /\ UNCHANGED <<alloc, request>>
    BY <1>3, <1>5 DEF Link
  <2>2. /\ ListInv' /\ \A j \in Irqs : Ordinary(j)' = Ordinary(j)
        /\ \A g \in Handlers : (Member(g) => Member(g)') /\ handler'[g].enabled = handler[g].enabled
    BY <1>2, <1>5, <2>1, LinkFallbackList
  <2>3. i \in Irqs
    BY <1>2 DEF ListInv, ListTypes
  <2> QED
    BY <1>2, <1>5, <2>1, <2>2, <2>3
<1> QED
  BY <1>4, <1>5

\* No handlers of a line form a loop apart from its first handler.
LEMMA NoLoop ==
    ASSUME ListInv, NEW i \in alloc, NEW D \in SUBSET Handlers, NEW h \in Ordinary(i), h \in D,
           \A g \in D : handler[g].prev \in D
    PROVE  FALSE
<1> DEFINE S == Ordinary(i) \ D
<1>1. S \in SUBSET Handlers
  BY DEF Ordinary
<1>2. entry[i].first \in S \cup {Null}
  BY NullFacts DEF ListInv, Ends
<1>3. Closed(S)
  <2> SUFFICES ASSUME NEW g \in S, handler[g].next # Null PROVE handler[g].next \in S
    BY DEF Closed
  <2>1. handler[g].next \in Ordinary(i) /\ handler[handler[g].next].prev = g
    BY DEF ListInv, Linked, Ordinary
  <2> QED
    BY <2>1
<1>4. Ordinary(i) \subseteq S
  BY <1>1, <1>2, <1>3 DEF ListInv, Reached
<1> QED
  BY <1>4

\* The neighbours of a handler are two others.
LEMMA Neighbours ==
    ASSUME ListInv, NEW i \in alloc, NEW h \in Handlers, handler[h].irq = i
    PROVE  LET n == handler[h].next
               p == handler[h].prev
           IN  /\ n # h /\ p # h /\ n \in Pointers /\ p \in Pointers
               /\ n # Null => n \in Ordinary(i) /\ handler[n].prev = h /\ n # p
               /\ p # Null => p \in Ordinary(i) /\ handler[p].next = h
<1> DEFINE n == handler[h].next
           p == handler[h].prev
<1>1. n # Null => n \in Ordinary(i) /\ handler[n].prev = h
  BY DEF ListInv, Linked
<1>2. p # Null => p \in Ordinary(i) /\ handler[p].next = h
  BY DEF ListInv, Linked
<1>3. n \in Pointers /\ p \in Pointers
  BY DEF ListInv, ListTypes, Nodes
<1>4. ~IsFallback(h) => h \in Ordinary(i)
  BY DEF Ordinary
<1>5. IsFallback(h) => n = Null /\ p = Null
  BY DEF ListInv, OwnLine
<1>6. ASSUME p = h PROVE FALSE
  <2>1. h \in Ordinary(i) /\ {h} \in SUBSET Handlers
    BY <1>4, <1>5, <1>6, NullFacts
  <2> QED
    BY <1>6, <2>1, NoLoop
<1>7. n # h
  BY <1>1, <1>6, NullFacts
<1>8. ASSUME n # Null, n = p PROVE FALSE
  <2>1. h \in Ordinary(i) /\ {h, n} \in SUBSET Handlers
    BY <1>1, <1>4, <1>5, <1>8 DEF Ordinary
  <2>2. \A g \in {h, n} : handler[g].prev \in {h, n}
    BY <1>1, <1>8
  <2> QED
    BY <2>1, <2>2, NoLoop
<1> QED
  BY <1>1, <1>2, <1>3, <1>6, <1>7, <1>8

\* What removing a handler does, field by field.
LEMMA RemoveFields ==
    ASSUME ListInv, NEW h \in Handlers, Member(h), NEW i, handler[h].irq = i, RemoveFrom(i, h)
    PROVE  LET n == handler[h].next
               p == handler[h].prev
               e == entry[i]
           IN  /\ i \in alloc /\ i \in Irqs /\ i = Line[h]
               /\ ListTypes' /\ handler'[h] = Unassigned
               /\ \A g \in Handlers : g # h =>
                     /\ handler'[g].irq = handler[g].irq
                     /\ handler'[g].enabled = handler[g].enabled
                     /\ handler'[g].next = IF g = p THEN n ELSE handler[g].next
                     /\ handler'[g].prev = IF g = n THEN p ELSE handler[g].prev
                     /\ g # n /\ g # p => handler'[g] = handler[g]
               /\ \A j \in Irqs : j # i => entry'[j] = entry[j]
               /\ entry'[i].first = IF e.first = h THEN n ELSE e.first
               /\ entry'[i].last = IF e.last = h THEN p ELSE e.last
               /\ entry'[i].fallback = IF IsFallback(h) THEN Null ELSE e.fallback
               /\ entry'[i].flags = UNION {Flags[g] : g \in EnabledOn(i) \ {h}}
               /\ alloc' = IF entry'[i].first = Null THEN alloc \ {i} ELSE alloc
<1> DEFINE n == handler[h].next
           p == handler[h].prev
           e == entry[i]
<1>1. i \in alloc /\ i \in Irqs /\ i = Line[h]
  BY MemberLine
<1>2. /\ n # h /\ p # h /\ n \in Pointers /\ p \in Pointers
      /\ n # Null => n # p
  BY <1>1, Neighbours
<1> HIDE DEF n, p
<1>3. handler' = [g \in Handlers |->
                     CASE g = h -> Unassigned
                       [] g # h /\ g = p -> [handler[g] EXCEPT !.next = n]
                       [] g # h /\ g = n -> [handler[g] EXCEPT !.prev = p]
                       [] OTHER -> handler[g]]
  BY DEF RemoveFrom, Detached, n, p
<1>4. \A g \in Handlers : handler[g] \in Nodes
  BY DEF ListInv, ListTypes
<1>5. /\ handler'[h] = Unassigned
      /\ \A g \in Handlers : g # h =>
            handler'[g] = IF g = p THEN [handler[g] EXCEPT !.next = n]
                          ELSE IF g = n THEN [handler[g] EXCEPT !.prev = p] ELSE handler[g]
  BY <1>2, <1>3, NullFacts
<1>6. \A g \in Handlers : g # h =>
            /\ handler'[g].irq = handler[g].irq
            /\ handler'[g].enabled = handler[g].enabled
            /\ handler'[g].next = IF g = p THEN n ELSE handler[g].next
            /\ handler'[g].prev = IF g = n THEN p ELSE handler[g].prev
            /\ g # n /\ g # p => handler'[g] = handler[g]
  <2> SUFFICES ASSUME NEW g \in Handlers, g # h
               PROVE  /\ handler'[g].irq = handler[g].irq
                      /\ handler'[g].enabled = handler[g].enabled
                      /\ handler'[g].next = IF g = p THEN n ELSE handler[g].next
                      /\ handler'[g].prev = IF g = n THEN p ELSE handler[g].prev
                      /\ g # n /\ g # p => handler'[g] = handler[g]
    OBVIOUS
  <2>1. CASE g = p
    <3>1. handler'[g] = [handler[g] EXCEPT !.next = n] /\ g # n
      BY <1>2, <1>5, <2>1, NullFacts
    <3> QED
      BY <1>4, <2>1, <3>1 DEF Nodes
  <2>2. CASE g # p /\ g = n
    <3>1. handler'[g] = [handler[g] EXCEPT !.prev = p]
      BY <1>5, <2>2
    <3> QED
      BY <1>4, <2>2, <3>1 DEF Nodes
  <2>3. CASE g # p /\ g # n
    BY <1>5, <2>3
  <2> QED
    BY <2>1, <2>2, <2>3
<1>7. handler' \in [Handlers -> Nodes]
  <2>1. Unassigned \in Nodes
    BY DEF Unassigned, Nodes, Pointers
  <2>2. \A g \in Handlers : [handler[g] EXCEPT !.next = n] \in Nodes
                                /\ [handler[g] EXCEPT !.prev = p] \in Nodes
    BY <1>2, <1>4 DEF Nodes
  <2> DEFINE N(g) == CASE g = h -> Unassigned
                       [] g # h /\ g = p -> [handler[g] EXCEPT !.next = n]
                       [] g # h /\ g = n -> [handler[g] EXCEPT !.prev = p]
                       [] OTHER -> handler[g]
  <2>3. \A g \in Handlers : N(g) \in Nodes
    BY <1>2, <1>4, <2>1, <2>2
  <2>4. handler' = [g \in Handlers |-> N(g)]
    BY <1>3
  <2> HIDE DEF N
  <2> QED
    BY <2>3, <2>4
<1> DEFINE d == Disabled(e, h)
           x == Unlinked(d, h)
<1>8. entry' = [entry EXCEPT ![i] = x] /\ alloc' = IF x.first = Null THEN alloc \ {i} ELSE alloc
  BY DEF RemoveFrom, DropEntry
<1>9. e \in Entries
  BY <1>1 DEF ListInv, ListTypes
<1>10. d = [first |-> e.first, last |-> e.last, fallback |-> e.fallback,
            flags |-> UNION {Flags[g] : g \in EnabledOn(i) \ {h}}]
  <2>1. CASE handler[h].enabled
    <3>1. d = [e EXCEPT !.flags = FlagsWithout(e, h)]
      BY <2>1 DEF Disabled
    <3>2. FlagsWithout(e, h) = UNION {Flags[g] : g \in EnabledOn(i) \ {h}}
      BY <1>1, FlagsWithoutIs
    <3> HIDE DEF d, e
    <3> QED
      BY <1>9, <3>1, <3>2 DEF Entries
  <2>2. CASE ~handler[h].enabled
    <3>1. d = e
      BY <2>2 DEF Disabled
    <3>2. EnabledOn(i) \ {h} = EnabledOn(i)
      BY <2>2 DEF EnabledOn
    <3>3. e.flags = UNION {Flags[g] : g \in EnabledOn(i) \ {h}}
      BY <1>1, <3>2 DEF ListInv, FlagsSum
    <3> HIDE DEF d, e
    <3> QED
      BY <1>9, <3>1, <3>3 DEF Entries
  <2> QED
    BY <2>1, <2>2
<1>11. IsFallback(h) => e.first # h /\ e.last # h
  BY <1>1, NullFacts DEF ListInv, Ends, Ordinary
<1>12. x = [first |-> IF e.first = h THEN n ELSE e.first,
            last |-> IF e.last = h THEN p ELSE e.last,
            fallback |-> IF IsFallback(h) THEN Null ELSE e.fallback,
            flags |-> UNION {Flags[g] : g \in EnabledOn(i) \ {h}}]
  <2>1. x = IF IsFallback(h) THEN [d EXCEPT !.fallback = Null]
            ELSE [d EXCEPT !.first = IF @ = h THEN n ELSE @, !.last = IF @ = h THEN p ELSE @]
    BY DEF Unlinked, n, p
  <2> HIDE DEF d, e, x
  <2> QED
    BY <1>10, <1>11, <2>1
<1>13. (UNION {Flags[g] : g \in EnabledOn(i) \ {h}}) \subseteq FlagNames
  BY ConstantsAssumption DEF EnabledOn
<1> HIDE DEF x, d, e
<1>14. x \in Entries
  BY <1>2, <1>9, <1>12, <1>13 DEF Entries, Pointers
<1>15. /\ entry' \in [Irqs -> Entries] /\ entry'[i] = x
       /\ \A j \in Irqs : j # i => entry'[j] = entry[j]
  BY <1>1, <1>8, <1>14 DEF ListInv, ListTypes
<1>16. ListTypes'
  BY <1>7, <1>8, <1>15 DEF ListInv, ListTypes
<1> QED
  BY <1>1, <1>5, <1>6, <1>8, <1>12, <1>15, <1>16 DEF n, p, e

\* A handler is removed: the list closes, and the line is unhooked with its last handler.
LEMMA RemoveList ==
    ASSUME ListInv, NEW h \in Handlers, Member(h), NEW i, handler[h].irq = i, RemoveFrom(i, h),
           entry[i].fallback \notin {Null, h} => Ordinary(i) \cap (Handlers \ {h}) # {}
    PROVE  /\ ListInv'
           /\ entry'[i].first = Null => i \notin alloc'
           /\ \A j \in Irqs : j # i => entry'[j] = entry[j]
           /\ alloc' \subseteq alloc
           /\ \A g \in Handlers : g # h => handler'[g].irq = handler[g].irq
                                             /\ handler'[g].enabled = handler[g].enabled
<1> DEFINE n == handler[h].next
           p == handler[h].prev
           e == entry[i]
<1>1. /\ i \in alloc /\ i \in Irqs /\ i = Line[h] /\ i # Null
      /\ handler'[h] = Unassigned
      /\ entry'[i].first = IF e.first = h THEN n ELSE e.first
      /\ entry'[i].last = IF e.last = h THEN p ELSE e.last
      /\ entry'[i].fallback = IF IsFallback(h) THEN Null ELSE e.fallback
      /\ entry'[i].flags = UNION {Flags[g] : g \in EnabledOn(i) \ {h}}
  BY RemoveFields, NullFacts
<1>2. /\ ListTypes'
      /\ \A j \in Irqs : j # i => entry'[j] = entry[j]
      /\ alloc' = IF entry'[i].first = Null THEN alloc \ {i} ELSE alloc
  BY RemoveFields
<1>3. \A g \in Handlers : g # h =>
         /\ handler'[g].irq = handler[g].irq
         /\ handler'[g].enabled = handler[g].enabled
         /\ handler'[g].next = IF g = p THEN n ELSE handler[g].next
         /\ handler'[g].prev = IF g = n THEN p ELSE handler[g].prev
         /\ g # n /\ g # p => handler'[g] = handler[g]
  BY RemoveFields
<1>4. /\ n # h /\ p # h /\ n \in Pointers /\ p \in Pointers
      /\ n # Null => n \in Ordinary(i) /\ handler[n].prev = h /\ n # p
      /\ p # Null => p \in Ordinary(i) /\ handler[p].next = h
  BY <1>1, Neighbours
<1>5. /\ handler'[h].irq = Null /\ ~handler'[h].enabled
      /\ handler'[h].next = Null /\ handler'[h].prev = Null
  BY <1>1 DEF Unassigned
<1>6. /\ e.first # Null => e.first \in Ordinary(i) /\ handler[e.first].prev = Null
      /\ e.last # Null => e.last \in Ordinary(i) /\ handler[e.last].next = Null
      /\ e.last = Null <=> e.first = Null
  BY <1>1 DEF ListInv, Ends
<1> HIDE DEF n, p, e
<1>7. /\ Ordinary(i)' = Ordinary(i) \ {h} /\ Ordinary(i) \subseteq Handlers
      /\ \A j \in Irqs : j # i => Ordinary(j)' = Ordinary(j) /\ h \notin Ordinary(j)
      /\ \A j \in Irqs : EnabledOn(j)' = EnabledOn(j) \ {h}
      /\ \A j \in Irqs : j # i => h \notin EnabledOn(j)
  <2>1. \A j \in Irqs : \A g \in Handlers : handler'[g].irq = j <=> handler[g].irq = j /\ g # h
    BY <1>3, <1>5, NullFacts
  <2>2. \A j \in Irqs : \A g \in Handlers :
            handler'[g].irq = j /\ handler'[g].enabled
                <=> handler[g].irq = j /\ handler[g].enabled /\ g # h
    BY <1>3, <1>5, <2>1
  <2>3. \A j \in Irqs : EnabledOn(j)' = EnabledOn(j) \ {h}
    BY <2>2 DEF EnabledOn
  <2>4. \A j \in Irqs : Ordinary(j)' = Ordinary(j) \ {h}
    BY <2>1 DEF Ordinary
  <2>5. \A j \in Irqs : j # i => h \notin Ordinary(j) /\ h \notin EnabledOn(j)
    BY DEF Ordinary, EnabledOn
  <2>6. Ordinary(i) \subseteq Handlers
    BY DEF Ordinary
  <2>7. \A j \in Irqs : j # i => Ordinary(j)' = Ordinary(j)
    BY <2>4, <2>5
  <2> QED
    BY <1>1, <2>3, <2>4, <2>5, <2>6, <2>7, Zenon
<1>8. ~Member(h)' /\ \A g \in Handlers : g # h => (Member(g)' <=> Member(g))
  BY <1>3, <1>5 DEF Member
<1>9. OwnLine'
  <2> SUFFICES ASSUME NEW g \in Handlers, g # h
               PROVE  /\ Member(g)' => handler'[g].irq = Line[g]
                      /\ ~Member(g)' => handler'[g] = Unassigned
                      /\ IsFallback(g) => handler'[g].next = Null /\ handler'[g].prev = Null
    BY <1>1, <1>5, <1>8 DEF OwnLine
  <2>1. ~Member(g) \/ IsFallback(g) => g # n /\ g # p
    BY <1>1, <1>4, NullFacts DEF Ordinary, Member
  <2>2. ~Member(g) \/ IsFallback(g) => handler'[g] = handler[g]
    BY <1>3, <2>1
  <2>3. (Member(g)' <=> Member(g)) /\ handler'[g].irq = handler[g].irq
    BY <1>3, <1>8
  <2> QED
    BY <2>2, <2>3 DEF ListInv, OwnLine
<1>10. Linked'
  <2>1. ASSUME NEW g \in Handlers, handler'[g].next # Null
        PROVE  handler'[g].next \in Ordinary(handler[g].irq)' /\ handler'[handler'[g].next].prev = g
    <3>1. g # h /\ handler'[g].irq = handler[g].irq
      BY <1>3, <1>5, <2>1
    <3>2. CASE g = p
      <4>1. handler'[g].next = n /\ n # Null /\ g \in Ordinary(i)
        BY <1>3, <1>4, <2>1, <3>1, <3>2, NullFacts
      <4>2. n \in Handlers /\ n # h /\ handler'[n].irq = i /\ handler'[n].prev = p
        BY <1>3, <1>4, <4>1 DEF Ordinary
      <4> QED
        BY <1>4, <3>1, <3>2, <4>1, <4>2 DEF Ordinary
    <3>3. CASE g # p
      <4> DEFINE x == handler[g].next
      <4>1. handler'[g].next = x /\ x # Null
        BY <1>3, <2>1, <3>1, <3>3
      <4>2. x \in Ordinary(handler[g].irq) /\ handler[x].prev = g
        BY <4>1 DEF ListInv, Linked
      <4>3. x \in Handlers /\ x # h /\ x # n
        BY <1>4, <3>1, <3>3, <4>2, NullFacts DEF Ordinary, p
      <4>4. handler'[x].irq = handler[x].irq /\ handler'[x].prev = handler[x].prev
        BY <1>3, <4>3
      <4> QED
        BY <3>1, <4>1, <4>2, <4>3, <4>4 DEF Ordinary
    <3> QED
      BY <3>2, <3>3
  <2>2. ASSUME NEW g \in Handlers, handler'[g].prev # Null
        PROVE  handler'[g].prev \in Ordinary(handler[g].irq)' /\ handler'[handler'[g].prev].next = g
    <3>1. g # h /\ handler'[g].irq = handler[g].irq
      BY <1>3, <1>5, <2>2
    <3>2. CASE g = n
      <4>1. handler'[g].prev = p /\ p # Null /\ g \in Ordinary(i)
        BY <1>3, <1>4, <2>2, <3>1, <3>2, NullFacts
      <4>2. p \in Handlers /\ p # h /\ handler'[p].irq = i /\ handler'[p].next = n
        BY <1>3, <1>4, <4>1 DEF Ordinary
      <4> QED
        BY <1>4, <3>1, <3>2, <4>1, <4>2 DEF Ordinary
    <3>3. CASE g # n
      <4> DEFINE x == handler[g].prev
      <4>1. handler'[g].prev = x /\ x # Null
        BY <1>3, <2>2, <3>1, <3>3
      <4>2. x \in Ordinary(handler[g].irq) /\ handler[x].next = g
        BY <4>1 DEF ListInv, Linked
      <4>3. x \in Handlers /\ x # h /\ x # p
        BY <1>4, <3>1, <3>3, <4>2, NullFacts DEF Ordinary, n
      <4>4. handler'[x].irq = handler[x].irq /\ handler'[x].next = handler[x].next
        BY <1>3, <4>3
      <4> QED
        BY <3>1, <4>1, <4>2, <4>3, <4>4 DEF Ordinary
    <3> QED
      BY <3>2, <3>3
  <2> QED
    BY <2>1, <2>2, Zenon DEF Linked
\* The list is empty afterwards when h was alone on it.
<1>11. /\ entry'[i].first = Null => Ordinary(i)' = {}
       /\ entry'[i].last = Null <=> entry'[i].first = Null
  <2>1. CASE e.first = Null
    <3>1. Ordinary(i) = {}
      BY <1>1, <2>1, NoFirst DEF e
    <3> QED
      BY <1>1, <1>6, <1>7, <2>1, <3>1, NullFacts
  <2>2. CASE e.first # Null
    <3>1. ASSUME e.first = h, n = Null PROVE Ordinary(i) = {h} /\ p = Null /\ e.last = h
      <4>1. h \in Ordinary(i) /\ p = Null
        BY <1>6, <2>2, <3>1 DEF p
      <4>2. Ordinary(i) = {h}
        BY <1>1, <3>1, <4>1, ListEnds DEF e, n
      <4> QED
        BY <1>6, <2>2, <4>1, <4>2
    <3>2. ASSUME e.last = h, p = Null PROVE e.first = h /\ n = Null
      <4>1. h \in Ordinary(i) /\ n = Null
        BY <1>6, <2>2, <3>2 DEF n
      <4> QED
        BY <1>1, <3>2, <4>1, ListEnds DEF e, p
    <3> QED
      BY <1>1, <1>6, <1>7, <2>2, <3>1, <3>2
  <2> QED
    BY <2>1, <2>2
<1>12. Ends'
  <2>1. ASSUME NEW j \in alloc, j # i
        PROVE  /\ entry'[j].first # Null => entry'[j].first \in Ordinary(j)' /\ handler'[entry'[j].first].prev = Null
               /\ entry'[j].last # Null => entry'[j].last \in Ordinary(j)' /\ handler'[entry'[j].last].next = Null
               /\ entry'[j].last = Null <=> entry'[j].first = Null
    <3>1. j \in Irqs /\ entry'[j] = entry[j] /\ Ordinary(j)' = Ordinary(j)
      BY <1>2, <1>7, <2>1 DEF ListInv, ListTypes
    <3>2. \A g \in Ordinary(j) : g \in Handlers /\ g # h /\ g # n /\ g # p
      BY <1>1, <1>4, <2>1, <3>1, NullFacts DEF Ordinary
    <3>3. \A g \in Ordinary(j) : handler'[g] = handler[g]
      BY <1>3, <3>2
    <3> QED
      BY <3>1, <3>3 DEF ListInv, Ends
  <2>2. entry'[i].first # Null =>
            entry'[i].first \in Ordinary(i)' /\ handler'[entry'[i].first].prev = Null
    <3>1. CASE e.first = h /\ n # Null
      <4>1. p = Null /\ n \in Handlers /\ n # h
        BY <1>4, <1>6, <3>1, NullFacts DEF p, Ordinary
      <4> QED
        BY <1>1, <1>3, <1>4, <1>7, <3>1, <4>1
    <3>2. CASE e.first # h /\ e.first # Null
      <4>1. e.first \in Handlers /\ e.first # n
        BY <1>4, <1>6, <3>2, NullFacts DEF Ordinary
      <4> QED
        BY <1>1, <1>3, <1>6, <1>7, <3>2, <4>1
    <3> QED
      BY <1>1, <3>1, <3>2
  <2>3. entry'[i].last # Null =>
            entry'[i].last \in Ordinary(i)' /\ handler'[entry'[i].last].next = Null
    <3>1. CASE e.last = h /\ p # Null
      <4>1. n = Null /\ p \in Handlers /\ p # h
        BY <1>4, <1>6, <3>1, NullFacts DEF n, Ordinary
      <4> QED
        BY <1>1, <1>3, <1>4, <1>7, <3>1, <4>1
    <3>2. CASE e.last # h /\ e.last # Null
      <4>1. e.last \in Handlers /\ e.last # p
        BY <1>4, <1>6, <3>2, NullFacts DEF Ordinary
      <4> QED
        BY <1>1, <1>3, <1>6, <1>7, <3>2, <4>1
    <3> QED
      BY <1>1, <3>1, <3>2
  <2>4. alloc' \subseteq alloc
    BY <1>2
  <2> QED
    BY <1>11, <2>1, <2>2, <2>3, <2>4, SMT DEF Ends
<1>13. Reached'
  <2> SUFFICES ASSUME NEW j \in alloc, NEW S \in SUBSET Handlers,
                      entry'[j].first \in S \cup {Null}, Closed(S)'
               PROVE  j \in alloc' => Ordinary(j)' \subseteq S
    BY <1>2, Zenon DEF Reached
  <2>0. \A g \in S : handler'[g].next \in S \cup {Null}
    BY DEF Closed
  <2>1. CASE j # i
    <3> DEFINE T == S \cap Ordinary(j)
    <3>1. j \in Irqs /\ entry'[j] = entry[j] /\ Ordinary(j)' = Ordinary(j)
      BY <1>2, <1>7, <2>1 DEF ListInv, ListTypes
    <3>2. Closed(T)
      <4> SUFFICES ASSUME NEW g \in T, handler[g].next # Null PROVE handler[g].next \in T
        BY DEF Closed
      <4>1. handler[g].next \in Ordinary(j)
        BY DEF ListInv, Linked, Ordinary
      <4>2. g # h /\ g # p
        BY <1>1, <1>4, <2>1, <3>1, NullFacts DEF Ordinary
      <4>3. handler[g].next \in S
        BY <1>3, <2>0, <4>2
      <4> QED
        BY <4>1, <4>3
    <3>3. entry[j].first \in T \cup {Null}
      BY <3>1 DEF ListInv, Ends
    <3>4. Ordinary(j) \subseteq T
      BY <3>2, <3>3 DEF ListInv, Reached
    <3> QED
      BY <3>1, <3>4
  <2>2. CASE j = i /\ (e.first = h \/ p \in S)
    <3> DEFINE T == S \cup {h}
    <3>1. Closed(T)
      <4> SUFFICES ASSUME NEW g \in T PROVE handler[g].next \in T \cup {Null}
        BY DEF Closed
      <4>1. CASE g = h
        <5>1. e.first = h => n \in S \cup {Null}
          BY <1>1, <2>2
        <5>2. p \in S => n \in S \cup {Null}
          BY <1>3, <1>4, <2>0
        <5> QED
          BY <2>2, <4>1, <5>1, <5>2 DEF n
      <4>2. CASE g # h /\ g = p
        BY <1>4, <4>2, NullFacts
      <4>3. CASE g # h /\ g # p
        BY <1>3, <2>0, <4>3
      <4> QED
        BY <4>1, <4>2, <4>3
    <3>2. e.first \in T \cup {Null}
      BY <1>1, <2>2
    <3>3. Ordinary(i) \subseteq T
      BY <1>1, <3>1, <3>2 DEF ListInv, Reached, e
    <3> QED
      BY <1>7, <2>2, <3>3
  <2>3. CASE j = i /\ e.first # h /\ p \notin S
    <3> DEFINE T == S \ {h}
    <3>1. Closed(T)
      <4> SUFFICES ASSUME NEW g \in T, handler[g].next # Null PROVE handler[g].next \in T
        BY DEF Closed
      <4>1. g # h /\ g # p
        BY <2>3
      <4>2. handler[g].next \in S
        BY <1>3, <2>0, <4>1
      <4>3. handler[g].next # h
        BY <4>1 DEF ListInv, Linked, p
      <4> QED
        BY <4>2, <4>3
    <3>2. e.first \in T \cup {Null}
      BY <1>1, <2>3
    <3>3. Ordinary(i) \subseteq T
      BY <1>1, <3>1, <3>2 DEF ListInv, Reached, e
    <3> QED
      BY <1>7, <2>3, <3>3
  <2> QED
    BY <2>1, <2>2, <2>3
<1>14. FlagsSum'
  <2>1. \A j \in alloc : j \in Irqs
    BY DEF ListInv, ListTypes
  <2>2. ASSUME NEW j \in alloc, j # i
        PROVE  entry'[j].flags = UNION {Flags[g] : g \in EnabledOn(j)'}
    <3>1. EnabledOn(j)' = EnabledOn(j) /\ entry'[j] = entry[j]
      BY <1>2, <1>7, <2>1, <2>2
    <3> QED
      BY <3>1 DEF ListInv, FlagsSum
  <2>3. entry'[i].flags = UNION {Flags[g] : g \in EnabledOn(i)'}
    BY <1>1, <1>7
  <2>4. alloc' \subseteq alloc
    BY <1>2
  <2> QED
    BY <2>2, <2>3, <2>4, Zenon DEF FlagsSum
<1>15. Fallbacks'
  <2>1. ASSUME NEW g \in Handlers, Member(g)', IsFallback(g)
        PROVE  entry'[Line[g]].fallback = g /\ Ordinary(Line[g])' # {}
    <3>1. g # h /\ Member(g) /\ Line[g] \in Irqs /\ g # Null
      BY <1>8, <2>1, ConstantsAssumption
    <3>2. entry[Line[g]].fallback = g /\ Ordinary(Line[g]) # {}
      BY <2>1, <3>1 DEF ListInv, Fallbacks
    <3>3. CASE Line[g] # i
      BY <1>2, <1>7, <3>1, <3>2, <3>3
    <3>4. CASE Line[g] = i
      <4>1. ~IsFallback(h)
        BY <1>1, <3>1, <3>2, <3>4 DEF ListInv, Fallbacks
      <4>2. Ordinary(i) \cap (Handlers \ {h}) # {}
        BY <3>1, <3>2, <3>4
      <4> QED
        BY <1>1, <1>7, <3>2, <3>4, <4>1, <4>2 DEF e
    <3> QED
      BY <3>3, <3>4
  <2>2. ASSUME NEW j \in Irqs, entry'[j].fallback # Null
        PROVE  IsFallback(entry'[j].fallback) /\ handler'[entry'[j].fallback].irq = j
    <3>1. entry'[j].fallback = entry[j].fallback /\ (j = i => ~IsFallback(h))
      BY <1>1, <1>2, <2>2 DEF e
    <3>2. entry[j].fallback \in Handlers /\ IsFallback(entry[j].fallback)
              /\ handler[entry[j].fallback].irq = j
      BY <2>2, <3>1 DEF ListInv, ListTypes, Entries, Pointers, Fallbacks
    <3>3. entry[j].fallback # h
      BY <3>1, <3>2
    <3> QED
      BY <1>3, <3>1, <3>2, <3>3
  <2> QED
    BY <2>1, <2>2, Zenon DEF Fallbacks
<1>16. Hooked'
  <2>1. ASSUME NEW g \in Handlers, Member(g)' PROVE handler'[g].irq \in alloc'
    <3>1. g # h /\ Member(g) /\ handler'[g].irq = handler[g].irq /\ handler[g].irq = Line[g]
      BY <1>3, <1>8, <2>1 DEF ListInv, OwnLine
    <3>2. handler[g].irq \in alloc
      BY <3>1 DEF ListInv, Hooked
    <3>3. CASE handler[g].irq = i /\ entry'[i].first = Null
      <4>1. Ordinary(i)' = {}
        BY <1>11, <3>3
      <4>2. g \notin Ordinary(i)'
        BY <4>1
      <4>3. IsFallback(g)
        BY <3>1, <3>3, <4>2 DEF Ordinary
      <4> QED
        BY <1>15, <2>1, <3>1, <3>3, <4>1, <4>3 DEF Fallbacks
    <3> QED
      BY <1>2, <3>1, <3>2, <3>3
  <2>2. ASSUME NEW j \in Irqs, j \notin alloc' PROVE entry'[j].first = Null /\ entry'[j].last = Null
    BY <1>1, <1>2, <1>11, <2>2 DEF ListInv, Hooked
  <2> QED
    BY <2>1, <2>2, Zenon DEF Hooked
<1> QED
  BY <1>2, <1>3, <1>9, <1>10, <1>12, <1>13, <1>14, <1>15, <1>16 DEF ListInv

\* The steps that leave the lists alone, and the others.
LEMMA NextCases ==
    ASSUME Next
    PROVE  \/ UNCHANGED lists
           \/ \E h \in Handlers : Assign(h) \/ Enable(h) \/ Disable(h) \/ Remove(h)
           \/ Link
BY DEF Next, Handling, Driver, Request, BiosRequest, Deliver, CallFirst, CallNext, End, Serve,
       Acknowledge, FuncReturns

LEMMA ListInit == Init => ListInv
<1> SUFFICES ASSUME Init PROVE ListInv
  OBVIOUS
<1>1. /\ \A h \in Handlers : handler[h] = Unassigned
      /\ \A i \in Irqs : entry[i] = Empty
      /\ alloc = {}
  BY DEF Init
<1>2. /\ \A h \in Handlers : handler[h].irq = Null /\ handler[h].next = Null /\ handler[h].prev = Null
      /\ \A i \in Irqs : entry[i].first = Null /\ entry[i].last = Null /\ entry[i].fallback = Null
  BY <1>1 DEF Unassigned, Empty
<1>3. ListTypes
  <2>1. Unassigned \in Nodes /\ Empty \in Entries
    BY DEF Unassigned, Empty, Nodes, Entries, Pointers
  <2> QED
    BY <2>1 DEF Init, ListTypes
<1>4. OwnLine /\ Linked /\ Hooked /\ Fallbacks
  BY <1>1, <1>2 DEF OwnLine, Linked, Hooked, Fallbacks, Member
<1>5. Ends /\ Reached /\ FlagsSum
  BY <1>1 DEF Ends, Reached, FlagsSum
<1> QED
  BY <1>3, <1>4, <1>5 DEF ListInv

LEMMA ListStep == ASSUME Restricted, IInv, [Next]_vars PROVE ListInv'
<1>1. ListInv /\ FramesOK
  BY DEF IInv, ActivityInv
<1>2. CASE UNCHANGED lists
  BY <1>1, <1>2, ListsUnchanged
<1>3. ASSUME NEW h \in Handlers, Remove(h) PROVE ListInv'
  <2> DEFINE i == handler[h].irq
  <2>1. Member(h) /\ RemoveFrom(i, h) /\ i = Line[h]
    BY <1>1, <1>3, MemberLine DEF Remove
  <2>2. entry[i].fallback \notin {Null, h} => Ordinary(i) \cap (Handlers \ {h}) # {}
    BY <1>3, <2>1 DEF Remove, Accompanied, Restricted
  <2> QED
    BY <1>1, <2>1, <2>2, RemoveList
<1>4. CASE Link
  BY <1>1, <1>4, LinkList
<1>5. CASE UNCHANGED vars
  BY <1>2, <1>5 DEF vars, lists
<1> QED
  BY <1>1, <1>2, <1>3, <1>4, <1>5, NextCases, AssignList, EnableList, DisableList

-----------------------------------------------------------------------------
(* The activations. *)

\* Following the list from p finds p and what follows it.
LEMMA FromStep ==
    ASSUME NEW p \in Handlers, NEW h \in From(p), h # p
    PROVE  h \in From(handler[p].next)
<1>1. h \in Handlers
  BY DEF From
<1>2. ASSUME NEW S \in SUBSET Handlers, handler[p].next \in S \cup {Null}, Closed(S)
      PROVE  h \in S
  <2> DEFINE T == S \cup {p}
  <2>1. T \in SUBSET Handlers /\ p \in T \cup {Null} /\ Closed(T)
    BY <1>2 DEF Closed
  <2>2. h \in T
    BY <2>1, Zenon DEF From
  <2> QED
    BY <2>2
<1> QED
  BY <1>1, <1>2 DEF From

LEMMA FromNull == From(Null) = {}
<1>1. Closed({}) /\ {} \in SUBSET Handlers /\ Null \in {} \cup {Null}
  BY DEF Closed
<1> QED
  BY <1>1, Zenon DEF From

\* With the lists as they were, frames mean what they meant.
LEMMA ListsFixed ==
    ASSUME UNCHANGED lists
    PROVE  /\ \A x : ActivationOK(x) => ActivationOK(x)'
           /\ \A x : BaseOK(x) => BaseOK(x)'
           /\ \A x, h : WillCall(x, h) => WillCall(x, h)'
<1>1. UNCHANGED <<entry, alloc, handler>>
  BY DEF lists
<1>2. \A x : ActivationOK(x) => ActivationOK(x)'
  BY <1>1 DEF ActivationOK
<1>3. \A x : BaseOK(x) => BaseOK(x)'
  BY <1>1 DEF BaseOK, Member, Ordinary
<1>4. \A p : From(p)' = From(p)
  BY <1>1 DEF From, Closed
<1>5. \A x, h : WillCall(x, h) => WillCall(x, h)'
  BY <1>1, <1>4 DEF WillCall
<1> QED
  BY <1>2, <1>3, <1>5

\* When the innermost activation has sent its EOI its line is not in service.
LEMMA SentIsOpen ==
    ASSUME FramesOK, InService, NEW st \in Stages, At(st), EoiSent(Top)
    PROVE  Top.irq \notin isr
<1>1. Len(frames) > 1 /\ 1 \in 1..Len(frames) - 1 /\ Len(frames) \in Nat
  BY TopIsActivation, FrameFacts
<1>2. ASSUME Top.irq \in isr PROVE FALSE
  <2>1. PICK k \in 1..Len(frames) - 1 : Unsent(k, Top.irq)
    BY <1>2 DEF InService
  <2>2. k # 1
    BY <2>1 DEF Unsent, Top
  <2>3. 1 \in 1..k - 1
    BY <1>1, <2>2
  <2>4. EoiSent(frames[k])
    BY <2>1, <2>3 DEF InService, Unsent, Top
  <2> QED
    BY <2>1, <2>4 DEF Unsent
<1> QED
  BY <1>2

\* The innermost activation goes on, and maybe sends its EOI.
LEMMA TopStep ==
    ASSUME FramesOK, EmptyQuiet, InService, SelfMasked, NestingAllowed,
           NEW st \in Stages, At(st), NEW x \in Frames, Becomes(x), ActivationOK(x),
           x.irq = Top.irq, x.flags = Top.flags, EoiSent(Top) => EoiSent(x),
           UNCHANGED lists, UNCHANGED <<imr, irr>>,
           isr' = IF EoiSent(x) THEN isr \ {x.irq} ELSE isr
    PROVE  FramesOK' /\ EmptyQuiet' /\ InService' /\ SelfMasked' /\ NestingAllowed'
<1>1. Len(frames) > 1 /\ 1 \in 1..Len(frames) - 1 /\ Len(frames) \in Nat
  BY TopIsActivation, FrameFacts
<1>2. /\ frames' \in Seq(Frames) /\ frames' # <<>>
      /\ Len(frames') = Len(frames)
      /\ frames'[1] = x
      /\ \A k \in 2..Len(frames) : frames'[k] = frames[k]
      /\ Base' = Base
  BY <1>1, TopBecomes
<1>3. \A k \in 1..Len(frames) : frames'[k].irq = frames[k].irq /\ frames'[k].flags = frames[k].flags
  BY <1>2 DEF Top
<1>4. FramesOK'
  <2>1. BaseOK(Base)'
    BY <1>2, ListsFixed DEF FramesOK, BaseOK
  <2>2. \A k \in 1..Len(frames) - 1 : ActivationOK(frames'[k])
    BY <1>1, <1>2 DEF FramesOK
  <2>3. \A k \in 1..Len(frames') - 1 : ActivationOK(frames[k])'
    BY <1>2, <2>2, ListsFixed DEF ActivationOK
  <2> QED
    BY <1>2, <2>1, <2>3 DEF FramesOK
<1>5. EmptyQuiet'
  BY <1>2 DEF EmptyQuiet, lists
<1>6. InService'
  <2>1. \A k \in 2..Len(frames) - 1 : frames[k].irq = x.irq => EoiSent(frames[k])
    <3> SUFFICES ASSUME NEW k \in 2..Len(frames) - 1, frames[k].irq = x.irq
                 PROVE  EoiSent(frames[k])
      OBVIOUS
    <3>1. 1 \in 1..k - 1 /\ k \in 1..Len(frames) - 1
      BY <1>1
    <3> QED
      BY <3>1 DEF InService, Top
  <2>2. ASSUME NEW i \in isr' PROVE \E k \in 1..Len(frames) - 1 : frames'[k].irq = i /\ ~EoiSent(frames'[k])
    <3>1. i \in isr /\ (EoiSent(x) => i # x.irq)
      OBVIOUS
    <3>2. PICK k \in 1..Len(frames) - 1 : frames[k].irq = i /\ ~EoiSent(frames[k])
      BY <3>1 DEF InService, Unsent
    <3>3. CASE k = 1
      BY <1>2, <3>1, <3>2, <3>3 DEF Top
    <3>4. CASE k # 1
      <4>1. frames'[k] = frames[k]
        BY <1>1, <1>2, <3>4
      <4> QED
        BY <3>2, <4>1
    <3> QED
      BY <3>3, <3>4
  <2>3. ASSUME NEW k \in 1..Len(frames) - 1, ~EoiSent(frames'[k]) PROVE frames'[k].irq \in isr'
    <3>1. CASE k = 1
      BY <1>1, <1>2, <2>3, <3>1 DEF InService, Top
    <3>2. CASE k # 1
      <4>1. frames'[k] = frames[k] /\ k \in 2..Len(frames) - 1
        BY <1>1, <1>2, <3>2
      <4> QED
        BY <2>1, <2>3, <4>1 DEF InService
    <3> QED
      BY <3>1, <3>2
  <2>4. ASSUME NEW l \in 1..Len(frames) - 1, NEW k \in 1..l - 1, frames'[k].irq = frames'[l].irq
        PROVE  EoiSent(frames'[l])
    <3>1. l \in 2..Len(frames) /\ k \in 1..Len(frames)
      BY <1>1
    <3> QED
      BY <1>2, <1>3, <2>4, <3>1 DEF InService
  <2> QED
    BY <1>2, <2>2, <2>3, <2>4 DEF InService, Unsent, EoiSent
<1>7. SelfMasked' /\ NestingAllowed'
  <2>1. \A k \in 1..Len(frames) - 1 : k \in 1..Len(frames)
    BY <1>1
  <2>2. \A l \in 2..Len(frames) : l \in 1..Len(frames) /\ \A k \in 1..l - 1 : k \in 1..Len(frames)
    BY <1>1
  <2> QED
    BY <1>2, <1>3, <2>1, <2>2 DEF SelfMasked, NestingAllowed, MaskSelf
<1> QED
  BY <1>4, <1>5, <1>6, <1>7

\* The calls that the innermost activation still has to make are made.
LEMMA TopRequests ==
    ASSUME FramesOK, NEW x \in Frames, Becomes(x), UNCHANGED lists, RequestKept,
           irr \subseteq irr', request' \subseteq request,
           \A h \in request' : ~IsFallback(h) /\ WillCall(Top, h) => WillCall(x, h)
    PROVE  RequestKept'
<1>1. /\ Len(frames') = Len(frames) /\ frames'[1] = x /\ Len(frames) \in Nat
      /\ \A k \in 2..Len(frames) : frames'[k] = frames[k]
      /\ 1 \in 1..Len(frames)
  BY TopBecomes, FrameFacts
<1> SUFFICES ASSUME NEW h \in request', ~IsFallback(h), Line[h] \notin irr'
             PROVE  \E k \in 1..Len(frames') : WillCall(frames[k], h)'
  BY DEF RequestKept
<1>2. PICK k \in 1..Len(frames) : WillCall(frames[k], h)
  BY DEF RequestKept
<1>3. WillCall(frames'[k], h)
  <2>1. CASE k = 1
    BY <1>1, <1>2, <2>1 DEF Top
  <2>2. CASE k # 1
    BY <1>1, <1>2, <2>2
  <2> QED
    BY <2>1, <2>2
<1>4. WillCall(frames[k], h)'
  BY <1>3 DEF WillCall, From, Closed, lists
<1> QED
  BY <1>1, <1>4

\* The innermost activation asks the handler p next.
LEMMA AskHandler ==
    ASSUME IInv, NEW st \in Stages, At(st), NEW p \in Handlers, handler[p].irq = Top.irq,
           IsFallback(p) => Top.ack # "yes", Call(p), UNCHANGED <<lists, pic, devices>>,
           \A h \in request : ~IsFallback(h) /\ WillCall(Top, h) => h \in From(p)
    PROVE  ActivityInv'
<1> DEFINE x == [Top EXCEPT !.pc = IF handler[p].enabled THEN "func" ELSE "next", !.cur = p]
<1>1. Becomes(x) /\ fault' = fault /\ UNCHANGED <<entry, alloc, handler, imr, irr, isr, request, biosReq, left>>
  BY NullFacts DEF Call, lists, pic, devices
<1>2. FramesOK /\ Top \in Frames /\ ActivationOK(Top)
  BY TopIsActivation DEF IInv, ActivityInv
<1>3. /\ x \in Frames /\ x.irq = Top.irq /\ x.flags = Top.flags /\ x.ack = Top.ack /\ x.cur = p
      /\ x.pc = IF handler[p].enabled THEN "func" ELSE "next"
  BY <1>2 DEF Frames, Pointers, Stages
<1> HIDE DEF x
<1>4. ActivationOK(x)
  <2>1. x.pc \in {"func", "next"}
    BY <1>3
  <2> QED
    BY <1>2, <1>3, <2>1 DEF ActivationOK, Stages
<1>5. EoiSent(x) <=> EoiSent(Top)
  BY <1>3 DEF EoiSent
<1>6. isr' = IF EoiSent(x) THEN isr \ {x.irq} ELSE isr
  <2>1. EoiSent(x) => x.irq \notin isr
    BY <1>2, <1>3, <1>5, SentIsOpen DEF IInv, ActivityInv
  <2> QED
    BY <1>1, <2>1
<1>7. FramesOK' /\ EmptyQuiet' /\ InService' /\ SelfMasked' /\ NestingAllowed'
  BY <1>1, <1>2, <1>3, <1>4, <1>5, <1>6, TopStep DEF IInv, ActivityInv
<1>8. ASSUME NEW h \in request', ~IsFallback(h), WillCall(Top, h) PROVE WillCall(x, h)
  <2>1. h \in From(p) /\ h \in request /\ handler[h].enabled
    BY <1>1, <1>8 DEF IInv, ActivityInv, Waiting
  <2>2. x.irq = Line[h]
    BY <1>3, <1>8 DEF WillCall
  <2>3. CASE h = p
    BY <1>3, <2>1, <2>2, <2>3 DEF WillCall
  <2>4. CASE h # p
    <3>1. h \in From(handler[p].next)
      BY <2>1, <2>4, FromStep
    <3> QED
      BY <1>3, <2>2, <3>1, NullFacts DEF WillCall
  <2> QED
    BY <2>3, <2>4
<1>9. RequestKept'
  BY <1>1, <1>2, <1>3, <1>8, TopRequests DEF IInv, ActivityInv
<1>10. PicTypes' /\ fault' = "none" /\ Waiting'
  BY <1>1 DEF IInv, ActivityInv, PicTypes, Waiting, Member
<1> QED
  BY <1>7, <1>9, <1>10 DEF ActivityInv

LEMMA CallFirstStep == ASSUME IInv, CallFirst PROVE ActivityInv'
<1> DEFINE i == Top.irq
           p == entry[i].first
<1>1. At("first") /\ "first" \in Stages
  BY DEF CallFirst, Stages
<1>2. ActivationOK(Top)
  BY <1>1, TopIsActivation DEF IInv, ActivityInv
<1>3. i \in alloc /\ p # Null
  BY <1>2 DEF ActivationOK
<1>4. p \in Ordinary(i)
  BY <1>3 DEF IInv, ListInv, Ends
<1>5. p \in Handlers /\ handler[p].irq = i /\ ~IsFallback(p)
  BY <1>4 DEF Ordinary
<1>6. ASSUME NEW h \in request, ~IsFallback(h), WillCall(Top, h) PROVE h \in From(p)
  <2>1. h \in Handlers /\ handler[h].irq = Line[h] /\ Line[h] = i
    BY <1>6 DEF IInv, ActivityInv, Waiting, ListInv, OwnLine, WillCall
  <2>2. h \in Ordinary(i)
    BY <1>6, <2>1 DEF Ordinary
  <2> QED
    BY <1>3, <2>2, FollowIsOrdinary DEF IInv, Follow
<1>7. Call(p) /\ UNCHANGED <<lists, pic, devices>>
  BY DEF CallFirst
<1> HIDE DEF i, p
<1> QED
  BY <1>1, <1>5, <1>6, <1>7, AskHandler DEF i

LEMMA CallNextStep == ASSUME IInv, CallNext PROVE ActivityInv'
<1> DEFINE i == Top.irq
           c == Top.cur
           n == handler[c].next
<1>1. At("next") /\ "next" \in Stages
  BY DEF CallNext, Stages
<1>2. ActivationOK(Top) /\ Top \in Frames /\ FramesOK
  BY <1>1, TopIsActivation DEF IInv, ActivityInv
<1>3. Top.pc = "next"
  BY <1>1 DEF At
<1>4. i \in alloc /\ c \in Handlers /\ handler[c].irq = i /\ Top.flags = entry[i].flags
  BY <1>2, <1>3 DEF ActivationOK
<1>5. ASSUME NEW h, WillCall(Top, h) PROVE h \in From(n)
  BY <1>3, <1>5 DEF WillCall
<1>6. UNCHANGED <<lists, pic, devices>>
  BY DEF CallNext
<1>7. CASE n # Null
  <2>1. Call(n)
    BY <1>7 DEF CallNext
  <2>2. n \in Handlers /\ handler[n].irq = i /\ ~IsFallback(n)
    BY <1>4, <1>7 DEF IInv, ListInv, Linked, Ordinary
  <2> QED
    BY <1>1, <1>5, <1>6, <2>1, <2>2, AskHandler
<1>8. ASSUME n = Null, NEW h, WillCall(Top, h) PROVE FALSE
  BY <1>5, <1>8, FromNull
<1>9. CASE n = Null /\ ~IsFallback(c) /\ AskFallback(Top)
  <2> DEFINE f == entry[i].fallback
  <2>1. Call(f)
    BY <1>9 DEF CallNext
  <2>2. PICK g \in EnabledOn(i) : IsFallback(g)
    <3>1. "fallback_handler" \in UNION {Flags[g] : g \in EnabledOn(i)}
      BY <1>4, <1>9 DEF AskFallback, IInv, ListInv, FlagsSum
    <3> QED
      BY <3>1 DEF IsFallback
  <2>3. g \in Handlers /\ handler[g].irq = i /\ Member(g)
    BY <1>4, NullFacts DEF EnabledOn, IInv, ListInv, ListTypes, Member
  <2>4. f = g
    BY <2>2, <2>3 DEF IInv, ListInv, OwnLine, Fallbacks
  <2> QED
    BY <1>1, <1>6, <1>8, <1>9, <2>1, <2>3, <2>4, AskHandler DEF AskFallback
<1>10. CASE n = Null /\ ~(~IsFallback(c) /\ AskFallback(Top))
  <2> DEFINE x == [Top EXCEPT !.pc = "end"]
  <2>1. /\ Becomes(x) /\ fault' = fault
        /\ UNCHANGED <<entry, alloc, handler, imr, irr, isr, request, biosReq, left>>
    BY <1>6, <1>10 DEF CallNext, lists, pic, devices
  <2>2. /\ x \in Frames /\ x.irq = Top.irq /\ x.flags = Top.flags /\ x.ack = Top.ack
        /\ x.cur = Top.cur /\ x.pc = "end"
    BY <1>2 DEF Frames, Stages
  <2> HIDE DEF x
  <2>3. ActivationOK(x)
    BY <1>2, <1>3, <1>10, <2>2 DEF ActivationOK, Stages
  <2>4. EoiSent(x) <=> EoiSent(Top)
    BY <2>2 DEF EoiSent
  <2>5. isr' = IF EoiSent(x) THEN isr \ {x.irq} ELSE isr
    <3>1. EoiSent(x) => x.irq \notin isr
      BY <1>1, <1>2, <2>2, <2>4, SentIsOpen DEF IInv, ActivityInv
    <3> QED
      BY <2>1, <3>1
  <2>6. FramesOK' /\ EmptyQuiet' /\ InService' /\ SelfMasked' /\ NestingAllowed'
    BY <1>1, <1>6, <2>1, <2>2, <2>3, <2>4, <2>5, TopStep DEF IInv, ActivityInv
  <2>7. RequestKept'
    BY <1>2, <1>6, <1>8, <1>10, <2>1, <2>2, TopRequests DEF IInv, ActivityInv
  <2>8. PicTypes' /\ fault' = "none" /\ Waiting'
    BY <2>1 DEF IInv, ActivityInv, PicTypes, Waiting, Member
  <2> QED
    BY <2>6, <2>7, <2>8 DEF ActivityInv
<1> QED
  BY <1>7, <1>9, <1>10

LEMMA ServeStep == ASSUME IInv, Serve PROVE ActivityInv'
<1> DEFINE x == [Top EXCEPT !.pc = "served"]
           c == Top.cur
<1>1. At("func") /\ "func" \in Stages
  BY DEF Serve, Stages
<1>2. ActivationOK(Top) /\ Top \in Frames /\ FramesOK /\ Top.pc = "func"
  BY <1>1, TopIsActivation DEF IInv, ActivityInv, At
<1>3. /\ Becomes(x) /\ fault' = fault /\ request' = request \ {c}
      /\ UNCHANGED <<entry, alloc, handler, imr, irr, isr, biosReq, left>>
  BY DEF Serve, lists, pic
<1>4. /\ x \in Frames /\ x.irq = Top.irq /\ x.flags = Top.flags /\ x.ack = Top.ack
      /\ x.cur = c /\ x.pc = "served"
  BY <1>2 DEF Frames, Stages
<1> HIDE DEF x, c
<1>5. ActivationOK(x)
  <2>1. c \in Handlers /\ handler[c].irq = Top.irq
    BY <1>2 DEF ActivationOK, c
  <2> QED
    BY <1>2, <1>4, <2>1 DEF ActivationOK, Stages
<1>6. EoiSent(x) <=> EoiSent(Top)
  BY <1>4 DEF EoiSent
<1>7. isr' = IF EoiSent(x) THEN isr \ {x.irq} ELSE isr
  <2>1. EoiSent(x) => x.irq \notin isr
    BY <1>1, <1>2, <1>4, <1>6, SentIsOpen DEF IInv, ActivityInv
  <2> QED
    BY <1>3, <2>1
<1>8. FramesOK' /\ EmptyQuiet' /\ InService' /\ SelfMasked' /\ NestingAllowed'
  BY <1>1, <1>2, <1>3, <1>4, <1>5, <1>6, <1>7, TopStep DEF IInv, ActivityInv, lists
<1>9. ASSUME NEW h \in request', WillCall(Top, h) PROVE WillCall(x, h)
  BY <1>2, <1>3, <1>4, <1>9 DEF WillCall, c
<1>10. RequestKept'
  BY <1>2, <1>3, <1>4, <1>9, TopRequests DEF IInv, ActivityInv, lists
<1>11. PicTypes' /\ fault' = "none" /\ Waiting'
  BY <1>3 DEF IInv, ActivityInv, PicTypes, Waiting, Member
<1> QED
  BY <1>8, <1>10, <1>11 DEF ActivityInv

LEMMA AcknowledgeStep == ASSUME IInv, Acknowledge PROVE ActivityInv'
<1> DEFINE x == [Top EXCEPT !.pc = "acked", !.ack = "yes"]
<1>1. At("served") /\ "served" \in Stages
  BY DEF Acknowledge, Stages
<1>2. ActivationOK(Top) /\ Top \in Frames /\ FramesOK /\ Top.pc = "served"
  BY <1>1, TopIsActivation DEF IInv, ActivityInv, At
<1>3. /\ Becomes(x) /\ fault' = fault /\ isr' = IF EoiOnAck(Top) THEN isr \ {Top.irq} ELSE isr
      /\ UNCHANGED <<entry, alloc, handler, imr, irr, request, biosReq, left>>
  BY DEF Acknowledge, lists, devices
<1>4. /\ x \in Frames /\ x.irq = Top.irq /\ x.flags = Top.flags /\ x.ack = "yes"
      /\ x.cur = Top.cur /\ x.pc = "acked"
  BY <1>2 DEF Frames, Stages, Acks
<1> HIDE DEF x
<1>5. ActivationOK(x)
  <2>1. Top.cur \in Handlers /\ handler[Top.cur].irq = Top.irq
    BY <1>2 DEF ActivationOK
  <2> QED
    BY <1>2, <1>4, <2>1 DEF ActivationOK, Stages
\* It is sent if it was sent before, or now.
<1>6. EoiSent(x) <=> EoiSent(Top) \/ EoiOnAck(Top)
  <2>1. Top.flags = entry[Top.irq].flags /\ (Top.ack = "eoi_sent" => AutoEoi(Top.flags))
    BY <1>2 DEF ActivationOK
  <2>2. Top.ack \in {"no", "eoi_sent", "yes"}
    BY <1>2 DEF Frames, Acks
  <2>3. AutoEoi(Top.flags) => Top.flags \cap {"late_eoi", "always_chain"} = {}
    BY DEF AutoEoi, Manual
  <2> QED
    BY <1>4, <2>1, <2>2, <2>3 DEF EoiSent, EoiOnAck
<1>7. isr' = IF EoiSent(x) THEN isr \ {x.irq} ELSE isr
  <2>1. EoiSent(Top) => Top.irq \notin isr
    BY <1>1, <1>2, SentIsOpen DEF IInv, ActivityInv
  <2> QED
    BY <1>3, <1>4, <1>6, <2>1
<1>8. FramesOK' /\ EmptyQuiet' /\ InService' /\ SelfMasked' /\ NestingAllowed'
  BY <1>1, <1>2, <1>3, <1>4, <1>5, <1>6, <1>7, TopStep DEF IInv, ActivityInv, lists
<1>9. ASSUME NEW h \in request', WillCall(Top, h) PROVE WillCall(x, h)
  BY <1>2, <1>3, <1>4, <1>9 DEF WillCall
<1>10. RequestKept'
  BY <1>2, <1>3, <1>4, <1>9, TopRequests DEF IInv, ActivityInv, lists
<1>11. PicTypes' /\ fault' = "none" /\ Waiting'
  BY <1>3 DEF IInv, ActivityInv, PicTypes, Waiting, Member
<1> QED
  BY <1>8, <1>10, <1>11 DEF ActivityInv

LEMMA FuncReturnsStep == ASSUME IInv, FuncReturns PROVE ActivityInv'
<1> DEFINE x == [Top EXCEPT !.pc = "next"]
<1>1. PICK st \in {"acked", "func"} : At(st) /\ (st = "func" => Top.cur \notin request)
  BY DEF FuncReturns
<1>2. st \in Stages
  BY DEF Stages
<1>3. ActivationOK(Top) /\ Top \in Frames /\ FramesOK /\ Top.pc = st
  BY <1>1, <1>2, TopIsActivation DEF IInv, ActivityInv, At
<1>4. /\ Becomes(x) /\ fault' = fault
      /\ UNCHANGED <<entry, alloc, handler, imr, irr, isr, request, biosReq, left>>
  BY DEF FuncReturns, lists, pic, devices
<1>5. /\ x \in Frames /\ x.irq = Top.irq /\ x.flags = Top.flags /\ x.ack = Top.ack
      /\ x.cur = Top.cur /\ x.pc = "next"
  BY <1>3 DEF Frames, Stages
<1> HIDE DEF x
<1>6. ActivationOK(x)
  <2>1. Top.cur \in Handlers /\ handler[Top.cur].irq = Top.irq
    BY <1>3 DEF ActivationOK
  <2> QED
    BY <1>3, <1>5, <2>1 DEF ActivationOK, Stages
<1>7. EoiSent(x) <=> EoiSent(Top)
  BY <1>5 DEF EoiSent
<1>8. isr' = IF EoiSent(x) THEN isr \ {x.irq} ELSE isr
  <2>1. EoiSent(x) => x.irq \notin isr
    BY <1>1, <1>2, <1>3, <1>5, <1>7, SentIsOpen DEF IInv, ActivityInv
  <2> QED
    BY <1>4, <2>1
<1>9. FramesOK' /\ EmptyQuiet' /\ InService' /\ SelfMasked' /\ NestingAllowed'
  BY <1>1, <1>2, <1>3, <1>4, <1>5, <1>6, <1>7, <1>8, TopStep DEF IInv, ActivityInv, lists
<1>10. ASSUME NEW h \in request', WillCall(Top, h) PROVE WillCall(x, h)
  BY <1>1, <1>3, <1>4, <1>5, <1>10 DEF WillCall
<1>11. RequestKept'
  BY <1>3, <1>4, <1>5, <1>10, TopRequests DEF IInv, ActivityInv, lists
<1>12. PicTypes' /\ fault' = "none" /\ Waiting'
  BY <1>4 DEF IInv, ActivityInv, PicTypes, Waiting, Member
<1> QED
  BY <1>9, <1>11, <1>12 DEF ActivityInv

\* The activation ends: it has sent its EOI, or it sends it now.
LEMMA EndStep == ASSUME IInv, End PROVE ActivityInv'
<1> DEFINE i == Top.irq
           sent == Chain(Top) \/ LateEoi(Top)
<1>1. At("end") /\ "end" \in Stages
  BY DEF End, Stages
<1>2. /\ ActivationOK(Top) /\ Top \in Frames /\ FramesOK /\ Top.pc = "end" /\ Len(frames) > 1
      /\ 1 \in 1..Len(frames) - 1 /\ Len(frames) \in Nat
  BY <1>1, TopIsActivation, FrameFacts DEF IInv, ActivityInv, At
<1>3. sent <=> ~EoiSent(Top)
  <2>1. /\ Top.ack \in {"no", "eoi_sent", "yes"}
        /\ Top.ack = "eoi_sent" => AutoEoi(Top.flags)
    BY <1>2 DEF ActivationOK, Frames, Acks
  <2>2. AutoEoi(Top.flags) => "late_eoi" \notin Top.flags /\ "always_chain" \notin Top.flags
    BY DEF AutoEoi, Manual
  <2> QED
    BY <2>1, <2>2 DEF EoiSent, Chain, LateEoi
<1>4. EoiSent(Top) => i \notin isr
  BY <1>1, <1>2, SentIsOpen DEF IInv, ActivityInv
<1>5. /\ frames' = Tail(frames) /\ isr' = isr \ {i} /\ fault' = fault
      /\ imr' = IF MaskSelf(Top.flags) THEN imr \ {i} ELSE imr
      /\ biosReq' \subseteq biosReq
      /\ UNCHANGED <<entry, alloc, handler, irr, request, left>>
  <2>1. /\ frames' = Tail(frames) /\ isr' = IF sent THEN isr \ {i} ELSE isr
        /\ fault' = IF ~sent /\ i \in isr THEN "noeoi" ELSE fault
        /\ imr' = IF MaskSelf(Top.flags) THEN imr \ {i} ELSE imr
        /\ biosReq' \subseteq biosReq
        /\ UNCHANGED <<entry, alloc, handler, irr, request, left>>
    BY DEF End, lists
  <2> HIDE DEF sent, i
  <2> QED
    BY <1>3, <1>4, <2>1
<1>6. /\ frames' \in Seq(Frames) /\ frames' # <<>>
      /\ Len(frames') = Len(frames) - 1 /\ Base' = Base
      /\ \A k \in 1..Len(frames') : frames'[k] = frames[k + 1] /\ k + 1 \in 2..Len(frames)
      /\ \A k \in 2..Len(frames) : frames'[k - 1] = frames[k] /\ k - 1 \in 1..Len(frames')
  BY <1>2, <1>5, PopFrame
<1>7. UNCHANGED lists
  BY <1>5 DEF lists
<1>8. i \in alloc /\ entry[i].first # Null
  BY <1>2 DEF ActivationOK
<1> HIDE DEF i, sent
<1>9. FramesOK'
  <2>1. BaseOK(Base)'
    BY <1>5, <1>6 DEF IInv, ActivityInv, FramesOK, BaseOK, Member, Ordinary
  <2>2. \A k \in 1..Len(frames') - 1 : k + 1 \in 1..Len(frames) - 1 /\ frames'[k] = frames[k + 1]
    BY <1>2, <1>6
  <2>3. \A k \in 1..Len(frames') - 1 : ActivationOK(frames'[k])
    BY <1>2, <2>2 DEF FramesOK
  <2>4. \A k \in 1..Len(frames') - 1 : ActivationOK(frames[k])'
    BY <1>5, <2>3 DEF ActivationOK
  <2> QED
    BY <1>6, <2>1, <2>4 DEF FramesOK
<1>10. EmptyQuiet'
  BY <1>5, <1>6, <1>8 DEF IInv, ActivityInv, EmptyQuiet
<1>11. InService'
  <2>1. \A k \in 2..Len(frames) - 1 : frames[k].irq = i => EoiSent(frames[k])
    <3> SUFFICES ASSUME NEW k \in 2..Len(frames) - 1, frames[k].irq = i
                 PROVE  EoiSent(frames[k])
      OBVIOUS
    <3>1. 1 \in 1..k - 1 /\ k \in 1..Len(frames) - 1
      BY <1>2
    <3> QED
      BY <3>1 DEF IInv, ActivityInv, InService, Top, i
  <2>2. ASSUME NEW j \in isr'
        PROVE  \E k \in 1..Len(frames') - 1 : frames'[k].irq = j /\ ~EoiSent(frames'[k])
    <3>1. j \in isr /\ j # i
      BY <1>5
    <3>2. PICK k \in 1..Len(frames) - 1 : frames[k].irq = j /\ ~EoiSent(frames[k])
      BY <3>1 DEF IInv, ActivityInv, InService, Unsent
    <3>3. k # 1
      BY <3>1, <3>2 DEF Top, i
    <3>4. k - 1 \in 1..Len(frames') - 1 /\ frames'[k - 1] = frames[k]
      BY <1>2, <1>6, <3>3
    <3> QED
      BY <3>2, <3>4
  <2>3. ASSUME NEW k \in 1..Len(frames') - 1, ~EoiSent(frames'[k]) PROVE frames'[k].irq \in isr'
    <3>1. k + 1 \in 2..Len(frames) - 1 /\ k + 1 \in 1..Len(frames) - 1 /\ frames'[k] = frames[k + 1]
      <4>1. k \in 1..Len(frames')
        BY <1>2, <1>6
      <4> QED
        BY <1>2, <1>6, <4>1
    <3> QED
      BY <1>5, <2>1, <2>3, <3>1 DEF IInv, ActivityInv, InService
  <2>4. ASSUME NEW l \in 1..Len(frames') - 1, NEW k \in 1..l - 1, frames'[k].irq = frames'[l].irq
        PROVE  EoiSent(frames'[l])
    <3>1. /\ l + 1 \in 1..Len(frames) - 1 /\ frames'[l] = frames[l + 1]
          /\ k + 1 \in 1..(l + 1) - 1 /\ frames'[k] = frames[k + 1]
      <4>1. l \in 1..Len(frames') /\ k \in 1..Len(frames') /\ l \in Int /\ k \in Int /\ k < l
        BY <1>2, <1>6
      <4> QED
        BY <1>2, <1>6, <4>1
    <3> QED
      BY <2>4, <3>1 DEF IInv, ActivityInv, InService
  <2> QED
    BY <2>2, <2>3, <2>4 DEF InService, Unsent, EoiSent
<1>12. SelfMasked'
  <2>1. \A k \in 1..Len(frames') - 1 : k + 1 \in 1..Len(frames) - 1 /\ frames'[k] = frames[k + 1]
    BY <1>2, <1>6
  <2>2. imr' \subseteq imr
    BY <1>5
  <2> QED
    BY <2>1, <2>2 DEF IInv, ActivityInv, SelfMasked, MaskSelf
<1>13. NestingAllowed'
  <2>1. ASSUME NEW l \in 2..Len(frames'), NEW k \in 1..l - 1
        PROVE  /\ "late_eoi" \in frames'[l].flags => frames'[k].irq < frames'[l].irq
               /\ "no_interrupts" \notin frames'[l].flags
    <3>1. /\ l + 1 \in 2..Len(frames) /\ frames'[l] = frames[l + 1]
          /\ k + 1 \in 1..(l + 1) - 1 /\ frames'[k] = frames[k + 1]
      <4>1. l \in 1..Len(frames') /\ k \in 1..Len(frames') /\ l \in Int /\ k \in Int /\ k < l
        BY <1>2, <1>6
      <4> QED
        BY <1>2, <1>6, <4>1
    <3> QED
      BY <3>1 DEF IInv, ActivityInv, NestingAllowed
  <2> QED
    BY <2>1 DEF NestingAllowed
<1>14. RequestKept'
  <2>1. ASSUME NEW h, WillCall(Top, h) PROVE FALSE
    <3>1. h \in From(handler[Top.cur].next) /\ handler[Top.cur].next = Null
      BY <1>2, <2>1 DEF WillCall, ActivationOK
    <3> QED
      BY <3>1, FromNull
  <2> SUFFICES ASSUME NEW h \in request', ~IsFallback(h), Line[h] \notin irr'
               PROVE  \E k \in 1..Len(frames') : WillCall(frames[k], h)'
    BY DEF RequestKept
  <2>2. PICK k \in 1..Len(frames) : WillCall(frames[k], h)
    BY <1>5 DEF IInv, ActivityInv, RequestKept
  <2>3. k # 1
    BY <2>1, <2>2 DEF Top
  <2>4. k - 1 \in 1..Len(frames') /\ frames'[k - 1] = frames[k]
    BY <1>2, <1>6, <2>3
  <2>5. WillCall(frames'[k - 1], h)
    BY <2>2, <2>4
  <2>6. WillCall(frames[k - 1], h)'
    BY <1>5, <2>5 DEF WillCall, From, Closed
  <2> QED
    BY <2>4, <2>6
<1>15. PicTypes' /\ fault' = "none" /\ Waiting'
  BY <1>5 DEF IInv, ActivityInv, PicTypes, Waiting, Member
<1> QED
  BY <1>9, <1>10, <1>11, <1>12, <1>13, <1>14, <1>15 DEF ActivityInv

\* The processor enters handle_irq().
LEMMA EnterStep ==
    ASSUME IInv, NEW i \in Irqs, Deliver(i), i \in alloc
    PROVE  ActivityInv'
<1> DEFINE f == entry[i].flags
           x == [irq |-> i, flags |-> f, pc |-> "first", cur |-> Null,
                 ack |-> IF AutoEoi(f) THEN "eoi_sent" ELSE "no"]
<1>1. FramesOK /\ Len(frames) \in Nat /\ Len(frames) >= 1
  BY FrameFacts DEF IInv, ActivityInv
<1>2. /\ "no_interrupts" \notin Top.flags
      /\ i \in irr /\ i \notin imr /\ i \notin isr
      /\ \A j \in isr \ imr : j > i
  <2>1. i \in irr \ imr /\ \A j \in isr \ imr : j > i
    BY DEF Deliver, Deliverable
  <2>2. i \in Nat
    BY ConstantsAssumption
  <2>3. i \notin isr
    BY <2>1, <2>2
  <2> QED
    BY <2>1, <2>3 DEF Deliver, Deliverable, InterruptsOn
<1>3. /\ frames' = <<x>> \o frames
      /\ isr' = IF AutoEoi(f) THEN isr ELSE isr \cup {i}
      /\ imr' = IF MaskSelf(f) THEN imr \cup {i} ELSE imr
      /\ irr' = irr \ {i} /\ fault' = fault
      /\ UNCHANGED <<entry, alloc, handler, request, biosReq, left>>
  BY DEF Deliver, Enter, lists
<1>4. entry[i].first # Null
  BY <1>2 DEF IInv, ActivityInv, EmptyQuiet
<1>5. f \subseteq FlagNames
  BY DEF IInv, ListInv, ListTypes, Entries
<1>6. /\ x \in Frames /\ x.irq = i /\ x.flags = f /\ x.pc = "first"
      /\ x.ack = IF AutoEoi(f) THEN "eoi_sent" ELSE "no"
  <2> HIDE DEF f
  <2> QED
    BY <1>5 DEF Frames, Acks, Pointers, Stages
<1> HIDE DEF x
<1>7. ActivationOK(x)
  BY <1>4, <1>6 DEF ActivationOK, Stages
<1> HIDE DEF f
<1>8. EoiSent(x) <=> AutoEoi(f)
  BY <1>6 DEF EoiSent
<1>9. /\ frames' \in Seq(Frames) /\ frames' # <<>>
      /\ Len(frames') = Len(frames) + 1
      /\ frames'[1] = x /\ Base' = Base
      /\ \A k \in 2..Len(frames') : frames'[k] = frames[k - 1] /\ k - 1 \in 1..Len(frames)
      /\ \A k \in 1..Len(frames) : frames'[k + 1] = frames[k] /\ k + 1 \in 2..Len(frames')
  BY <1>1, <1>3, <1>6, PushFrame
<1>10. \A k \in 1..Len(frames') - 1 :
          k = 1 \/ (k # 1 /\ k - 1 \in 1..Len(frames) - 1 /\ frames'[k] = frames[k - 1])
  BY <1>1, <1>9
<1>11. FramesOK'
  <2>1. BaseOK(Base)'
    BY <1>3, <1>9 DEF IInv, ActivityInv, FramesOK, BaseOK, Member, Ordinary
  <2>2. \A k \in 1..Len(frames') - 1 : ActivationOK(frames'[k])
    BY <1>1, <1>7, <1>9, <1>10 DEF FramesOK
  <2>3. \A k \in 1..Len(frames') - 1 : ActivationOK(frames[k])'
    BY <1>3, <2>2 DEF ActivationOK
  <2> QED
    BY <1>9, <2>1, <2>3 DEF FramesOK
<1>12. EmptyQuiet'
  BY <1>3, <1>9 DEF IInv, ActivityInv, EmptyQuiet
<1>13. InService'
  <2>1. ASSUME NEW j \in isr'
        PROVE  \E k \in 1..Len(frames') - 1 : frames'[k].irq = j /\ ~EoiSent(frames'[k])
    <3>1. CASE j \in isr
      <4>1. PICK k \in 1..Len(frames) - 1 : frames[k].irq = j /\ ~EoiSent(frames[k])
        BY <3>1 DEF IInv, ActivityInv, InService, Unsent
      <4>2. k + 1 \in 1..Len(frames') - 1 /\ frames'[k + 1] = frames[k]
        BY <1>1, <1>9
      <4> QED
        BY <4>1, <4>2
    <3>2. CASE j \notin isr
      <4>1. j = i /\ ~AutoEoi(f)
        BY <1>3, <3>2
      <4>2. 1 \in 1..Len(frames') - 1
        BY <1>1, <1>9
      <4> QED
        BY <1>6, <1>8, <1>9, <4>1, <4>2
    <3> QED
      BY <3>1, <3>2
  <2>2. ASSUME NEW k \in 1..Len(frames') - 1, ~EoiSent(frames'[k]) PROVE frames'[k].irq \in isr'
    <3>1. CASE k = 1
      BY <1>3, <1>6, <1>8, <1>9, <2>2, <3>1
    <3>2. CASE k # 1
      <4>1. frames'[k].irq \in isr
        BY <1>10, <2>2, <3>2 DEF IInv, ActivityInv, InService
      <4> QED
        BY <1>3, <4>1
    <3> QED
      BY <3>1, <3>2
  <2>3. ASSUME NEW l \in 1..Len(frames') - 1, NEW k \in 1..l - 1, frames'[k].irq = frames'[l].irq
        PROVE  EoiSent(frames'[l])
    <3>1. l - 1 \in 1..Len(frames) - 1 /\ frames'[l] = frames[l - 1]
      BY <1>1, <1>9
    <3>2. CASE k = 1
      <4>1. frames[l - 1].irq = i
        BY <1>6, <1>9, <2>3, <3>1, <3>2
      <4> QED
        BY <1>2, <3>1, <4>1 DEF IInv, ActivityInv, InService
    <3>3. CASE k # 1
      <4>1. k - 1 \in 1..(l - 1) - 1 /\ frames'[k] = frames[k - 1]
        BY <1>1, <1>9, <3>3
      <4> QED
        BY <2>3, <3>1, <4>1 DEF IInv, ActivityInv, InService
    <3> QED
      BY <3>2, <3>3
  <2> QED
    BY <2>1, <2>2, <2>3 DEF InService, Unsent, EoiSent
<1>14. SelfMasked'
  <2> SUFFICES ASSUME NEW k \in 1..Len(frames') - 1, frames'[k].irq \in imr'
               PROVE  MaskSelf(frames'[k].flags)
    BY DEF SelfMasked, MaskSelf
  <2>1. CASE k = 1
    BY <1>2, <1>3, <1>6, <1>9, <2>1
  <2>2. CASE k # 1
    <3>1. k - 1 \in 1..Len(frames) - 1 /\ frames'[k] = frames[k - 1]
      BY <1>10, <2>2
    <3>2. CASE frames'[k].irq \in imr
      BY <3>1, <3>2 DEF IInv, ActivityInv, SelfMasked
    <3>3. CASE frames'[k].irq \notin imr
      <4>1. frames'[k].irq = i /\ MaskSelf(f)
        BY <1>3, <3>3
      <4>2. frames'[k].flags = f
        BY <1>1, <3>1, <4>1 DEF FramesOK, ActivationOK, f
      <4> QED
        BY <4>1, <4>2
    <3> QED
      BY <3>2, <3>3
  <2> QED
    BY <2>1, <2>2
\* It interrupts only activations that allow it: their line is in service and not masked.
<1>15. NestingAllowed'
  <2>1. \A m \in 1..Len(frames) : "no_interrupts" \notin frames[m].flags
    <3> SUFFICES ASSUME NEW m \in 1..Len(frames) PROVE "no_interrupts" \notin frames[m].flags
      OBVIOUS
    <3>1. CASE m = 1
      BY <1>2, <3>1 DEF Top
    <3>2. CASE m # 1
      <4>1. m \in 2..Len(frames) /\ 1 \in 1..m - 1
        BY <1>1, <3>2
      <4> QED
        BY <4>1 DEF IInv, ActivityInv, NestingAllowed
    <3> QED
      BY <3>1, <3>2
  <2>2. ASSUME NEW m \in 1..Len(frames), "late_eoi" \in frames[m].flags PROVE i < frames[m].irq
    <3>1. m \in 1..Len(frames) - 1
      <4>1. frames[Len(frames)].flags = {}
        BY <1>1 DEF FramesOK, BaseOK, Base
      <4> QED
        BY <1>1, <2>2, <4>1
    <3>2. ActivationOK(frames[m])
      BY <1>1, <3>1 DEF FramesOK
    <3>3. ~AutoEoi(frames[m].flags)
      BY <2>2 DEF AutoEoi, Manual
    <3>4. ~EoiSent(frames[m])
      BY <2>2, <3>2, <3>3 DEF ActivationOK, EoiSent
    <3>5. frames[m].irq \in isr
      BY <3>1, <3>4 DEF IInv, ActivityInv, InService
    <3>6. frames[m].irq \notin imr
      BY <2>1, <3>1 DEF IInv, ActivityInv, SelfMasked, MaskSelf
    <3> QED
      <4>1. frames[m].irq \in Nat /\ i \in Nat
        <5>1. frames[m].irq \in Irqs
          BY <3>5 DEF IInv, ActivityInv, PicTypes
        <5>2. \A j \in Irqs : j \in Nat
          BY ConstantsAssumption
        <5> QED
          BY <5>1, <5>2
      <4> QED
        BY <1>2, <3>5, <3>6, <4>1
  <2>3. ASSUME NEW l \in 2..Len(frames'), NEW k \in 1..l - 1
        PROVE  /\ "late_eoi" \in frames'[l].flags => frames'[k].irq < frames'[l].irq
               /\ "no_interrupts" \notin frames'[l].flags
    <3>1. l - 1 \in 1..Len(frames) /\ frames'[l] = frames[l - 1]
      BY <1>9
    <3>2. "no_interrupts" \notin frames'[l].flags
      BY <2>1, <3>1
    <3>3. CASE k = 1
      BY <1>6, <1>9, <2>2, <3>1, <3>2, <3>3
    <3>4. CASE k # 1
      <4>1. l - 1 \in 2..Len(frames) /\ k - 1 \in 1..(l - 1) - 1 /\ frames'[k] = frames[k - 1]
        BY <1>1, <1>9, <3>4
      <4>2. "late_eoi" \in frames[l - 1].flags => frames[k - 1].irq < frames[l - 1].irq
        BY <4>1 DEF IInv, ActivityInv, NestingAllowed
      <4> QED
        BY <3>1, <3>2, <4>1, <4>2
    <3> QED
      BY <3>3, <3>4
  <2> QED
    BY <2>3 DEF NestingAllowed
<1>16. RequestKept'
  <2> SUFFICES ASSUME NEW h \in request', ~IsFallback(h), Line[h] \notin irr'
               PROVE  \E k \in 1..Len(frames') : WillCall(frames[k], h)'
    BY DEF RequestKept
  <2>1. CASE Line[h] = i
    <3>1. WillCall(x, h)
      BY <1>6, <2>1 DEF WillCall
    <3>2. 1 \in 1..Len(frames') /\ WillCall(frames'[1], h)
      BY <1>1, <1>9, <3>1
    <3>3. WillCall(frames[1], h)'
      BY <1>3, <3>2 DEF WillCall, From, Closed
    <3> QED
      BY <3>2, <3>3
  <2>2. CASE Line[h] # i
    <3>1. PICK k \in 1..Len(frames) : WillCall(frames[k], h)
      BY <1>3, <2>2 DEF IInv, ActivityInv, RequestKept
    <3>2. k + 1 \in 1..Len(frames') /\ WillCall(frames'[k + 1], h)
      BY <1>1, <1>9, <3>1
    <3>3. WillCall(frames[k + 1], h)'
      BY <1>3, <3>2 DEF WillCall, From, Closed
    <3> QED
      BY <3>2, <3>3
  <2> QED
    BY <2>1, <2>2
<1>17. PicTypes' /\ fault' = "none" /\ Waiting'
  BY <1>3 DEF IInv, ActivityInv, PicTypes, Waiting, Member
<1> QED
  BY <1>11, <1>12, <1>13, <1>14, <1>15, <1>16, <1>17 DEF ActivityInv

\* The previous handler serves a line that has no controller.
LEMMA PreviousStep ==
    ASSUME IInv, NEW i \in Irqs, Deliver(i), i \notin alloc
    PROVE  ActivityInv'
<1>1. /\ irr' = irr \ {i} /\ biosReq' \subseteq biosReq
      /\ UNCHANGED <<entry, alloc, handler, frames, imr, isr, request, left, fault>>
  BY DEF Deliver, Previous, lists
<1>2. FramesOK'
  BY <1>1 DEF IInv, ActivityInv, FramesOK, BaseOK, Base, ActivationOK, Member, Ordinary
<1>3. EmptyQuiet' /\ InService' /\ SelfMasked' /\ NestingAllowed'
  BY <1>1 DEF IInv, ActivityInv, EmptyQuiet, Base, InService, Unsent, EoiSent, SelfMasked,
              MaskSelf, NestingAllowed
<1>4. RequestKept'
  <2>1. \A h \in request : Line[h] # i
    BY DEF IInv, ActivityInv, Waiting, ListInv, OwnLine, Hooked
  <2>2. \A h, k : WillCall(frames[k], h) => WillCall(frames[k], h)'
    BY <1>1 DEF WillCall, From, Closed
  <2> QED
    BY <1>1, <2>1, <2>2 DEF IInv, ActivityInv, RequestKept
<1>5. PicTypes' /\ fault' = "none" /\ Waiting'
  BY <1>1 DEF IInv, ActivityInv, PicTypes, Waiting, Member
<1> QED
  BY <1>2, <1>3, <1>4, <1>5 DEF ActivityInv

\* A device makes a request: an assigned handler's line is never empty.
LEMMA DeviceStep ==
    ASSUME Restricted, IInv,
           (\E h \in Handlers : Request(h)) \/ (\E i \in BiosLines : BiosRequest(i))
    PROVE  ActivityInv'
<1>1. PICK j \in Irqs :
          /\ irr' = irr \cup {j} /\ (j \in alloc => entry[j].first # Null)
          /\ UNCHANGED <<entry, alloc, handler, frames, imr, isr, fault>>
          /\ left' \in [Handlers \cup BiosLines -> 0..MaxReq]
          /\ \/ request' = request /\ biosReq' \subseteq BiosLines
             \/ \E h \in Handlers : handler[h].enabled /\ Line[h] = j /\ biosReq' = biosReq
                                        /\ request' = request \cup {h}
  <2>1. ASSUME NEW d \in Handlers \cup BiosLines, NEW j, Raise(j, d)
        PROVE  left' \in [Handlers \cup BiosLines -> 0..MaxReq]
    <3>1. left \in [Handlers \cup BiosLines -> 0..MaxReq] /\ MaxReq \in Nat
      BY ConstantsAssumption DEF IInv, ActivityInv, PicTypes
    <3> QED
      BY <2>1, <3>1 DEF Raise
  <2>2. CASE \E h \in Handlers : Request(h)
    <3>1. PICK h \in Handlers : Request(h)
      BY <2>2
    <3>2. Line[h] \in Irqs /\ handler[h].enabled /\ Raise(Line[h], h)
      BY <3>1, ConstantsAssumption DEF Request
    <3>3. Member(h)
      BY <3>2 DEF IInv, ListInv, OwnLine, Unassigned
    <3>4. Ordinary(Line[h]) # {}
      BY <3>3 DEF IInv, ListInv, OwnLine, Fallbacks, Ordinary
    <3>5. entry[Line[h]].first # Null
      BY <3>2, <3>4, NoFirst DEF IInv
    <3>6. /\ irr' = irr \cup {Line[h]} /\ request' = request \cup {h} /\ biosReq' = biosReq
          /\ UNCHANGED <<entry, alloc, handler, frames, imr, isr, fault>>
      BY <3>1 DEF Request, Raise, lists
    <3> QED
      BY <2>1, <3>2, <3>5, <3>6
  <2>3. CASE \E i \in BiosLines : BiosRequest(i)
    <3>1. PICK i \in BiosLines : BiosRequest(i)
      BY <2>3
    <3>2. i \in Irqs /\ Raise(i, i)
      BY <3>1, ConstantsAssumption DEF BiosRequest
    <3>3. i \in alloc => entry[i].first # Null
      BY <3>1 DEF BiosRequest, Restricted
    <3>4. /\ irr' = irr \cup {i} /\ request' = request /\ biosReq' = biosReq \cup {i}
          /\ UNCHANGED <<entry, alloc, handler, frames, imr, isr, fault>>
      BY <3>1 DEF BiosRequest, Raise, lists
    <3>5. biosReq' \subseteq BiosLines
      BY <3>4 DEF IInv, ActivityInv, PicTypes
    <3> QED
      BY <2>1, <3>2, <3>3, <3>4, <3>5
  <2> QED
    BY <2>2, <2>3
<1>2. FramesOK'
  BY <1>1 DEF IInv, ActivityInv, FramesOK, BaseOK, Base, ActivationOK, Member, Ordinary
<1>3. EmptyQuiet' /\ InService' /\ SelfMasked' /\ NestingAllowed'
  <2>1. UNCHANGED <<entry, alloc, handler, frames, imr, isr>>
    BY <1>1
  <2>2. EmptyQuiet'
    <3> SUFFICES ASSUME NEW i \in alloc, entry[i].first = Null
                 PROVE  Base.pc = "link" /\ Line[Base.cur] = i /\ (i \in irr' => i \in imr)
      BY <2>1 DEF EmptyQuiet, Base
    <3> QED
      BY <1>1 DEF IInv, ActivityInv, EmptyQuiet
  <2>3. InService'
    BY <2>1 DEF IInv, ActivityInv, InService, Unsent, EoiSent
  <2>4. SelfMasked' /\ NestingAllowed'
    BY <2>1 DEF IInv, ActivityInv, SelfMasked, MaskSelf, NestingAllowed
  <2> QED
    BY <2>2, <2>3, <2>4
<1>4. RequestKept'
  <2>1. \A h, k : WillCall(frames[k], h) => WillCall(frames[k], h)'
    BY <1>1 DEF WillCall, From, Closed
  <2>2. frames' = frames /\ irr \subseteq irr' /\ \A h \in request' : h \in request \/ Line[h] \in irr'
    BY <1>1
  <2> QED
    BY <2>1, <2>2 DEF IInv, ActivityInv, RequestKept
<1>5. Waiting'
  BY <1>1 DEF IInv, ActivityInv, Waiting, Member, ListInv, OwnLine, Unassigned
<1>6. PicTypes' /\ fault' = "none"
  <2>1. request' \subseteq Handlers /\ biosReq' \subseteq BiosLines
    BY <1>1 DEF IInv, ActivityInv, PicTypes
  <2>2. irr' \subseteq Irqs
    BY <1>1 DEF IInv, ActivityInv, PicTypes
  <2> QED
    BY <1>1, <2>1, <2>2 DEF IInv, ActivityInv, PicTypes
<1> QED
  BY <1>2, <1>3, <1>4, <1>5, <1>6 DEF ActivityInv

\* While only the thread runs nothing is in service, and every request is pending.
LEMMA ThreadFacts ==
    ASSUME IInv, Len(frames) = 1
    PROVE  /\ isr = {} /\ Top = Base
           /\ \A h \in request : ~IsFallback(h) => Line[h] \in irr
<1>1. isr = {}
  BY DEF IInv, ActivityInv, InService
<1>2. Top = Base
  BY DEF Top, Base
<1>3. ASSUME NEW h \in request, ~IsFallback(h) PROVE Line[h] \in irr
  <2>1. h \in Handlers /\ Line[h] # Null
    BY NullFacts, ConstantsAssumption DEF IInv, ActivityInv, Waiting
  <2>2. frames[1].irq = Null
    BY <1>2 DEF IInv, ActivityInv, FramesOK, BaseOK, Top
  <2>3. \A k \in 1..Len(frames) : ~WillCall(frames[k], h)
    BY <2>1, <2>2 DEF WillCall
  <2> QED
    BY <1>3, <2>3 DEF IInv, ActivityInv, RequestKept
<1> QED
  BY <1>1, <1>2, <1>3

\* A step of the thread between interrupts.
LEMMA ThreadStep ==
    ASSUME IInv, Len(frames) = 1, frames' \in Seq(Frames), Len(frames') = 1, BaseOK(Base)',
           UNCHANGED <<irr, isr, left, fault>>, imr' \subseteq imr, biosReq' = biosReq,
           request' \subseteq request, EmptyQuiet', Waiting'
    PROVE  ActivityInv'
<1>1. isr = {} /\ \A h \in request : ~IsFallback(h) => Line[h] \in irr
  BY ThreadFacts
<1>2. frames' # <<>>
  BY EmptySeq
<1>3. FramesOK' /\ InService' /\ SelfMasked' /\ NestingAllowed' /\ RequestKept'
  BY <1>1, <1>2 DEF FramesOK, InService, SelfMasked, NestingAllowed, RequestKept
<1>4. PicTypes' /\ fault' = "none"
  BY DEF IInv, ActivityInv, PicTypes
<1> QED
  BY <1>3, <1>4 DEF ActivityInv

\* Between the halves of assign() is the only time that a hooked line may be empty.
LEMMA NoneEmpty ==
    ASSUME IInv, At("thread"), NEW i \in alloc
    PROVE  entry[i].first # Null
BY TopIsBase DEF IInv, ActivityInv, EmptyQuiet, At

LEMMA EnableStep == ASSUME Restricted, IInv, NEW h \in Handlers, Enable(h) PROVE ActivityInv'
<1>1. At("thread") /\ Len(frames) = 1 /\ Top = Base /\ frames \in Seq(Frames) /\ BaseOK(Base)
  BY RunningIsThread DEF Enable, IInv, ActivityInv, FramesOK
<1>2. /\ handler[h].irq \in alloc /\ handler[h].irq \in Irqs
      /\ handler' = [handler EXCEPT ![h].enabled = TRUE]
      /\ entry' = [entry EXCEPT ![handler[h].irq].flags = @ \cup Flags[h]]
      /\ imr' \subseteq imr
      /\ UNCHANGED <<alloc, frames, irr, isr, request, biosReq, left, fault>>
  BY MemberLine DEF Enable, Unmask, devices, IInv
<1>3. /\ \A g \in Handlers : handler'[g].irq = handler[g].irq
      /\ \A g \in Handlers : handler[g].enabled => handler'[g].enabled
      /\ \A j \in Irqs : entry'[j].first = entry[j].first
      /\ alloc \subseteq Irqs
  BY <1>2 DEF IInv, ListInv, ListTypes, Nodes, Entries
<1>4. BaseOK(Base)'
  BY <1>1, <1>2 DEF BaseOK, At, Base
<1>5. EmptyQuiet'
  BY <1>1, <1>2, <1>3, NoneEmpty DEF EmptyQuiet
<1>6. Waiting'
  BY <1>2, <1>3 DEF IInv, ActivityInv, Waiting, Member
<1> QED
  BY <1>1, <1>2, <1>4, <1>5, <1>6, ThreadStep

LEMMA DisableStep == ASSUME Restricted, IInv, NEW h \in Handlers, Disable(h) PROVE ActivityInv'
<1>1. At("thread") /\ Len(frames) = 1 /\ Top = Base /\ frames \in Seq(Frames) /\ BaseOK(Base)
  BY RunningIsThread DEF Disable, IInv, ActivityInv, FramesOK
<1> DEFINE i == handler[h].irq
<1>2. /\ handler' = [handler EXCEPT ![h].enabled = FALSE]
      /\ entry' = [entry EXCEPT ![i] = Disabled(entry[i], h)]
      /\ request' = request \ {h}
      /\ UNCHANGED <<alloc, frames, imr, irr, isr, biosReq, left, fault>>
  BY DEF Disable, pic
<1>3. /\ \A g \in Handlers : handler'[g].irq = handler[g].irq
      /\ \A g \in Handlers : g # h => handler'[g].enabled = handler[g].enabled
      /\ \A j \in Irqs : entry'[j].first = entry[j].first
      /\ alloc \subseteq Irqs
  <2>1. /\ \A g \in Handlers : handler'[g].irq = handler[g].irq
        /\ \A g \in Handlers : g # h => handler'[g].enabled = handler[g].enabled
        /\ alloc \subseteq Irqs
    BY <1>2 DEF IInv, ListInv, ListTypes, Nodes
  <2>2. i \in Irqs => Disabled(entry[i], h).first = entry[i].first
    BY DEF Disabled, IInv, ListInv, ListTypes, Entries
  <2> HIDE DEF i
  <2>3. \A j \in Irqs : entry'[j] = IF j = i THEN Disabled(entry[i], h) ELSE entry[j]
    BY <1>2 DEF IInv, ListInv, ListTypes
  <2> QED
    BY <2>1, <2>2, <2>3
<1>4. BaseOK(Base)'
  BY <1>1, <1>2 DEF BaseOK, At, Base
<1>5. EmptyQuiet'
  BY <1>1, <1>2, <1>3, NoneEmpty DEF EmptyQuiet
<1>6. Waiting'
  BY <1>2, <1>3 DEF IInv, ActivityInv, Waiting, Member
<1> QED
  BY <1>1, <1>2, <1>4, <1>5, <1>6, ThreadStep

LEMMA AssignStep == ASSUME Restricted, IInv, NEW h \in Handlers, Assign(h) PROVE ActivityInv'
<1> DEFINE i == Line[h]
           x == [Top EXCEPT !.pc = "link", !.cur = h]
<1>1. /\ At("thread") /\ Len(frames) = 1 /\ Top = Base /\ BaseOK(Base)
      /\ FramesOK /\ Top \in Frames /\ i \in Irqs
  <2>1. At("thread") /\ FramesOK /\ i \in Irqs
    BY ConstantsAssumption DEF Assign, IInv, ActivityInv
  <2> QED
    BY <2>1, TopIsBase, FrameFacts DEF FramesOK, Top
<1>2. /\ alloc' = alloc \cup {i} /\ Becomes(x) /\ ~Member(h)
      /\ entry' = IF i \in alloc THEN entry ELSE [entry EXCEPT ![i] = Empty]
      /\ UNCHANGED <<handler, imr, irr, isr, request, biosReq, left, fault>>
  BY DEF Assign, pic, devices
<1>3. x \in Frames /\ x.irq = Null /\ x.flags = {} /\ x.pc = "link" /\ x.cur = h
  BY <1>1 DEF Frames, Pointers, BaseOK
<1> HIDE DEF x
<1>4. frames' \in Seq(Frames) /\ Len(frames') = 1 /\ Base' = x
  BY <1>1, <1>2, <1>3, TopBecomes
<1>5. BaseOK(Base)'
  <2>1. IsFallback(h) => Ordinary(i) # {}
    BY DEF Assign, Accompanied, Restricted
  <2> QED
    BY <1>2, <1>3, <1>4, <2>1 DEF BaseOK, Member, Ordinary
<1>6. EmptyQuiet'
  <2> SUFFICES ASSUME NEW j \in alloc', entry'[j].first = Null
               PROVE  j = i /\ (j \in irr => j \in imr)
    BY <1>2, <1>3, <1>4 DEF EmptyQuiet
  <2>1. j = i
    BY <1>1, <1>2, NoneEmpty DEF IInv, ListInv, ListTypes
  <2>2. ~Deliverable(i)
    BY <1>1 DEF Assign, Quiet
  <2>3. InterruptsOn /\ isr = {}
    BY <1>1, ThreadFacts DEF InterruptsOn, BaseOK
  <2> QED
    BY <2>1, <2>2, <2>3 DEF Deliverable
<1>7. Waiting'
  BY <1>2 DEF IInv, ActivityInv, Waiting, Member
<1> QED
  BY <1>1, <1>2, <1>4, <1>5, <1>6, <1>7, ThreadStep

LEMMA LinkStep == ASSUME Restricted, IInv, Link PROVE ActivityInv'
<1>1. At("link") /\ FramesOK /\ ListInv /\ fault = "none"
  BY DEF Link, IInv, ActivityInv
<1>2. Len(frames) = 1 /\ Top = Base /\ BaseOK(Base)
  BY <1>1, TopIsBase DEF FramesOK
<1>3. PICK h \in Handlers : h = Top.cur
  BY <1>1, <1>2 DEF BaseOK, At
<1>4. PICK i \in alloc : i = Line[h]
  BY <1>1, <1>2, <1>3 DEF BaseOK, At
<1>5. /\ ListInv' /\ UNCHANGED <<alloc, request>>
      /\ \A j \in Irqs : Ordinary(j) \subseteq Ordinary(j)'
      /\ \A j \in Irqs : j # i => Ordinary(j)' = Ordinary(j)
      /\ Ordinary(i)' # {}
      /\ \A g \in Handlers : (Member(g) => Member(g)') /\ handler'[g].enabled = handler[g].enabled
  BY <1>1, <1>3, <1>4, LinkList
<1>6. Becomes(Thread) /\ UNCHANGED <<imr, irr, isr, biosReq, left, fault>>
  BY DEF Link, pic
<1>7. Thread \in Frames /\ Thread.irq = Null /\ Thread.flags = {} /\ Thread.pc = "thread"
  BY DEF Thread, Frames, Pointers, Acks
<1>8. frames' \in Seq(Frames) /\ Len(frames') = 1 /\ Base' = Thread
  BY <1>1, <1>2, <1>6, <1>7, TopBecomes
<1>9. BaseOK(Base)'
  BY <1>7, <1>8 DEF BaseOK
<1>10. EmptyQuiet'
  <2> SUFFICES ASSUME NEW j \in alloc, entry'[j].first = Null
               PROVE  FALSE
    BY <1>5 DEF EmptyQuiet
  <2>1. j \in Irqs
    BY <1>1 DEF ListInv, ListTypes
  <2>2. Ordinary(j)' = {}
    <3>1. Closed({})' /\ {} \in SUBSET Handlers
      BY DEF Closed
    <3> QED
      BY <1>5, <3>1 DEF ListInv, Reached
  <2>3. j # i
    BY <1>5, <2>2
  <2>4. Ordinary(j) = {}
    BY <1>5, <2>1, <2>2
  <2>5. entry[j].first = Null
    BY <1>1, <2>1, <2>4, NoFirst
  <2> QED
    BY <1>2, <1>3, <1>4, <2>3, <2>5 DEF IInv, ActivityInv, EmptyQuiet
<1>11. Waiting'
  BY <1>5 DEF IInv, ActivityInv, Waiting
<1> QED
  BY <1>2, <1>5, <1>6, <1>8, <1>9, <1>10, <1>11, ThreadStep

LEMMA RemoveStep == ASSUME Restricted, IInv, NEW h \in Handlers, Remove(h) PROVE ActivityInv'
<1>1. At("thread") /\ FramesOK /\ ListInv
  BY DEF Remove, IInv, ActivityInv
<1>2. Len(frames) = 1 /\ Top = Base /\ BaseOK(Base) /\ frames \in Seq(Frames)
  BY <1>1, TopIsBase DEF FramesOK
<1>3. PICK i \in alloc : i = handler[h].irq /\ i = Line[h]
  BY <1>1, MemberLine DEF Remove
<1>4. /\ Member(h) /\ RemoveFrom(i, h) /\ request' = request \ {h}
      /\ UNCHANGED <<frames, imr, irr, isr, biosReq, left, fault>>
  BY <1>3 DEF Remove, RemoveFrom, pic
<1>5. entry[i].fallback \notin {Null, h} => Ordinary(i) \cap (Handlers \ {h}) # {}
  BY <1>3 DEF Remove, Accompanied, Restricted
<1>6. /\ \A g \in Handlers : g # h => handler'[g].irq = handler[g].irq
                                      /\ handler'[g].enabled = handler[g].enabled
      /\ \A j \in Irqs : j # i => entry'[j] = entry[j]
      /\ alloc' \subseteq alloc /\ alloc \subseteq Irqs
  <2>1. alloc \subseteq Irqs
    BY <1>1 DEF ListInv, ListTypes
  <2> QED
    <3>1. ListInv /\ h \in Handlers /\ Member(h) /\ handler[h].irq = i /\ RemoveFrom(i, h)
      BY <1>1, <1>3, <1>4
    <3>2. /\ \A g \in Handlers : g # h => handler'[g].irq = handler[g].irq
                                          /\ handler'[g].enabled = handler[g].enabled
          /\ \A j \in Irqs : j # i => entry'[j] = entry[j]
          /\ alloc' \subseteq alloc
      BY <1>5, <3>1, RemoveList
    <3> QED
      BY <2>1, <3>2
<1>7. entry'[i].first = Null => i \notin alloc'
  BY <1>1, <1>3, <1>4, <1>5, RemoveList
<1>8. BaseOK(Base)'
  BY <1>1, <1>2, <1>4 DEF BaseOK, At, Base
<1>9. EmptyQuiet'
  BY <1>1, <1>6, <1>7, NoneEmpty DEF EmptyQuiet
<1>10. Waiting'
  BY <1>4, <1>6 DEF IInv, ActivityInv, Waiting, Member
<1> QED
  BY <1>2, <1>4, <1>8, <1>9, <1>10, ThreadStep

-----------------------------------------------------------------------------
(* The invariant. *)

LEMMA IrqInit == Init => IInv
<1> SUFFICES ASSUME Init PROVE IInv
  OBVIOUS
<1>1. ListInv
  BY ListInit
<1>2. /\ frames = <<Thread>> /\ imr = Masked0 /\ irr = {} /\ isr = {} /\ alloc = {}
      /\ request = {} /\ biosReq = {} /\ fault = "none"
      /\ left = [d \in Handlers \cup BiosLines |-> MaxReq]
  BY DEF Init
<1>3. Thread \in Frames /\ Thread.irq = Null /\ Thread.flags = {} /\ Thread.pc = "thread"
  BY DEF Thread, Frames, Pointers, Acks
<1>4. frames \in Seq(Frames) /\ Len(frames) = 1 /\ frames[1] = Thread /\ frames # <<>>
  BY <1>2, <1>3
<1>5. FramesOK /\ InService /\ SelfMasked /\ NestingAllowed
  BY <1>2, <1>3, <1>4 DEF FramesOK, InService, SelfMasked, NestingAllowed, BaseOK, Base
<1>6. PicTypes /\ EmptyQuiet /\ Waiting /\ RequestKept
  BY <1>2, ConstantsAssumption DEF PicTypes, EmptyQuiet, Waiting, RequestKept
<1> QED
  BY <1>1, <1>2, <1>5, <1>6 DEF IInv, ActivityInv

LEMMA IrqStep == ASSUME Restricted, IInv, [Next]_vars PROVE IInv'
<1>1. ListInv'
  BY ListStep
<1>2. CASE UNCHANGED vars
  <2>1. UNCHANGED <<entry, alloc, handler, frames, imr, irr, isr, request, biosReq, left, fault>>
    BY <1>2 DEF vars
  <2>2. FramesOK'
    BY <2>1 DEF IInv, ActivityInv, FramesOK, BaseOK, Base, ActivationOK, Member, Ordinary
  <2>3. EmptyQuiet' /\ InService' /\ SelfMasked' /\ NestingAllowed'
    BY <2>1 DEF IInv, ActivityInv, EmptyQuiet, Base, InService, Unsent, EoiSent, SelfMasked,
                MaskSelf, NestingAllowed
  <2>4. \A h, k : WillCall(frames[k], h) => WillCall(frames[k], h)'
    BY <2>1 DEF WillCall, From, Closed
  <2>5. RequestKept' /\ PicTypes' /\ fault' = "none" /\ Waiting'
    BY <2>1, <2>4 DEF IInv, ActivityInv, RequestKept, PicTypes, Waiting, Member
  <2> QED
    BY <1>1, <2>2, <2>3, <2>5 DEF IInv, ActivityInv
<1>3. ASSUME NEW i \in Irqs, Deliver(i) PROVE ActivityInv'
  BY <1>3, EnterStep, PreviousStep
<1>4. ASSUME Handling PROVE ActivityInv'
  <2>1. CASE CallFirst \/ CallNext \/ End
    BY <2>1, CallFirstStep, CallNextStep, EndStep
  <2>2. CASE Serve \/ Acknowledge \/ FuncReturns
    BY <2>2, ServeStep, AcknowledgeStep, FuncReturnsStep
  <2> QED
    BY <1>3, <1>4, <2>1, <2>2, Zenon DEF Handling
<1>5. ASSUME Driver PROVE ActivityInv'
  <2>1. ASSUME NEW h \in Handlers, Assign(h) \/ Enable(h) \/ Disable(h) \/ Remove(h)
        PROVE  ActivityInv'
    BY <2>1, AssignStep, EnableStep, DisableStep, RemoveStep
  <2>2. CASE Link
    BY <2>2, LinkStep
  <2> QED
    BY <1>5, <2>1, <2>2, Zenon DEF Driver
<1>6. ASSUME (\E h \in Handlers : Request(h)) \/ (\E i \in BiosLines : BiosRequest(i))
      PROVE  ActivityInv'
  BY <1>6, DeviceStep, Zenon
<1> QED
  <2>1. ActivityInv' \/ UNCHANGED vars
    BY <1>4, <1>5, <1>6, Zenon DEF Next
  <2> QED
    BY <1>1, <1>2, <2>1 DEF IInv

\* The inductive invariant holds in every behaviour of drivers that keep to Restricted.
THEOREM IrqInvariant == Restricted => (Spec => []IInv)
<1> SUFFICES ASSUME Restricted PROVE Spec => []IInv
  OBVIOUS
<1>1. IInv /\ [Next]_vars => IInv'
  BY IrqStep
<1> QED
  BY <1>1, IrqInit, PTL DEF Spec

-----------------------------------------------------------------------------
(* The properties. *)

LEMMA TypeOKFollows == IInv => TypeOK
<1> SUFFICES ASSUME IInv PROVE TypeOK
  OBVIOUS
<1> DEFINE P == {h \in Handlers : Member(h)} \cup {Null}
<1>1. ASSUME NEW i \in Irqs, NEW g \in Handlers, handler[g].irq = i PROVE g \in P
  BY <1>1, NullFacts DEF Member
<1>2. \A i \in Irqs : entry[i].first \in P /\ entry[i].last \in P /\ entry[i].fallback \in P
  <2> SUFFICES ASSUME NEW i \in Irqs
               PROVE  entry[i].first \in P /\ entry[i].last \in P /\ entry[i].fallback \in P
    OBVIOUS
  <2>1. entry[i].first # Null => entry[i].first \in Ordinary(i)
    BY DEF IInv, ListInv, Ends, Hooked
  <2>2. entry[i].last # Null => entry[i].last \in Ordinary(i)
    BY DEF IInv, ListInv, Ends, Hooked
  <2>3. entry[i].fallback # Null => entry[i].fallback \in Handlers /\ handler[entry[i].fallback].irq = i
    BY DEF IInv, ListInv, ListTypes, Entries, Pointers, Fallbacks
  <2> HIDE DEF P
  <2>4. Null \in P
    BY DEF P
  <2> QED
    BY <1>1, <2>1, <2>2, <2>3, <2>4 DEF Ordinary
<1>3. \A h \in Handlers : handler[h].next \in P /\ handler[h].prev \in P
  <2> SUFFICES ASSUME NEW h \in Handlers PROVE handler[h].next \in P /\ handler[h].prev \in P
    OBVIOUS
  <2>1. CASE Member(h)
    BY <2>1, <1>1 DEF IInv, ListInv, Linked, Ordinary, Member
  <2>2. CASE ~Member(h)
    BY <2>2 DEF IInv, ListInv, OwnLine, Unassigned
  <2> QED
    BY <2>1, <2>2
<1> HIDE DEF P
<1>4. /\ entry \in [Irqs -> [first : P, last : P, fallback : P, flags : SUBSET FlagNames]]
      /\ handler \in [Handlers -> [irq : Irqs \cup {Null}, enabled : BOOLEAN, next : P, prev : P]]
  <2>1. entry \in [Irqs -> Entries] /\ handler \in [Handlers -> Nodes]
    BY DEF IInv, ListInv, ListTypes
  <2>2. \A i \in Irqs : entry[i] \in [first : P, last : P, fallback : P, flags : SUBSET FlagNames]
    BY <1>2, <2>1 DEF Entries
  <2>3. \A h \in Handlers : handler[h] \in [irq : Irqs \cup {Null}, enabled : BOOLEAN, next : P, prev : P]
    BY <1>3, <2>1 DEF Nodes
  <2> QED
    BY <2>1, <2>2, <2>3
<1>5. frames \in Seq([irq : Irqs \cup {Null}, flags : SUBSET FlagNames,
                      ack : {"no", "eoi_sent", "yes"}, cur : Handlers \cup {Null},
                      pc : {"thread", "link", "first", "func", "served", "acked", "next", "end"}])
  <2>1. {"thread", "link", "first", "func", "served", "acked", "next", "end"} = Stages \cup {"thread", "link"}
    BY DEF Stages
  <2>2. frames \in Seq(Frames)
    BY DEF IInv, ActivityInv, FramesOK
  <2> QED
    BY <2>1, <2>2 DEF Frames, Acks, Pointers
<1>6. frames # <<>> /\ frames[Len(frames)].irq = Null
  BY DEF IInv, ActivityInv, FramesOK, BaseOK, Base
<1>7. /\ alloc \subseteq Irqs /\ imr \subseteq Irqs /\ irr \subseteq Irqs /\ isr \subseteq Irqs
      /\ request \subseteq Handlers /\ biosReq \subseteq BiosLines
      /\ left \in [Handlers \cup BiosLines -> 0..MaxReq]
      /\ fault \in {"none", "null", "noeoi"}
  BY DEF IInv, ActivityInv, PicTypes, ListInv, ListTypes
<1> QED
  BY <1>4, <1>5, <1>6, <1>7, Zenon DEF TypeOK, P

LEMMA ListsAgreeFollows == IInv => ListsAgree
<1> SUFFICES ASSUME IInv PROVE ListsAgree
  OBVIOUS
<1>1. ASSUME NEW i \in alloc PROVE Follow(entry[i]) = Ordinary(i)
  BY <1>1, FollowIsOrdinary DEF IInv
<1>2. ASSUME NEW i \in alloc
      PROVE  /\ entry[i].last = Null <=> entry[i].first = Null
             /\ entry[i].first # Null =>
                   handler[entry[i].first].prev = Null /\ handler[entry[i].last].next = Null
  BY DEF IInv, ListInv, Ends
<1>3. ASSUME NEW i \in alloc
      PROVE  entry[i].flags = UNION {Flags[h] : h \in {h \in Handlers :
                                         handler[h].irq = i /\ handler[h].enabled}}
  BY Zenon DEF IInv, ListInv, FlagsSum, EnabledOn
<1>4. \A h \in Handlers :
        /\ handler[h].next # Null => handler[handler[h].next].prev = h
        /\ handler[h].prev # Null => handler[handler[h].prev].next = h
  BY DEF IInv, ListInv, Linked
<1> QED
  BY <1>1, <1>2, <1>3, <1>4, Zenon DEF ListsAgree

LEMMA EntriesLiveFollows == IInv => EntriesLive
<1> SUFFICES ASSUME IInv PROVE EntriesLive
  OBVIOUS
<1>1. ASSUME NEW i \in alloc, Ordinary(i) = {} PROVE Base.pc = "link" /\ Line[Base.cur] = i
  <2>1. entry[i].first = Null
    BY <1>1, NoFirst DEF IInv, ListInv, ListTypes
  <2> QED
    BY <2>1 DEF IInv, ActivityInv, EmptyQuiet
<1> QED
  BY <1>1 DEF EntriesLive, IInv, ListInv, Hooked

\* The EOIs: a line in service has one activation that has not sent it.
LEMMA EoiExactFollows == IInv => EoiExact
<1> SUFFICES ASSUME IInv, NEW i \in Irqs
             PROVE  Cardinality({k \in 1..Len(frames) : frames[k].irq = i /\ ~EoiSent(frames[k])})
                        = (IF i \in isr THEN 1 ELSE 0)
  BY Zenon DEF EoiExact
<1> DEFINE K == {k \in 1..Len(frames) : frames[k].irq = i /\ ~EoiSent(frames[k])}
<1>1. Len(frames) \in Nat /\ frames[Len(frames)].irq # i
  <2>1. Len(frames) \in Nat
    BY FrameFacts DEF IInv, ActivityInv
  <2> QED
    BY <2>1, NullFacts DEF IInv, ActivityInv, FramesOK, BaseOK, Base
<1>2. \A k \in K : k \in 1..Len(frames) - 1
  BY <1>1
<1>3. CASE i \notin isr
  <2>1. K = {}
    BY <1>2, <1>3 DEF IInv, ActivityInv, InService
  <2> QED
    BY <1>3, <2>1, FS_EmptySet
<1>4. CASE i \in isr
  <2>1. PICK k \in 1..Len(frames) - 1 : frames[k].irq = i /\ ~EoiSent(frames[k])
    BY <1>4 DEF IInv, ActivityInv, InService, Unsent
  <2>2. k \in K
    BY <1>1, <2>1
  <2>3. ASSUME NEW l \in K, l # k PROVE FALSE
    <3>1. l \in 1..Len(frames) - 1 /\ frames[l].irq = i /\ ~EoiSent(frames[l])
      BY <1>2
    <3>2. l \in 1..k - 1 \/ k \in 1..l - 1
      BY <2>1, <2>3, <3>1
    <3> QED
      BY <2>1, <3>1, <3>2 DEF IInv, ActivityInv, InService
  <2>4. K = {k}
    BY <2>2, <2>3
  <2> HIDE DEF K
  <2>5. Cardinality(K) = 1
    BY <2>4, FS_Singleton
  <2> QED
    BY <1>4, <2>5 DEF K
<1> QED
  BY <1>3, <1>4

\* While only the thread changes them, the lists, flags and hooks of the lines agree with the
\* handlers that are assigned to them (irq_controller::add(), remove(), enable(), disable(),
\* assign()), a fallback handler never being alone on its line.
THEOREM LinesStayWhole == Restricted => (Spec => []LinesAgree)
<1> SUFFICES ASSUME Restricted PROVE Spec => []LinesAgree
  OBVIOUS
<1>1. IInv => LinesAgree
  BY TypeOKFollows, ListsAgreeFollows, EntriesLiveFollows DEF LinesAgree
<1> QED
  BY <1>1, IrqInvariant, PTL

\* In every behaviour each activation of handle_irq() sends its EOI once, its line is in service
\* exactly until then, and only activations that allow it are interrupted.
THEOREM EoisStayExact == Restricted => (Spec => []EoisExact)
<1> SUFFICES ASSUME Restricted PROVE Spec => []EoisExact
  OBVIOUS
<1>1. IInv => EoisExact
  BY EoiExactFollows DEF IInv, ActivityInv, EoisExact, NoMissingEoi
<1> QED
  BY <1>1, IrqInvariant, PTL

\* In every behaviour the request of a device whose handler is enabled is pending, or an
\* activation for its line will still call the handler.
THEOREM RequestsStayKept == Restricted => (Spec => []RequestKept)
<1> SUFFICES ASSUME Restricted PROVE Spec => []RequestKept
  OBVIOUS
<1>1. IInv => RequestKept
  BY DEF IInv, ActivityInv
<1> QED
  BY <1>1, IrqInvariant, PTL

\* While only the thread changes lists, and no fallback handler is alone or has another beside it,
\* an assigned fallback handler is its line's, and handle_irq() makes no call through a null
\* pointer, neither entry->first nor entry->fallback.
THEOREM FallbackStaysKept == Restricted => (Spec => []FallbackKept)
<1> SUFFICES ASSUME Restricted PROVE Spec => []FallbackKept
  OBVIOUS
<1>1. IInv => FallbackRegistered
  BY DEF IInv, ListInv, OwnLine, Fallbacks, FallbackRegistered
<1>2. IInv => FallbackKept
  BY <1>1, ListsAgreeFollows DEF IInv, ActivityInv, FallbackKept, NoNullCall
<1> QED
  BY <1>2, IrqInvariant, PTL

\* Only End pops an activation that is at its end.
LEMMA OnlyEndPops ==
    ASSUME IInv, Next, At("end"), Len(frames') < Len(frames)
    PROVE  End
<1>1. Len(frames) \in Nat /\ frames' # frames
  BY FrameFacts DEF IInv, ActivityInv
<1>2. \A i \in Irqs : ~Deliver(i)
  <2> SUFFICES ASSUME NEW i \in Irqs, Deliver(i) PROVE FALSE
    OBVIOUS
  <2>1. PICK x : frames' = <<x>> \o frames
    BY <1>1 DEF Deliver, Enter, Previous
  <2>2. Len(frames') = 1 + Len(frames)
    <3>1. frames \in Seq(Frames)
      BY DEF IInv, ActivityInv, FramesOK
    <3> DEFINE X == Frames \cup {x}
    <3>2. frames \in Seq(X) /\ <<x>> \in Seq(X) /\ Len(<<x>>) = 1
      BY <3>1
    <3> HIDE DEF X
    <3> QED
      BY <2>1, <3>2, ConcatProperties
  <2> QED
    BY <1>1, <2>2
<1>3. Top.pc = "end"
  BY DEF At
<1>4. ~CallFirst /\ ~CallNext /\ ~Serve /\ ~Acknowledge /\ ~FuncReturns /\ ~Link
  BY <1>3 DEF CallFirst, CallNext, Serve, Acknowledge, FuncReturns, Link, At
<1>5. \A h \in Handlers : ~Assign(h) /\ ~Enable(h) /\ ~Disable(h) /\ ~Remove(h) /\ ~Request(h)
  BY <1>1, <1>3 DEF Assign, Enable, Disable, Remove, Request, At
<1>6. \A i \in BiosLines : ~BiosRequest(i)
  BY <1>1 DEF BiosRequest
<1> QED
  BY <1>2, <1>4, <1>5, <1>6, Zenon DEF Next, Handling, Driver

\* While only the thread changes lists, between dispatches: in each dispatch the fallback handler is
\* asked only when no other handler has acknowledged, and an interrupt that nobody acknowledged, or
\* a line with always_chain, reaches the previous handler before handle_irq() ends, where enabled
\* handlers ask for a manual EOI.
THEOREM HandlersAskedInTurn == Restricted => (Spec => AskedInTurn)
<1> SUFFICES ASSUME Restricted PROVE Spec => AskedInTurn
  OBVIOUS
<1>1. ASSUME IInv, NEW h \in Handlers, IsFallback(h), At("func"), Top.cur = h
      PROVE  Top.ack # "yes"
  BY <1>1, TopIsActivation DEF IInv, ActivityInv, ActivationOK, At, Stages
<1>2. ASSUME IInv, [Next]_vars, At("end"), Len(frames') < Len(frames), ~AutoEoi(Top.flags),
             Top.ack # "yes" \/ "always_chain" \in Top.flags
      PROVE  Top.irq \notin biosReq'
  <2>1. frames' # frames
    BY <1>2, FrameFacts DEF IInv, ActivityInv
  <2>2. End
    BY <1>2, <2>1, OnlyEndPops DEF vars
  <2>3. At("end") /\ "end" \in Stages
    BY <1>2 DEF Stages
  <2>4. Top \in Frames /\ ActivationOK(Top)
    BY <1>2, <2>3, TopIsActivation DEF IInv, ActivityInv
  <2>5. Top.ack \in {"no", "eoi_sent", "yes"} /\ (Top.ack = "eoi_sent" => AutoEoi(Top.flags))
    BY <2>4 DEF Frames, Acks, ActivationOK
  <2>6. Chain(Top)
    BY <1>2, <2>5 DEF Chain
  <2> QED
    BY <2>2, <2>6 DEF End
<1>3. IInv /\ [Next]_vars =>
        [\A h \in Handlers : IsFallback(h) /\ At("func") /\ Top.cur = h => Top.ack # "yes"]_vars
  BY <1>1
<1>4. IInv /\ [Next]_vars =>
        [At("end") /\ Len(frames') < Len(frames) /\ ~AutoEoi(Top.flags)
            /\ (Top.ack # "yes" \/ "always_chain" \in Top.flags)
         => Top.irq \notin biosReq']_vars
  BY <1>2
<1> QED
  BY <1>3, <1>4, IrqInvariant, PTL DEF Spec, AskedInTurn, FallbackLast, ChainKept
=============================================================================
