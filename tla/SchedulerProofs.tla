--------------------------- MODULE SchedulerProofs ---------------------------
(***************************************************************************)
(* Theorems about the scheduler, for every number of threads, every set of *)
(* functions and every choice of library calls but those a theorem names.  *)
(***************************************************************************)
EXTENDS MCScheduler, SequenceTheorems, WellFoundedInduction, FiniteSetTheorems, TLAPS

\* A nonempty set of ids has a least element: begin(), and ++it, are well defined.
LEMMA LeastId ==
    ASSUME NEW T, T \subseteq Nat, T # {}
    PROVE  \E u \in T : \A v \in T : u <= v
<1> DEFINE R == {p \in Nat \X Nat : p[1] < p[2]}
<1>1. OpToRel(<, Nat) = R
  BY Zenon DEF OpToRel
<1>2. IsWellFoundedOn(R, Nat)
  BY <1>1, NatLessThanWellFounded, Zenon
<1>3. PICK u \in T : \A v \in T : ~ (<<v, u>> \in R)
  BY <1>2, WFMin, Zenon
<1>4. \A v \in T : ~ (v < u)
  <2> SUFFICES ASSUME NEW v \in T, v < u PROVE FALSE
    OBVIOUS
  <2>1. <<v, u>> \in Nat \X Nat /\ <<v, u>>[1] < <<v, u>>[2]
    OBVIOUS
  <2>2. <<v, u>> \in R
    BY <2>1
  <2> QED
    BY <1>3, <2>2
<1> QED
  BY <1>4

\* begin() of the thread set is the main thread.
LEMMA FirstIsMain ==
    ASSUME threads \subseteq Ids, Main \in threads, MaxId \in Nat
    PROVE  First = Main
<1>1. \A v \in threads : Main <= v
  BY DEF Main, Ids
<1>2. \A u \in threads : (\A v \in threads : u <= v) => u = Main
  BY DEF Main, Ids
<1> QED
  BY <1>1, <1>2 DEF First

\* The round-robin successor is a member of the set, also after erasing a thread other
\* than main.
LEMMA NextIdMember ==
    ASSUME threads \subseteq Ids, Main \in threads, MaxId \in Nat, NEW t \in Ids
    PROVE  /\ NextId(t) \in threads
           /\ t # Main => NextId(t) # t
<1>1. First = Main
  BY FirstIsMain
<1>2. CASE Later(t) = {}
  BY <1>1, <1>2 DEF NextId
<1>3. CASE Later(t) # {}
  <2>1. Later(t) \subseteq Nat
    <3>1. Ids \subseteq Nat
      BY DEF Ids
    <3> QED
      BY <3>1 DEF Later
  <2>2. \E u \in Later(t) : \A v \in Later(t) : u <= v
    BY <1>3, <2>1, LeastId
  <2>3. NextId(t) \in Later(t)
    BY <1>3, <2>2 DEF NextId
  <2> QED
    BY <2>3 DEF Later, Ids
<1> QED
  BY <1>2, <1>3

-----------------------------------------------------------------------------
(* The call stacks. *)

StacksOK == stack \in [Ids -> Seq(Frames)]

LEMMA PushType ==
    ASSUME StacksOK, NEW c \in Ids, NEW fr \in Frames, Push(c, fr)
    PROVE  StacksOK'
<1>1. <<fr>> \o stack[c] \in Seq(Frames)
  BY ConcatProperties DEF StacksOK
<1> QED
  BY <1>1 DEF StacksOK, Push

LEMMA TailType ==
    ASSUME StacksOK, NEW c \in Ids, stack[c] # <<>>
    PROVE  Tail(stack[c]) \in Seq(Frames)
BY HeadTailProperties DEF StacksOK

LEMMA PopType ==
    ASSUME StacksOK, NEW c \in Ids, stack[c] # <<>>, Pop(c)
    PROVE  StacksOK'
BY TailType DEF StacksOK, Pop

LEMMA ReplaceType ==
    ASSUME StacksOK, NEW c \in Ids, stack[c] # <<>>, NEW fr \in Frames, Replace(c, fr)
    PROVE  StacksOK'
<1>1. <<fr>> \o Tail(stack[c]) \in Seq(Frames)
  BY TailType, ConcatProperties
<1> QED
  BY <1>1 DEF StacksOK, Replace

\* The frames that the actions push.
LEMMA FrameType ==
    /\ \A l \in Labels, n \in {0, 1, 2} : <<l, n>> \in Frames
    /\ \A l \in Labels, t \in Ids : <<l, t>> \in Frames
BY BoundsAssumption DEF Frames, Ids

LEMMA TopType ==
    ASSUME StacksOK, NEW c \in Ids, stack[c] # <<>>
    PROVE  Top(c) \in Frames
BY ElementOfSeq, EmptySeq DEF StacksOK, Top

-----------------------------------------------------------------------------
(* Type correctness, with what it needs: the iterator never leaves the set. *)

Members ==
    /\ Main \in threads
    /\ iterator \in threads
    /\ threads \subseteq 1..idCount - 1
    /\ Main \notin detached
    /\ handle[Main] = 0

TypeInv == TypeOK /\ Members

LEMMA InitTypeInv == Init => TypeInv
<1> SUFFICES ASSUME Init PROVE TypeInv
  OBVIOUS
<1> USE BoundsAssumption DEF Init
<1>1. \A t \in Ids : IF t = Main THEN <<"body", 0>> \in Frames ELSE <<"start", 0>> \in Frames
  BY FrameType DEF Labels
<1>2. stack \in [Ids -> Seq(Frames)]
  BY <1>1
<1>3. state \in [Ids -> States]
  BY DEF States
<1>4. Main \in Ids
  BY DEF Main, Ids
<1>5. invokeList \in [Ids -> Seq(Fns)] /\ atexitList \in [Ids -> Seq(Fns)]
  OBVIOUS
<1>7. raise \in [Ids -> {Normal, Exc, Forced}] /\ handle \in [Ids -> 0..MaxId]
  BY SMT
<1>8. idCount \in 2..MaxId + 1 /\ calls \in [Fns -> 0..2]
  OBVIOUS
<1>9. TypeOK
  BY <1>2, <1>3, <1>4, <1>5, <1>7, <1>8 DEF TypeOK
<1>6. Members
  BY <1>4 DEF Members, Main, Ids
<1> QED
  BY <1>6, <1>9 DEF TypeInv

LEMMA IdFacts ==
    /\ Main \in Ids /\ Main = 1
    /\ \A t \in Ids : t \in Nat /\ t # 0 /\ t >= 1 /\ t <= MaxId /\ t \in 0..MaxId
    /\ 0 \in 0..MaxId
BY BoundsAssumption DEF Ids, Main

LEMMA EnqueueType ==
    ASSUME invokeList \in [Ids -> Seq(Fns)], NEW t \in Ids, NEW f \in Fns, Enqueue(t, f)
    PROVE  invokeList' \in [Ids -> Seq(Fns)]
<1>1. Append(invokeList[t], f) \in Seq(Fns)
  BY AppendProperties
<1> QED
  BY <1>1 DEF Enqueue

LEMMA ClearType ==
    ASSUME NEW L \in [Ids -> Seq(Fns)], NEW t \in Ids
    PROVE  [L EXCEPT ![t] = <<>>] \in [Ids -> Seq(Fns)]
<1>1. <<>> \in Seq(Fns)
  BY EmptySeq
<1> QED
  BY <1>1, Zenon

LEMMA CalledType ==
    ASSUME calls \in [Fns -> 0..2], NEW f \in Fns, Called(f)
    PROVE  calls' \in [Fns -> 0..2]
BY DEF Called

\* The thread that invoke_main() and invoke_next() queue on.
LEMMA TargetIds ==
    ASSUME TypeInv
    PROVE  First \in Ids /\ NextId(iterator) \in Ids
BY FirstIsMain, NextIdMember, BoundsAssumption, IdFacts DEF TypeInv, TypeOK, Members

\* Library calls.
LEMMA CreateTypeInv ==
    ASSUME TypeInv, NEW c \in Ids, Create(c)
    PROVE  TypeInv'
<1> USE DEF TypeInv, TypeOK, Members, Create, Runs, flagVars, listVars, killVars
<1>1. idCount \in Ids /\ idCount # Main /\ idCount' = idCount + 1
  BY IdFacts
<1>2. idCount' \in 2..MaxId + 1 /\ threads' \subseteq 1..idCount' - 1
  BY <1>1, IdFacts, BoundsAssumption
<1>3. handle' \in [Ids -> 0..MaxId] /\ handle'[Main] = 0
  BY <1>1, IdFacts
<1>4. threads' \subseteq Ids /\ Main \in threads' /\ iterator' \in threads'
  BY <1>1
<1> QED
  BY <1>1, <1>2, <1>3, <1>4

LEMMA HandleTypeInv ==
    ASSUME TypeInv, NEW c \in Ids, NEW t \in Ids, handle[t] = c,
           handle' = [handle EXCEPT ![t] = 0]
    PROVE  t # Main /\ handle' \in [Ids -> 0..MaxId] /\ handle'[Main] = 0
BY IdFacts DEF TypeInv, TypeOK, Members

LEMMA DetachTypeInv ==
    ASSUME TypeInv, NEW c \in Ids, NEW t \in Ids, Detach(c, t)
    PROVE  TypeInv'
<1>1. t # Main /\ handle' \in [Ids -> 0..MaxId] /\ handle'[Main] = 0
  BY HandleTypeInv DEF Detach
<1> QED
  BY <1>1 DEF TypeInv, TypeOK, Members, Detach, listVars, killVars

LEMMA DropHandleTypeInv ==
    ASSUME TypeInv, NEW c \in Ids, NEW t \in Ids, DropHandle(c, t)
    PROVE  TypeInv'
<1>1. t # Main /\ handle' \in [Ids -> 0..MaxId] /\ handle'[Main] = 0
  BY HandleTypeInv DEF DropHandle
<1>2. raise' \in [Ids -> {Normal, Exc, Forced}] /\ unwinding' \subseteq Ids
      /\ ended' \in {"no", "exited", "aborted"} /\ terminating' \in BOOLEAN
  BY DEF DropHandle, TypeInv, TypeOK
<1> QED
  BY <1>1, <1>2 DEF TypeInv, TypeOK, Members, DropHandle, listVars, killVars

LEMMA QueueTypeInv ==
    ASSUME TypeInv, NEW c \in Ids, NEW f \in Fns,
           Invoke(c, f) \/ AtExit(c, f) \/ Interrupt(f)
    PROVE  TypeInv'
<1>1. invokeList' \in [Ids -> Seq(Fns)]
  BY EnqueueType, TargetIds, Zenon DEF Invoke, AtExit, Interrupt, TypeInv, TypeOK
<1>2. calls' \in [Fns -> 0..2]
  BY CalledType, Zenon DEF Invoke, AtExit, Interrupt, TypeInv, TypeOK
<1>3. atexitList' \in [Ids -> Seq(Fns)]
  <2>1. Append(atexitList[c], f) \in Seq(Fns)
    BY AppendProperties DEF TypeInv, TypeOK
  <2> QED
    BY <2>1 DEF Invoke, AtExit, Interrupt, TypeInv, TypeOK
<1> QED
  BY <1>1, <1>2, <1>3, Zenon
  DEF TypeInv, TypeOK, Members, Invoke, AtExit, Interrupt, flagVars, killVars

LEMMA FlagTypeInv ==
    ASSUME TypeInv, NEW c \in Ids, NEW t \in Ids,
           Cancel(c, t) \/ Suspend(c, t) \/ Throw(c) \/ Exit
    PROVE  TypeInv'
BY DEF TypeInv, TypeOK, Members, Cancel, Suspend, Throw, Exit, flagVars, listVars, killVars

LEMMA StacksInType == TypeInv => StacksOK
BY DEF TypeInv, TypeOK, StacksOK

LEMMA JoinTypeInv ==
    ASSUME TypeInv, NEW c \in Ids, NEW t \in Ids, Join(c, t)
    PROVE  TypeInv'
<1>1. t # Main /\ handle' \in [Ids -> 0..MaxId] /\ handle'[Main] = 0
  BY HandleTypeInv DEF Join
<1>2. <<"join", t>> \in Frames
  BY FrameType DEF Labels
<1>3. StacksOK'
  BY <1>2, StacksInType, PushType DEF Join
<1> QED
  BY <1>1, <1>3 DEF StacksOK, TypeInv, TypeOK, Members, Join, listVars, killVars

\* A thread that yields, starts, or waits.
LEMMA YieldTypeInv ==
    ASSUME TypeInv, NEW c \in Ids,
           Yield(c) \/ DeadYield(c) \/ JoinWait(c) \/ RunThread(c) \/ KillYield
    PROVE  TypeInv'
<1>1. <<"yield", 0>> \in Frames /\ <<"safe", 0>> \in Frames /\ <<"body", 0>> \in Frames
      /\ <<"wait", 0>> \in Frames
  BY FrameType DEF Labels
<1>2. StacksOK'
  <2>1. CASE Yield(c)
    BY <1>1, <2>1, StacksInType, PushType DEF Yield
  <2>2. CASE DeadYield(c)
    BY <1>1, <2>2, StacksInType, PushType DEF DeadYield
  <2>3. CASE JoinWait(c)
    BY <1>1, <2>3, StacksInType, PushType, PopType DEF JoinWait, Runs
  <2>4. CASE RunThread(c)
    BY <1>1, <2>4, StacksInType, ReplaceType DEF RunThread, Runs
  <2>5. CASE KillYield
    <3>1. <<<<"yield", 0>>, <<"wait", 0>>>> \in Seq(Frames)
      BY <1>1
    <3> QED
      BY <2>5, <3>1, StacksInType DEF KillYield, StacksOK
  <2> QED
    BY <2>1, <2>2, <2>3, <2>4, <2>5
<1>3. state' \in [Ids -> States] /\ scan' \in BOOLEAN
  BY DEF Yield, DeadYield, JoinWait, RunThread, KillYield, TypeInv, TypeOK, States
<1> QED
  BY <1>2, <1>3 DEF StacksOK, TypeInv, TypeOK, Members, Yield, DeadYield, JoinWait, RunThread,
                    KillYield, flagVars, listVars, killVars

\* switch_thread() leaves the iterator on a member of the set.
LEMMA SwitchTypeInv ==
    ASSUME TypeInv, SwitchThread
    PROVE  TypeInv'
<1>1. iterator \in Ids
  BY DEF TypeInv, TypeOK
<1>2. /\ NextId(iterator) \in threads
      /\ iterator # Main => NextId(iterator) # iterator
  BY <1>1, NextIdMember, BoundsAssumption DEF TypeInv, TypeOK, Members
<1>3. iterator' = NextId(iterator) /\ scan' \in BOOLEAN
  BY DEF SwitchThread, Active, TypeInv, TypeOK
<1>4. Erasable(iterator) => iterator # Main
  BY DEF Erasable, TypeInv, Members
<1>5. threads' = threads \/ (Erasable(iterator) /\ threads' = threads \ {iterator})
  BY DEF SwitchThread
<1>6. Main \in threads' /\ iterator' \in threads' /\ threads' \subseteq threads
  BY <1>2, <1>3, <1>4, <1>5 DEF TypeInv, Members
<1> QED
  BY <1>3, <1>6
  DEF SwitchThread, TypeInv, TypeOK, Members, flagVars, listVars, killVars

LEMMA ForcedUnwindTypeInv ==
    ASSUME TypeInv, NEW c \in Ids, ForcedUnwind(c)
    PROVE  TypeInv'
BY DEF TypeInv, TypeOK, Members, ForcedUnwind, listVars, killVars

\* A step that changes only the stacks.
LEMMA StackStepTypeInv ==
    ASSUME TypeInv, StacksOK',
           UNCHANGED <<threads, idCount, state, flagVars, listVars, iterator, scan, terminating,
                       handle, raise, killVars, ended>>
    PROVE  TypeInv'
BY DEF StacksOK, TypeInv, TypeOK, Members, flagVars, listVars, killVars

\* What do_yield() does after the context switch.
LEMMA ResumeTypeInv ==
    ASSUME TypeInv, NEW c \in Ids, ResumeTerminating(c) \/ ResumeReturns(c)
    PROVE  TypeInv'
<1>1. CASE ForcedUnwind(c)
  BY <1>1, ForcedUnwindTypeInv
<1>2. CASE ~ ForcedUnwind(c)
  <2>1. <<"yield", 1>> \in Frames
    BY FrameType DEF Labels
  <2>2. StacksOK'
    BY <1>2, <2>1, StacksInType, ReplaceType, PopType
    DEF ResumeTerminating, ResumeReturns, Runs
  <2>3. CASE ResumeTerminating(c)
    <3>1. UNCHANGED <<threads, idCount, state, flagVars, listVars, iterator, scan, terminating,
                      handle, raise, killVars, ended>>
      BY <1>2, <2>3, Zenon DEF ResumeTerminating
    <3> QED
      BY <2>2, <3>1, StackStepTypeInv
  <2>4. CASE ResumeReturns(c)
    <3>1. UNCHANGED <<threads, idCount, state, flagVars, listVars, iterator, scan, terminating,
                      handle, raise, killVars, ended>>
      BY <1>2, <2>4, Zenon DEF ResumeReturns
    <3> QED
      BY <2>2, <3>1, StackStepTypeInv
  <2> QED
    BY <2>3, <2>4
<1> QED
  BY <1>1, <1>2

LEMMA PopInvokedType ==
    ASSUME TypeInv, NEW c \in Ids, PopInvoked(c)
    PROVE  invokeList' \in [Ids -> Seq(Fns)]
<1>1. invokeList[c] # <<>> => Tail(invokeList[c]) \in Seq(Fns)
  BY HeadTailProperties DEF TypeInv, TypeOK
<1> QED
  BY <1>1 DEF PopInvoked, TypeInv, TypeOK

\* Invoked functions and atexit handlers.
LEMMA CallTypeInv ==
    ASSUME TypeInv, NEW c \in Ids,
           CallInvoked(c) \/ InvokedReturns(c) \/ AtExitCall(c) \/ HookReturns(c)
    PROVE  TypeInv'
<1>1. <<"fn", 0>> \in Frames /\ <<"hook", 0>> \in Frames
  BY FrameType DEF Labels
<1>2. StacksOK'
  BY <1>1, StacksInType, PushType, PopType
  DEF CallInvoked, InvokedReturns, AtExitCall, HookReturns, Runs
<1>3. invokeList' \in [Ids -> Seq(Fns)]
  BY PopInvokedType, Zenon
  DEF CallInvoked, InvokedReturns, AtExitCall, HookReturns, TypeInv, TypeOK, listVars
<1>4. atexitList[c] # <<>> =>
         Head(atexitList[c]) \in Fns /\ Tail(atexitList[c]) \in Seq(Fns)
  BY HeadTailProperties DEF TypeInv, TypeOK
<1>5. invokeList[c] # <<>> => Head(invokeList[c]) \in Fns
  BY HeadTailProperties DEF TypeInv, TypeOK
<1>6. calls' \in [Fns -> 0..2]
  <2>1. CASE CallInvoked(c)
    BY <2>1, <1>5, CalledType DEF CallInvoked, TypeInv, TypeOK
  <2>2. CASE AtExitCall(c)
    BY <2>2, <1>4, CalledType DEF AtExitCall, TypeInv, TypeOK
  <2> QED
    BY <2>1, <2>2 DEF InvokedReturns, HookReturns, TypeInv, TypeOK, listVars
<1>7. atexitList' \in [Ids -> Seq(Fns)]
  BY <1>4 DEF CallInvoked, InvokedReturns, AtExitCall, HookReturns, TypeInv, TypeOK, listVars
<1> QED
  BY <1>2, <1>3, <1>6, <1>7
  DEF StacksOK, TypeInv, TypeOK, Members, CallInvoked, InvokedReturns, AtExitCall, HookReturns,
      flagVars, killVars, listVars

\* Stack unwinding.
LEMMA UnwindTypeInv ==
    ASSUME TypeInv, NEW c \in Ids,
           UnwindFrame(c) \/ UnwindUser(c) \/ CatchUnwind(c) \/ Swallow(c)
    PROVE  TypeInv'
<1>1. <<"clean", raise[c]>> \in Frames /\ <<"body", 0>> \in Frames
  BY FrameType DEF Labels, TypeInv, TypeOK, Normal, Exc, Forced
<1>2. StacksOK'
  BY <1>1, StacksInType, ReplaceType, PopType
  DEF UnwindFrame, UnwindUser, CatchUnwind, Swallow, Propagating, Runs, StacksOK
<1>3. invokeList' \in [Ids -> Seq(Fns)]
  BY PopInvokedType, Zenon
  DEF UnwindFrame, UnwindUser, CatchUnwind, Swallow, TypeInv, TypeOK, listVars
<1>4. /\ raise' \in [Ids -> {Normal, Exc, Forced}]
      /\ unwinding' \subseteq Ids
      /\ ended' \in {"no", "exited", "aborted"}
  BY DEF UnwindFrame, UnwindUser, CatchUnwind, Swallow, TypeInv, TypeOK, flagVars
<1>5. terminating' \in BOOLEAN
  BY DEF UnwindFrame, UnwindUser, CatchUnwind, Swallow, TypeInv, TypeOK
<1> QED
  BY <1>2, <1>3, <1>4, <1>5
  DEF StacksOK, TypeInv, TypeOK, Members, UnwindFrame, UnwindUser, CatchUnwind, Swallow,
      flagVars, killVars, listVars

\* The end of a thread, and of main().
LEMMA EndTypeInv ==
    ASSUME TypeInv, NEW c \in Ids, BodyEnds(c) \/ ThreadEnds(c)
    PROVE  TypeInv'
<1>1. stack[c] # <<>> => Top(c) \in Labels \X (0..MaxId \cup {0, 1, 2})
  BY TopType, StacksInType DEF Frames
<1>2. <<"exit", Normal>> \in Frames /\ <<"dead", 0>> \in Frames
      /\ (stack[c] # <<>> => <<"exit", Top(c)[2]>> \in Frames)
  BY <1>1, FrameType DEF Labels, Frames, Normal
<1>3. StacksOK'
  BY <1>2, StacksInType, ReplaceType DEF BodyEnds, ThreadEnds, Runs
<1>4. state' \in [Ids -> States] /\ unwinding' \subseteq Ids
  BY DEF BodyEnds, ThreadEnds, TypeInv, TypeOK, States
<1>5. terminating' \in BOOLEAN
  BY DEF BodyEnds, ThreadEnds, TypeInv, TypeOK, listVars
<1>6. atexitList' = atexitList \/ atexitList' = [atexitList EXCEPT ![c] = <<>>]
  BY DEF BodyEnds, ThreadEnds, listVars
<1>7. atexitList' \in [Ids -> Seq(Fns)]
  <2>1. atexitList \in [Ids -> Seq(Fns)]
    BY DEF TypeInv, TypeOK
  <2>2. [atexitList EXCEPT ![c] = <<>>] \in [Ids -> Seq(Fns)]
    BY <2>1, ClearType
  <2> QED
    BY <1>6, <2>1, <2>2
<1> QED
  BY <1>3, <1>4, <1>5, <1>7
  DEF StacksOK, TypeInv, TypeOK, Members, BodyEnds, ThreadEnds, listVars, killVars

LEMMA KillTypeInv ==
    ASSUME TypeInv, KillAll \/ KillTest
    PROVE  TypeInv'
<1>1. <<"kill", 0>> \in Frames
  BY FrameType DEF Labels
<1>2. StacksOK'
  BY <1>1, StacksInType, ReplaceType, IdFacts DEF KillAll, KillTest, Runs
<1>3. atexitList' = atexitList \/ atexitList' = [atexitList EXCEPT ![Main] = <<>>]
  BY DEF KillAll, KillTest, listVars
<1>5. atexitList' \in [Ids -> Seq(Fns)]
  <2>1. atexitList \in [Ids -> Seq(Fns)]
    BY DEF TypeInv, TypeOK
  <2>2. [atexitList EXCEPT ![Main] = <<>>] \in [Ids -> Seq(Fns)]
    BY <2>1, ClearType, IdFacts
  <2> QED
    BY <1>3, <2>1, <2>2
<1>4. killIds' \subseteq Ids /\ killed' \subseteq Ids /\ canceled' \subseteq Ids
  BY DEF KillAll, KillTest, TypeInv, TypeOK, flagVars
<1> QED
  BY <1>2, <1>4, <1>5
  DEF StacksOK, TypeInv, TypeOK, Members, KillAll, KillTest, flagVars, listVars

LEMMA NextTypeInv ==
    ASSUME TypeInv, [Next]_vars
    PROVE  TypeInv'
<1>1. CASE SwitchThread
  BY <1>1, SwitchTypeInv
<1>2. ASSUME NEW c \in Ids, Program(c) PROVE TypeInv'
  BY <1>2, CreateTypeInv, FlagTypeInv, DetachTypeInv, JoinTypeInv, DropHandleTypeInv,
     QueueTypeInv, YieldTypeInv, UnwindTypeInv, EndTypeInv, Zenon DEF Program
<1>3. ASSUME NEW c \in Ids, Library(c) PROVE TypeInv'
  BY <1>3, YieldTypeInv, ResumeTypeInv, CallTypeInv, UnwindTypeInv, EndTypeInv, Zenon
  DEF Library
<1>4. CASE Kill
  BY <1>4, KillTypeInv, YieldTypeInv, FlagTypeInv, IdFacts, Zenon DEF Kill
<1>5. ASSUME NEW f \in Fns, Interrupt(f) PROVE TypeInv'
  BY <1>5, QueueTypeInv, IdFacts, Zenon
<1>6. CASE UNCHANGED vars
  BY <1>6 DEF vars, TypeInv, TypeOK, Members
<1> QED
  BY <1>1, <1>2, <1>3, <1>4, <1>5, <1>6, Zenon DEF Next, Ended

\* Every reachable state is one the C++ declarations allow, for any number of threads.
THEOREM TypeCorrect == Spec => []TypeOK
<1>1. Spec => []TypeInv
  BY InitTypeInv, NextTypeInv, PTL DEF Spec
<1>2. TypeInv => TypeOK
  BY DEF TypeInv
<1> QED
  BY <1>1, <1>2, PTL

-----------------------------------------------------------------------------
(* Nothing that is still pointed at is erased. *)

Alive ==
    /\ \A t \in Ids : handle[t] # 0 => t \in threads /\ t \notin detached
    /\ \A t \in 1..idCount - 1 : t \notin threads => t \in detached /\ state[t] = "finished"
    /\ detached \subseteq 1..idCount - 1

AliveInv == TypeInv /\ Alive

LEMMA InitAlive == Init => Alive
BY IdFacts, SMT DEF Init, Alive, Main

\* The ids given out so far.
LEMMA GivenIds ==
    ASSUME TypeInv
    PROVE  1..idCount - 1 \subseteq Ids
BY BoundsAssumption DEF TypeInv, TypeOK, Ids

\* An action that moves no thread, and changes no state but the current thread's.
LEMMA QuietAlive ==
    ASSUME AliveInv, NEW c \in Ids, c = iterator,
           UNCHANGED <<threads, idCount, handle, detached>>,
           \A t \in Ids : t # c => state'[t] = state[t]
    PROVE  Alive'
<1>1. \A t \in Ids : t \notin threads => state'[t] = state[t]
  BY DEF AliveInv, TypeInv, TypeOK, Members
<1> QED
  BY <1>1, GivenIds DEF AliveInv, Alive

\* detach(), join() and ~thread() forget the pointer.
LEMMA ForgetAlive ==
    ASSUME AliveInv, NEW c \in Ids, NEW t \in Ids, handle[t] = c,
           handle' = [handle EXCEPT ![t] = 0],
           detached' \in {detached, detached \cup {t}},
           UNCHANGED <<threads, idCount, state>>
    PROVE  Alive'
<1>1. t \in threads /\ t \in 1..idCount - 1
  BY IdFacts DEF AliveInv, Alive, TypeInv, Members
<1>2. \A u \in Ids : handle'[u] # 0 => u # t /\ handle[u] # 0
  BY DEF AliveInv, TypeInv, TypeOK
<1> QED
  BY <1>1, <1>2 DEF AliveInv, Alive

LEMMA CreateAlive ==
    ASSUME AliveInv, NEW c \in Ids, Create(c)
    PROVE  Alive'
<1>1. /\ idCount \in Ids
      /\ idCount' = idCount + 1
      /\ threads' = threads \cup {idCount}
      /\ UNCHANGED <<detached, state>>
  BY DEF Create, flagVars
<1>2. \A t \in Ids : handle'[t] # 0 => t = idCount \/ handle[t] # 0
  BY DEF Create, AliveInv, TypeInv, TypeOK
<1>3. idCount \notin detached
  BY <1>1, IdFacts DEF AliveInv, Alive
<1>4. \A t \in 1..idCount' - 1 : t \notin threads' => t \in 1..idCount - 1 /\ t \notin threads
  BY <1>1, IdFacts
<1>5. 1..idCount - 1 \subseteq 1..idCount' - 1
  BY <1>1, IdFacts
<1> QED
  BY <1>1, <1>2, <1>3, <1>4, <1>5 DEF AliveInv, Alive

LEMMA SwitchAlive ==
    ASSUME AliveInv, SwitchThread
    PROVE  Alive'
<1>1. /\ threads' = threads \/ (Erasable(iterator) /\ threads' = threads \ {iterator})
      /\ UNCHANGED <<idCount, handle, detached, state>>
  BY DEF SwitchThread, flagVars
<1> QED
  BY <1>1 DEF Erasable, Active, AliveInv, Alive

LEMMA ProgramAlive ==
    ASSUME AliveInv, NEW c \in Ids, Program(c)
    PROVE  Alive'
<1>1. CASE Create(c)
  BY <1>1, CreateAlive
<1>2. ASSUME NEW t \in Ids, Detach(c, t) \/ Join(c, t) \/ DropHandle(c, t)
      PROVE  Alive'
  <2>1. /\ handle[t] = c
        /\ handle' = [handle EXCEPT ![t] = 0]
        /\ detached' \in {detached, detached \cup {t}}
        /\ UNCHANGED <<threads, idCount, state>>
    BY <1>2 DEF Detach, Join, DropHandle
  <2> QED
    BY <2>1, ForgetAlive
<1>3. ASSUME \/ \E t \in Ids : Cancel(c, t) \/ Suspend(c, t)
             \/ \E f \in Fns : Invoke(c, f) \/ AtExit(c, f)
             \/ Yield(c) \/ Throw(c) \/ Swallow(c)
      PROVE  Alive'
  <2>1. c = iterator /\ UNCHANGED <<threads, idCount, handle, detached, state>>
    BY <1>3 DEF Cancel, Suspend, Invoke, AtExit, Yield, Throw, Swallow, Runs, flagVars
  <2> QED
    BY <2>1, QuietAlive
<1>4. CASE BodyEnds(c)
  <2>1. /\ c = iterator
        /\ UNCHANGED <<threads, idCount, handle, detached>>
        /\ \A t \in Ids : t # c => state'[t] = state[t]
    BY <1>4 DEF BodyEnds, Runs, AliveInv, TypeInv, TypeOK
  <2> QED
    BY <2>1, QuietAlive
<1> QED
  BY <1>1, <1>2, <1>3, <1>4, Zenon DEF Program

LEMMA LibraryAlive ==
    ASSUME AliveInv, NEW c \in Ids, Library(c)
    PROVE  Alive'
<1>1. c = iterator /\ UNCHANGED <<threads, idCount, handle, detached>>
  <2>1. CASE JoinWait(c) \/ RunThread(c) \/ ResumeTerminating(c) \/ CallInvoked(c)
             \/ InvokedReturns(c) \/ ResumeReturns(c)
    BY <2>1 DEF JoinWait, RunThread, ResumeTerminating, CallInvoked, InvokedReturns,
                ResumeReturns, ForcedUnwind, Runs, flagVars
  <2>2. CASE UnwindFrame(c) \/ UnwindUser(c) \/ CatchUnwind(c) \/ AtExitCall(c)
             \/ HookReturns(c) \/ ThreadEnds(c) \/ DeadYield(c)
    BY <2>2 DEF UnwindFrame, UnwindUser, CatchUnwind, AtExitCall, HookReturns, ThreadEnds,
                DeadYield, Propagating, Runs, flagVars
  <2> QED
    BY <2>1, <2>2 DEF Library
<1>2. \A t \in Ids : t # c => state'[t] = state[t]
  <2>1. CASE RunThread(c) \/ ThreadEnds(c)
    BY <2>1 DEF RunThread, ThreadEnds, AliveInv, TypeInv, TypeOK
  <2>2. CASE ~ (RunThread(c) \/ ThreadEnds(c))
    BY <2>2 DEF Library, JoinWait, ResumeTerminating, CallInvoked, InvokedReturns,
                ResumeReturns, ForcedUnwind, UnwindFrame, UnwindUser, CatchUnwind, AtExitCall,
                HookReturns, DeadYield
  <2> QED
    BY <2>1, <2>2
<1> QED
  BY <1>1, <1>2, QuietAlive

LEMMA NextAlive ==
    ASSUME AliveInv, [Next]_vars
    PROVE  AliveInv'
<1>1. SUFFICES Alive'
  BY NextTypeInv DEF AliveInv
<1>2. ASSUME NEW c \in Ids, Program(c) \/ Library(c) PROVE Alive'
  BY <1>2, ProgramAlive, LibraryAlive
<1>3. CASE Kill \/ (\E f \in Fns : Interrupt(f)) \/ UNCHANGED vars
  <2>1. UNCHANGED <<threads, idCount, handle, detached, state>>
    BY <1>3 DEF Kill, KillAll, KillYield, KillTest, Exit, Interrupt, vars, flagVars
  <2> QED
    BY <2>1 DEF AliveInv, Alive
<1>4. CASE SwitchThread
  BY <1>4, SwitchAlive
<1> QED
  BY <1>2, <1>3, <1>4, Zenon DEF Next, Ended

LEMMA AliveAlways == Spec => []AliveInv
<1>1. Init => AliveInv
  BY InitTypeInv, InitAlive DEF AliveInv
<1> QED
  BY <1>1, NextAlive, PTL DEF Spec

\* switch_thread() never destroys main, the current thread, or a thread that was not
\* detached or has not run to its end.
THEOREM NoThreadDestroyedEarly == Spec => []ThreadsAlive
<1>1. AliveInv => ThreadsAlive
  BY DEF AliveInv, TypeInv, Members, Alive, ThreadsAlive
<1> QED
  BY <1>1, AliveAlways, PTL

\* The pointer in an attached jw::thread never dangles.
THEOREM HandlesNeverDangle == Spec => []HandlesValid
<1>1. AliveInv => HandlesValid
  BY DEF AliveInv, Alive, HandlesValid
<1> QED
  BY <1>1, AliveAlways, PTL

-----------------------------------------------------------------------------
(* join() returns only after the thread has run to its end.                *)
(* A finished thread gets the processor only to yield again; nothing is    *)
(* left on its atexit list; and join() waits for ids that were given out.  *)

DeadAtTop ==
    ~scan /\ ~Active(iterator) => stack[iterator] # <<>> /\ Top(iterator)[1] = "dead"

HooksDone == \A t \in Ids : ~Active(t) => atexitList[t] = <<>>

JoinsKnown ==
    \A t \in Ids : \A i \in 1..Len(stack[t]) :
        stack[t][i][1] = "join" => stack[t][i][2] \in 1..idCount - 1

EndInv == AliveInv /\ DeadAtTop /\ HooksDone /\ JoinsKnown

LEMMA InitEnd == Init => DeadAtTop /\ HooksDone /\ JoinsKnown
<1> SUFFICES ASSUME Init PROVE DeadAtTop /\ HooksDone /\ JoinsKnown
  OBVIOUS
<1>1. \A t \in Ids : state[t] # "finished" /\ atexitList[t] = <<>>
  BY DEF Init
<1>2. DeadAtTop /\ HooksDone
  BY <1>1, IdFacts DEF DeadAtTop, HooksDone, Active, Init
<1>3. ASSUME NEW t \in Ids, NEW i \in 1..Len(stack[t]) PROVE stack[t][i][1] # "join"
  <2>1. stack[t] = << <<"body", 0>> >> \/ stack[t] = << <<"start", 0>> >>
    BY DEF Init
  <2> QED
    BY <2>1
<1> QED
  BY <1>2, <1>3 DEF JoinsKnown

\* Whoever has the processor and is not a finished thread's last frame is active.
LEMMA RunsActive ==
    ASSUME EndInv, NEW c \in Ids, NEW ls, "dead" \notin ls, Runs(c, ls) \/ Propagating(c, ls)
    PROVE  c = iterator /\ Active(c)
BY DEF EndInv, DeadAtTop, Runs, Propagating

LEMMA DeadAtTopKept ==
    ASSUME EndInv, NEW c \in Ids, c = iterator, iterator' = iterator,
           Active(c), state'[c] = state[c]
    PROVE  DeadAtTop'
BY DEF DeadAtTop, Active

\* How the joins that are being waited for change with the stack.
LEMMA PushJoins ==
    ASSUME StacksOK, JoinsKnown, NEW c \in Ids, NEW fr \in Frames, Push(c, fr),
           idCount' = idCount, fr[1] = "join" => fr[2] \in 1..idCount - 1
    PROVE  JoinsKnown'
<1>1. ASSUME NEW t \in Ids, NEW i \in 1..Len(stack'[t]), stack'[t][i][1] = "join"
      PROVE  stack'[t][i][2] \in 1..idCount - 1
  <2>1. CASE t # c
    BY <1>1, <2>1 DEF Push, StacksOK, JoinsKnown
  <2>2. CASE t = c
    <3>1. stack'[c] = <<fr>> \o stack[c] /\ <<fr>> \in Seq(Frames) /\ stack[c] \in Seq(Frames)
      BY DEF Push, StacksOK
    <3>2. /\ Len(stack'[c]) = 1 + Len(stack[c])
          /\ \A j \in 1..1 + Len(stack[c]) :
                stack'[c][j] = IF j <= 1 THEN <<fr>>[j] ELSE stack[c][j - 1]
      <4>1. Len(<<fr>>) = 1
        OBVIOUS
      <4> QED
        BY <3>1, <4>1, ConcatProperties
    <3>3. CASE i = 1
      BY <1>1, <2>2, <3>2, <3>3
    <3>4. CASE i # 1
      <4>1. i - 1 \in 1..Len(stack[c]) /\ stack'[c][i] = stack[c][i - 1]
        BY <1>1, <2>2, <3>1, <3>2, <3>4, LenProperties
      <4> QED
        BY <1>1, <2>2, <4>1 DEF JoinsKnown
    <3> QED
      BY <3>3, <3>4
  <2> QED
    BY <2>1, <2>2
<1> QED
  BY <1>1 DEF JoinsKnown

LEMMA TailJoins ==
    ASSUME StacksOK, JoinsKnown, NEW c \in Ids, stack[c] # <<>>
    PROVE  \A i \in 1..Len(Tail(stack[c])) :
              Tail(stack[c])[i][1] = "join" => Tail(stack[c])[i][2] \in 1..idCount - 1
<1>1. stack[c] \in Seq(Frames)
  BY DEF StacksOK
<1>2. /\ Len(Tail(stack[c])) = Len(stack[c]) - 1
      /\ \A i \in 1..Len(Tail(stack[c])) : Tail(stack[c])[i] = stack[c][i + 1]
  BY <1>1, HeadTailProperties
<1> QED
  BY <1>1, <1>2, LenProperties DEF JoinsKnown

LEMMA PopJoins ==
    ASSUME StacksOK, JoinsKnown, NEW c \in Ids, stack[c] # <<>>, Pop(c), idCount' = idCount
    PROVE  JoinsKnown'
BY TailJoins DEF Pop, StacksOK, JoinsKnown

LEMMA ReplaceJoins ==
    ASSUME StacksOK, JoinsKnown, NEW c \in Ids, stack[c] # <<>>, NEW fr \in Frames,
           Replace(c, fr), idCount' = idCount, fr[1] # "join"
    PROVE  JoinsKnown'
<1> DEFINE tail == Tail(stack[c])
<1>1. tail \in Seq(Frames) /\ <<fr>> \in Seq(Frames)
  BY TailType
<1>2. /\ Len(<<fr>> \o tail) = 1 + Len(tail)
      /\ \A j \in 1..1 + Len(tail) :
            (<<fr>> \o tail)[j] = IF j <= 1 THEN <<fr>>[j] ELSE tail[j - 1]
  <2>1. Len(<<fr>>) = 1
    OBVIOUS
  <2> QED
    BY <1>1, <2>1, ConcatProperties
<1>3. stack'[c] = <<fr>> \o tail /\ \A t \in Ids : t # c => stack'[t] = stack[t]
  BY DEF Replace, StacksOK
<1>4. \A i \in 1..Len(tail) : tail[i][1] = "join" => tail[i][2] \in 1..idCount - 1
  BY TailJoins
<1>5. ASSUME NEW i \in 1..Len(stack'[c]), stack'[c][i][1] = "join"
      PROVE  stack'[c][i][2] \in 1..idCount - 1
  <2> HIDE DEF tail
  <2>1. i # 1
    BY <1>2, <1>3, <1>5
  <2>2. i - 1 \in 1..Len(tail) /\ stack'[c][i] = tail[i - 1]
    BY <1>1, <1>2, <1>3, <1>5, <2>1, LenProperties
  <2> QED
    BY <1>4, <1>5, <2>2
<1> QED
  BY <1>3, <1>5 DEF JoinsKnown

LEMMA NextDeadAtTop ==
    ASSUME EndInv, [Next]_vars
    PROVE  DeadAtTop'
<1>1. ASSUME NEW c \in Ids, Program(c) PROVE DeadAtTop'
  <2>1. c = iterator /\ Active(c)
    <3>1. \E ls \in {{"body"}, {"body", "clean"}, {"fn", "hook"}, {"clean"}} : Runs(c, ls)
      BY <1>1 DEF Program, Create, Cancel, Detach, Join, Suspend, DropHandle, Invoke, AtExit,
                  Yield, Throw, Swallow, BodyEnds, Runs
    <3> QED
      BY <3>1, RunsActive
  <2>2. CASE BodyEnds(c)
    <3>1. iterator' = iterator /\ state'[c] # "finished"
      BY <2>1, <2>2 DEF BodyEnds, EndInv, AliveInv, TypeInv, TypeOK, Active
    <3> QED
      BY <2>1, <3>1 DEF DeadAtTop, Active
  <2>3. CASE ~ BodyEnds(c)
    <3>1. iterator' = iterator /\ state' = state
      BY <1>1, <2>3, Zenon
      DEF Program, Create, Cancel, Detach, Join, Suspend, DropHandle, Invoke, AtExit, Yield,
          Throw, Swallow
    <3> QED
      BY <2>1, <3>1, DeadAtTopKept
  <2> QED
    BY <2>2, <2>3
<1>2. ASSUME NEW c \in Ids, Library(c) PROVE DeadAtTop'
  <2>1. CASE DeadYield(c)
    BY <2>1 DEF DeadYield, DeadAtTop
  <2>2. CASE ThreadEnds(c)
    <3>1. c = iterator /\ iterator' = iterator /\ stack[c] # <<>>
          /\ stack' = [stack EXCEPT ![c] = << <<"dead", 0>> >> \o Tail(@)]
      BY <2>2 DEF ThreadEnds, Runs, Replace
    <3>2. Tail(stack[c]) \in Seq(Frames) /\ << <<"dead", 0>> >> \in Seq(Frames)
      BY <3>1, TailType, FrameType, StacksInType DEF EndInv, AliveInv, Labels
    <3>3. stack'[c] = << <<"dead", 0>> >> \o Tail(stack[c])
      BY <3>1 DEF EndInv, AliveInv, TypeInv, TypeOK
    <3>4. Len(stack'[c]) = 1 + Len(Tail(stack[c])) /\ stack'[c][1] = <<"dead", 0>>
      BY <3>2, <3>3, ConcatProperties
    <3>5. stack'[c] # <<>>
      BY <3>2, <3>4, LenProperties
    <3> QED
      BY <3>1, <3>4, <3>5 DEF DeadAtTop, Top
  <2>3. CASE ~ DeadYield(c) /\ ~ ThreadEnds(c)
    <3>1. c = iterator /\ Active(c)
      <4>1. \/ \E ls \in {{"join"}, {"start"}, {"yield"}, {"yield", "safe"}, {"fn"}, {"exit"},
                          {"hook"}} : Runs(c, ls)
            \/ \E ks \in {{"yield", "safe", "join", "fn", "hook"}, {"body", "clean"},
                          {"exit", "wait"}} : Propagating(c, ks)
        BY <1>2, <2>3
        DEF Library, JoinWait, RunThread, ResumeTerminating, CallInvoked, InvokedReturns,
            ResumeReturns, UnwindFrame, UnwindUser, CatchUnwind, AtExitCall, HookReturns
      <4> QED
        BY <4>1, RunsActive
    <3>2. CASE RunThread(c)
      <4>1. iterator' = iterator /\ state'[c] = "running"
        BY <3>2 DEF RunThread, EndInv, AliveInv, TypeInv, TypeOK
      <4> QED
        BY <3>1, <4>1 DEF DeadAtTop, Active
    <3>3. CASE ~ RunThread(c)
      <4>1. iterator' = iterator /\ state' = state
        BY <1>2, <2>3, <3>3, Zenon
        DEF Library, JoinWait, ResumeTerminating, CallInvoked, InvokedReturns, ResumeReturns,
            ForcedUnwind, UnwindFrame, UnwindUser, CatchUnwind, AtExitCall, HookReturns
      <4> QED
        BY <3>1, <4>1, DeadAtTopKept
    <3> QED
      BY <3>2, <3>3
  <2> QED
    BY <2>1, <2>2, <2>3
<1>3. CASE Kill
  <2>1. Main = iterator /\ Active(Main)
    <3>1. \E ls \in {{"exit"}, {"kill"}, {"wait"}} : Runs(Main, ls)
      BY <1>3 DEF Kill, KillAll, KillYield, KillTest, Exit
    <3> QED
      BY <3>1, RunsActive, IdFacts
  <2>2. iterator' = iterator /\ state' = state
    BY <1>3, Zenon DEF Kill, KillAll, KillYield, KillTest, Exit
  <2> QED
    BY <2>1, <2>2, IdFacts, DeadAtTopKept
<1>4. CASE SwitchThread
  BY <1>4 DEF SwitchThread, DeadAtTop, Active
<1>5. CASE (\E f \in Fns : Interrupt(f)) \/ UNCHANGED vars
  <2>1. UNCHANGED <<iterator, scan, state, stack>>
    BY <1>5 DEF Interrupt, vars
  <2> QED
    BY <2>1 DEF EndInv, DeadAtTop, Active, Top
<1> QED
  BY <1>1, <1>2, <1>3, <1>4, <1>5, Zenon DEF Next, Ended

LEMMA NextHooksDone ==
    ASSUME EndInv, [Next]_vars
    PROVE  HooksDone'
<1> USE DEF EndInv, AliveInv, TypeInv, TypeOK
<1>1. CASE \E c \in Ids : ThreadEnds(c)
  BY <1>1 DEF ThreadEnds, HooksDone, Active
<1>2. CASE \E c \in Ids : RunThread(c) \/ BodyEnds(c)
  BY <1>2 DEF RunThread, BodyEnds, HooksDone, Active, Runs, listVars, DeadAtTop
<1>3. CASE \E c \in Ids : AtExitCall(c) \/ \E f \in Fns : AtExit(c, f)
  <2>1. PICK c \in Ids : AtExitCall(c) \/ \E f \in Fns : AtExit(c, f)
    BY <1>3
  <2>2. Active(c)
    <3>1. Runs(c, {"exit"}) \/ Runs(c, {"body"})
      BY <2>1 DEF AtExitCall, AtExit
    <3> QED
      BY <3>1, RunsActive
  <2>3. state' = state /\ \A t \in Ids : t # c => atexitList'[t] = atexitList[t]
    BY <2>1 DEF AtExitCall, AtExit
  <2> QED
    BY <2>2, <2>3 DEF HooksDone, Active
<1>4. CASE KillAll
  BY <1>4, IdFacts DEF KillAll, HooksDone, Active
<1>5. CASE UNCHANGED <<state, atexitList>>
  BY <1>5 DEF HooksDone, Active
<1>6. ASSUME NEW c \in Ids, Program(c), ~ BodyEnds(c), \A f \in Fns : ~ AtExit(c, f)
      PROVE  UNCHANGED <<state, atexitList>>
  BY <1>6, Zenon DEF Program, Create, Cancel, Detach, Join, Suspend, DropHandle, Invoke, Yield,
                     Throw, Swallow, listVars
<1>7. ASSUME NEW c \in Ids, Library(c), ~ RunThread(c), ~ ThreadEnds(c), ~ AtExitCall(c)
      PROVE  UNCHANGED <<state, atexitList>>
  BY <1>7, Zenon DEF Library, JoinWait, ResumeTerminating, CallInvoked, InvokedReturns,
                     ResumeReturns, ForcedUnwind, UnwindFrame, UnwindUser, CatchUnwind,
                     HookReturns, DeadYield, listVars
<1>8. ASSUME KillYield \/ KillTest \/ Exit \/ SwitchThread \/ UNCHANGED vars
             \/ \E f \in Fns : Interrupt(f)
      PROVE  UNCHANGED <<state, atexitList>>
  BY <1>8 DEF KillYield, KillTest, Exit, SwitchThread, Interrupt, vars, listVars
<1> HIDE DEF EndInv
<1> QED
  BY <1>1, <1>2, <1>3, <1>4, <1>5, <1>6, <1>7, <1>8, Zenon DEF Next, Kill, Ended

LEMMA NextJoinsKnown ==
    ASSUME EndInv, [Next]_vars
    PROVE  JoinsKnown'
<1>0. StacksOK /\ JoinsKnown
  BY StacksInType DEF EndInv, AliveInv
<1>1. CASE UNCHANGED <<stack, idCount>>
  BY <1>0, <1>1 DEF JoinsKnown
<1>2. ASSUME NEW c \in Ids, Program(c) PROVE JoinsKnown'
  <2>1. CASE Create(c)
    <3>1. idCount' = idCount + 1 /\ stack' = stack /\ idCount \in Ids
      BY <2>1 DEF Create
    <3>2. 1..idCount - 1 \subseteq 1..idCount' - 1
      BY <3>1, IdFacts
    <3> QED
      BY <1>0, <3>1, <3>2 DEF JoinsKnown
  <2>2. ASSUME NEW t \in Ids, Join(c, t) PROVE JoinsKnown'
    <3>1. t \in 1..idCount - 1
      BY <2>2, IdFacts DEF Join, EndInv, AliveInv, Alive, TypeInv, Members
    <3>2. <<"join", t>> \in Frames /\ Push(c, <<"join", t>>) /\ idCount' = idCount
      BY <2>2, FrameType DEF Join, Labels
    <3> QED
      BY <1>0, <3>1, <3>2, PushJoins
  <2>3. CASE Yield(c)
    <3>1. <<"yield", 0>> \in Frames /\ <<"safe", 0>> \in Frames
      BY FrameType DEF Labels
    <3>2. idCount' = idCount /\ (Push(c, <<"yield", 0>>) \/ Push(c, <<"safe", 0>>))
      BY <2>3 DEF Yield
    <3> QED
      BY <1>0, <3>1, <3>2, PushJoins
  <2>4. CASE Swallow(c) \/ BodyEnds(c)
    <3>1. stack[c] # <<>> /\ idCount' = idCount
      BY <2>4 DEF Swallow, BodyEnds, Runs
    <3>2. PICK fr : Replace(c, fr) /\ fr \in {<<"body", 0>>, <<"exit", Normal>>,
                                              <<"exit", Top(c)[2]>>}
      BY <2>4 DEF Swallow, BodyEnds
    <3>3. Top(c) \in Labels \X (0..MaxId \cup {0, 1, 2})
      BY <1>0, <3>1, TopType DEF Frames
    <3>4. fr \in Frames /\ fr[1] # "join"
      BY <3>2, <3>3, FrameType DEF Frames, Labels, Normal
    <3> QED
      BY <1>0, <3>1, <3>2, <3>4, ReplaceJoins
  <2>5. CASE \/ \E t \in Ids : Cancel(c, t) \/ Detach(c, t) \/ Suspend(c, t) \/ DropHandle(c, t)
             \/ \E f \in Fns : Invoke(c, f) \/ AtExit(c, f)
             \/ Throw(c)
    <3>1. UNCHANGED <<stack, idCount>>
      BY <2>5 DEF Cancel, Detach, Suspend, DropHandle, Invoke, AtExit, Throw
    <3> QED
      BY <1>1, <3>1
  <2> QED
    BY <1>2, <2>1, <2>2, <2>3, <2>4, <2>5, Zenon DEF Program
<1>3. ASSUME NEW c \in Ids, Library(c) PROVE JoinsKnown'
  <2>1. idCount' = idCount /\ stack[c] # <<>>
    BY <1>3 DEF Library, JoinWait, RunThread, ResumeTerminating, CallInvoked, InvokedReturns,
                ResumeReturns, ForcedUnwind, UnwindFrame, UnwindUser, CatchUnwind, AtExitCall,
                HookReturns, ThreadEnds, DeadYield, Runs, Propagating
  <2>2. \/ stack' = stack
        \/ Pop(c)
        \/ \E l \in {"yield", "fn", "hook"} : Push(c, <<l, 0>>)
        \/ \E l \in {"body", "yield", "clean", "dead"}, n \in {0, 1, 2} : Replace(c, <<l, n>>)
    <3>1. raise[c] \in {0, 1, 2}
      BY DEF EndInv, AliveInv, TypeInv, TypeOK, Normal, Exc, Forced
    <3> QED
      BY <1>3, <3>1
      DEF Library, JoinWait, RunThread, ResumeTerminating, CallInvoked, InvokedReturns,
          ResumeReturns, ForcedUnwind, UnwindFrame, UnwindUser, CatchUnwind, AtExitCall,
          HookReturns, ThreadEnds, DeadYield
  <2>3. CASE stack' = stack
    BY <1>1, <2>1, <2>3
  <2>4. CASE Pop(c)
    BY <1>0, <2>1, <2>4, PopJoins
  <2>5. ASSUME NEW l \in {"yield", "fn", "hook"}, Push(c, <<l, 0>>) PROVE JoinsKnown'
    <3>1. <<l, 0>> \in Frames
      BY FrameType DEF Labels
    <3> QED
      BY <1>0, <2>1, <2>5, <3>1, PushJoins
  <2>6. ASSUME NEW l \in {"body", "yield", "clean", "dead"}, NEW n \in {0, 1, 2},
               Replace(c, <<l, n>>)
        PROVE  JoinsKnown'
    <3>1. <<l, n>> \in Frames
      BY FrameType DEF Labels
    <3> QED
      BY <1>0, <2>1, <2>6, <3>1, ReplaceJoins
  <2> QED
    BY <2>2, <2>3, <2>4, <2>5, <2>6
<1>4. CASE KillAll \/ KillTest
  <2>1. stack[Main] # <<>> /\ idCount' = idCount /\ Replace(Main, <<"kill", 0>>)
    BY <1>4 DEF KillAll, KillTest, Runs
  <2>2. <<"kill", 0>> \in Frames
    BY FrameType DEF Labels
  <2> QED
    BY <1>0, <2>1, <2>2, IdFacts, ReplaceJoins
<1>5. CASE KillYield
  <2>1. /\ idCount' = idCount
        /\ stack'[Main] = << <<"yield", 0>>, <<"wait", 0>> >>
        /\ \A t \in Ids : t # Main => stack'[t] = stack[t]
    BY <1>0, <1>5, IdFacts DEF KillYield, StacksOK
  <2>2. \A i \in 1..Len(stack'[Main]) : stack'[Main][i][1] # "join"
    BY <2>1
  <2> QED
    BY <1>0, <2>1, <2>2 DEF JoinsKnown
<1>6. CASE Exit \/ SwitchThread \/ (\E f \in Fns : Interrupt(f)) \/ UNCHANGED vars
  <2>1. UNCHANGED <<stack, idCount>>
    BY <1>6 DEF Exit, SwitchThread, Interrupt, vars
  <2> QED
    BY <1>1, <2>1
<1> QED
  BY <1>2, <1>3, <1>4, <1>5, <1>6, Zenon DEF Next, Kill, Ended

LEMMA NextEnd ==
    ASSUME EndInv, [Next]_vars
    PROVE  EndInv'
<1>1. AliveInv'
  BY NextAlive DEF EndInv
<1> QED
  BY <1>1, NextDeadAtTop, NextHooksDone, NextJoinsKnown DEF EndInv

\* join() returns only after the thread it waits for has run to its end, atexit handlers
\* included, and has been destroyed.
THEOREM JoinMeansEnd == Spec => JoinMeansFinished
<1> DEFINE Returned(c) == LET t == Top(c)[2]
                          IN ~Active(t) /\ atexitList[t] = <<>> /\ t \notin threads
<1>1. Init => EndInv
  BY InitTypeInv, InitAlive, InitEnd DEF EndInv, AliveInv
<1>2. Spec => []EndInv
  BY <1>1, NextEnd, PTL DEF Spec
<1>3. ASSUME EndInv, [Next]_vars
      PROVE  [\A c \in Ids : JoinWait(c) /\ ~scan' => Returned(c)]_vars
  <2>1. SUFFICES ASSUME NEW c \in Ids, JoinWait(c), ~scan' PROVE Returned(c)
    OBVIOUS
  <2>2. Top(c)[2] \notin threads /\ Top(c)[1] = "join" /\ stack[c] # <<>>
    BY <2>1 DEF JoinWait, Runs
  <2>3. Top(c)[2] \in 1..idCount - 1
    <3>1. stack[c] \in Seq(Frames) /\ 1 \in 1..Len(stack[c])
      BY <1>3, <2>2, EmptySeq DEF EndInv, AliveInv, TypeInv, TypeOK
    <3> QED
      BY <1>3, <2>2, <3>1 DEF EndInv, JoinsKnown, Top
  <2>4. Top(c)[2] \in Ids
    BY <1>3, <2>3, GivenIds DEF EndInv, AliveInv
  <2> QED
    BY <1>3, <2>2, <2>3, <2>4 DEF EndInv, AliveInv, Alive, HooksDone, Active
<1> QED
  BY <1>2, <1>3, PTL DEF Spec, JoinMeansFinished

-----------------------------------------------------------------------------
(* The program exits only when the threads that kill_all() cancelled have  *)
(* ended.  A thread that kill_all() no longer finds in the set has ended,  *)
(* because only finished threads leave it; and what has ended stays so.    *)

KilledEnd ==
    /\ killIds \subseteq killed /\ killed \subseteq 1..idCount - 1
    /\ \A t \in killed \ killIds : ~Active(t)
    /\ ended = "exited" => killIds = {}

KillInv == EndInv /\ KilledEnd

LEMMA InitKilledEnd == Init => KilledEnd
BY DEF Init, KilledEnd

\* No step makes a finished thread active again.
LEMMA FinishedStays ==
    ASSUME EndInv, [Next]_vars, NEW t \in Ids, ~Active(t)
    PROVE  ~Active(t)'
<1>1. CASE state' = state
  BY <1>1 DEF Active
<1>2. ASSUME NEW c \in Ids, RunThread(c) \/ BodyEnds(c) \/ ThreadEnds(c) PROVE ~Active(t)'
  <2>1. c = iterator /\ Active(c)
    <3>1. \E ls \in {{"start"}, {"body", "clean"}, {"exit"}} : Runs(c, ls)
      BY <1>2 DEF RunThread, BodyEnds, ThreadEnds
    <3> QED
      BY <3>1, RunsActive
  <2>2. t # c
    BY <2>1
  <2> QED
    BY <1>2, <2>2 DEF RunThread, BodyEnds, ThreadEnds, Active, EndInv, AliveInv, TypeInv, TypeOK
<1>3. ASSUME NEW c \in Ids, Program(c), ~BodyEnds(c) PROVE state' = state
  BY <1>3, Zenon DEF Program, Create, Cancel, Detach, Join, Suspend, DropHandle, Invoke, AtExit,
                     Yield, Throw, Swallow
<1>4. ASSUME NEW c \in Ids, Library(c), ~RunThread(c), ~ThreadEnds(c) PROVE state' = state
  BY <1>4, Zenon DEF Library, JoinWait, ResumeTerminating, CallInvoked, InvokedReturns,
                     ResumeReturns, ForcedUnwind, UnwindFrame, UnwindUser, CatchUnwind,
                     AtExitCall, HookReturns, DeadYield
<1>5. ASSUME Kill \/ SwitchThread \/ UNCHANGED vars \/ \E f \in Fns : Interrupt(f)
      PROVE  state' = state
  BY <1>5 DEF Kill, KillAll, KillYield, KillTest, Exit, SwitchThread, Interrupt, vars
<1> QED
  BY <1>1, <1>2, <1>3, <1>4, <1>5, Zenon DEF Next, Ended

\* A step of the program or of the library leaves kill_all()'s ids alone, and does not exit.
LEMMA OthersKeepKillIds ==
    ASSUME [Next]_vars, ~Kill
    PROVE  UNCHANGED <<killIds, killed>> /\ (ended' = "exited" => ended = "exited")
<1>1. ASSUME NEW c \in Ids, Program(c)
      PROVE  UNCHANGED <<killIds, killed>> /\ (ended' = "exited" => ended = "exited")
  BY <1>1 DEF Program, Create, Cancel, Detach, Join, Suspend, DropHandle, Invoke, AtExit,
              Yield, Throw, Swallow, BodyEnds, killVars
<1>2. ASSUME NEW c \in Ids, Library(c)
      PROVE  UNCHANGED <<killIds, killed>> /\ (ended' = "exited" => ended = "exited")
  BY <1>2 DEF Library, JoinWait, RunThread, ResumeTerminating, CallInvoked, InvokedReturns,
              ResumeReturns, ForcedUnwind, UnwindFrame, UnwindUser, CatchUnwind, AtExitCall,
              HookReturns, ThreadEnds, DeadYield, killVars
<1>3. ASSUME SwitchThread \/ UNCHANGED vars \/ \E f \in Fns : Interrupt(f)
      PROVE  UNCHANGED <<killIds, killed>> /\ (ended' = "exited" => ended = "exited")
  BY <1>3 DEF SwitchThread, Interrupt, vars, killVars
<1> QED
  BY <1>1, <1>2, <1>3, Zenon DEF Next, Ended

\* Ids that were given out stay so.
LEMMA IdsStay ==
    ASSUME TypeInv, [Next]_vars
    PROVE  1..idCount - 1 \subseteq 1..idCount' - 1
<1> DEFINE Given == idCount' = idCount \/ (idCount \in Ids /\ idCount' = idCount + 1)
<1>1. Given
  <2>1. ASSUME NEW c \in Ids, Program(c) PROVE Given
    BY <2>1 DEF Program, Create, Cancel, Detach, Join, Suspend, DropHandle, Invoke, AtExit,
                Yield, Throw, Swallow, BodyEnds
  <2>2. ASSUME NEW c \in Ids, Library(c) PROVE Given
    BY <2>2, Zenon DEF Library, JoinWait, RunThread, ResumeTerminating, CallInvoked,
                InvokedReturns, ResumeReturns, ForcedUnwind, UnwindFrame, UnwindUser,
                CatchUnwind, AtExitCall, HookReturns, ThreadEnds, DeadYield
  <2>3. ASSUME SwitchThread \/ Kill \/ UNCHANGED vars \/ \E f \in Fns : Interrupt(f)
        PROVE  Given
    BY <2>3 DEF SwitchThread, Kill, KillAll, KillYield, KillTest, Exit, Interrupt, vars
  <2> QED
    BY <2>1, <2>2, <2>3, Zenon DEF Next, Ended
<1> QED
  BY <1>1, IdFacts DEF TypeInv, TypeOK

LEMMA NextKilledEnd ==
    ASSUME KillInv, [Next]_vars
    PROVE  KilledEnd'
<1>1. 1..idCount - 1 \subseteq 1..idCount' - 1
  BY IdsStay DEF KillInv, EndInv, AliveInv
<1>2. killed \subseteq Ids
  BY DEF KillInv, EndInv, AliveInv, TypeInv, TypeOK
<1>3. \A t \in killed : ~Active(t) => ~Active(t)'
  BY <1>2, FinishedStays DEF KillInv
<1>4. CASE ~Kill
  <2>1. UNCHANGED <<killIds, killed>> /\ (ended' = "exited" => ended = "exited")
    BY <1>4, OthersKeepKillIds
  <2> QED
    BY <1>1, <1>3, <2>1 DEF KillInv, KilledEnd, Active
<1>5. CASE KillAll
  <2>1. killIds' = killed' /\ killed' \subseteq threads /\ ended' = "no"
    BY <1>5 DEF KillAll, Runs
  <2> QED
    BY <1>1, <2>1 DEF KilledEnd, KillInv, EndInv, AliveInv, TypeInv, Members
<1>6. CASE KillYield \/ Exit
  <2>1. UNCHANGED <<killIds, killed>> /\ (ended' = "exited" => killIds = {})
    BY <1>6 DEF KillYield, Exit, Runs, killVars
  <2> QED
    BY <1>1, <1>3, <2>1 DEF KillInv, KilledEnd, Active
<1>7. CASE KillTest
  <2>1. PICK id : killIds' = IF KillDone(id) THEN killIds \ {id} ELSE killIds
    BY <1>7 DEF KillTest
  <2>2. killed' = killed /\ ended' = "no"
    BY <1>7 DEF KillTest, Runs
  <2>3. id \in killed /\ KillDone(id) => ~Active(id)
    BY DEF KillInv, KilledEnd, EndInv, AliveInv, Alive, KillDone, Active
  <2>4. \A t \in killed' \ killIds' : ~Active(t)
    BY <2>1, <2>2, <2>3 DEF KillInv, KilledEnd
  <2> QED
    BY <1>1, <1>3, <2>1, <2>2, <2>4 DEF KillInv, KilledEnd, Active
<1> QED
  BY <1>4, <1>5, <1>6, <1>7 DEF Kill

\* When main() has returned and the program exits, every thread that kill_all() found has
\* run to its end.
THEOREM ExitAfterThreads == Spec => []ExitLeavesNoThread
<1>1. Init => KillInv
  BY InitTypeInv, InitAlive, InitEnd, InitKilledEnd DEF KillInv, EndInv, AliveInv
<1>2. KillInv /\ [Next]_vars => KillInv'
  BY NextEnd, NextKilledEnd DEF KillInv
<1>3. KillInv => ExitLeavesNoThread
  BY DEF KillInv, KilledEnd, ExitLeavesNoThread
<1> QED
  BY <1>1, <1>2, <1>3, PTL DEF Spec

-----------------------------------------------------------------------------
(* What the stack operations do to the frames.                             *)

LEMMA PushFrames ==
    ASSUME StacksOK, NEW c \in Ids, NEW fr \in Frames, Push(c, fr)
    PROVE  /\ stack'[c] \in Seq(Frames) /\ stack'[c] # <<>>
           /\ Len(stack'[c]) = Len(stack[c]) + 1 /\ Len(stack[c]) \in Nat
           /\ stack'[c][1] = fr
           /\ \A i \in 2..Len(stack'[c]) : i - 1 \in 1..Len(stack[c])
                                           /\ stack'[c][i] = stack[c][i - 1]
           /\ \A t \in Ids : t # c => stack'[t] = stack[t]
<1>1. /\ stack[c] \in Seq(Frames) /\ <<fr>> \in Seq(Frames)
      /\ stack'[c] = <<fr>> \o stack[c] /\ Len(<<fr>>) = 1
      /\ \A t \in Ids : t # c => stack'[t] = stack[t]
  BY DEF Push, StacksOK
<1>2. /\ <<fr>> \o stack[c] \in Seq(Frames)
      /\ Len(<<fr>> \o stack[c]) = 1 + Len(stack[c])
      /\ \A j \in 1..1 + Len(stack[c]) :
            (<<fr>> \o stack[c])[j] = IF j <= 1 THEN <<fr>>[j] ELSE stack[c][j - 1]
  BY <1>1, ConcatProperties
<1>3. Len(stack[c]) \in Nat
  BY <1>1, LenProperties
<1>4. stack'[c] # <<>>
  BY <1>1, <1>2, <1>3
<1>5. stack'[c][1] = fr
  BY <1>1, <1>2, <1>3
<1>6. \A i \in 2..Len(stack'[c]) : i - 1 \in 1..Len(stack[c]) /\ stack'[c][i] = stack[c][i - 1]
  BY <1>1, <1>2, <1>3
<1> QED
  BY <1>1, <1>2, <1>3, <1>4, <1>5, <1>6

LEMMA PopFrames ==
    ASSUME StacksOK, NEW c \in Ids, stack[c] # <<>>, Pop(c)
    PROVE  /\ stack'[c] \in Seq(Frames)
           /\ Len(stack'[c]) = Len(stack[c]) - 1 /\ Len(stack[c]) \in Nat
           /\ \A i \in 1..Len(stack'[c]) : i + 1 \in 2..Len(stack[c])
                                           /\ stack'[c][i] = stack[c][i + 1]
           /\ \A t \in Ids : t # c => stack'[t] = stack[t]
<1>1. /\ stack[c] \in Seq(Frames) /\ stack'[c] = Tail(stack[c])
      /\ \A t \in Ids : t # c => stack'[t] = stack[t]
  BY DEF Pop, StacksOK
<1>2. /\ Tail(stack[c]) \in Seq(Frames)
      /\ Len(Tail(stack[c])) = Len(stack[c]) - 1 /\ Len(stack[c]) \in Nat
      /\ \A i \in 1..Len(Tail(stack[c])) : Tail(stack[c])[i] = stack[c][i + 1]
  BY <1>1, HeadTailProperties, LenProperties
<1>3. \A i \in 1..Len(stack'[c]) : i + 1 \in 2..Len(stack[c])
  BY <1>1, <1>2
<1> QED
  BY <1>1, <1>2, <1>3

LEMMA ReplaceFrames ==
    ASSUME StacksOK, NEW c \in Ids, stack[c] # <<>>, NEW fr \in Frames, Replace(c, fr)
    PROVE  /\ stack'[c] \in Seq(Frames) /\ stack'[c] # <<>>
           /\ Len(stack'[c]) = Len(stack[c]) /\ Len(stack[c]) \in Nat
           /\ stack'[c][1] = fr
           /\ \A i \in 2..Len(stack'[c]) : stack'[c][i] = stack[c][i]
           /\ \A t \in Ids : t # c => stack'[t] = stack[t]
<1> DEFINE rest == Tail(stack[c])
<1>1. /\ stack[c] \in Seq(Frames) /\ <<fr>> \in Seq(Frames)
      /\ stack'[c] = <<fr>> \o rest /\ Len(<<fr>>) = 1
      /\ \A t \in Ids : t # c => stack'[t] = stack[t]
  BY DEF Replace, StacksOK
<1>2. /\ rest \in Seq(Frames)
      /\ Len(rest) = Len(stack[c]) - 1 /\ Len(rest) \in Nat /\ Len(stack[c]) \in Nat
      /\ \A i \in 1..Len(rest) : rest[i] = stack[c][i + 1]
  BY <1>1, HeadTailProperties, LenProperties
<1> HIDE DEF rest
<1>3. /\ <<fr>> \o rest \in Seq(Frames)
      /\ Len(<<fr>> \o rest) = 1 + Len(rest)
      /\ \A j \in 1..1 + Len(rest) :
            (<<fr>> \o rest)[j] = IF j <= 1 THEN <<fr>>[j] ELSE rest[j - 1]
  BY <1>1, <1>2, ConcatProperties
<1>4. stack'[c] # <<>> /\ stack'[c][1] = fr
  BY <1>1, <1>2, <1>3
<1>5. ASSUME NEW i \in 2..Len(stack'[c]) PROVE stack'[c][i] = stack[c][i]
  <2>1. i - 1 \in 1..Len(rest) /\ (i - 1) + 1 = i /\ i \in 1..1 + Len(rest) /\ ~(i <= 1)
    BY <1>1, <1>2, <1>3
  <2>2. rest[i - 1] = stack[c][i]
    BY <1>2, <2>1
  <2> QED
    BY <1>1, <1>3, <2>1, <2>2
<1> QED
  BY <1>1, <1>2, <1>3, <1>4, <1>5

-----------------------------------------------------------------------------

(* Functions are called at most once, where they do not yield themselves.  *)

InFn(t) == stack[t] # <<>> /\ Top(t)[1] = "fn"

\* A function that runs is the innermost frame: nothing is pushed on it.
FnOnTop == \A t \in Ids : \A i \in 2..Len(stack[t]) : stack[t][i][1] # "fn"

\* It is still in the list, so that there is something for the guard to pop.
FnListed == \A t \in Ids : InFn(t) => invokeList[t] # <<>>

\* No function is in two places of the lists.
OnceIn(L) ==
    \A t, u \in Ids : \A i \in 1..Len(L[t]), j \in 1..Len(L[u]) :
        L[t][i] = L[u][j] => t = u /\ i = j
Apart(L, M) ==
    \A t, u \in Ids : \A i \in 1..Len(L[t]), j \in 1..Len(M[u]) : L[t][i] # M[u][j]
ListedOnce == OnceIn(invokeList) /\ OnceIn(atexitList) /\ Apart(invokeList, atexitList)

NotIn(f, L) == \A t \in Ids : \A i \in 1..Len(L[t]) : L[t][i] # f

\* What is listed was not called, except for the function that is running at this moment.
ListedFresh ==
    /\ \A t \in Ids : \A i \in 1..Len(invokeList[t]) :
          calls[invokeList[t][i]] = 0 \/ (i = 1 /\ InFn(t))
    /\ \A t \in Ids : \A i \in 1..Len(atexitList[t]) : calls[atexitList[t][i]] = 0

CallInv == TypeInv /\ FnOnTop /\ FnListed /\ ListedOnce /\ ListedFresh /\ CalledOnce

-----------------------------------------------------------------------------
(* Functions are called at most once.                                      *)

NoFn(s) == \A i \in 1..Len(s) : s[i][1] # "fn"

LEMMA InitCallInv == Init => CallInv
<1> SUFFICES ASSUME Init PROVE CallInv
  OBVIOUS
<1>1. \A t \in Ids : stack[t] = << <<"body", 0>> >> \/ stack[t] = << <<"start", 0>> >>
  BY DEF Init
<1>2. \A t \in Ids : Len(stack[t]) = 1 /\ stack[t][1][1] # "fn"
  BY <1>1
<1>3. FnOnTop /\ FnListed
  BY <1>2 DEF FnOnTop, FnListed, InFn, Top
<1>4. \A t \in Ids : Len(invokeList[t]) = 0 /\ Len(atexitList[t]) = 0
  BY DEF Init
<1>5. ListedOnce /\ ListedFresh
  BY <1>4 DEF ListedOnce, OnceIn, Apart, ListedFresh
<1>6. CalledOnce
  BY DEF Init, CalledOnce
<1> QED
  BY <1>3, <1>5, <1>6, InitTypeInv DEF CallInv

\* A thread that is not in an invoked function has none on its stack.
LEMMA OutsideFn ==
    ASSUME CallInv, NEW c \in Ids, ~InFn(c)
    PROVE  NoFn(stack[c])
<1>1. StacksOK
  BY StacksInType DEF CallInv
<1>2. ASSUME NEW i \in 1..Len(stack[c]) PROVE stack[c][i][1] # "fn"
  <2>1. stack[c] \in Seq(Frames) /\ Len(stack[c]) \in Nat
    BY <1>1, LenProperties DEF StacksOK
  <2>2. CASE i = 1
    <3>1. stack[c] # <<>>
      BY <1>2, <2>1, EmptySeq
    <3> QED
      BY <2>2, <3>1 DEF InFn, Top
  <2>3. CASE i # 1
    <3>1. i \in 2..Len(stack[c])
      BY <2>1, <2>3
    <3> QED
      BY <3>1 DEF CallInv, FnOnTop
  <2> QED
    BY <2>2, <2>3
<1> QED
  BY <1>2 DEF NoFn

\* What the stack operations leave without an invoked function.
LEMMA StackKeepsNoFn ==
    ASSUME StacksOK, NEW c \in Ids, NoFn(stack[c]), stack[c] # <<>>,
           \/ Pop(c)
           \/ \E fr \in Frames : fr[1] # "fn" /\ (Push(c, fr) \/ Replace(c, fr))
    PROVE  NoFn(stack'[c]) /\ \A t \in Ids : t # c => stack'[t] = stack[t]
<1>1. CASE Pop(c)
  <2>1. \A i \in 1..Len(stack'[c]) : i + 1 \in 1..Len(stack[c]) /\ stack'[c][i] = stack[c][i + 1]
    BY <1>1, PopFrames
  <2> QED
    BY <1>1, <2>1, PopFrames DEF NoFn
<1>2. ASSUME NEW fr \in Frames, fr[1] # "fn", Push(c, fr) \/ Replace(c, fr)
      PROVE  NoFn(stack'[c]) /\ \A t \in Ids : t # c => stack'[t] = stack[t]
  <2>1. /\ Len(stack'[c]) \in Nat
        /\ stack'[c][1] = fr
        /\ \A i \in 2..Len(stack'[c]) :
              \E j \in 1..Len(stack[c]) : stack'[c][i] = stack[c][j]
        /\ \A t \in Ids : t # c => stack'[t] = stack[t]
    <3>1. CASE Push(c, fr)
      BY <3>1, PushFrames
    <3>2. CASE Replace(c, fr)
      <4>1. /\ Len(stack'[c]) = Len(stack[c]) /\ Len(stack[c]) \in Nat
            /\ stack'[c][1] = fr
            /\ \A i \in 2..Len(stack'[c]) : stack'[c][i] = stack[c][i]
            /\ \A t \in Ids : t # c => stack'[t] = stack[t]
        BY <3>2, ReplaceFrames
      <4>2. \A i \in 2..Len(stack'[c]) : i \in 1..Len(stack[c])
        BY <4>1
      <4> QED
        BY <4>1, <4>2
    <3> QED
      BY <1>2, <3>1, <3>2
  <2>2. \A i \in 1..Len(stack'[c]) : i = 1 \/ i \in 2..Len(stack'[c])
    BY <2>1
  <2> QED
    BY <1>2, <2>1, <2>2 DEF NoFn
<1> QED
  BY <1>1, <1>2

\* A step outside invoked functions that calls and queues nothing; it may clear an atexit
\* list.
LEMMA OutsideStep ==
    ASSUME CallInv, TypeInv', NEW c \in Ids, ~InFn(c), NoFn(stack'[c]),
           \A t \in Ids : t # c => stack'[t] = stack[t],
           UNCHANGED <<invokeList, calls>>,
           \A t \in Ids : atexitList'[t] = atexitList[t] \/ atexitList'[t] = <<>>
    PROVE  CallInv'
<1>1. \A t \in Ids : InFn(t)' <=> InFn(t)
  <2>1. ~InFn(c)'
    <3>1. stack'[c] # <<>> => 1 \in 1..Len(stack'[c])
      BY EmptySeq, LenProperties DEF TypeInv, TypeOK
    <3> QED
      BY <3>1 DEF InFn, Top, NoFn
  <2>2. ASSUME NEW t \in Ids, t # c PROVE InFn(t)' <=> InFn(t)
    BY <2>2 DEF InFn, Top
  <2> QED
    BY <2>1, <2>2
<1>2. FnOnTop'
  <2>1. \A i \in 2..Len(stack'[c]) : i \in 1..Len(stack'[c])
    BY LenProperties DEF TypeInv, TypeOK
  <2> QED
    BY <2>1 DEF CallInv, FnOnTop, NoFn
<1>3. FnListed'
  BY <1>1 DEF CallInv, FnListed
<1>4. \A t \in Ids : \A i \in 1..Len(atexitList'[t]) :
         i \in 1..Len(atexitList[t]) /\ atexitList'[t][i] = atexitList[t][i]
  OBVIOUS
<1>5. ListedOnce'
  <2>1. OnceIn(atexitList')
    BY <1>4 DEF CallInv, ListedOnce, OnceIn
  <2>2. Apart(invokeList, atexitList')
    BY <1>4 DEF CallInv, ListedOnce, Apart
  <2> QED
    BY <2>1, <2>2 DEF CallInv, ListedOnce
<1>6. ListedFresh'
  BY <1>1, <1>4 DEF CallInv, ListedFresh
<1>7. CalledOnce'
  BY DEF CallInv, CalledOnce
<1> QED
  BY <1>2, <1>3, <1>5, <1>6, <1>7 DEF CallInv

\* The places of a list to which f was appended.
LEMMA AppendPlaces ==
    ASSUME NEW L, NEW M, L \in [Ids -> Seq(Fns)], NEW t \in Ids, NEW f \in Fns,
           M = [L EXCEPT ![t] = Append(@, f)]
    PROVE  /\ \A u \in Ids : \A i \in 1..Len(M[u]) :
                 \/ i \in 1..Len(L[u]) /\ M[u][i] = L[u][i]
                 \/ u = t /\ i = Len(L[t]) + 1 /\ M[u][i] = f
           /\ \A u \in Ids : L[u] # <<>> => M[u] # <<>>
<1>1. /\ M[t] = Append(L[t], f) /\ L[t] \in Seq(Fns)
      /\ \A u \in Ids : u # t => M[u] = L[u]
  OBVIOUS
<1>2. /\ Append(L[t], f) # <<>> /\ Len(Append(L[t], f)) = Len(L[t]) + 1
      /\ \A i \in 1..Len(L[t]) : Append(L[t], f)[i] = L[t][i]
      /\ Append(L[t], f)[Len(L[t]) + 1] = f /\ Len(L[t]) \in Nat
  BY <1>1, AppendProperties, LenProperties
<1>3. \A i \in 1..Len(M[t]) :
         \/ i \in 1..Len(L[t]) /\ M[t][i] = L[t][i]
         \/ i = Len(L[t]) + 1 /\ M[t][i] = f
  BY <1>1, <1>2
<1> QED
  BY <1>1, <1>2, <1>3

\* A function that is in no list may be appended to one.
LEMMA AppendOnce ==
    ASSUME NEW L, NEW M, L \in [Ids -> Seq(Fns)], NEW t \in Ids, NEW f \in Fns,
           M = [L EXCEPT ![t] = Append(@, f)], OnceIn(L), NotIn(f, L),
           NEW A, NotIn(f, A), Apart(L, A)
    PROVE  OnceIn(M) /\ Apart(M, A)
<1>1. \A u \in Ids : \A i \in 1..Len(M[u]) :
         \/ i \in 1..Len(L[u]) /\ M[u][i] = L[u][i]
         \/ u = t /\ i = Len(L[t]) + 1 /\ M[u][i] = f
  BY AppendPlaces
<1>2. ASSUME NEW u \in Ids, NEW v \in Ids, NEW i \in 1..Len(M[u]), NEW j \in 1..Len(M[v]),
             M[u][i] = M[v][j]
      PROVE  u = v /\ i = j
  <2>1. CASE i \in 1..Len(L[u]) /\ M[u][i] = L[u][i]
    <3>1. j \in 1..Len(L[v]) /\ M[v][j] = L[v][j]
      BY <1>1, <1>2, <2>1 DEF NotIn
    <3> QED
      BY <1>2, <2>1, <3>1 DEF OnceIn
  <2>2. CASE u = t /\ i = Len(L[t]) + 1 /\ M[u][i] = f
    <3>1. v = t /\ j = Len(L[t]) + 1
      BY <1>1, <1>2, <2>2 DEF NotIn
    <3> QED
      BY <2>2, <3>1
  <2> QED
    BY <1>1, <2>1, <2>2
<1>3. ASSUME NEW u \in Ids, NEW v \in Ids, NEW i \in 1..Len(M[u]), NEW j \in 1..Len(A[v])
      PROVE  M[u][i] # A[v][j]
  BY <1>1 DEF NotIn, Apart
<1> QED
  BY <1>2, <1>3 DEF OnceIn, Apart

LEMMA ApartTurns == \A L, M : Apart(L, M) => Apart(M, L)
BY DEF Apart

\* A function that is queued.
LEMMA QueueStep ==
    ASSUME CallInv, TypeInv', NEW t \in Ids, NEW f \in Fns, Fresh(f), Enqueue(t, f),
           UNCHANGED <<stack, atexitList, calls>>
    PROVE  CallInv'
<1>1. invokeList \in [Ids -> Seq(Fns)]
  BY DEF CallInv, TypeInv, TypeOK
<1>2. /\ \A u \in Ids : \A i \in 1..Len(invokeList'[u]) :
            \/ i \in 1..Len(invokeList[u]) /\ invokeList'[u][i] = invokeList[u][i]
            \/ u = t /\ i = Len(invokeList[t]) + 1 /\ invokeList'[u][i] = f
      /\ \A u \in Ids : invokeList[u] # <<>> => invokeList'[u] # <<>>
  <2>1. PICK L, M : L = invokeList /\ M = invokeList'
    OBVIOUS
  <2>2. L \in [Ids -> Seq(Fns)] /\ M = [L EXCEPT ![t] = Append(@, f)]
    BY <1>1, <2>1 DEF Enqueue
  <2> QED
    BY <2>1, <2>2, AppendPlaces
<1>3. \A u \in Ids : InFn(u)' <=> InFn(u)
  BY DEF InFn, Top
<1>4. FnOnTop' /\ FnListed'
  BY <1>2, <1>3 DEF CallInv, FnOnTop, FnListed
<1>5. ListedOnce'
  <2>1. invokeList' = [invokeList EXCEPT ![t] = Append(@, f)]
    BY DEF Enqueue
  <2>2. NotIn(f, invokeList) /\ NotIn(f, atexitList)
    BY DEF Fresh, NotIn
  <2>3. OnceIn(invokeList') /\ Apart(invokeList', atexitList)
    BY <1>1, <2>1, <2>2, AppendOnce DEF CallInv, ListedOnce
  <2> QED
    BY <2>3 DEF CallInv, ListedOnce
<1>6. ListedFresh'
  BY <1>2, <1>3 DEF CallInv, ListedFresh, Fresh
<1>7. CalledOnce'
  BY DEF CallInv, CalledOnce
<1> QED
  BY <1>4, <1>5, <1>6, <1>7 DEF CallInv

\* A function that is called at once, by invoke_main() on main.
LEMMA CallStep ==
    ASSUME CallInv, TypeInv', NEW f \in Fns, Fresh(f), Called(f),
           UNCHANGED <<stack, atexitList, invokeList>>
    PROVE  CallInv'
<1>1. /\ calls'[f] = 1
      /\ \A g \in Fns : g # f => calls'[g] = calls[g]
  BY DEF Called, Fresh, CallInv, TypeInv, TypeOK
<1>2. \A t \in Ids : /\ \A i \in 1..Len(invokeList[t]) : invokeList[t][i] \in Fns
                     /\ \A i \in 1..Len(atexitList[t]) : atexitList[t][i] \in Fns
  BY ElementOfSeq DEF CallInv, TypeInv, TypeOK
<1>3. \A u \in Ids : InFn(u)' <=> InFn(u)
  BY DEF InFn, Top
<1>4. FnOnTop' /\ FnListed' /\ ListedOnce'
  BY <1>3 DEF CallInv, FnOnTop, FnListed, ListedOnce
<1>5. ListedFresh'
  BY <1>1, <1>2, <1>3 DEF CallInv, ListedFresh, Fresh
<1>6. CalledOnce'
  BY <1>1 DEF CallInv, CalledOnce
<1> QED
  BY <1>4, <1>5, <1>6 DEF CallInv

\* A function that is registered for the end of the thread.
LEMMA RegisterStep ==
    ASSUME CallInv, TypeInv', NEW c \in Ids, NEW f \in Fns, Fresh(f),
           atexitList' = [atexitList EXCEPT ![c] = Append(@, f)],
           UNCHANGED <<stack, invokeList, calls>>
    PROVE  CallInv'
<1>1. atexitList \in [Ids -> Seq(Fns)]
  BY DEF CallInv, TypeInv, TypeOK
<1>2. \A u \in Ids : \A i \in 1..Len(atexitList'[u]) :
         \/ i \in 1..Len(atexitList[u]) /\ atexitList'[u][i] = atexitList[u][i]
         \/ u = c /\ i = Len(atexitList[c]) + 1 /\ atexitList'[u][i] = f
  BY <1>1, AppendPlaces
<1>3. \A u \in Ids : InFn(u)' <=> InFn(u)
  BY DEF InFn, Top
<1>4. FnOnTop' /\ FnListed'
  BY <1>3 DEF CallInv, FnOnTop, FnListed
<1>5. ListedOnce'
  <2>1. NotIn(f, invokeList) /\ NotIn(f, atexitList)
    BY DEF Fresh, NotIn
  <2>2. Apart(atexitList, invokeList)
    BY ApartTurns DEF CallInv, ListedOnce
  <2>3. OnceIn(atexitList') /\ Apart(atexitList', invokeList)
    BY <1>1, <2>1, <2>2, AppendOnce DEF CallInv, ListedOnce
  <2>4. Apart(invokeList, atexitList')
    BY <2>3, ApartTurns
  <2> QED
    BY <2>3, <2>4 DEF CallInv, ListedOnce
<1>6. ListedFresh'
  BY <1>2, <1>3 DEF CallInv, ListedFresh, Fresh
<1>7. CalledOnce'
  BY DEF CallInv, CalledOnce
<1> QED
  BY <1>4, <1>5, <1>6, <1>7 DEF CallInv

\* The places of a list whose head was taken.
LEMMA TailPlaces ==
    ASSUME NEW L, NEW M, L \in [Ids -> Seq(Fns)], NEW t \in Ids, L[t] # <<>>,
           M = [L EXCEPT ![t] = Tail(@)]
    PROVE  /\ \A u \in Ids : u # t => M[u] = L[u]
           /\ \A i \in 1..Len(M[t]) : i + 1 \in 2..Len(L[t]) /\ M[t][i] = L[t][i + 1]
           /\ 1 \in 1..Len(L[t]) /\ Head(L[t]) = L[t][1] /\ Head(L[t]) \in Fns
<1>1. M[t] = Tail(L[t]) /\ L[t] \in Seq(Fns) /\ \A u \in Ids : u # t => M[u] = L[u]
  OBVIOUS
<1>2. /\ Len(Tail(L[t])) = Len(L[t]) - 1 /\ Len(L[t]) \in Nat /\ Len(L[t]) # 0
      /\ \A i \in 1..Len(Tail(L[t])) : Tail(L[t])[i] = L[t][i + 1]
      /\ Head(L[t]) \in Fns /\ Head(L[t]) = L[t][1]
  BY <1>1, HeadTailProperties, LenProperties, EmptySeq
<1> QED
  BY <1>1, <1>2

\* Every place of M is a place of L, and not the first one of t's.
PlacesIn(M, L, t) ==
    \A u \in Ids : \A i \in 1..Len(M[u]) :
        \E k \in 1..Len(L[u]) : M[u][i] = L[u][k] /\ k # IF u = t THEN 1 ELSE 0

\* When the head of a list is taken, it is in no list any more.
LEMMA TailOnce ==
    ASSUME NEW L, NEW M, L \in [Ids -> Seq(Fns)], NEW t \in Ids, L[t] # <<>>,
           M = [L EXCEPT ![t] = Tail(@)], OnceIn(L), NEW A, Apart(L, A)
    PROVE  /\ PlacesIn(M, L, t)
           /\ OnceIn(M) /\ Apart(M, A) /\ NotIn(Head(L[t]), M) /\ NotIn(Head(L[t]), A)
<1>1. /\ \A u \in Ids : u # t => M[u] = L[u]
      /\ \A i \in 1..Len(M[t]) : i + 1 \in 2..Len(L[t]) /\ M[t][i] = L[t][i + 1]
      /\ 1 \in 1..Len(L[t]) /\ Head(L[t]) = L[t][1]
  BY TailPlaces
<1>2. \A u \in Ids : \A i \in 1..Len(M[u]) :
         \E k \in 1..Len(L[u]) : M[u][i] = L[u][k] /\ k = IF u = t THEN i + 1 ELSE i
  <2>1. \A i \in 1..Len(M[t]) : i + 1 \in 1..Len(L[t])
    BY <1>1
  <2> QED
    BY <1>1, <2>1
<1>3. \A u \in Ids : \A i \in 1..Len(M[u]) :
         \E k \in 1..Len(L[u]) : M[u][i] = L[u][k] /\ k # IF u = t THEN 1 ELSE 0
  <2>1. ASSUME NEW u \in Ids, NEW i \in 1..Len(M[u])
        PROVE  (IF u = t THEN i + 1 ELSE i) # IF u = t THEN 1 ELSE 0
    OBVIOUS
  <2> QED
    BY <1>2, <2>1
<1>4. ASSUME NEW u \in Ids, NEW v \in Ids, NEW i \in 1..Len(M[u]), NEW j \in 1..Len(M[v]),
             M[u][i] = M[v][j]
      PROVE  u = v /\ i = j
  <2>1. PICK k \in 1..Len(L[u]) : M[u][i] = L[u][k] /\ k = IF u = t THEN i + 1 ELSE i
    BY <1>2
  <2>2. PICK m \in 1..Len(L[v]) : M[v][j] = L[v][m] /\ m = IF v = t THEN j + 1 ELSE j
    BY <1>2
  <2>3. L[u][k] = L[v][m]
    BY <1>4, <2>1, <2>2
  <2>4. u = v /\ k = m
    BY <2>3 DEF OnceIn
  <2> QED
    BY <2>1, <2>2, <2>4
<1>5. Apart(M, A)
  BY <1>3 DEF Apart
<1>6. NotIn(Head(L[t]), M)
  <2>1. ASSUME NEW u \in Ids, NEW i \in 1..Len(M[u]), M[u][i] = L[t][1] PROVE FALSE
    <3>1. PICK k \in 1..Len(L[u]) : M[u][i] = L[u][k] /\ k # IF u = t THEN 1 ELSE 0
      BY <1>3
    <3>2. u = t /\ k = 1
      BY <1>1, <2>1, <3>1 DEF OnceIn
    <3> QED
      BY <3>1, <3>2
  <2> QED
    BY <1>1, <2>1 DEF NotIn
<1>7. NotIn(Head(L[t]), A)
  BY <1>1 DEF NotIn, Apart
<1> QED
  BY <1>3, <1>4, <1>5, <1>6, <1>7 DEF OnceIn, PlacesIn

\* The invoke loop of do_yield() calls the function at the head of the list.
LEMMA InvokedStep ==
    ASSUME CallInv, TypeInv', NEW c \in Ids, CallInvoked(c)
    PROVE  CallInv'
<1> DEFINE f == Head(invokeList[c])
<1>1. /\ ~InFn(c) /\ stack[c] # <<>> /\ invokeList[c] # <<>> /\ Called(f)
      /\ Push(c, <<"fn", 0>>) /\ UNCHANGED <<invokeList, atexitList>>
  BY DEF CallInvoked, Runs, InFn
<1>2. invokeList \in [Ids -> Seq(Fns)] /\ calls \in [Fns -> 0..2] /\ StacksOK
  BY StacksInType DEF CallInv, TypeInv, TypeOK
<1>3. f \in Fns /\ f = invokeList[c][1] /\ 1 \in 1..Len(invokeList[c])
  BY <1>1, <1>2, TailPlaces
<1> HIDE DEF f
<1>4. calls[f] = 0
  BY <1>1, <1>3 DEF CallInv, ListedFresh
<1>5. calls'[f] = 1 /\ \A g \in Fns : g # f => calls'[g] = calls[g]
  BY <1>1, <1>2, <1>3, <1>4 DEF Called
<1>6. \A t \in Ids : /\ \A i \in 1..Len(invokeList[t]) : invokeList[t][i] \in Fns
                     /\ \A i \in 1..Len(atexitList[t]) : atexitList[t][i] \in Fns
  BY ElementOfSeq DEF CallInv, TypeInv, TypeOK
<1>7. <<"fn", 0>> \in Frames
  BY FrameType DEF Labels
<1>8. /\ stack'[c] # <<>> /\ stack'[c][1] = <<"fn", 0>>
      /\ \A i \in 2..Len(stack'[c]) : i - 1 \in 1..Len(stack[c])
                                      /\ stack'[c][i] = stack[c][i - 1]
      /\ \A t \in Ids : t # c => stack'[t] = stack[t]
  BY <1>1, <1>2, <1>7, PushFrames
<1>9. InFn(c)' /\ \A t \in Ids : t # c => (InFn(t)' <=> InFn(t))
  BY <1>8 DEF InFn, Top
<1>10. FnOnTop'
  BY <1>1, <1>8, OutsideFn DEF CallInv, FnOnTop, NoFn
<1>11. FnListed' /\ ListedOnce'
  BY <1>1, <1>9 DEF CallInv, FnListed, ListedOnce
<1>12. ListedFresh'
  <2>1. ASSUME NEW t \in Ids, NEW i \in 1..Len(invokeList[t])
        PROVE  calls'[invokeList[t][i]] = 0 \/ (i = 1 /\ InFn(t)')
    <3>1. CASE invokeList[t][i] = f
      <4>1. t = c /\ i = 1
        BY <1>3, <3>1 DEF CallInv, ListedOnce, OnceIn
      <4> QED
        BY <1>9, <4>1
    <3>2. CASE invokeList[t][i] # f
      BY <1>5, <1>6, <1>9, <3>2 DEF CallInv, ListedFresh
    <3> QED
      BY <3>1, <3>2
  <2>2. ASSUME NEW t \in Ids, NEW i \in 1..Len(atexitList[t])
        PROVE  calls'[atexitList[t][i]] = 0
    <3>1. atexitList[t][i] # f
      BY <1>3 DEF CallInv, ListedOnce, Apart
    <3> QED
      BY <1>5, <1>6, <3>1 DEF CallInv, ListedFresh
  <2> QED
    BY <1>1, <2>1, <2>2 DEF ListedFresh
<1>13. CalledOnce'
  BY <1>5 DEF CallInv, CalledOnce
<1> QED
  BY <1>10, <1>11, <1>12, <1>13 DEF CallInv

\* An invoked function returns or is left by what it threw: the guard pops the list.
LEMMA FnReturnsStep ==
    ASSUME CallInv, TypeInv', NEW c \in Ids, InFn(c), Pop(c), PopInvoked(c),
           UNCHANGED <<atexitList, calls>>
    PROVE  CallInv'
<1>1. invokeList \in [Ids -> Seq(Fns)] /\ StacksOK /\ stack[c] # <<>> /\ invokeList[c] # <<>>
  BY StacksInType DEF CallInv, TypeInv, TypeOK, InFn, FnListed
<1>2. invokeList' = [invokeList EXCEPT ![c] = Tail(@)]
  BY <1>1 DEF PopInvoked
<1>3. /\ \A u \in Ids : u # c => invokeList'[u] = invokeList[u]
      /\ \A i \in 1..Len(invokeList'[c]) :
            i + 1 \in 2..Len(invokeList[c]) /\ invokeList'[c][i] = invokeList[c][i + 1]
      /\ 1 \in 1..Len(invokeList[c])
  BY <1>1, <1>2, TailPlaces
<1>4. /\ \A i \in 1..Len(stack'[c]) : i + 1 \in 2..Len(stack[c])
                                      /\ stack'[c][i] = stack[c][i + 1]
      /\ \A t \in Ids : t # c => stack'[t] = stack[t]
  BY <1>1, PopFrames
<1>5. NoFn(stack'[c])
  BY <1>4 DEF CallInv, FnOnTop, NoFn
<1>6. ~InFn(c)' /\ \A t \in Ids : t # c => (InFn(t)' <=> InFn(t))
  <2>1. stack'[c] # <<>> => 1 \in 1..Len(stack'[c])
    BY EmptySeq, LenProperties DEF TypeInv, TypeOK
  <2> QED
    BY <1>4, <1>5, <2>1 DEF InFn, Top, NoFn
<1>7. FnOnTop'
  <2>1. \A i \in 2..Len(stack'[c]) : i \in 1..Len(stack'[c])
    BY LenProperties DEF TypeInv, TypeOK
  <2> QED
    BY <1>4, <1>5, <2>1 DEF CallInv, FnOnTop, NoFn
<1>8. FnListed'
  BY <1>3, <1>6 DEF CallInv, FnListed
<1>9. OnceIn(invokeList') /\ Apart(invokeList', atexitList)
  <2>1. PICK L, M, A : L = invokeList /\ M = invokeList' /\ A = atexitList
    OBVIOUS
  <2>2. /\ L \in [Ids -> Seq(Fns)] /\ L[c] # <<>> /\ M = [L EXCEPT ![c] = Tail(@)]
        /\ OnceIn(L) /\ Apart(L, A)
    BY <1>1, <1>2, <2>1 DEF CallInv, ListedOnce
  <2>3. OnceIn(M) /\ Apart(M, A)
    BY <2>2, TailOnce
  <2> QED
    BY <2>1, <2>3
<1>10. ListedOnce'
  BY <1>9 DEF CallInv, ListedOnce
<1>11. ListedFresh'
  <2>1. ASSUME NEW t \in Ids, NEW i \in 1..Len(invokeList'[t])
        PROVE  calls[invokeList'[t][i]] = 0 \/ (i = 1 /\ InFn(t)')
    <3>1. CASE t = c
      <4>1. /\ i + 1 \in 1..Len(invokeList[c]) /\ i + 1 # 1
            /\ invokeList'[c][i] = invokeList[c][i + 1]
        BY <1>3, <3>1
      <4> QED
        BY <3>1, <4>1 DEF CallInv, ListedFresh
    <3>2. CASE t # c
      BY <1>3, <1>6, <3>2 DEF CallInv, ListedFresh
    <3> QED
      BY <3>1, <3>2
  <2> QED
    BY <2>1 DEF CallInv, ListedFresh
<1>12. CalledOnce'
  BY DEF CallInv, CalledOnce
<1> QED
  BY <1>7, <1>8, <1>10, <1>11, <1>12 DEF CallInv

\* scheduler::atexit() takes a function from the list and calls it.
LEMMA HookStep ==
    ASSUME CallInv, TypeInv', NEW c \in Ids, AtExitCall(c)
    PROVE  CallInv'
<1> DEFINE f == Head(atexitList[c])
<1>1. /\ ~InFn(c) /\ stack[c] # <<>> /\ atexitList[c] # <<>> /\ Called(f)
      /\ atexitList' = [atexitList EXCEPT ![c] = Tail(@)]
      /\ Push(c, <<"hook", 0>>) /\ UNCHANGED invokeList
  BY DEF AtExitCall, Runs, InFn
<1>2. atexitList \in [Ids -> Seq(Fns)] /\ calls \in [Fns -> 0..2] /\ StacksOK
  BY StacksInType DEF CallInv, TypeInv, TypeOK
<1>3. /\ \A u \in Ids : u # c => atexitList'[u] = atexitList[u]
      /\ \A i \in 1..Len(atexitList'[c]) :
            i + 1 \in 2..Len(atexitList[c]) /\ atexitList'[c][i] = atexitList[c][i + 1]
      /\ f \in Fns /\ f = atexitList[c][1] /\ 1 \in 1..Len(atexitList[c])
  BY <1>1, <1>2, TailPlaces
<1> HIDE DEF f
<1>4. calls[f] = 0
  BY <1>3 DEF CallInv, ListedFresh
<1>5. calls'[f] = 1 /\ \A g \in Fns : g # f => calls'[g] = calls[g]
  BY <1>1, <1>2, <1>3, <1>4 DEF Called
<1>6. \A t \in Ids : /\ \A i \in 1..Len(invokeList[t]) : invokeList[t][i] \in Fns
                     /\ \A i \in 1..Len(atexitList[t]) : atexitList[t][i] \in Fns
  BY ElementOfSeq DEF CallInv, TypeInv, TypeOK
<1>7. NoFn(stack'[c]) /\ \A t \in Ids : t # c => stack'[t] = stack[t]
  <2>1. <<"hook", 0>> \in Frames /\ <<"hook", 0>>[1] # "fn"
    BY FrameType DEF Labels
  <2> QED
    BY <1>1, <1>2, <2>1, OutsideFn, StackKeepsNoFn
<1>8. \A t \in Ids : InFn(t)' <=> InFn(t)
  <2>1. stack'[c] # <<>> => 1 \in 1..Len(stack'[c])
    BY EmptySeq, LenProperties DEF TypeInv, TypeOK
  <2> QED
    BY <1>1, <1>7, <2>1 DEF InFn, Top, NoFn
<1>9. FnOnTop'
  <2>1. \A i \in 2..Len(stack'[c]) : i \in 1..Len(stack'[c])
    BY LenProperties DEF TypeInv, TypeOK
  <2> QED
    BY <1>7, <2>1 DEF CallInv, FnOnTop, NoFn
<1>10. FnListed'
  BY <1>1, <1>8 DEF CallInv, FnListed
<1>11. /\ PlacesIn(atexitList', atexitList, c)
       /\ OnceIn(atexitList') /\ Apart(atexitList', invokeList)
       /\ NotIn(f, atexitList') /\ NotIn(f, invokeList)
  <2>1. Apart(atexitList, invokeList)
    BY ApartTurns DEF CallInv, ListedOnce
  <2>2. PICK L, M, A : L = atexitList /\ M = atexitList' /\ A = invokeList
    OBVIOUS
  <2>3. /\ L \in [Ids -> Seq(Fns)] /\ L[c] # <<>> /\ M = [L EXCEPT ![c] = Tail(@)]
        /\ OnceIn(L) /\ Apart(L, A) /\ f = Head(L[c])
    BY <1>1, <1>2, <2>1, <2>2 DEF f, CallInv, ListedOnce
  <2>4. /\ PlacesIn(M, L, c) /\ OnceIn(M) /\ Apart(M, A)
        /\ NotIn(Head(L[c]), M) /\ NotIn(Head(L[c]), A)
    BY <2>3, TailOnce
  <2> QED
    BY <2>2, <2>3, <2>4
<1>12. ListedOnce'
  <2>1. Apart(invokeList, atexitList')
    BY <1>11, ApartTurns
  <2> QED
    BY <1>1, <1>11, <2>1 DEF CallInv, ListedOnce
<1>13. ListedFresh'
  <2>1. ASSUME NEW t \in Ids, NEW i \in 1..Len(invokeList[t])
        PROVE  calls'[invokeList[t][i]] = 0 \/ (i = 1 /\ InFn(t)')
    <3>1. invokeList[t][i] # f
      BY <1>11 DEF NotIn
    <3> QED
      BY <1>5, <1>6, <1>8, <3>1 DEF CallInv, ListedFresh
  <2>2. ASSUME NEW t \in Ids, NEW i \in 1..Len(atexitList'[t])
        PROVE  calls'[atexitList'[t][i]] = 0
    <3>1. PICK k \in 1..Len(atexitList[t]) : atexitList'[t][i] = atexitList[t][k]
      BY <1>11 DEF PlacesIn
    <3>2. atexitList[t][k] # f
      BY <1>11, <3>1 DEF NotIn
    <3> QED
      BY <1>5, <1>6, <3>1, <3>2 DEF CallInv, ListedFresh
  <2> QED
    BY <1>1, <2>1, <2>2 DEF ListedFresh
<1>14. CalledOnce'
  BY <1>5 DEF CallInv, CalledOnce
<1> QED
  BY <1>9, <1>10, <1>12, <1>13, <1>14 DEF CallInv

LEMMA QuietStep ==
    ASSUME CallInv, TypeInv', UNCHANGED <<stack, listVars>>
    PROVE  CallInv'
<1>1. UNCHANGED <<stack, invokeList, atexitList, calls>>
  BY DEF listVars
<1>2. \A t \in Ids : InFn(t)' <=> InFn(t)
  BY <1>1 DEF InFn, Top
<1>3. FnOnTop' /\ FnListed'
  BY <1>1, <1>2 DEF CallInv, FnOnTop, FnListed
<1>4. ListedOnce' /\ CalledOnce'
  BY <1>1 DEF CallInv, ListedOnce, CalledOnce
<1>5. ListedFresh'
  BY <1>1, <1>2 DEF CallInv, ListedFresh
<1> QED
  BY <1>3, <1>4, <1>5 DEF CallInv

\* A step of c outside invoked functions that pops, pushes or replaces one frame.
LEMMA FrameStep ==
    ASSUME CallInv, TypeInv', NEW c \in Ids, stack[c] # <<>>, Top(c)[1] # "fn",
           \/ Pop(c)
           \/ \E fr \in Frames : fr[1] # "fn" /\ (Push(c, fr) \/ Replace(c, fr)),
           UNCHANGED <<invokeList, calls>>,
           \A t \in Ids : atexitList'[t] = atexitList[t] \/ atexitList'[t] = <<>>
    PROVE  CallInv'
<1>1. ~InFn(c) /\ StacksOK
  BY StacksInType DEF InFn, CallInv
<1>2. NoFn(stack'[c]) /\ \A t \in Ids : t # c => stack'[t] = stack[t]
  BY <1>1, OutsideFn, StackKeepsNoFn
<1> QED
  BY <1>1, <1>2, OutsideStep

LEMMA ProgramCallInv ==
    ASSUME CallInv, TypeInv', "fnyield" \notin Ops, NEW c \in Ids, Program(c)
    PROVE  CallInv'
<1>1. CASE \/ Create(c) \/ Throw(c)
           \/ \E t \in Ids : Cancel(c, t) \/ Detach(c, t) \/ Suspend(c, t) \/ DropHandle(c, t)
  <2>1. UNCHANGED <<stack, listVars>>
    BY <1>1 DEF Create, Throw, Cancel, Detach, Suspend, DropHandle
  <2> QED
    BY <2>1, QuietStep
<1>2. ASSUME NEW t \in Ids, Join(c, t) PROVE CallInv'
  <2>1. <<"join", t>> \in Frames /\ <<"join", t>>[1] # "fn"
    BY FrameType DEF Labels
  <2>2. /\ stack[c] # <<>> /\ Top(c)[1] # "fn" /\ Push(c, <<"join", t>>)
        /\ UNCHANGED <<invokeList, atexitList, calls>>
    BY <1>2 DEF Join, Runs, listVars
  <2> QED
    BY <2>1, <2>2, FrameStep
<1>3. ASSUME NEW f \in Fns, Invoke(c, f) PROVE CallInv'
  <2>1. Fresh(f) /\ UNCHANGED <<stack, atexitList>> /\ First \in Ids /\ NextId(iterator) \in Ids
    BY <1>3, TargetIds DEF Invoke, CallInv
  <2>2. \/ \E t \in Ids : Enqueue(t, f) /\ UNCHANGED calls
        \/ Called(f) /\ UNCHANGED invokeList
    BY <1>3, <2>1 DEF Invoke
  <2> QED
    BY <2>1, <2>2, QueueStep, CallStep
<1>4. ASSUME NEW f \in Fns, AtExit(c, f) PROVE CallInv'
  BY <1>4, RegisterStep DEF AtExit
<1>5. CASE Yield(c)
  <2>1. \A l \in {"yield", "safe"} : <<l, 0>> \in Frames /\ <<l, 0>>[1] # "fn"
    BY FrameType DEF Labels
  <2>2. /\ stack[c] # <<>> /\ Top(c)[1] # "fn"
        /\ \E l \in {"yield", "safe"} : Push(c, <<l, 0>>)
        /\ UNCHANGED <<invokeList, atexitList, calls>>
    BY <1>5 DEF Yield, Runs, listVars
  <2> QED
    BY <2>1, <2>2, FrameStep
<1>6. CASE Swallow(c) \/ BodyEnds(c)
  <2>1. /\ stack[c] # <<>> /\ Top(c)[1] # "fn"
        /\ UNCHANGED <<invokeList, atexitList, calls>>
    BY <1>6 DEF Swallow, BodyEnds, Runs, listVars
  <2>2. PICK fr : Replace(c, fr) /\ fr \in {<<"body", 0>>, <<"exit", Normal>>,
                                            <<"exit", Top(c)[2]>>}
    BY <1>6 DEF Swallow, BodyEnds
  <2>3. Top(c) \in Labels \X (0..MaxId \cup {0, 1, 2})
    BY <2>1, StacksInType, TopType DEF CallInv, Frames
  <2>4. fr \in Frames /\ fr[1] # "fn"
    BY <2>2, <2>3, FrameType DEF Frames, Labels, Normal
  <2> QED
    BY <2>1, <2>2, <2>4, FrameStep
<1> QED
  BY <1>1, <1>2, <1>3, <1>4, <1>5, <1>6, Zenon DEF Program

LEMMA LibraryCallInv ==
    ASSUME CallInv, TypeInv', NEW c \in Ids, Library(c)
    PROVE  CallInv'
<1>1. CASE CallInvoked(c)
  BY <1>1, InvokedStep
<1>2. CASE AtExitCall(c)
  BY <1>2, HookStep
<1>3. CASE InvokedReturns(c) \/ (UnwindFrame(c) /\ Top(c)[1] = "fn")
  <2>1. InFn(c) /\ Pop(c) /\ PopInvoked(c) /\ UNCHANGED <<atexitList, calls>>
    BY <1>3 DEF InvokedReturns, UnwindFrame, Runs, Propagating, InFn
  <2> QED
    BY <2>1, FnReturnsStep
<1>4. CASE \/ JoinWait(c) \/ RunThread(c) \/ ResumeTerminating(c) \/ ResumeReturns(c)
           \/ (UnwindFrame(c) /\ Top(c)[1] # "fn") \/ UnwindUser(c) \/ CatchUnwind(c)
           \/ HookReturns(c) \/ ThreadEnds(c) \/ DeadYield(c)
  <2>1. stack[c] # <<>> /\ Top(c)[1] # "fn"
    BY <1>4 DEF JoinWait, RunThread, ResumeTerminating, ResumeReturns, UnwindFrame, UnwindUser,
                CatchUnwind, HookReturns, ThreadEnds, DeadYield, Runs, Propagating
  <2>2. UNCHANGED <<invokeList, calls>>
    BY <1>4 DEF JoinWait, RunThread, ResumeTerminating, ResumeReturns, ForcedUnwind,
                UnwindFrame, UnwindUser, CatchUnwind, HookReturns, ThreadEnds, DeadYield,
                listVars
  <2>3. \A t \in Ids : atexitList'[t] = atexitList[t] \/ atexitList'[t] = <<>>
    <3>1. atexitList' = atexitList \/ atexitList' = [atexitList EXCEPT ![c] = <<>>]
      BY <1>4 DEF JoinWait, RunThread, ResumeTerminating, ResumeReturns, ForcedUnwind,
                  UnwindFrame, UnwindUser, CatchUnwind, HookReturns, ThreadEnds, DeadYield,
                  listVars
    <3> QED
      BY <3>1 DEF CallInv, TypeInv, TypeOK
  <2>4. \/ stack' = stack
        \/ Pop(c)
        \/ Push(c, <<"yield", 0>>)
        \/ \E l \in {"body", "yield", "clean", "dead"}, n \in {0, 1, 2} : Replace(c, <<l, n>>)
    <3>1. raise[c] \in {0, 1, 2}
      BY DEF CallInv, TypeInv, TypeOK, Normal, Exc, Forced
    <3> QED
      BY <1>4, <3>1
      DEF JoinWait, RunThread, ResumeTerminating, ResumeReturns, ForcedUnwind, UnwindFrame,
          UnwindUser, CatchUnwind, HookReturns, ThreadEnds, DeadYield
  <2>5. CASE stack' = stack
    <3>1. NoFn(stack'[c]) /\ ~InFn(c)
      BY <2>1, <2>5, OutsideFn DEF InFn
    <3> QED
      BY <2>2, <2>3, <2>5, <3>1, OutsideStep
  <2>6. CASE Pop(c)
    BY <2>1, <2>2, <2>3, <2>6, FrameStep
  <2>7. CASE Push(c, <<"yield", 0>>)
    <3>1. <<"yield", 0>> \in Frames /\ <<"yield", 0>>[1] # "fn"
      BY FrameType DEF Labels
    <3> QED
      BY <2>1, <2>2, <2>3, <2>7, <3>1, FrameStep
  <2>8. ASSUME NEW l \in {"body", "yield", "clean", "dead"}, NEW n \in {0, 1, 2},
               Replace(c, <<l, n>>)
        PROVE  CallInv'
    <3>1. <<l, n>> \in Frames /\ <<l, n>>[1] # "fn"
      BY FrameType DEF Labels
    <3> QED
      BY <2>1, <2>2, <2>3, <2>8, <3>1, FrameStep
  <2> QED
    BY <2>4, <2>5, <2>6, <2>7, <2>8
<1> QED
  BY <1>1, <1>2, <1>3, <1>4, Zenon DEF Library

LEMMA KillCallInv ==
    ASSUME CallInv, TypeInv', Kill
    PROVE  CallInv'
<1>1. CASE KillAll \/ KillTest
  <2>1. /\ stack[Main] # <<>> /\ Top(Main)[1] # "fn" /\ Replace(Main, <<"kill", 0>>)
        /\ UNCHANGED <<invokeList, calls>>
    BY <1>1 DEF KillAll, KillTest, Runs, listVars
  <2>2. \A t \in Ids : atexitList'[t] = atexitList[t] \/ atexitList'[t] = <<>>
    BY <1>1 DEF KillAll, KillTest, listVars, CallInv, TypeInv, TypeOK
  <2>3. <<"kill", 0>> \in Frames /\ <<"kill", 0>>[1] # "fn"
    BY FrameType DEF Labels
  <2> QED
    BY <2>1, <2>2, <2>3, IdFacts, FrameStep
<1>2. CASE KillYield
  <2>1. /\ ~InFn(Main) /\ UNCHANGED <<invokeList, atexitList, calls>>
        /\ stack'[Main] = << <<"yield", 0>>, <<"wait", 0>> >>
        /\ \A t \in Ids : t # Main => stack'[t] = stack[t]
    BY <1>2, IdFacts DEF KillYield, Runs, InFn, listVars, CallInv, TypeInv, TypeOK
  <2>2. NoFn(stack'[Main])
    BY <2>1 DEF NoFn
  <2> QED
    BY <2>1, <2>2, IdFacts, OutsideStep
<1>3. CASE Exit
  BY <1>3, QuietStep DEF Exit
<1> QED
  BY <1>1, <1>2, <1>3 DEF Kill

LEMMA NextCallInv ==
    ASSUME CallInv, [Next]_vars, "fnyield" \notin Ops
    PROVE  CallInv'
<1>1. TypeInv'
  BY NextTypeInv DEF CallInv
<1>2. ASSUME NEW c \in Ids, Program(c) \/ Library(c) PROVE CallInv'
  BY <1>1, <1>2, ProgramCallInv, LibraryCallInv
<1>3. CASE Kill
  BY <1>1, <1>3, KillCallInv
<1>4. CASE SwitchThread \/ UNCHANGED vars
  <2>1. UNCHANGED <<stack, listVars>>
    BY <1>4 DEF SwitchThread, vars, listVars
  <2> QED
    BY <1>1, <2>1, QuietStep
<1>5. ASSUME NEW f \in Fns, Interrupt(f) PROVE CallInv'
  <2>1. /\ Fresh(f) /\ UNCHANGED <<stack, atexitList, calls>>
        /\ \E t \in Ids : Enqueue(t, f)
    BY <1>5, TargetIds DEF Interrupt, CallInv
  <2> QED
    BY <1>1, <2>1, QueueStep
<1> QED
  BY <1>2, <1>3, <1>4, <1>5, Zenon DEF Next, Ended

\* The functions that run are no more than what is listed.
LEMMA CallInvSafe == CallInv => CalledOnce /\ PopSafe
<1> SUFFICES ASSUME CallInv, NEW t \in Ids
             PROVE  Cardinality({i \in 1..Len(stack[t]) : stack[t][i][1] = "fn"})
                       <= Len(invokeList[t])
  BY DEF CallInv, PopSafe
<1> DEFINE F == {i \in 1..Len(stack[t]) : stack[t][i][1] = "fn"}
<1>1. stack[t] \in Seq(Frames) /\ invokeList[t] \in Seq(Fns)
  BY DEF CallInv, TypeInv, TypeOK
<1>2. CASE InFn(t)
  <2>1. Len(invokeList[t]) \in Nat /\ Len(invokeList[t]) # 0
    BY <1>1, <1>2, LenProperties, EmptySeq DEF CallInv, FnListed
  <2>2. 1 \in F
    <3>1. 1 \in 1..Len(stack[t])
      BY <1>1, <1>2, LenProperties, EmptySeq DEF InFn
    <3> QED
      BY <1>2, <3>1 DEF InFn, Top
  <2>3. \A i \in F : i = 1
    <3>1. \A i \in 1..Len(stack[t]) : i # 1 => i \in 2..Len(stack[t])
      BY <1>1, LenProperties
    <3> QED
      BY <3>1 DEF CallInv, FnOnTop
  <2>4. F = {1}
    BY <2>2, <2>3
  <2> HIDE DEF F
  <2>5. Cardinality(F) = 1
    BY <2>4, FS_Singleton
  <2>6. Cardinality(F) <= Len(invokeList[t])
    BY <2>1, <2>5
  <2> QED
    BY <2>6 DEF F
<1>3. CASE ~InFn(t)
  <2>1. F = {}
    BY <1>3, OutsideFn DEF NoFn
  <2> HIDE DEF F
  <2>2. Cardinality(F) <= Len(invokeList[t])
    BY <1>1, <2>1, FS_EmptySet, LenProperties
  <2> QED
    BY <2>2 DEF F
<1> QED
  BY <1>2, <1>3

\* A function given to invoke*() or atexit() is called at most once, and do_yield() never
\* pops an empty list, however threads are unwound, cancelled and interrupted; only invoked
\* functions and atexit handlers may not yield.
THEOREM FunctionsCalledOnce ==
    "fnyield" \notin Ops => (Spec => [](CalledOnce /\ PopSafe))
<1> SUFFICES ASSUME "fnyield" \notin Ops PROVE Spec => [](CalledOnce /\ PopSafe)
  OBVIOUS
<1>1. CallInv /\ [Next]_vars => CallInv'
  BY NextCallInv
<1> QED
  BY <1>1, InitCallInv, CallInvSafe, PTL DEF Spec

\* The same of the first of the two setups.
THEOREM CallsStayKept == "fnyield" \notin Ops => (SetupsSpec => []CallsKept)
<1> SUFFICES ASSUME "fnyield" \notin Ops PROVE SetupsSpec => []CallsKept
  OBVIOUS
<1> DEFINE SInv == setup = "interrupts" => CallInv
<1>1. SetupsInit => SInv
  BY InitCallInv DEF SetupsInit
<1>2. SInv /\ [SetupsNext]_<<vars, setup>> => SInv'
  <2> SUFFICES ASSUME SInv, [SetupsNext]_<<vars, setup>>, setup' = "interrupts" PROVE CallInv'
    OBVIOUS
  <2>1. setup = "interrupts" /\ [Next]_vars
    BY DEF SetupsNext
  <2> QED
    BY <2>1, NextCallInv
<1>3. SInv => CallsKept
  BY CallInvSafe DEF CallsKept
<1> QED
  BY <1>1, <1>2, <1>3, PTL DEF SetupsSpec

-----------------------------------------------------------------------------
(* No forced unwind starts inside another unwind, and no exception either. *)

Bottoms == {"start", "body", "clean", "exit", "kill", "wait", "dead"}

\* The outermost frame, and no other, is that of the thread's own code.
Shaped(t) ==
    /\ stack[t] # <<>>
    /\ \A i \in 1..Len(stack[t]) : stack[t][i][1] \in Bottoms <=> i = Len(stack[t])

\* A frame that is being unwound: by an exception, or by a forced unwind that is recorded.
CleanMarked(t) ==
    \A i \in 1..Len(stack[t]) :
        stack[t][i][1] = "clean" =>
            stack[t][i][2] = Exc \/ (stack[t][i][2] = Forced /\ t \in unwinding)

NoClean(t) == \A i \in 1..Len(stack[t]) : stack[t][i][1] # "clean"

\* What propagates has not yet met the thread's own frame.
RaiseApart(t) ==
    /\ raise[t] # Normal => NoClean(t)
    /\ raise[t] = Forced => t \in unwinding
    /\ raise[t] = Exc => Top(t)[1] = "body"

UnwindOK(t) == Shaped(t) /\ CleanMarked(t) /\ RaiseApart(t)

UnwindInv == TypeInv /\ (\A t \in Ids : UnwindOK(t)) /\ NoAbort

LEMMA InitUnwind == Init => UnwindInv
<1> SUFFICES ASSUME Init PROVE UnwindInv
  OBVIOUS
<1>1. \A t \in Ids : stack[t] = << <<"body", 0>> >> \/ stack[t] = << <<"start", 0>> >>
  BY DEF Init
<1>2. ASSUME NEW t \in Ids
      PROVE  /\ Len(stack[t]) = 1 /\ stack[t] # <<>>
             /\ stack[t][1][1] \in {"body", "start"}
  <2>1. CASE stack[t] = << <<"body", 0>> >>
    BY <2>1
  <2>2. CASE stack[t] = << <<"start", 0>> >>
    BY <2>2
  <2> QED
    BY <1>1, <2>1, <2>2
<1>3. ASSUME NEW t \in Ids PROVE Shaped(t) /\ CleanMarked(t)
  <2>1. \A i \in 1..Len(stack[t]) : i = 1
    <3>1. \A i \in 1..1 : i = 1
      OBVIOUS
    <3> QED
      BY <1>2, <3>1
  <2>2. stack[t][1][1] \in Bottoms /\ stack[t][1][1] # "clean"
    BY <1>2 DEF Bottoms
  <2> QED
    BY <1>2, <2>1, <2>2 DEF Shaped, CleanMarked
<1>4. \A t \in Ids : RaiseApart(t)
  BY DEF Init, RaiseApart, Normal, Exc, Forced
<1> QED
  BY <1>3, <1>4, InitTypeInv DEF UnwindInv, UnwindOK, NoAbort, Init

\* A step touches the stack of one thread.
LEMMA OneThread ==
    ASSUME UnwindInv, TypeInv', NEW c \in Ids,
           \A t \in Ids : t # c => /\ stack'[t] = stack[t] /\ raise'[t] = raise[t]
                                   /\ (t \in unwinding' <=> t \in unwinding),
           UnwindOK(c)', ended' # "aborted"
    PROVE  UnwindInv'
<1>1. ASSUME NEW t \in Ids, t # c PROVE UnwindOK(t)'
  BY <1>1 DEF UnwindInv, UnwindOK, Shaped, CleanMarked, RaiseApart, NoClean, Top
<1> QED
  BY <1>1 DEF UnwindInv, NoAbort

\* The innermost frame, and what its label says about the others.
LEMMA ShapeTop ==
    ASSUME UnwindInv, NEW c \in Ids
    PROVE  /\ stack[c] # <<>> /\ stack[c] \in Seq(Frames)
           /\ Len(stack[c]) \in Nat /\ 1 \in 1..Len(stack[c])
           /\ Top(c)[1] \in Bottoms <=> Len(stack[c]) = 1
           /\ raise[c] \in {Normal, Exc, Forced}
<1>1. stack[c] # <<>> /\ stack[c] \in Seq(Frames) /\ raise[c] \in {Normal, Exc, Forced}
  BY DEF UnwindInv, UnwindOK, Shaped, TypeInv, TypeOK
<1>2. Len(stack[c]) \in Nat /\ 1 \in 1..Len(stack[c])
  BY <1>1, EmptySeq, LenProperties
<1>3. Top(c)[1] \in Bottoms <=> Len(stack[c]) = 1
  BY <1>2 DEF UnwindInv, UnwindOK, Shaped, Top
<1> QED
  BY <1>1, <1>2, <1>3

LEMMA UnwindStays ==
    ASSUME UnwindInv, TypeInv', UNCHANGED <<stack, raise, unwinding>>, ended' # "aborted"
    PROVE  UnwindInv'
<1>1. \A t \in Ids : UnwindOK(t)'
  BY DEF UnwindInv, UnwindOK, Shaped, CleanMarked, RaiseApart, NoClean, Top
<1> QED
  BY <1>1 DEF UnwindInv, NoAbort

\* A library function, an invoked function or an atexit handler is entered.
LEMMA UnwindPush ==
    ASSUME UnwindInv, TypeInv', NEW c \in Ids, raise[c] = Normal,
           NEW fr \in Frames, fr[1] \notin Bottoms, Push(c, fr),
           UNCHANGED <<raise, unwinding>>, ended' # "aborted"
    PROVE  UnwindInv'
<1>0. Shaped(c) /\ CleanMarked(c) /\ RaiseApart(c)
  BY DEF UnwindInv, UnwindOK
<1>1. /\ stack'[c] # <<>> /\ stack'[c][1] = fr
      /\ Len(stack'[c]) = Len(stack[c]) + 1 /\ Len(stack[c]) \in Nat
      /\ \A i \in 2..Len(stack'[c]) : i - 1 \in 1..Len(stack[c])
                                      /\ stack'[c][i] = stack[c][i - 1]
      /\ \A t \in Ids : t # c => stack'[t] = stack[t]
  BY StacksInType, PushFrames DEF UnwindInv
<1>2. Len(stack[c]) # 0
  BY ShapeTop
<1>3. \A i \in 1..Len(stack'[c]) : i = 1 \/ i \in 2..Len(stack'[c])
  BY <1>1
<1>4. Shaped(c)'
  <2>1. ASSUME NEW i \in 1..Len(stack'[c])
        PROVE  stack'[c][i][1] \in Bottoms <=> i = Len(stack'[c])
    <3>1. CASE i = 1
      BY <1>1, <1>2, <3>1
    <3>2. CASE i # 1
      <4>1. /\ i - 1 \in 1..Len(stack[c]) /\ stack'[c][i] = stack[c][i - 1]
            /\ (i - 1 = Len(stack[c]) <=> i = Len(stack'[c]))
        BY <1>1, <1>3, <3>2
      <4> QED
        BY <1>0, <4>1 DEF Shaped
    <3> QED
      BY <3>1, <3>2
  <2> QED
    BY <1>1, <2>1 DEF Shaped
<1>5. CleanMarked(c)'
  <2>1. fr[1] # "clean"
    BY DEF Bottoms
  <2>2. ASSUME NEW i \in 1..Len(stack'[c]), stack'[c][i][1] = "clean"
        PROVE  stack'[c][i][2] = Exc \/ (stack'[c][i][2] = Forced /\ c \in unwinding')
    <3>1. i - 1 \in 1..Len(stack[c]) /\ stack'[c][i] = stack[c][i - 1]
      BY <1>1, <1>3, <2>1, <2>2
    <3> QED
      BY <1>0, <2>2, <3>1 DEF CleanMarked
  <2> QED
    BY <2>2 DEF CleanMarked
<1>6. RaiseApart(c)'
  BY DEF RaiseApart, Normal, Exc, Forced
<1> QED
  BY <1>1, <1>4, <1>5, <1>6, OneThread DEF UnwindOK

\* A frame is left, by returning or by what propagates.
LEMMA UnwindPop ==
    ASSUME UnwindInv, TypeInv', NEW c \in Ids, Top(c)[1] \notin Bottoms, Pop(c),
           UNCHANGED <<raise, unwinding>>, ended' # "aborted"
    PROVE  UnwindInv'
<1>0. Shaped(c) /\ CleanMarked(c) /\ RaiseApart(c)
  BY DEF UnwindInv, UnwindOK
<1>1. stack[c] # <<>> /\ Len(stack[c]) \in Nat /\ Len(stack[c]) > 1
  <2>1. stack[c] # <<>> /\ Len(stack[c]) \in Nat /\ 1 \in 1..Len(stack[c])
    BY ShapeTop
  <2>2. Len(stack[c]) # 1
    BY ShapeTop
  <2>3. \A n \in Nat : 1 \in 1..n /\ n # 1 => n > 1
    OBVIOUS
  <2> QED
    BY <2>1, <2>2, <2>3, Zenon
<1>2. /\ stack'[c] \in Seq(Frames) /\ Len(stack'[c]) = Len(stack[c]) - 1
      /\ \A i \in 1..Len(stack'[c]) : i + 1 \in 2..Len(stack[c])
                                      /\ stack'[c][i] = stack[c][i + 1]
      /\ \A t \in Ids : t # c => stack'[t] = stack[t]
  BY <1>1, StacksInType, PopFrames DEF UnwindInv
<1>3. \A i \in 1..Len(stack'[c]) :
         /\ i + 1 \in 1..Len(stack[c]) /\ stack'[c][i] = stack[c][i + 1]
         /\ (i + 1 = Len(stack[c]) <=> i = Len(stack'[c]))
  BY <1>1, <1>2
<1>4. Shaped(c)'
  <2>1. stack'[c] # <<>>
    BY <1>1, <1>2, EmptySeq
  <2> QED
    BY <1>0, <1>3, <2>1 DEF Shaped
<1>5. CleanMarked(c)'
  BY <1>0, <1>3 DEF CleanMarked
<1>6. RaiseApart(c)'
  <2>1. NoClean(c) => NoClean(c)'
    BY <1>3 DEF NoClean
  <2>2. raise[c] # Exc
    BY <1>0 DEF RaiseApart, Bottoms
  <2> QED
    BY <1>0, <2>1, <2>2 DEF RaiseApart
<1> QED
  BY <1>2, <1>4, <1>5, <1>6, OneThread DEF UnwindOK

\* The thread's own frame, or a frame of the library, goes on to what comes next; what
\* propagated has been caught.
LEMMA UnwindReplace ==
    ASSUME UnwindInv, TypeInv', NEW c \in Ids, NEW fr \in Frames, Replace(c, fr),
           fr[1] \in Bottoms <=> Top(c)[1] \in Bottoms,
           fr[1] = "clean" => fr[2] = Exc \/ (fr[2] = Forced /\ c \in unwinding'),
           raise'[c] = Normal, \A t \in Ids : t # c => raise'[t] = raise[t],
           \/ unwinding' = unwinding
           \/ unwinding' = unwinding \ {c} /\ fr[1] \in Bottoms,
           ended' # "aborted"
    PROVE  UnwindInv'
<1>0. Shaped(c) /\ CleanMarked(c) /\ RaiseApart(c)
  BY DEF UnwindInv, UnwindOK
<1>1. /\ stack[c] # <<>> /\ Len(stack[c]) \in Nat /\ 1 \in 1..Len(stack[c])
      /\ Top(c)[1] \in Bottoms <=> Len(stack[c]) = 1
  BY ShapeTop
<1>2. /\ stack'[c] # <<>> /\ stack'[c][1] = fr /\ Len(stack'[c]) = Len(stack[c])
      /\ \A i \in 2..Len(stack'[c]) : stack'[c][i] = stack[c][i]
      /\ \A t \in Ids : t # c => stack'[t] = stack[t]
  BY <1>1, StacksInType, ReplaceFrames DEF UnwindInv
<1>3. \A i \in 1..Len(stack'[c]) : i = 1 \/ (i \in 2..Len(stack'[c]) /\ i \in 1..Len(stack[c]))
  BY <1>1, <1>2
<1>4. Shaped(c)'
  <2>1. ASSUME NEW i \in 1..Len(stack'[c])
        PROVE  stack'[c][i][1] \in Bottoms <=> i = Len(stack'[c])
    <3>1. CASE i = 1
      BY <1>1, <1>2, <3>1
    <3>2. CASE i # 1
      <4>1. i \in 1..Len(stack[c]) /\ stack'[c][i] = stack[c][i]
        BY <1>2, <1>3, <3>2
      <4> QED
        BY <1>0, <1>2, <4>1 DEF Shaped
    <3> QED
      BY <3>1, <3>2
  <2> QED
    BY <1>2, <2>1 DEF Shaped
<1>5. CleanMarked(c)'
  <2>1. CASE unwinding' = unwinding
    BY <1>0, <1>2, <1>3, <2>1 DEF CleanMarked
  <2>2. CASE fr[1] \in Bottoms
    <3>1. \A i \in 1..Len(stack'[c]) : i = 1
      BY <1>1, <1>2, <2>2
    <3> QED
      BY <1>2, <3>1 DEF CleanMarked
  <2> QED
    BY <2>1, <2>2
<1>6. RaiseApart(c)'
  BY DEF RaiseApart, Normal, Exc, Forced
<1> QED
  BY <1>2, <1>4, <1>5, <1>6, OneThread DEF UnwindOK

\* forced_unwind() is started only where nothing is being unwound.
LEMMA UnwindForced ==
    ASSUME UnwindInv, TypeInv', NEW c \in Ids, MayUnwind(c), ForcedUnwind(c)
    PROVE  UnwindInv'
<1>1. NoClean(c)
  <2>1. ASSUME NEW i \in 1..Len(stack[c]), stack[c][i][1] = "clean" PROVE FALSE
    <3>1. stack[c][i][2] = Exc
      BY <2>1 DEF MayUnwind, UnwindInv, UnwindOK, CleanMarked
    <3>2. stack[c][i] \in Labels \X (0..MaxId \cup {0, 1, 2})
      BY ShapeTop, ElementOfSeq DEF Frames
    <3>3. stack[c][i] = <<"clean", Exc>>
      BY <2>1, <3>1, <3>2
    <3> QED
      BY <3>3 DEF MayUnwind, UncaughtExc
  <2> QED
    BY <2>1 DEF NoClean
<1>2. /\ stack' = stack /\ unwinding' = unwinding \cup {c} /\ raise'[c] = Forced
      /\ \A t \in Ids : t # c => raise'[t] = raise[t]
      /\ ended' # "aborted"
  BY DEF ForcedUnwind, UnwindInv, TypeInv, TypeOK, NoAbort
<1>3. Shaped(c)' /\ CleanMarked(c)'
  BY <1>2 DEF UnwindInv, UnwindOK, Shaped, CleanMarked
<1>4. RaiseApart(c)'
  BY <1>1, <1>2 DEF RaiseApart, NoClean, Normal, Exc, Forced
<1> QED
  BY <1>2, <1>3, <1>4, OneThread DEF UnwindOK

LEMMA ProgramUnwind ==
    ASSUME UnwindInv, TypeInv', Ops \cap {"fnthrow", "drop", "swallow"} = {},
           NEW c \in Ids, Program(c)
    PROVE  UnwindInv'
<1>0. \A t \in Ids : ~DropHandle(c, t) /\ ~Swallow(c)
  BY DEF DropHandle, Swallow
<1>1. ended' # "aborted" /\ raise[c] = Normal /\ stack[c] # <<>>
  BY <1>0 DEF Program, Create, Cancel, Detach, Join, Suspend, Invoke, AtExit, Yield, Throw,
              BodyEnds, Runs
<1>2. CASE \/ Create(c)
           \/ \E t \in Ids : Cancel(c, t) \/ Detach(c, t) \/ Suspend(c, t)
           \/ \E f \in Fns : Invoke(c, f) \/ AtExit(c, f)
  <2>1. UNCHANGED <<stack, raise, unwinding>>
    BY <1>2 DEF Create, Cancel, Detach, Suspend, Invoke, AtExit, flagVars
  <2> QED
    BY <1>1, <2>1, UnwindStays
<1>3. ASSUME NEW t \in Ids, Join(c, t) PROVE UnwindInv'
  <2>1. <<"join", t>> \in Frames /\ <<"join", t>>[1] \notin Bottoms
    BY FrameType DEF Labels, Bottoms
  <2>2. Push(c, <<"join", t>>) /\ UNCHANGED <<raise, unwinding>>
    BY <1>3 DEF Join
  <2> QED
    BY <1>1, <2>1, <2>2, UnwindPush
<1>4. CASE Yield(c)
  <2>1. \A l \in {"yield", "safe"} : <<l, 0>> \in Frames /\ <<l, 0>>[1] \notin Bottoms
    BY FrameType DEF Labels, Bottoms
  <2>2. /\ \E l \in {"yield", "safe"} : Push(c, <<l, 0>>)
        /\ UNCHANGED <<raise, unwinding>>
    BY <1>4 DEF Yield, flagVars
  <2> QED
    BY <1>1, <2>1, <2>2, UnwindPush
<1>5. CASE Throw(c)
  <2>1. /\ Top(c)[1] = "body" /\ UNCHANGED <<stack, unwinding>>
        /\ raise' = [raise EXCEPT ![c] = Exc]
    BY <1>5 DEF Throw, Runs, flagVars
  <2>2. raise'[c] = Exc /\ \A t \in Ids : t # c => raise'[t] = raise[t]
    BY <2>1 DEF UnwindInv, TypeInv, TypeOK
  <2>3. Shaped(c)' /\ CleanMarked(c)'
    BY <2>1 DEF UnwindInv, UnwindOK, Shaped, CleanMarked
  <2>4. NoClean(c)
    <3>1. Len(stack[c]) = 1
      BY <2>1, ShapeTop DEF Bottoms
    <3>2. \A i \in 1..Len(stack[c]) : i = 1
      BY <3>1
    <3> QED
      BY <2>1, <3>2 DEF NoClean, Top
  <2>5. RaiseApart(c)'
    BY <2>1, <2>2, <2>4 DEF RaiseApart, NoClean, Top, Exc, Forced
  <2> QED
    BY <1>1, <2>1, <2>2, <2>3, <2>5, OneThread DEF UnwindOK
<1>6. CASE BodyEnds(c)
  <2>1. /\ Top(c)[1] \in Bottoms
        /\ \E n \in {Normal, Top(c)[2]} : Replace(c, <<"exit", n>>)
        /\ unwinding' = unwinding \/ unwinding' = unwinding \ {c}
        /\ raise' = raise
    BY <1>6 DEF BodyEnds, Runs, Bottoms
  <2>2. PICK n \in {Normal, Top(c)[2]} : Replace(c, <<"exit", n>>)
    BY <2>1
  <2>3. Top(c) \in Labels \X (0..MaxId \cup {0, 1, 2})
    BY <1>1, StacksInType, TopType DEF UnwindInv, Frames
  <2>4. /\ <<"exit", n>> \in Frames /\ <<"exit", n>>[1] \in Bottoms
        /\ <<"exit", n>>[1] # "clean"
    BY <2>3 DEF Frames, Labels, Bottoms, Normal
  <2> QED
    BY <1>1, <2>1, <2>2, <2>4, UnwindReplace
<1> QED
  BY <1>0, <1>2, <1>3, <1>4, <1>5, <1>6, Zenon DEF Program

LEMMA LibraryUnwind ==
    ASSUME UnwindInv, TypeInv', NEW c \in Ids, Library(c)
    PROVE  UnwindInv'
<1>0. ended = "no" /\ stack[c] # <<>>
  BY DEF Library, JoinWait, RunThread, ResumeTerminating, CallInvoked, InvokedReturns,
         ResumeReturns, UnwindFrame, UnwindUser, CatchUnwind, AtExitCall, HookReturns,
         ThreadEnds, DeadYield, Runs, Propagating
<1>1. CASE JoinWait(c) \/ CallInvoked(c) \/ AtExitCall(c) \/ DeadYield(c)
  <2>1. /\ raise[c] = Normal /\ UNCHANGED <<raise, unwinding>> /\ ended' # "aborted"
        /\ \/ \E l \in {"yield", "fn", "hook"} : Push(c, <<l, 0>>)
           \/ Pop(c) /\ Top(c)[1] = "join"
    BY <1>0, <1>1 DEF JoinWait, CallInvoked, AtExitCall, DeadYield, Runs, flagVars
  <2>2. \A l \in {"yield", "fn", "hook"} : <<l, 0>> \in Frames /\ <<l, 0>>[1] \notin Bottoms
    BY FrameType DEF Labels, Bottoms
  <2>3. "join" \notin Bottoms
    BY DEF Bottoms
  <2> QED
    BY <2>1, <2>2, <2>3, UnwindPush, UnwindPop
<1>2. CASE RunThread(c)
  <2>1. /\ raise[c] = Normal /\ UNCHANGED <<raise, unwinding>> /\ ended' # "aborted"
        /\ Replace(c, <<"body", 0>>) /\ Top(c)[1] = "start"
    BY <1>0, <1>2 DEF RunThread, Runs, flagVars
  <2>2. <<"body", 0>> \in Frames
    BY FrameType DEF Labels
  <2>3. <<"body", 0>>[1] \in Bottoms /\ <<"body", 0>>[1] # "clean" /\ "start" \in Bottoms
    BY DEF Bottoms
  <2> QED
    BY <2>1, <2>2, <2>3, UnwindReplace
<1>3. CASE ForcedUnwind(c) /\ (ResumeTerminating(c) \/ ResumeReturns(c))
  <2>1. raise'[c] = Forced /\ raise[c] = Normal
    BY <1>3 DEF ForcedUnwind, ResumeTerminating, ResumeReturns, Runs, UnwindInv, TypeInv, TypeOK
  <2>2. raise' # raise
    BY <2>1 DEF Forced, Normal
  <2>3. MayUnwind(c)
    BY <1>3, <2>2 DEF ResumeTerminating, ResumeReturns, TerminateNow, CancelNow
  <2> QED
    BY <1>3, <2>3, UnwindForced
<1>4. CASE ~ForcedUnwind(c) /\ ResumeTerminating(c)
  <2>1. /\ raise[c] = Normal /\ UNCHANGED <<raise, unwinding>> /\ ended' # "aborted"
        /\ Replace(c, <<"yield", 1>>) /\ Top(c)[1] = "yield"
    BY <1>0, <1>4 DEF ResumeTerminating, Runs, flagVars
  <2>2. <<"yield", 1>> \in Frames
    BY FrameType DEF Labels
  <2>3. <<"yield", 1>>[1] \notin Bottoms /\ <<"yield", 1>>[1] # "clean" /\ "yield" \notin Bottoms
    BY DEF Bottoms
  <2> QED
    BY <2>1, <2>2, <2>3, UnwindReplace
<1>5. CASE \/ ~ForcedUnwind(c) /\ ResumeReturns(c)
           \/ InvokedReturns(c) \/ HookReturns(c) \/ UnwindFrame(c)
  <2>1. /\ Top(c)[1] \in {"yield", "safe", "join", "fn", "hook"} /\ Pop(c)
        /\ UNCHANGED <<raise, unwinding>> /\ ended' # "aborted"
    BY <1>0, <1>5 DEF ResumeReturns, InvokedReturns, HookReturns, UnwindFrame, Runs,
                      Propagating, flagVars
  <2>2. Top(c)[1] \notin Bottoms
    BY <2>1 DEF Bottoms
  <2> QED
    BY <2>1, <2>2, UnwindPop
<1>6. CASE UnwindUser(c)
  <2>1. raise[c] # Normal /\ Top(c)[1] \in {"body", "clean"}
    BY <1>6 DEF UnwindUser, Propagating
  <2>2. Top(c)[1] # "clean"
    BY <2>1, ShapeTop DEF UnwindInv, UnwindOK, RaiseApart, NoClean, Top
  <2>3. /\ Replace(c, <<"clean", raise[c]>>) /\ raise' = [raise EXCEPT ![c] = Normal]
        /\ unwinding' = unwinding /\ ended' # "aborted"
    BY <1>0, <1>6, <2>2 DEF UnwindUser, flagVars
  <2>4. raise[c] \in {Exc, Forced} /\ (raise[c] = Forced => c \in unwinding)
    BY <2>1, ShapeTop DEF UnwindInv, UnwindOK, RaiseApart
  <2>5. <<"clean", raise[c]>> \in Frames
    BY <2>4, FrameType DEF Labels, Exc, Forced
  <2>6. raise'[c] = Normal /\ \A t \in Ids : t # c => raise'[t] = raise[t]
    BY <2>3 DEF UnwindInv, TypeInv, TypeOK
  <2>7. <<"clean", raise[c]>>[1] \in Bottoms /\ Top(c)[1] \in Bottoms
    BY <2>1 DEF Bottoms
  <2> QED
    BY <2>3, <2>4, <2>5, <2>6, <2>7, UnwindReplace
<1>7. CASE CatchUnwind(c)
  <2>1. raise[c] # Normal /\ Top(c)[1] \in {"exit", "wait"}
    BY <1>7 DEF CatchUnwind, Propagating
  <2>2. raise[c] = Forced /\ NoClean(c)
    BY <2>1, ShapeTop DEF UnwindInv, UnwindOK, RaiseApart
  <2>3. /\ raise' = [raise EXCEPT ![c] = Normal] /\ unwinding' = unwinding \ {c}
        /\ stack' = stack /\ ended' # "aborted"
    BY <1>0, <1>7, <2>2 DEF CatchUnwind, Forced, Exc
  <2>4. raise'[c] = Normal /\ \A t \in Ids : t # c => raise'[t] = raise[t]
    BY <2>3 DEF UnwindInv, TypeInv, TypeOK
  <2>5. Shaped(c)' /\ CleanMarked(c)'
    BY <2>2, <2>3 DEF UnwindInv, UnwindOK, Shaped, CleanMarked, NoClean
  <2>6. RaiseApart(c)'
    BY <2>4 DEF RaiseApart, Normal, Exc, Forced
  <2> QED
    BY <2>3, <2>4, <2>5, <2>6, OneThread DEF UnwindOK
<1>8. CASE ThreadEnds(c)
  <2>1. /\ raise[c] = Normal /\ raise' = raise /\ ended' # "aborted"
        /\ unwinding' = unwinding \/ unwinding' = unwinding \ {c}
        /\ Replace(c, <<"dead", 0>>) /\ Top(c)[1] = "exit"
    BY <1>0, <1>8 DEF ThreadEnds, Runs
  <2>2. <<"dead", 0>> \in Frames
    BY FrameType DEF Labels
  <2>3. <<"dead", 0>>[1] \in Bottoms /\ <<"dead", 0>>[1] # "clean" /\ "exit" \in Bottoms
    BY DEF Bottoms
  <2> QED
    BY <2>1, <2>2, <2>3, UnwindReplace
<1> QED
  BY <1>1, <1>2, <1>3, <1>4, <1>5, <1>6, <1>7, <1>8, Zenon DEF Library

LEMMA KillUnwind ==
    ASSUME UnwindInv, TypeInv', Kill
    PROVE  UnwindInv'
<1>0. /\ stack[Main] # <<>> /\ raise[Main] = Normal
      /\ UNCHANGED <<raise, unwinding>> /\ ended' # "aborted"
  BY DEF Kill, KillAll, KillYield, KillTest, Exit, Runs, flagVars
<1>1. CASE KillAll \/ KillTest
  <2>1. Replace(Main, <<"kill", 0>>) /\ Top(Main)[1] \in Bottoms
    BY <1>1 DEF KillAll, KillTest, Runs, Bottoms
  <2>2. <<"kill", 0>> \in Frames
    BY FrameType DEF Labels
  <2>3. <<"kill", 0>>[1] \in Bottoms /\ <<"kill", 0>>[1] # "clean"
    BY DEF Bottoms
  <2> QED
    BY <1>0, <2>1, <2>2, <2>3, IdFacts, UnwindReplace
<1>2. CASE KillYield
  <2>1. /\ stack'[Main] = << <<"yield", 0>>, <<"wait", 0>> >>
        /\ \A t \in Ids : t # Main => stack'[t] = stack[t]
    BY <1>2, IdFacts DEF KillYield, UnwindInv, TypeInv, TypeOK
  <2>2. /\ Len(stack'[Main]) = 2 /\ stack'[Main] # <<>>
        /\ stack'[Main][1][1] = "yield" /\ stack'[Main][2][1] = "wait"
    BY <2>1
  <2>3. \A i \in 1..Len(stack'[Main]) : i = 1 \/ i = 2
    BY <2>2
  <2>4. Shaped(Main)' /\ CleanMarked(Main)'
    BY <2>2, <2>3 DEF Shaped, CleanMarked, Bottoms
  <2>5. RaiseApart(Main)'
    BY <1>0 DEF RaiseApart, Normal, Exc, Forced
  <2> QED
    BY <1>0, <2>1, <2>4, <2>5, IdFacts, OneThread DEF UnwindOK
<1>3. CASE Exit
  BY <1>0, <1>3, UnwindStays DEF Exit
<1> QED
  BY <1>1, <1>2, <1>3 DEF Kill

LEMMA NextUnwind ==
    ASSUME UnwindInv, [Next]_vars, Ops \cap {"fnthrow", "drop", "swallow"} = {}
    PROVE  UnwindInv'
<1>1. TypeInv'
  BY NextTypeInv DEF UnwindInv
<1>2. ASSUME NEW c \in Ids, Program(c) \/ Library(c) PROVE UnwindInv'
  BY <1>1, <1>2, ProgramUnwind, LibraryUnwind
<1>3. CASE Kill
  BY <1>1, <1>3, KillUnwind
<1>4. CASE SwitchThread \/ UNCHANGED vars \/ \E f \in Fns : Interrupt(f)
  <2>1. UNCHANGED <<stack, raise, unwinding>> /\ ended' = ended
    BY <1>4 DEF SwitchThread, Interrupt, vars, flagVars
  <2> QED
    BY <1>1, <2>1, UnwindStays DEF UnwindInv, NoAbort
<1> QED
  BY <1>2, <1>3, <1>4, Zenon DEF Next, Ended

\* The guards of do_yield() are enough that no forced unwind starts inside another unwind:
\* std::terminate() is never reached, if functions that are invoked and destructors that run
\* because of an unwind throw nothing, and a forced unwind is not swallowed.
THEOREM NoUnwindInUnwind ==
    Ops \cap {"fnthrow", "drop", "swallow"} = {} => (Spec => []NoAbort)
<1> SUFFICES ASSUME Ops \cap {"fnthrow", "drop", "swallow"} = {} PROVE Spec => []NoAbort
  OBVIOUS
<1>1. UnwindInv /\ [Next]_vars => UnwindInv'
  BY NextUnwind
<1>2. UnwindInv => NoAbort
  BY DEF UnwindInv
<1> QED
  BY <1>1, <1>2, InitUnwind, PTL DEF Spec

\* The same of the first of the two setups.
THEOREM UnwindsStayApart ==
    Ops \cap {"fnthrow", "drop", "swallow"} = {} => (SetupsSpec => []UnwindsApart)
<1> SUFFICES ASSUME Ops \cap {"fnthrow", "drop", "swallow"} = {}
             PROVE  SetupsSpec => []UnwindsApart
  OBVIOUS
<1> DEFINE SInv == setup = "interrupts" => UnwindInv
<1>1. SetupsInit => SInv
  BY InitUnwind DEF SetupsInit
<1>2. SInv /\ [SetupsNext]_<<vars, setup>> => SInv'
  <2> SUFFICES ASSUME SInv, [SetupsNext]_<<vars, setup>>, setup' = "interrupts"
               PROVE  UnwindInv'
    OBVIOUS
  <2>1. setup = "interrupts" /\ [Next]_vars
    BY DEF SetupsNext
  <2> QED
    BY <2>1, NextUnwind
<1>3. SInv => UnwindsApart
  BY DEF UnwindsApart, UnwindInv
<1> QED
  BY <1>1, <1>2, <1>3, PTL DEF SetupsSpec
=============================================================================
