---------------------------- MODULE MutexProofs ----------------------------
(***************************************************************************)
(* Proofs about SharedMutex and RecursiveMutex, for any threads and        *)
(* interrupt handlers, and any number of locks.  Handlers do not come      *)
(* between the stores of owner and lock_count.                             *)
(***************************************************************************)
EXTENDS SharedMutex, RecursiveMutex, FiniteSets, FiniteSetTheorems, SequenceTheorems, TLAPS

-----------------------------------------------------------------------------
(* shared_mutex                                                            *)

Pcs == {"idle", "lock", "check", "undo", "lock_shared", "inc", "release", "writing", "reading"}

\* Where a context has the flag.
Flagged == {"check", "undo", "inc", "release", "writing"}

Owns(c) == pc[c] \in Flagged

\* The flag is set while one context has it: the writer, or one that tries to lock.
FlagOwned ==
    /\ locked \in BOOLEAN
    /\ \A c \in Actors : Owns(c) => locked
    /\ locked => \E c \in Actors : Owns(c)
    /\ \A c, d \in Actors : Owns(c) /\ Owns(d) => c = d

\* The count is that of the readers, also when handlers are between its steps.
ReadersCounted == IsFiniteSet(Readers) /\ sharedCount = Cardinality(Readers)

\* A writer has seen that there are no readers, and has the flag that they need to come.
WriterAlone == \A c \in Actors : pc[c] = "writing" => Readers = {}

SharedInv ==
    /\ pc \in [Actors -> Pcs]
    /\ FlagOwned
    /\ ReadersCounted
    /\ WriterAlone

-----------------------------------------------------------------------------
(* The invariant                                                           *)

\* Goto moves one context and nothing else.
LEMMA Moved ==
  ASSUME NEW c \in Actors, NEW l \in Pcs, pc \in [Actors -> Pcs], Goto(c, l)
  PROVE  /\ pc' \in [Actors -> Pcs]
         /\ pc'[c] = l
         /\ \A d \in Actors \ {c} : pc'[d] = pc[d]
BY DEF Goto

\* A context that moves becomes a reader, or is none any more.
LEMMA ReadersMoved ==
  ASSUME NEW c \in Actors, NEW l \in Pcs, pc \in [Actors -> Pcs], Goto(c, l)
  PROVE  Readers' = IF l \in {"release", "reading"} THEN Readers \cup {c} ELSE Readers \ {c}
<1>1. ASSUME NEW d
      PROVE  d \in Readers' <=> d \in Actors /\ pc'[d] \in {"release", "reading"}
  BY DEF Readers
<1>2. ASSUME NEW d
      PROVE  d \in Readers <=> d \in Actors /\ pc[d] \in {"release", "reading"}
  BY DEF Readers
<1>. QED  BY <1>1, <1>2, Moved

\* Nobody else has the flag while c has it, and when c gives it up nobody has.
LEMMA FlagKept ==
  ASSUME SharedInv, NEW c \in Actors, Owns(c), NEW l \in Flagged, Goto(c, l), UNCHANGED locked
  PROVE  FlagOwned'
BY Moved DEF SharedInv, FlagOwned, Owns, Flagged, Pcs

LEMMA FlagCleared ==
  ASSUME SharedInv, NEW c \in Actors, Owns(c), NEW l \in Pcs \ Flagged, Goto(c, l),
         locked' = FALSE
  PROVE  FlagOwned'
BY Moved DEF SharedInv, FlagOwned, Owns, Flagged, Pcs

\* c tests the flag and sets it, when nobody had it.
LEMMA FlagSet ==
  ASSUME SharedInv, NEW c \in Actors, ~locked, NEW l \in Flagged, Goto(c, l), locked' = TRUE
  PROVE  FlagOwned'
BY Moved DEF SharedInv, FlagOwned, Owns, Flagged, Pcs

\* c goes on without the flag.
LEMMA FlagAlone ==
  ASSUME SharedInv, NEW c \in Actors, ~Owns(c), NEW l \in Pcs \ Flagged, Goto(c, l),
         locked' = locked
  PROVE  FlagOwned'
BY Moved DEF SharedInv, FlagOwned, Owns, Flagged, Pcs

\* A move between places where c is no reader, or between places where it is one.
LEMMA ReadersKept ==
  ASSUME SharedInv, NEW c \in Actors, NEW l \in Pcs, Goto(c, l), UNCHANGED sharedCount,
         pc[c] \in {"release", "reading"} <=> l \in {"release", "reading"}
  PROVE  Readers' = Readers /\ ReadersCounted'
<1>1. Readers' = Readers
  BY ReadersMoved DEF SharedInv, Readers
<1>. QED  BY <1>1 DEF SharedInv, ReadersCounted

\* Locking and giving up keep the count; who is to write has the flag and has seen no readers.
LEMMA QuietKeeps ==
  ASSUME SharedInv, NEW c \in Actors, NEW l \in Pcs, Goto(c, l), UNCHANGED sharedCount,
         pc[c] \in {"release", "reading"} <=> l \in {"release", "reading"},
         l = "writing" => Readers = {},
         FlagOwned'
  PROVE  SharedInv'
<1>1. pc' \in [Actors -> Pcs]
  BY Moved DEF SharedInv
<1>2. Readers' = Readers /\ ReadersCounted'
  BY ReadersKept
<1>3. WriterAlone'
  BY <1>2, Moved DEF SharedInv, WriterAlone
<1>. QED  BY <1>1, <1>2, <1>3 DEF SharedInv

LEMMA InitInv == SInit => SharedInv
<1>. SUFFICES ASSUME SInit PROVE SharedInv
  OBVIOUS
<1>1. \A c \in Actors : pc[c] = "idle"
  BY DEF SInit, ContextsInit
<1>2. Readers = {}
  BY <1>1 DEF Readers
<1>. QED  BY <1>1, <1>2, FS_EmptySet
             DEF SInit, ContextsInit, SharedInv, FlagOwned, Owns, Flagged, ReadersCounted,
                 WriterAlone, Pcs

LEMMA StartInv ==
  ASSUME SharedInv, NEW c \in Actors, NEW how \in {"lock", "lock_shared"}, Start(c, how)
  PROVE  SharedInv'
<1>1. FlagOwned'
  BY FlagAlone DEF Start, Owns, Flagged, Pcs
<1>. QED  BY <1>1, QuietKeeps DEF Start, Pcs

\* Both tests of the flag: lock() goes on to the count, lock_shared() to the increment.
LEMMA TestInv ==
  ASSUME SharedInv, NEW c \in Actors, TryLock(c) \/ TryLockShared(c)
  PROVE  SharedInv'
<1>1. PICK how \in {"lock", "lock_shared"}, next \in {"check", "inc"} :
         /\ pc[c] = how /\ locked' = TRUE /\ UNCHANGED sharedCount
         /\ IF locked THEN Failed(c, how) ELSE Goto(c, next)
  BY DEF TryLock, TryLockShared
<1>2. CASE locked
  <2>1. PICK l \in {"idle", "lock", "lock_shared"} : Goto(c, l)
    BY <1>1, <1>2 DEF Failed
  <2>2. FlagOwned'
    BY <1>1, <1>2, <2>1, FlagAlone DEF Owns, Flagged, Pcs
  <2>. QED  BY <1>1, <2>1, <2>2, QuietKeeps DEF Pcs
<1>3. CASE ~locked
  <2>1. FlagOwned'
    BY <1>1, <1>3, FlagSet DEF Flagged
  <2>. QED  BY <1>1, <1>3, <2>1, QuietKeeps DEF Pcs
<1>. QED  BY <1>2, <1>3

LEMMA CheckInv ==
  ASSUME SharedInv, NEW c \in Actors, CheckReaders(c)
  PROVE  SharedInv'
<1>. DEFINE l == IF sharedCount = 0 THEN "writing" ELSE "undo"
<1>1. Goto(c, l) /\ pc[c] = "check" /\ UNCHANGED <<locked, sharedCount>>
  BY DEF CheckReaders
<1>2. l \in Flagged /\ l \in Pcs /\ l \notin {"release", "reading"} /\ Owns(c)
  BY <1>1 DEF Flagged, Pcs, Owns
<1>3. l = "writing" => Readers = {}
  BY FS_EmptySet DEF SharedInv, ReadersCounted
<1>. HIDE DEF l
<1>4. FlagOwned'
  BY <1>1, <1>2, FlagKept
<1>. QED  BY <1>1, <1>2, <1>3, <1>4, QuietKeeps

LEMMA UndoInv ==
  ASSUME SharedInv, NEW c \in Actors, Undo(c)
  PROVE  SharedInv'
<1>1. PICK l \in {"idle", "lock"} : Goto(c, l)
  BY DEF Undo, Failed
<1>2. FlagOwned'
  BY <1>1, FlagCleared DEF Undo, Owns, Flagged, Pcs
<1>. QED  BY <1>1, <1>2, QuietKeeps DEF Undo, Pcs

\* The flag keeps a writer away while the reader is counted.
LEMMA IncrementInv ==
  ASSUME SharedInv, NEW c \in Actors, Increment(c)
  PROVE  SharedInv'
<1>1. Goto(c, "release") /\ pc[c] = "inc" /\ sharedCount' = sharedCount + 1 /\ UNCHANGED locked
  BY DEF Increment
<1>2. pc' \in [Actors -> Pcs]
  BY <1>1, Moved DEF SharedInv, Pcs
<1>3. FlagOwned'
  BY <1>1, FlagKept DEF Owns, Flagged
<1>4. Readers' = Readers \cup {c} /\ c \notin Readers
  BY <1>1, ReadersMoved DEF SharedInv, Pcs, Readers
<1>5. ReadersCounted'
  BY <1>1, <1>4, FS_AddElement DEF SharedInv, ReadersCounted
<1>6. ASSUME NEW d \in Actors, pc'[d] = "writing" PROVE FALSE
  BY <1>1, <1>6, Moved DEF SharedInv, FlagOwned, Owns, Flagged, Pcs
<1>7. WriterAlone'
  BY <1>6 DEF WriterAlone
<1>. QED  BY <1>2, <1>3, <1>5, <1>7 DEF SharedInv

LEMMA ReleaseInv ==
  ASSUME SharedInv, NEW c \in Actors, Release(c)
  PROVE  SharedInv'
<1>1. FlagOwned'
  BY FlagCleared DEF Release, Owns, Flagged, Pcs
<1>. QED  BY <1>1, QuietKeeps DEF Release, Pcs

LEMMA UnlockInv ==
  ASSUME SharedInv, NEW c \in Actors, Unlock(c)
  PROVE  SharedInv'
<1>1. FlagOwned'
  BY FlagCleared DEF Unlock, Owns, Flagged, Pcs
<1>. QED  BY <1>1, QuietKeeps DEF Unlock, Pcs

LEMMA UnlockSharedInv ==
  ASSUME SharedInv, NEW c \in Actors, UnlockShared(c)
  PROVE  SharedInv'
<1>1. Goto(c, "idle") /\ pc[c] = "reading" /\ sharedCount' = sharedCount - 1 /\ UNCHANGED locked
  BY DEF UnlockShared
<1>2. pc' \in [Actors -> Pcs]
  BY <1>1, Moved DEF SharedInv, Pcs
<1>3. FlagOwned'
  BY <1>1, FlagAlone DEF Owns, Flagged, Pcs
<1>4. Readers' = Readers \ {c} /\ c \in Readers
  BY <1>1, ReadersMoved DEF SharedInv, Pcs, Readers
<1>5. ReadersCounted'
  BY <1>1, <1>4, FS_RemoveElement DEF SharedInv, ReadersCounted
<1>6. WriterAlone'
  BY <1>1, <1>4, Moved DEF SharedInv, WriterAlone, Pcs
<1>. QED  BY <1>2, <1>3, <1>5, <1>6 DEF SharedInv

\* Threads that yield, and handlers that come and go, do not touch the lock.
LEMMA OthersInv ==
  ASSUME SharedInv, UNCHANGED <<locked, sharedCount, pc>>
  PROVE  SharedInv'
<1>1. Readers' = Readers
  BY DEF Readers
<1>. QED  BY <1>1 DEF SharedInv, FlagOwned, Owns, ReadersCounted, WriterAlone

LEMMA NextInv == SharedInv /\ [SNext]_smVars => SharedInv'
<1>. SUFFICES ASSUME SharedInv, [SNext]_smVars PROVE SharedInv'
  OBVIOUS
<1>1. ASSUME NEW c \in Actors, Start(c, "lock") \/ Start(c, "lock_shared") PROVE SharedInv'
  BY <1>1, StartInv
<1>2. ASSUME NEW c \in Actors, TryLock(c) \/ TryLockShared(c) PROVE SharedInv'
  BY <1>2, TestInv
<1>3. ASSUME NEW c \in Actors, CheckReaders(c) PROVE SharedInv'
  BY <1>3, CheckInv
<1>4. ASSUME NEW c \in Actors, Undo(c) PROVE SharedInv'
  BY <1>4, UndoInv
<1>5. ASSUME NEW c \in Actors, Unlock(c) PROVE SharedInv'
  BY <1>5, UnlockInv
<1>6. ASSUME NEW c \in Actors, Increment(c) PROVE SharedInv'
  BY <1>6, IncrementInv
<1>7. ASSUME NEW c \in Actors, Release(c) PROVE SharedInv'
  BY <1>7, ReleaseInv
<1>8. ASSUME NEW c \in Actors, UnlockShared(c) PROVE SharedInv'
  BY <1>8, UnlockSharedInv
<1>9. CASE UNCHANGED <<locked, sharedCount, pc>>
  BY <1>9, OthersInv
<1>. QED  BY <1>1, <1>2, <1>3, <1>4, <1>5, <1>6, <1>7, <1>8, <1>9
             DEF SNext, smVars, Yield, Interrupted, Returned

\* The flag is set exactly while some context has it, only one context has it at a time, the
\* count is the number of readers, and a writer is alone (shared_mutex.h, try_lock() and
\* try_lock_shared()).
THEOREM SharedInvariant == SSpec => []SharedInv
BY InitInv, NextInv, PTL DEF SSpec

-----------------------------------------------------------------------------
(* The refinement                                                          *)

\* A context that moves becomes a writer, or is none any more.
LEMMA WritersMoved ==
  ASSUME NEW c \in Actors, NEW l \in Pcs, pc \in [Actors -> Pcs], Goto(c, l)
  PROVE  Writers' = IF l = "writing" THEN Writers \cup {c} ELSE Writers \ {c}
<1>1. ASSUME NEW d
      PROVE  d \in Writers' <=> d \in Actors /\ pc'[d] = "writing"
  BY DEF Writers
<1>2. ASSUME NEW d
      PROVE  d \in Writers <=> d \in Actors /\ pc[d] = "writing"
  BY DEF Writers
<1>. QED  BY <1>1, <1>2, Moved

\* A step between places where c neither reads nor writes is none of the abstract lock.
LEMMA Stutters ==
  ASSUME SharedInv, NEW c \in Actors, NEW l \in Pcs, Goto(c, l),
         pc[c] \in {"release", "reading"} <=> l \in {"release", "reading"},
         pc[c] # "writing", l # "writing"
  PROVE  UNCHANGED <<Writers, Readers>>
<1>1. Readers' = Readers
  BY ReadersMoved DEF SharedInv, Readers
<1>2. Writers' = Writers
  BY WritersMoved DEF SharedInv, Writers
<1>. QED  BY <1>1, <1>2

\* The only writer.
LEMMA OneWriter ==
  ASSUME SharedInv, NEW c \in Actors, Owns(c)
  PROVE  Writers = IF pc[c] = "writing" THEN {c} ELSE {}
BY DEF SharedInv, FlagOwned, Owns, Flagged, Writers

LEMMA CheckRefines ==
  ASSUME SharedInv, NEW c \in Actors, CheckReaders(c)
  PROVE  Abstract!AcquireWrite(c) \/ UNCHANGED <<Writers, Readers>>
<1>1. CASE sharedCount = 0
  <2>1. Goto(c, "writing") /\ pc[c] = "check"
    BY <1>1 DEF CheckReaders
  <2>2. Readers = {} /\ Writers = {}
    BY <1>1, <2>1, OneWriter, FS_EmptySet DEF SharedInv, ReadersCounted, Owns, Flagged
  <2>3. Readers' = Readers /\ Writers' = {c}
    BY <2>1, <2>2, ReadersMoved, WritersMoved DEF SharedInv, Pcs
  <2>. QED  BY <2>2, <2>3 DEF Abstract!AcquireWrite
<1>2. CASE sharedCount # 0
  BY <1>2, Stutters DEF CheckReaders, Pcs
<1>. QED  BY <1>1, <1>2

LEMMA IncrementRefines ==
  ASSUME SharedInv, NEW c \in Actors, Increment(c)
  PROVE  Abstract!AcquireRead(c)
<1>1. Goto(c, "release") /\ pc[c] = "inc"
  BY DEF Increment
<1>2. Writers = {} /\ c \notin Readers
  BY <1>1, OneWriter DEF Owns, Flagged, Readers
<1>3. Writers' = Writers /\ Readers' = Readers \cup {c}
  BY <1>1, <1>2, ReadersMoved, WritersMoved DEF SharedInv, Pcs
<1>. QED  BY <1>2, <1>3 DEF Abstract!AcquireRead

LEMMA UnlockRefines ==
  ASSUME SharedInv, NEW c \in Actors, Unlock(c)
  PROVE  Abstract!ReleaseWrite(c)
<1>1. Goto(c, "idle") /\ pc[c] = "writing"
  BY DEF Unlock
<1>2. Writers = {c}
  BY <1>1, OneWriter DEF Owns, Flagged
<1>3. Writers' = {} /\ Readers' = Readers
  BY <1>1, <1>2, ReadersMoved, WritersMoved DEF SharedInv, Pcs, Readers
<1>. QED  BY <1>2, <1>3 DEF Abstract!ReleaseWrite

LEMMA UnlockSharedRefines ==
  ASSUME SharedInv, NEW c \in Actors, UnlockShared(c)
  PROVE  Abstract!ReleaseRead(c)
<1>1. Goto(c, "idle") /\ pc[c] = "reading"
  BY DEF UnlockShared
<1>2. c \in Readers /\ Readers' = Readers \ {c} /\ Writers' = Writers
  BY <1>1, ReadersMoved, WritersMoved DEF SharedInv, Pcs, Readers, Writers
<1>. QED  BY <1>2 DEF Abstract!ReleaseRead

\* Every step of the lock is one of the abstract lock, or none.
LEMMA StepRefines ==
  ASSUME SharedInv, [SNext]_smVars
  PROVE  [Abstract!Next]_<<Writers, Readers>>
<1>1. ASSUME NEW c \in Actors, Start(c, "lock") \/ Start(c, "lock_shared")
      PROVE  UNCHANGED <<Writers, Readers>>
  BY <1>1, Stutters DEF Start, Pcs
<1>2. ASSUME NEW c \in Actors, TryLock(c)
      PROVE  UNCHANGED <<Writers, Readers>>
  BY <1>2, Stutters DEF TryLock, Failed, Pcs
<1>3. ASSUME NEW c \in Actors, TryLockShared(c)
      PROVE  UNCHANGED <<Writers, Readers>>
  BY <1>3, Stutters DEF TryLockShared, Failed, Pcs
<1>4. ASSUME NEW c \in Actors, Undo(c)
      PROVE  UNCHANGED <<Writers, Readers>>
  BY <1>4, Stutters DEF Undo, Failed, Pcs
<1>5. ASSUME NEW c \in Actors, Release(c)
      PROVE  UNCHANGED <<Writers, Readers>>
  BY <1>5, Stutters DEF Release, Pcs
<1>6. ASSUME NEW c \in Actors,
             CheckReaders(c) \/ Increment(c) \/ Unlock(c) \/ UnlockShared(c)
      PROVE  Abstract!Next \/ UNCHANGED <<Writers, Readers>>
  BY <1>6, CheckRefines, IncrementRefines, UnlockRefines, UnlockSharedRefines DEF Abstract!Next
<1>7. CASE UNCHANGED pc
  BY <1>7 DEF Writers, Readers
<1>. QED  BY <1>1, <1>2, <1>3, <1>4, <1>5, <1>6, <1>7
             DEF SNext, smVars, Yield, Interrupted, Returned

LEMMA InitRefines == SInit => Abstract!Init
BY DEF SInit, ContextsInit, Abstract!Init, Writers, Readers

\* Nobody has the flag, and nobody reads.
LEMMA FreeAtRest ==
  SharedInv => ((\A c \in Actors : pc[c] = "idle") => ~locked /\ sharedCount = 0)
<1>. SUFFICES ASSUME SharedInv, \A c \in Actors : pc[c] = "idle"
              PROVE  ~locked /\ sharedCount = 0
  OBVIOUS
<1>1. Readers = {}
  BY DEF Readers
<1>2. sharedCount = 0
  BY <1>1, FS_EmptySet DEF SharedInv, ReadersCounted
<1>3. ~locked
  BY DEF SharedInv, FlagOwned, Owns, Flagged
<1>. QED  BY <1>2, <1>3

\* shared_mutex is a readers-writer lock for any threads and interrupt handlers: the two
\* steps of lock() and the three of lock_shared() (shared_mutex.h:31-56), with others between
\* them, are single steps of the lock that it promises, and nothing is left set behind.
THEOREM MutexRefinesRWLock == SSpec => ImplementsRWLock
<1>1. SInit => Abstract!Init
  BY InitRefines
<1>2. SharedInv /\ [SNext]_smVars => [Abstract!Next]_<<Writers, Readers>>
  BY StepRefines
<1>3. SharedInv => ((\A c \in Actors : pc[c] = "idle") => ~locked /\ sharedCount = 0)
  BY FreeAtRest
<1>. QED  BY <1>1, <1>2, <1>3, SharedInvariant, PTL DEF SSpec, ImplementsRWLock, Abstract!Spec

-----------------------------------------------------------------------------
(* recursive_mutex                                                         *)

LockPcs == {"idle", "try", "own", "count", "again", "clear"}

\* The contexts that are under way: level 1 runs, the handlers come above the current thread.
Levels == 1..Len(nest) + 1
At(k) == IF k = Len(nest) + 1 THEN current ELSE nest[k]

TypeInv ==
    /\ current \in Threads /\ nest \in Seq(Irqs)
    /\ pc \in [Actors -> LockPcs]
    /\ owner \in Actors \cup {NoOwner}
    /\ lockCount \in Nat
    /\ locks \in [Actors -> Nat]

\* No handler interrupts itself; handlers that do not run have no locks; threads that have
\* yielded are not in the middle.
NestOK ==
    /\ \A j, k \in Levels : At(j) = At(k) => j = k
    /\ \A i \in Irqs : (\A k \in Levels : At(k) # i) => pc[i] = "idle" /\ locks[i] = 0
    /\ \A t \in Threads : t # current => pc[t] \in {"idle", "try"}

\* May lock once more.
Admitted(c) == owner = c \/ (c \in Irqs /\ owner = current)

\* Who has locks is admitted; the owner has locks, or is about to, or has just given them up.
OwnerOK ==
    /\ \A c \in Actors : locks[c] > 0 => Admitted(c)
    /\ owner # NoOwner => locks[owner] > 0 \/ pc[owner] \in {"count", "clear"}
    /\ owner = NoOwner => lockCount = 0

\* What a context in the middle of lock() or unlock() relies on, also while handlers are above it.
StepsOK ==
    /\ \A k \in Levels : pc[At(k)] = "own" => owner = NoOwner \/ \E j \in 1..k - 1 : owner = At(j)
    /\ \A k \in Levels : pc[At(k)] = "again" => Admitted(At(k))
    /\ \A k \in Levels : pc[At(k)] = "count" => k = 1 /\ owner = At(1) /\ lockCount = 0
    /\ pc[At(1)] = "clear" => lockCount = 0 /\ (owner = NoOwner \/ Admitted(At(1)))
    /\ \A k \in Levels : k > 1 /\ pc[At(k)] = "clear" =>
          k = 2 /\ lockCount = locks[At(1)] /\ owner \in {NoOwner, At(1), At(2)}

\* The locks of a thread that is not current.
Rest == IF owner \in Threads \ {current} THEN locks[owner] ELSE 0

\* The locks below a level; base has them for every handler.
Below(base, k) == IF k = Len(nest) + 1 THEN Rest ELSE base[nest[k]]

\* The count is that of all locks.
CountOK(base) ==
    /\ lockCount = locks[At(1)] + Below(base, 1)
    /\ \A k \in 1..Len(nest) : Below(base, k) = locks[At(k + 1)] + Below(base, k + 1)
    /\ \A k \in 1..Len(nest) : \A j \in Levels :
          k < j => locks[At(j)] <= Below(base, k) /\ Rest <= Below(base, k)
    /\ \A k \in 1..Len(nest) : owner = nest[k] => Below(base, k) = 0

MutexInv ==
    /\ TypeInv
    /\ NestOK
    /\ OwnerOK
    /\ StepsOK
    /\ \E base \in [Irqs -> Nat] : CountOK(base)

-----------------------------------------------------------------------------
(* Levels                                                                  *)

LEMMA LevelFacts ==
  ASSUME TypeInv
  PROVE  /\ Len(nest) \in Nat /\ 1 \in Levels /\ Levels \subseteq Nat
         /\ Running = At(1)
         /\ At(Len(nest) + 1) = current
         /\ \A k \in Levels : At(k) \in Actors
         /\ \A k \in 1..Len(nest) : At(k) \in Irqs /\ At(k) = nest[k]
         /\ nest = <<>> <=> Len(nest) = 0
<1>1. Len(nest) \in Nat /\ (nest = <<>> <=> Len(nest) = 0)
  BY EmptySeq, LenProperties DEF TypeInv
<1>2. \A k \in 1..Len(nest) : nest[k] \in Irqs
  BY ElementOfSeq DEF TypeInv
<1>3. Running = At(1)
  BY <1>1 DEF TypeInv, Running, At
<1>. QED  BY <1>1, <1>2, <1>3 DEF TypeInv, Levels, At, Actors

\* A handler comes on top of all levels.
LEMMA Pushed ==
  ASSUME TypeInv, NEW i \in Irqs, Interrupted(i)
  PROVE  /\ nest' \in Seq(Irqs) /\ Len(nest') = Len(nest) + 1
         /\ At(1)' = i
         /\ \A k \in Levels : At(k + 1)' = At(k)
<1>1. nest' = <<i>> \o nest /\ current' = current
  BY DEF Interrupted
<1>2. <<i>> \in Seq(Irqs) /\ Len(<<i>>) = 1 /\ Len(nest) \in Nat /\ nest \in Seq(Irqs)
  BY LevelFacts DEF TypeInv
<1>3. nest' \in Seq(Irqs) /\ Len(nest') = Len(nest) + 1
  BY <1>1, <1>2, ConcatProperties
<1>4. nest'[1] = i /\ \A k \in 1..Len(nest) : nest'[k + 1] = nest[k]
  BY <1>1, <1>2, <1>3, ConcatProperties
<1>. QED  BY <1>1, <1>2, <1>3, <1>4 DEF Levels, At

\* The top level returns.
LEMMA Popped ==
  ASSUME TypeInv, Returned
  PROVE  /\ nest' \in Seq(Irqs) /\ Len(nest) \in Nat \ {0} /\ Len(nest') = Len(nest) - 1
         /\ At(1) = Head(nest)
         /\ \A k \in 1..Len(nest) : At(k)' = At(k + 1)
<1>1. nest # <<>> /\ nest \in Seq(Irqs) /\ nest' = Tail(nest) /\ current' = current
  BY DEF Returned, InIrq, TypeInv
<1>2. Len(nest) \in Nat \ {0}
  BY <1>1, LevelFacts
<1>3. nest' \in Seq(Irqs) /\ Len(nest') = Len(nest) - 1
  BY <1>1, HeadTailProperties
<1>4. \A k \in 1..Len(nest) - 1 : nest'[k] = nest[k + 1]
  BY <1>1, <1>2, HeadTailProperties
<1>5. At(1) = Head(nest)
  BY <1>1, <1>2 DEF At
<1>6. ASSUME NEW k \in 1..Len(nest) PROVE At(k)' = At(k + 1)
  <2>1. CASE k = Len(nest)
    BY <1>1, <1>2, <1>3, <2>1 DEF At
  <2>2. CASE k # Len(nest)
    <3>1. k \in 1..Len(nest) - 1 /\ k # Len(nest') + 1 /\ k + 1 # Len(nest) + 1
      BY <1>2, <1>3, <2>2
    <3>. QED  BY <1>4, <3>1 DEF At
  <2>. QED  BY <2>1, <2>2
<1>. QED  BY <1>2, <1>3, <1>5, <1>6

\* A step that neither switches nor interrupts leaves the levels as they are.
LEMMA LevelsStay ==
  ASSUME UNCHANGED <<nest, current>>
  PROVE  Levels' = Levels /\ \A k : At(k)' = At(k)
BY DEF Levels, At

LEMMA MovedOn ==
  ASSUME NEW c \in Actors, NEW l \in LockPcs, pc \in [Actors -> LockPcs], Goto(c, l)
  PROVE  /\ pc' \in [Actors -> LockPcs]
         /\ pc'[c] = l
         /\ \A d \in Actors \ {c} : pc'[d] = pc[d]
BY DEF Goto

-----------------------------------------------------------------------------
(* What the invariant says of the counts                                   *)

LEMMA BelowNat ==
  ASSUME TypeInv, NEW base \in [Irqs -> Nat]
  PROVE  Rest \in Nat /\ \A k \in Levels : Below(base, k) \in Nat
<1>1. Rest \in Nat
  BY DEF TypeInv, Rest, Actors
<1>. QED  BY <1>1, LevelFacts DEF Below, Levels

\* The running context, if it is a thread, is the current one, and there is no handler.
LEMMA OnTop ==
  ASSUME TypeInv, NEW c \in Actors, c = Running
  PROVE  c = At(1) /\ (c \in Threads => c = current /\ nest = <<>>)
BY LevelFacts, OwnersAssumption DEF Running

LEMMA AdmittedOwned ==
  ASSUME TypeInv, NEW c \in Actors, Admitted(c)
  PROVE  owner # NoOwner
BY OwnersAssumption DEF TypeInv, Admitted, Actors

\* When the count is zero nobody has a lock: the locks of the contexts below a handler have not
\* changed since it came.
LEMMA NoLocks ==
  ASSUME MutexInv, lockCount = 0
  PROVE  /\ \A c \in Actors : locks[c] = 0
         /\ Rest = 0
         /\ \A base \in [Irqs -> Nat] : CountOK(base) => Below(base, 1) = 0
<1>. TypeInv /\ NestOK /\ OwnerOK
  BY DEF MutexInv
<1>1. PICK base \in [Irqs -> Nat] : CountOK(base)
  BY DEF MutexInv
<1>2. \A k \in Levels : locks[At(k)] \in Nat
  BY LevelFacts DEF TypeInv
<1>3. ASSUME NEW b \in [Irqs -> Nat], CountOK(b)
      PROVE  Below(b, 1) = 0 /\ locks[At(1)] = 0
  <2>1. Below(b, 1) \in Nat /\ locks[At(1)] \in Nat
    BY <1>2, BelowNat, LevelFacts
  <2>2. 0 = locks[At(1)] + Below(b, 1)
    BY <1>3 DEF CountOK
  <2>. QED  BY <2>1, <2>2
<1>4. Rest = 0
  <2>1. CASE Len(nest) = 0
    BY <1>1, <1>3, <2>1 DEF Below
  <2>2. CASE Len(nest) # 0
    <3>1. 1 \in 1..Len(nest) /\ Len(nest) + 1 \in Levels /\ 1 < Len(nest) + 1
      BY <2>2, LevelFacts DEF Levels
    <3>2. Rest <= 0
      BY <1>1, <1>3, <3>1 DEF CountOK
    <3>. QED  BY <3>2, BelowNat
  <2>. QED  BY <2>1, <2>2
<1>5. ASSUME NEW k \in Levels PROVE locks[At(k)] = 0
  <2>1. CASE k = 1
    BY <1>1, <1>3, <2>1
  <2>2. CASE k # 1
    <3>1. 1 \in 1..Len(nest) /\ 1 < k
      BY <2>2, LevelFacts DEF Levels
    <3>2. locks[At(k)] <= 0
      BY <1>1, <1>3, <3>1 DEF CountOK
    <3>. QED  BY <1>2, <3>2
  <2>. QED  BY <2>1, <2>2
<1>6. ASSUME NEW c \in Actors PROVE locks[c] = 0
  <2>1. CASE c \in Irqs
    BY <1>5, <2>1 DEF NestOK
  <2>2. CASE c \in Threads /\ c = current
    BY <1>5, <2>2, LevelFacts DEF Levels
  <2>3. CASE c \in Threads /\ c # current
    <3>1. CASE locks[c] > 0
      <4>1. owner = c
        BY <2>3, <3>1, OwnersAssumption DEF OwnerOK, Admitted
      <4>. QED  BY <1>4, <2>3, <4>1 DEF Rest
    <3>. QED  BY <3>1 DEF TypeInv
  <2>. QED  BY <2>1, <2>2, <2>3 DEF Actors
<1>. QED  BY <1>3, <1>4, <1>6

-----------------------------------------------------------------------------
(* Steps of the running context                                            *)

\* They leave the other contexts alone.
LEMMA NestKept ==
  ASSUME TypeInv, NestOK, NEW c \in Actors, c = Running, UNCHANGED <<nest, current>>,
         \A d \in Actors \ {c} : pc'[d] = pc[d] /\ locks'[d] = locks[d]
  PROVE  NestOK'
<1>1. Levels' = Levels /\ \A k : At(k)' = At(k)
  BY LevelsStay
<1>2. c = At(1) /\ 1 \in Levels /\ (c \in Threads => c = current)
  BY OnTop, LevelFacts
<1>3. (\A j, k \in Levels : At(j) = At(k) => j = k)'
  BY <1>1 DEF NestOK
<1>4. ASSUME NEW i \in Irqs, \A k \in Levels : At(k) # i
      PROVE  pc'[i] = "idle" /\ locks'[i] = 0
  BY <1>2, <1>4 DEF NestOK, Actors
<1>5. ASSUME NEW t \in Threads, t # current
      PROVE  pc'[t] \in {"idle", "try"}
  BY <1>2, <1>5 DEF NestOK, Actors
<1>. QED  BY <1>1, <1>3, <1>4, <1>5 DEF NestOK

\* The count changes as the locks of the running context do.
LEMMA CountKept ==
  ASSUME MutexInv, NEW c \in Actors, c = Running, UNCHANGED <<nest, current>>,
         \A d \in Actors \ {c} : locks'[d] = locks[d],
         locks'[c] \in Nat, lockCount' - locks'[c] = lockCount - locks[c], lockCount' \in Nat,
         Rest' = Rest,
         owner' = owner \/ owner' = NoOwner \/ (owner' = c /\ lockCount = 0)
  PROVE  \E base \in [Irqs -> Nat] : CountOK(base)'
<1>. TypeInv /\ NestOK
  BY DEF MutexInv
<1>1. PICK base \in [Irqs -> Nat] : CountOK(base)
  BY DEF MutexInv
<1>2. Levels' = Levels /\ (\A k : At(k)' = At(k)) /\ nest' = nest
  BY LevelsStay
<1>3. \A k : Below(base, k)' = Below(base, k)
  BY <1>2 DEF Below
<1>4. c = At(1) /\ 1 \in Levels /\ Len(nest) \in Nat
  BY OnTop, LevelFacts
<1>5. ASSUME NEW k \in Levels, k # 1 PROVE locks'[At(k)] = locks[At(k)]
  BY <1>4, <1>5, LevelFacts DEF NestOK
<1>6. lockCount' = locks'[At(1)] + Below(base, 1)
  <2>1. Below(base, 1) \in Nat /\ locks[c] \in Nat /\ lockCount \in Nat
    BY <1>4, BelowNat DEF TypeInv
  <2>2. lockCount = locks[c] + Below(base, 1)
    BY <1>1, <1>4 DEF CountOK
  <2>3. PICK m, m1, n, n1, b \in Nat :
          /\ m = lockCount /\ m1 = lockCount' /\ n = locks[c] /\ n1 = locks'[c]
          /\ b = Below(base, 1)
    BY <2>1, Zenon
  <2>4. m1 - n1 = m - n /\ m = n + b
    BY <2>2, <2>3, Zenon
  <2>5. m1 = n1 + b
    BY <2>4
  <2>. QED  BY <1>4, <2>3, <2>5, Zenon
<1>7. ASSUME NEW k \in 1..Len(nest)
      PROVE  Below(base, k) = locks'[At(k + 1)] + Below(base, k + 1)
  <2>1. k + 1 \in Levels /\ k + 1 # 1
    BY <1>4 DEF Levels
  <2>. QED  BY <1>1, <1>5, <2>1 DEF CountOK
<1>8. ASSUME NEW k \in 1..Len(nest), NEW j \in Levels, k < j
      PROVE  locks'[At(j)] <= Below(base, k) /\ Rest <= Below(base, k)
  <2>1. j # 1
    BY <1>8, <1>4
  <2>. QED  BY <1>1, <1>5, <1>8, <2>1 DEF CountOK
<1>9. ASSUME NEW k \in 1..Len(nest), owner' = nest[k] PROVE Below(base, k) = 0
  <2>1. nest[k] # NoOwner /\ nest[k] = At(k) /\ k \in Levels
    BY LevelFacts, OwnersAssumption DEF Levels, Actors
  <2>2. CASE owner' = owner
    BY <1>1, <1>9, <2>2 DEF CountOK
  <2>3. CASE owner' = c /\ lockCount = 0
    <3>1. k = 1
      <4>1. At(k) = At(1)
        BY <1>4, <1>9, <2>1, <2>3
      <4>. QED  BY <1>4, <2>1, <4>1 DEF NestOK
    <3>. QED  BY <1>1, <2>3, <3>1, NoLocks
  <2>. QED  BY <1>9, <2>1, <2>2, <2>3
<1>10. CountOK(base)'
  BY <1>2, <1>3, <1>6, <1>7, <1>8, <1>9 DEF CountOK
<1>. QED  BY <1>10

\* Where the lock is neither held nor being taken, a context moves on.
LEMMA PcStep ==
  ASSUME MutexInv, NEW c \in Actors, c = Running, NEW l \in {"idle", "try", "own", "again"},
         pc[c] \in {"idle", "try"}, Goto(c, l),
         l = "own" => owner = NoOwner, l = "again" => Admitted(c),
         UNCHANGED <<nest, current, owner, lockCount, locks>>
  PROVE  MutexInv'
<1>. TypeInv /\ NestOK /\ OwnerOK /\ StepsOK
  BY DEF MutexInv
<1>1. pc' \in [Actors -> LockPcs] /\ pc'[c] = l /\ \A d \in Actors \ {c} : pc'[d] = pc[d]
  BY MovedOn DEF TypeInv, LockPcs
<1>2. Levels' = Levels /\ \A k : At(k)' = At(k)
  BY LevelsStay
<1>3. c = At(1) /\ 1 \in Levels /\ \A k \in Levels : At(k) \in Actors
  BY OnTop, LevelFacts
<1>4. TypeInv'
  BY <1>1 DEF TypeInv
<1>5. NestOK'
  BY <1>1, NestKept
<1>6. \A d : Admitted(d)' = Admitted(d)
  BY DEF Admitted
<1>7. OwnerOK'
  BY <1>1, <1>6 DEF OwnerOK, TypeInv
<1>8. StepsOK'
  BY <1>1, <1>2, <1>3, <1>6 DEF StepsOK
<1>9. Rest' = Rest
  BY DEF Rest
<1>10. \E base \in [Irqs -> Nat] : CountOK(base)'
  BY <1>9, CountKept DEF TypeInv
<1>. QED  BY <1>4, <1>5, <1>7, <1>8, <1>10 DEF MutexInv

\* Threads switch where no handler runs and the current thread is not in the middle.
LEMMA SwitchInv ==
  ASSUME MutexInv, ~InIrq, pc[current] \in {"idle", "try"}, current' \in Threads,
         UNCHANGED <<nest, pc, owner, lockCount, locks>>
  PROVE  MutexInv'
<1>. TypeInv /\ NestOK /\ OwnerOK /\ StepsOK
  BY DEF MutexInv
<1>1. Len(nest) = 0 /\ nest' = nest /\ Levels = {1} /\ Levels' = {1} /\ 1..Len(nest) = {}
  BY LevelFacts DEF InIrq, Levels
<1>2. At(1) = current /\ At(1)' = current'
  BY <1>1 DEF At
<1>3. \A i \in Irqs : pc[i] = "idle" /\ locks[i] = 0
  BY <1>1, <1>2, OwnersAssumption DEF NestOK, TypeInv
<1>4. \A t \in Threads : pc[t] \in {"idle", "try"}
  BY DEF NestOK
<1>5. TypeInv'
  BY DEF TypeInv
<1>6. NestOK'
  BY <1>1, <1>3, <1>4 DEF NestOK
<1>7. \A c \in Actors : locks[c] > 0 => c \in Threads /\ owner = c
  BY <1>3, OwnersAssumption DEF OwnerOK, Admitted, Actors
<1>8. OwnerOK'
  BY <1>7 DEF OwnerOK, Admitted
<1>9. pc'[At(1)'] \in {"idle", "try"}
  BY <1>2, <1>4
<1>10. StepsOK'
  BY <1>1, <1>9 DEF StepsOK
<1>11. PICK base \in [Irqs -> Nat] : CountOK(base)
  BY DEF MutexInv
<1>12. \A k : k = 1 => Below(base, k) = Rest /\ Below(base, k)' = Rest'
  BY <1>1 DEF Below
<1>13. lockCount = locks[current] + Rest
  BY <1>2, <1>11, <1>12 DEF CountOK
<1>14. current \in Actors /\ current' \in Actors /\ locks \in [Actors -> Nat]
  BY DEF TypeInv, Actors
<1>15. lockCount' = locks'[current'] + Rest'
  <2>1. CASE owner \in Threads
    <3>1. \A c \in Actors : c # owner => locks[c] = 0
      BY <1>7, <1>14
    <3>2. locks[owner] \in Nat
      BY <1>14, <2>1 DEF Actors
    <3>3. lockCount = locks[owner]
      BY <1>13, <1>14, <2>1, <3>1, <3>2 DEF Rest
    <3>. QED  BY <1>14, <2>1, <3>1, <3>2, <3>3 DEF Rest
  <2>2. CASE owner \notin Threads
    <3>1. \A c \in Actors : locks[c] = 0
      BY <1>7, <1>14, <2>2
    <3>. QED  BY <1>13, <1>14, <2>2, <3>1 DEF Rest
  <2>. QED  BY <2>1, <2>2
<1>16. CountOK(base)'
  BY <1>1, <1>2, <1>12, <1>15 DEF CountOK
<1>. QED  BY <1>5, <1>6, <1>8, <1>10, <1>16 DEF MutexInv

LEMMA LockInv ==
  ASSUME MutexInv, NEW c \in Actors, Lock(c)
  PROVE  MutexInv'
BY PcStep DEF Lock, lockVars

\* A failed try: a thread yields with the same place to go on from, or gives up.
LEMMA TestOwnerInv ==
  ASSUME MutexInv, NEW c \in Actors, TestOwner(c)
  PROVE  MutexInv'
<1>. TypeInv
  BY DEF MutexInv
<1>1. c = Running /\ pc[c] = "try" /\ UNCHANGED <<nest, owner, lockCount, locks>>
  BY DEF TestOwner, lockVars
<1>2. CASE Goto(c, "idle") /\ UNCHANGED current
  BY <1>1, <1>2, PcStep
<1>3. CASE ~InIrq /\ Goto(c, "try") /\ current' \in Threads
  <2>1. pc' = pc
    BY <1>1, <1>3 DEF Goto, TypeInv
  <2>2. pc[current] \in {"idle", "try"}
    BY <1>1, <1>3 DEF Running, InIrq
  <2>. QED  BY <1>1, <1>3, <2>1, <2>2, SwitchInv
<1>4. CASE owner = NoOwner /\ Goto(c, "own") /\ UNCHANGED current
  BY <1>1, <1>4, PcStep
<1>5. CASE IsOwner(c) /\ Goto(c, "again") /\ UNCHANGED current
  <2>1. Admitted(c)
    BY <1>1, <1>5, OnTop DEF IsOwner, Admitted, Actors
  <2>. QED  BY <1>1, <1>5, <2>1, PcStep
<1>. QED  BY <1>2, <1>3, <1>4, <1>5 DEF TestOwner, Failed

LEMMA SetOwnerInv ==
  ASSUME MutexInv, NEW c \in Actors, SetOwner(c)
  PROVE  MutexInv'
<1>. TypeInv /\ NestOK /\ OwnerOK /\ StepsOK
  BY DEF MutexInv
<1>1. /\ c = Running /\ pc[c] = "own" /\ owner' = c /\ Goto(c, "count")
      /\ UNCHANGED <<current, nest, lockCount, locks>>
  BY DEF SetOwner
<1>2. pc' \in [Actors -> LockPcs] /\ pc'[c] = "count" /\ \A d \in Actors \ {c} : pc'[d] = pc[d]
  BY <1>1, MovedOn DEF TypeInv, LockPcs
<1>3. Levels' = Levels /\ \A k : At(k)' = At(k)
  BY <1>1, LevelsStay
<1>4. c = At(1) /\ 1 \in Levels /\ Levels \subseteq Nat /\ \A k \in Levels : At(k) \in Actors
  BY <1>1, OnTop, LevelFacts
<1>5. owner = NoOwner /\ lockCount = 0
  BY <1>1, <1>4 DEF StepsOK, OwnerOK
<1>6. \A d \in Actors : locks[d] = 0
  BY <1>5, NoLocks
<1>7. TypeInv'
  BY <1>1, <1>2 DEF TypeInv
<1>8. NestOK'
  BY <1>1, <1>2, NestKept
<1>9. c # NoOwner
  BY OwnersAssumption
<1>10. OwnerOK'
  BY <1>1, <1>2, <1>6, <1>9 DEF OwnerOK
<1>11. ASSUME NEW k \in Levels, k # 1 PROVE At(k) # c /\ pc'[At(k)] = pc[At(k)] /\ 1 \in 1..k - 1
  <2>1. At(k) # c /\ At(k) \in Actors
    BY <1>4, <1>11 DEF NestOK
  <2>2. k \in Nat /\ k >= 1
    BY <1>4 DEF Levels
  <2>. QED  BY <1>2, <1>11, <2>1, <2>2
<1>12. \A k \in Levels : pc[At(k)] # "again"
  BY <1>4, <1>5, AdmittedOwned DEF StepsOK
<1>13. StepsOK'
  BY <1>1, <1>2, <1>3, <1>4, <1>5, <1>11, <1>12 DEF StepsOK
<1>14. Rest' = Rest
  BY <1>1, <1>5, OnTop, OwnersAssumption DEF Rest, Actors
<1>15. \E base \in [Irqs -> Nat] : CountOK(base)'
  BY <1>1, <1>5, <1>14, CountKept DEF TypeInv
<1>. QED  BY <1>7, <1>8, <1>10, <1>13, <1>15 DEF MutexInv

\* lock_count = 1 and ++lock_count
LEMMA AcquireInv ==
  ASSUME MutexInv, NEW c \in Actors, NEW l \in {"count", "again"}, NEW n, Acquire(c, l, n),
         n = lockCount + 1, Admitted(c)
  PROVE  MutexInv'
<1>. TypeInv /\ NestOK /\ OwnerOK /\ StepsOK
  BY DEF MutexInv
<1>1. /\ c = Running /\ pc[c] = l /\ Goto(c, "idle") /\ lockCount' = lockCount + 1
      /\ locks' = [locks EXCEPT ![c] = @ + 1]
      /\ UNCHANGED <<current, nest, owner>>
  BY DEF Acquire
<1>2. pc' \in [Actors -> LockPcs] /\ pc'[c] = "idle" /\ \A d \in Actors \ {c} : pc'[d] = pc[d]
  BY <1>1, MovedOn DEF TypeInv, LockPcs
<1>3. Levels' = Levels /\ \A k : At(k)' = At(k)
  BY <1>1, LevelsStay
<1>4. c = At(1) /\ 1 \in Levels /\ \A k \in Levels : At(k) \in Actors
  BY <1>1, OnTop, LevelFacts
<1>5. locks'[c] = locks[c] + 1 /\ \A d \in Actors \ {c} : locks'[d] = locks[d]
  BY <1>1 DEF TypeInv
<1>6. locks[c] \in Nat /\ lockCount \in Nat
  BY DEF TypeInv
<1>7. TypeInv'
  <2>1. lockCount' \in Nat /\ locks[c] + 1 \in Nat
    BY <1>1, <1>6
  <2>2. locks' \in [Actors -> Nat]
    BY <1>1, <2>1 DEF TypeInv
  <2>. QED  BY <1>1, <1>2, <2>1, <2>2 DEF TypeInv
<1>8. NestOK'
  BY <1>1, <1>2, <1>5, NestKept
<1>9. \A d : Admitted(d)' = Admitted(d)
  BY <1>1 DEF Admitted
<1>10. OwnerOK'
  <2>1. owner # NoOwner
    BY AdmittedOwned
  <2>2. ASSUME NEW d \in Actors, locks'[d] > 0 PROVE Admitted(d)'
    BY <1>5, <1>9, <2>2 DEF OwnerOK
  <2>3. locks'[owner] > 0 \/ pc'[owner] \in {"count", "clear"}
    BY <1>2, <1>5, <1>6, <2>1 DEF OwnerOK, TypeInv
  <2>. QED  BY <1>1, <2>1, <2>2, <2>3 DEF OwnerOK
<1>11. StepsOK'
  BY <1>1, <1>2, <1>3, <1>4, <1>5, <1>9 DEF StepsOK
<1>12. Rest' = Rest
  BY <1>1, <1>5, OnTop DEF Rest, Actors
<1>13. \E base \in [Irqs -> Nat] : CountOK(base)'
  BY <1>1, <1>5, <1>6, <1>12, CountKept
<1>. QED  BY <1>7, <1>8, <1>10, <1>11, <1>13 DEF MutexInv

LEMMA SetCountInv ==
  ASSUME MutexInv, NEW c \in Actors, SetCount(c)
  PROVE  MutexInv'
<1>1. c = At(1) /\ 1 \in Levels /\ pc[c] = "count"
  BY OnTop, LevelFacts DEF MutexInv, SetCount, Acquire
<1>2. owner = c /\ lockCount = 0
  BY <1>1 DEF MutexInv, StepsOK
<1>. QED  BY <1>2, AcquireInv DEF SetCount, Admitted

LEMMA LockAgainInv ==
  ASSUME MutexInv, NEW c \in Actors, LockAgain(c)
  PROVE  MutexInv'
<1>1. c = At(1) /\ 1 \in Levels /\ pc[c] = "again"
  BY OnTop, LevelFacts DEF MutexInv, LockAgain, Acquire
<1>2. Admitted(c)
  BY <1>1 DEF MutexInv, StepsOK
<1>. QED  BY <1>2, AcquireInv DEF LockAgain

\* --lock_count: the owner keeps a lock, or the count is zero and the owner is to be cleared.
LEMMA CountDownInv ==
  ASSUME MutexInv, NEW c \in Actors, CountDown(c)
  PROVE  MutexInv'
<1>. DEFINE l == IF lockCount = 1 THEN "clear" ELSE "idle"
<1>. TypeInv /\ NestOK /\ OwnerOK /\ StepsOK
  BY DEF MutexInv
<1>1. /\ c = Running /\ pc[c] = "idle" /\ Goto(c, l) /\ lockCount' = lockCount - 1
      /\ locks[c] > 0 /\ locks' = [locks EXCEPT ![c] = @ - 1]
      /\ UNCHANGED <<current, nest, owner>>
  BY DEF CountDown
<1>2. pc' \in [Actors -> LockPcs] /\ pc'[c] = l /\ \A d \in Actors \ {c} : pc'[d] = pc[d]
  BY <1>1, MovedOn DEF TypeInv, LockPcs
<1>3. Levels' = Levels /\ \A k : At(k)' = At(k)
  BY <1>1, LevelsStay
<1>4. c = At(1) /\ 1 \in Levels /\ \A k \in Levels : At(k) \in Actors
  BY <1>1, OnTop, LevelFacts
<1>5. locks'[c] = locks[c] - 1 /\ \A d \in Actors \ {c} : locks'[d] = locks[d]
  BY <1>1 DEF TypeInv
<1>6. PICK base \in [Irqs -> Nat] : CountOK(base)
  BY DEF MutexInv
<1>7. locks[c] \in Nat /\ Below(base, 1) \in Nat /\ lockCount = locks[c] + Below(base, 1)
  BY <1>4, <1>6, BelowNat DEF TypeInv, CountOK
<1>8. locks[c] - 1 \in Nat /\ lockCount - 1 \in Nat
  BY <1>1, <1>7
<1>9. TypeInv'
  <2>1. locks' \in [Actors -> Nat]
    BY <1>1, <1>8 DEF TypeInv
  <2>. QED  BY <1>1, <1>2, <1>8, <2>1 DEF TypeInv
<1>10. NestOK'
  BY <1>1, <1>2, <1>5, NestKept
<1>11. Admitted(c) /\ owner # NoOwner /\ \A d : Admitted(d)' = Admitted(d)
  BY <1>1, AdmittedOwned DEF OwnerOK, Admitted
<1>12. ASSUME owner = c PROVE Below(base, 1) = 0
  <2>1. CASE Len(nest) = 0
    <3>1. c = current
      BY <1>4, <2>1 DEF At
    <3>. QED  BY <1>12, <2>1, <3>1 DEF Below, Rest
  <2>2. CASE Len(nest) # 0
    <3>1. 1 \in 1..Len(nest) /\ At(1) = nest[1]
      BY <2>2, LevelFacts
    <3>. QED  BY <1>4, <1>6, <1>12, <3>1 DEF CountOK
  <2>. QED  BY <2>1, <2>2
<1>13. OwnerOK'
  <2>1. ASSUME NEW d \in Actors, locks'[d] > 0 PROVE Admitted(d)'
    BY <1>5, <1>11, <2>1 DEF OwnerOK
  <2>2. CASE owner = c
    <3>1. lockCount = locks[c]
      BY <1>7, <1>12, <2>2
    <3>2. l # "clear" => locks'[c] > 0
      BY <1>1, <1>5, <1>7, <3>1
    <3>. QED  BY <1>1, <1>2, <1>11, <2>1, <2>2, <3>2 DEF OwnerOK
  <2>3. CASE owner # c
    <3>1. owner \in Actors \ {c}
      BY <1>11, <2>3 DEF TypeInv
    <3>. QED  BY <1>1, <1>2, <1>5, <1>11, <2>1, <3>1 DEF OwnerOK
  <2>. QED  BY <2>2, <2>3
<1>14. StepsOK'
  <2>1. l = "clear" => lockCount' = 0
    BY <1>1
  <2>2. \A k \in Levels : pc'[At(k)] \in {"own", "again", "count"} => pc[At(k)] = pc'[At(k)]
    BY <1>2, <1>4
  <2>3. \A k \in Levels : k > 1 => At(k) # c
    BY <1>4 DEF NestOK
  <2>4. ASSUME NEW k \in Levels, k > 1, pc'[At(k)] = "clear"
        PROVE  k = 2 /\ lockCount' = locks'[At(1)] /\ owner \in {NoOwner, At(1), At(2)}
    <3>1. pc[At(k)] = "clear"
      BY <1>2, <1>4, <2>3, <2>4
    <3>2. k = 2 /\ lockCount = locks[c] /\ owner \in {NoOwner, At(1), At(2)}
      BY <1>4, <2>4, <3>1 DEF StepsOK
    <3>. QED  BY <1>1, <1>4, <1>5, <3>2
  <2>5. \A k \in Levels : pc'[At(k)] = "own" => owner = NoOwner \/ \E j \in 1..k - 1 : owner = At(j)
    BY <2>2 DEF StepsOK
  <2>6. \A k \in Levels : pc'[At(k)] = "again" => Admitted(At(k))
    BY <2>2 DEF StepsOK
  <2>7. \A k \in Levels : pc'[At(k)] # "count"
    BY <1>1, <1>4, <2>2 DEF StepsOK
  <2>8. pc'[At(1)] = "clear" => lockCount' = 0 /\ Admitted(At(1))
    BY <1>2, <1>4, <1>11, <2>1
  <2>. QED  BY <1>1, <1>3, <1>11, <2>4, <2>5, <2>6, <2>7, <2>8 DEF StepsOK
<1>15. Rest' = Rest
  BY <1>1, <1>5, OnTop DEF Rest, Actors
<1>16. lockCount' - locks'[c] = lockCount - locks[c]
  BY <1>1, <1>5, <1>7
<1>17. \E b \in [Irqs -> Nat] : CountOK(b)'
  BY <1>1, <1>5, <1>8, <1>15, <1>16, CountKept
<1>. QED  BY <1>9, <1>10, <1>13, <1>14, <1>17 DEF MutexInv

\* owner = nullptr: nobody has a lock, and nobody below is about to take one more.
LEMMA ClearOwnerInv ==
  ASSUME MutexInv, NEW c \in Actors, ClearOwner(c)
  PROVE  MutexInv'
<1>. TypeInv /\ NestOK /\ OwnerOK /\ StepsOK
  BY DEF MutexInv
<1>1. /\ c = Running /\ pc[c] = "clear" /\ owner' = NoOwner /\ Goto(c, "idle")
      /\ UNCHANGED <<current, nest, lockCount, locks>>
  BY DEF ClearOwner
<1>2. pc' \in [Actors -> LockPcs] /\ pc'[c] = "idle" /\ \A d \in Actors \ {c} : pc'[d] = pc[d]
  BY <1>1, MovedOn DEF TypeInv, LockPcs
<1>3. Levels' = Levels /\ \A k : At(k)' = At(k)
  BY <1>1, LevelsStay
<1>4. c = At(1) /\ 1 \in Levels /\ \A k \in Levels : At(k) \in Actors
  BY <1>1, OnTop, LevelFacts
<1>5. lockCount = 0
  BY <1>1, <1>4 DEF StepsOK
<1>6. Rest = 0 /\ \A d \in Actors : locks[d] = 0
  BY <1>5, NoLocks
<1>7. TypeInv'
  BY <1>1, <1>2 DEF TypeInv
<1>8. NestOK'
  BY <1>1, <1>2, NestKept
<1>9. OwnerOK'
  BY <1>1, <1>5, <1>6 DEF OwnerOK
<1>10. ASSUME NEW k \in Levels, pc[At(k)] = "again" PROVE FALSE
  <2>1. Admitted(At(k)) /\ owner # NoOwner /\ At(k) \in Actors
    BY <1>4, <1>10, AdmittedOwned DEF StepsOK
  <2>2. pc[owner] \in {"count", "clear"}
    BY <1>6, <2>1 DEF OwnerOK, TypeInv
  <2>3. At(k) \in Irqs /\ owner = current
    BY <1>10, <2>1, <2>2 DEF Admitted
  <2>4. At(Len(nest) + 1) = current /\ Len(nest) + 1 \in Levels /\ Len(nest) \in Nat
    BY LevelFacts DEF Levels
  <2>5. current # At(k)
    BY <2>3, OwnersAssumption DEF TypeInv
  <2>6. k # Len(nest) + 1 /\ k # 1
    BY <1>1, <1>4, <1>10, <2>4, <2>5
  <2>7. Len(nest) + 1 > 2
    BY <2>4, <2>6 DEF Levels
  <2>. QED  BY <2>2, <2>3, <2>4, <2>7 DEF StepsOK
<1>11. ASSUME NEW k \in Levels, pc'[At(k)] # "idle" PROVE pc'[At(k)] = pc[At(k)] /\ k # 1
  BY <1>2, <1>4, <1>11
<1>12. StepsOK'
  BY <1>1, <1>2, <1>3, <1>4, <1>10, <1>11 DEF StepsOK
<1>13. Rest' = Rest
  BY <1>1, <1>6, OwnersAssumption DEF Rest, Actors
<1>14. \E base \in [Irqs -> Nat] : CountOK(base)'
  BY <1>1, <1>13, CountKept DEF TypeInv
<1>. QED  BY <1>7, <1>8, <1>9, <1>12, <1>14 DEF MutexInv

-----------------------------------------------------------------------------
(* Handlers                                                                *)

\* The context that a handler interrupts may be about to clear the owner, but not another one.
LEMMA InterruptInv ==
  ASSUME MutexInv, NEW i \in Irqs, ~Uninterruptible, Interrupted(i), UNCHANGED lockVars
  PROVE  MutexInv'
<1>. TypeInv /\ NestOK /\ OwnerOK /\ StepsOK
  BY DEF MutexInv
<1>. DEFINE n == Len(nest)
<1>1. UNCHANGED <<current, pc, owner, lockCount, locks>>
  BY DEF Interrupted, lockVars
<1>2. nest' \in Seq(Irqs) /\ Len(nest') = n + 1 /\ At(1)' = i /\ \A k \in Levels : At(k + 1)' = At(k)
  BY Pushed
<1>3. /\ n \in Nat /\ 1 \in Levels /\ Levels = 1..n + 1 /\ At(1) = Running
      /\ At(n + 1) = current /\ \A k \in Levels : At(k) \in Actors
      /\ \A k \in 1..n : At(k) \in Irqs /\ At(k) = nest[k]
  BY LevelFacts DEF Levels
<1>4. Levels' = 1..n + 2
  BY <1>2, <1>3 DEF Levels
<1>5. \A k \in Levels' : k = 1 \/ (k - 1 \in Levels /\ At(k)' = At(k - 1))
  <2>1. \A k \in 1..n + 2 : k = 1 \/ (k - 1 \in 1..n + 1 /\ k = (k - 1) + 1)
    BY <1>3
  <2>. QED  BY <1>2, <1>3, <1>4, <2>1
<1>6. \A k \in Levels : At(k) # i
  BY SMTT(30), <1>3, OwnersAssumption DEF Interrupted, TypeInv
<1>7. pc[i] = "idle" /\ locks[i] = 0 /\ i \in Actors
  BY <1>6 DEF NestOK, Actors
<1>8. owner # i
  BY <1>7, OwnersAssumption DEF OwnerOK
<1>9. TypeInv'
  BY <1>1, <1>2 DEF TypeInv
<1>10. NestOK'
  <2>1. ASSUME NEW j \in Levels', NEW k \in Levels', At(j)' = At(k)' PROVE j = k
    <3>1. CASE j = 1 \/ k = 1
      BY <1>2, <1>5, <1>6, <2>1, <3>1
    <3>2. CASE j # 1 /\ k # 1
      <4>1. j - 1 = k - 1 /\ j \in Nat /\ k \in Nat
        BY <1>3, <1>4, <1>5, <2>1, <3>2 DEF NestOK
      <4>. QED  BY <4>1
    <3>. QED  BY <3>1, <3>2
  <2>2. ASSUME NEW h \in Irqs, \A k \in Levels' : At(k)' # h
        PROVE  pc[h] = "idle" /\ locks[h] = 0
    <3>1. \A k \in Levels : k + 1 \in Levels'
      BY <1>3, <1>4
    <3>2. \A k \in Levels : At(k) # h
      BY <1>2, <2>2, <3>1
    <3>. QED  BY <3>2 DEF NestOK
  <2>. QED  BY <1>1, <2>1, <2>2 DEF NestOK
<1>11. OwnerOK'
  BY <1>1 DEF OwnerOK, Admitted
<1>12. StepsOK'
  <2>1. ASSUME NEW k \in Levels, pc[At(k)] = "clear"
        PROVE  k = 1 /\ lockCount = 0 /\ owner \in {NoOwner, At(1)}
    <3>1. k = 1
      BY <1>3, <2>1 DEF Uninterruptible, NestOK
    <3>2. lockCount = 0 /\ (owner = NoOwner \/ Admitted(At(1)))
      BY <2>1, <3>1 DEF StepsOK
    <3>3. ASSUME At(1) \in Irqs, owner = current PROVE FALSE
      <4>1. owner # NoOwner /\ current \in Threads /\ current \in Actors
        BY <3>3, OwnersAssumption DEF TypeInv, Actors
      <4>2. locks[owner] = 0
        BY <3>2, <3>3, <4>1, NoLocks
      <4>3. pc[current] \in {"count", "clear"}
        BY <3>3, <4>1, <4>2 DEF OwnerOK
      <4>4. current # At(1)
        BY <3>3, <4>1, OwnersAssumption
      <4>5. pc[current] # "clear"
        BY <1>3, <4>1, <4>4 DEF Uninterruptible
      <4>6. n + 1 = 1
        BY <1>3, <4>3, <4>5 DEF StepsOK
      <4>. QED  BY <1>3, <4>4, <4>6
    <3>. QED  BY <3>1, <3>2, <3>3 DEF Admitted
  <2>2. ASSUME NEW k \in Levels', pc[At(k)'] = "own"
        PROVE  owner = NoOwner \/ \E j \in 1..k - 1 : owner = At(j)'
    <3>1. k - 1 \in Levels /\ At(k)' = At(k - 1)
      BY <1>2, <1>5, <1>7, <2>2
    <3>2. owner = NoOwner \/ \E j \in 1..(k - 1) - 1 : owner = At(j)
      BY <2>2, <3>1 DEF StepsOK
    <3>3. ASSUME NEW j \in 1..(k - 1) - 1, owner = At(j) PROVE \E m \in 1..k - 1 : owner = At(m)'
      <4>1. k \in 1..n + 2
        BY <1>4
      <4>2. j \in 1..n + 1 /\ j + 1 \in 1..k - 1
        BY <1>3, <4>1
      <4>3. owner = At(j + 1)'
        BY <1>2, <1>3, <3>3, <4>2
      <4>. QED  BY <4>2, <4>3
    <3>. QED  BY <3>2, <3>3
  <2>3. ASSUME NEW k \in Levels', pc[At(k)'] = "again" PROVE Admitted(At(k)')
    BY <1>2, <1>5, <1>7, <2>3 DEF StepsOK
  <2>4. ASSUME NEW k \in Levels', pc[At(k)'] = "count" PROVE FALSE
    <3>1. k - 1 \in Levels /\ pc[At(k - 1)] = "count"
      BY <1>2, <1>5, <1>7, <2>4
    <3>2. k - 1 = 1
      BY <3>1 DEF StepsOK
    <3>. QED  BY <1>3, <3>1, <3>2 DEF Uninterruptible
  <2>5. ASSUME NEW k \in Levels', pc[At(k)'] = "clear"
        PROVE  k = 2 /\ lockCount = locks[i] /\ owner \in {NoOwner, At(1), At(2)}'
    <3>1. k - 1 \in Levels /\ pc[At(k - 1)] = "clear"
      BY <1>2, <1>5, <1>7, <2>5
    <3>2. k - 1 = 1 /\ lockCount = 0 /\ owner \in {NoOwner, At(1)}
      BY <2>1, <3>1
    <3>3. k = 2
      BY <1>3, <1>4, <3>2
    <3>4. At(2)' = At(1)
      BY <1>5, <3>2, <3>3
    <3>. QED  BY <1>7, <3>2, <3>3, <3>4
  <2>6. \A d : Admitted(d)' = Admitted(d)
    BY <1>1 DEF Admitted
  <2>. QED  BY <1>1, <1>2, <1>7, <2>2, <2>3, <2>4, <2>5, <2>6 DEF StepsOK
<1>13. PICK base \in [Irqs -> Nat] : CountOK(base)
  BY DEF MutexInv
<1>14. PICK b \in [Irqs -> Nat] : b = [base EXCEPT ![i] = lockCount]
  BY DEF TypeInv
<1>15. Rest' = Rest
  BY <1>1 DEF Rest
<1>16. Below(b, 1)' = lockCount
  <2>1. nest'[1] = i
    BY <1>2, <1>3 DEF At
  <2>. QED  BY <1>2, <1>3, <1>14, <2>1 DEF Below
<1>17. ASSUME NEW k \in Levels PROVE Below(b, k + 1)' = Below(base, k)
  <2>1. CASE k = n + 1
    BY <1>2, <1>3, <1>15, <2>1 DEF Below
  <2>2. CASE k # n + 1
    <3>1. k \in 1..n /\ k + 1 # Len(nest') + 1
      <4>1. \A x, y \in Nat : x \in 1..y + 1 /\ x # y + 1 => x \in 1..y /\ x + 1 # (y + 1) + 1
        OBVIOUS
      <4>2. k \in Nat /\ n \in Nat /\ k \in 1..n + 1
        BY <1>3
      <4>. QED  BY <1>2, <2>2, <4>1, <4>2, Zenon
    <3>2. nest'[k + 1] = nest[k] /\ nest[k] \in Irqs /\ nest[k] # i
      BY <1>2, <1>3, <1>6, <3>1 DEF At
    <3>3. b[nest[k]] = base[nest[k]] /\ k # n + 1
      BY <1>14, <2>2, <3>2
    <3>4. Below(b, k + 1)' = b[nest'[k + 1]] /\ Below(base, k) = base[nest[k]]
      BY <3>1, <3>3 DEF Below
    <3>. QED  BY <3>2, <3>3, <3>4
  <2>. QED  BY <2>1, <2>2
<1>18. \A k \in Levels : Below(base, k) \in Nat
  BY BelowNat
<1>19. lockCount = locks[At(1)] + Below(base, 1) /\ locks[At(1)] \in Nat
  BY <1>3, <1>13 DEF CountOK, TypeInv
<1>20. CountOK(b)'
  <2>1. lockCount' = (locks[At(1)] + Below(b, 1))'
    BY <1>1, <1>2, <1>7, <1>16 DEF TypeInv
  <2>2. ASSUME NEW k \in 1..n + 1
        PROVE  Below(b, k)' = locks[At(k + 1)'] + Below(b, k + 1)'
    <3>1. k + 1 \in Levels' /\ At(k + 1)' = At(k) /\ Below(b, k + 1)' = Below(base, k)
      BY <1>2, <1>3, <1>4, <1>17
    <3>2. CASE k = 1
      BY <1>16, <1>19, <3>1, <3>2
    <3>3. CASE k # 1
      <4>1. k - 1 \in 1..n /\ k - 1 \in Levels /\ (k - 1) + 1 = k
        BY <1>3, <3>3
      <4>2. Below(b, k)' = Below(base, k - 1)
        BY <1>17, <4>1
      <4>3. Below(base, k - 1) = locks[At(k)] + Below(base, k)
        BY <1>13, <4>1 DEF CountOK
      <4>. QED  BY <3>1, <4>2, <4>3
    <3>. QED  BY <3>2, <3>3
  <2>3. ASSUME NEW k \in 1..n + 1, NEW j \in Levels', k < j
        PROVE  locks[At(j)'] <= Below(b, k)' /\ Rest <= Below(b, k)'
    <3>1. j - 1 \in Levels /\ At(j)' = At(j - 1)
      BY <1>3, <1>4, <1>5, <2>3
    <3>2. locks[At(j - 1)] \in Nat /\ Rest \in Nat
      BY <1>3, <3>1, BelowNat DEF TypeInv
    <3>3. CASE k = 1
      <4>1. Below(b, k)' = lockCount
        BY <1>16, <3>3
      <4>2. Rest <= Below(base, 1)
        <5>1. CASE n = 0
          BY <1>15, <3>2, <5>1 DEF Below
        <5>2. CASE n # 0
          <6>1. 1 \in 1..n /\ n + 1 \in Levels /\ 1 < n + 1
            BY <1>3, <5>2
          <6>. QED  BY <1>13, <6>1 DEF CountOK
        <5>. QED  BY <5>1, <5>2
      <4>3. j - 1 # 1 => locks[At(j - 1)] <= Below(base, 1)
        <5>1. ASSUME j - 1 # 1 PROVE 1 \in 1..n /\ 1 < j - 1
          <6>1. PICK m \in 1..n + 1 : m = j - 1
            BY <1>3, <3>1
          <6>2. m # 1
            BY <5>1, <6>1, Zenon
          <6>3. 1 \in 1..n /\ 1 < m
            BY <1>3, <6>2
          <6>. QED  BY <6>1, <6>3, Zenon
        <5>. QED  BY <1>13, <3>1, <5>1 DEF CountOK
      <4>4. Below(base, 1) \in Nat /\ lockCount = locks[At(1)] + Below(base, 1)
        BY <1>3, <1>18, <1>19
      <4>5. locks[At(j - 1)] <= lockCount
        <5>1. CASE j - 1 = 1
          BY <1>19, <4>4, <5>1
        <5>2. CASE j - 1 # 1
          BY <1>19, <3>2, <4>3, <4>4, <5>2
        <5>. QED  BY <5>1, <5>2
      <4>6. Rest <= lockCount
        BY <1>19, <3>2, <4>2, <4>4
      <4>. QED  BY <3>1, <4>1, <4>5, <4>6
    <3>4. CASE k # 1
      <4>1. k - 1 \in 1..n /\ k - 1 \in Levels /\ (k - 1) + 1 = k /\ k - 1 < j - 1
        BY <1>3, <1>4, <2>3, <3>4
      <4>2. Below(b, k)' = Below(base, k - 1)
        BY <1>17, <4>1
      <4>. QED  BY <1>13, <3>1, <4>1, <4>2 DEF CountOK
    <3>. QED  BY <3>3, <3>4
  <2>4. ASSUME NEW k \in 1..n + 1, owner = nest'[k] PROVE Below(b, k)' = 0
    <3>1. k # 1
      <4>1. 1 # Len(nest') + 1
        BY <1>2, <1>3
      <4>2. nest'[1] = At(1)'
        BY <4>1 DEF At
      <4>. QED  BY <1>2, <1>8, <2>4, <4>2
    <3>2. k - 1 \in 1..n /\ k - 1 \in Levels /\ (k - 1) + 1 = k /\ k # Len(nest') + 1
      <4>1. n \in Nat /\ Levels = 1..n + 1 /\ Len(nest') = n + 1
        BY <1>2, <1>3
      <4>. QED  BY <3>1, <4>1
    <3>3. Below(b, k)' = Below(base, k - 1) /\ At(k)' = At(k - 1)
      BY <1>2, <1>17, <3>2
    <3>4. nest'[k] = nest[k - 1]
      BY <1>3, <3>2, <3>3 DEF At
    <3>. QED  BY <1>13, <2>4, <3>2, <3>3, <3>4 DEF CountOK
  <2>. QED  BY <1>1, <1>2, <1>4, <1>15, <2>1, <2>2, <2>3, <2>4 DEF CountOK
<1>. QED  BY <1>9, <1>10, <1>11, <1>12, <1>20 DEF MutexInv

\* A handler returns without locks: the count is again that of the contexts below, and the owner
\* is what they think.
LEMMA ReturnInv ==
  ASSUME MutexInv, Returned, locks[Head(nest)] = 0, UNCHANGED lockVars
  PROVE  MutexInv'
<1>. TypeInv /\ NestOK /\ OwnerOK /\ StepsOK
  BY DEF MutexInv
<1>. DEFINE n == Len(nest)
<1>1. UNCHANGED <<current, pc, owner, lockCount, locks>>
  BY DEF Returned, lockVars
<1>2. /\ nest' \in Seq(Irqs) /\ n \in Nat \ {0} /\ Len(nest') = n - 1 /\ At(1) = Head(nest)
      /\ \A k \in 1..n : At(k)' = At(k + 1)
  BY Popped
<1>3. /\ Levels = 1..n + 1 /\ 1 \in Levels /\ (\A k \in Levels : At(k) \in Actors)
      /\ \A k \in 1..n : At(k) \in Irqs /\ At(k) = nest[k]
  BY LevelFacts DEF Levels
<1>4. Levels' = 1..n
  BY <1>2 DEF Levels
<1>5. \A k \in 1..n : k + 1 \in Levels /\ k \in Levels /\ k \in Nat
  BY <1>2, <1>3
<1>6. pc[At(1)] = "idle" /\ locks[At(1)] = 0
  BY <1>2 DEF Returned
<1>7. owner # At(1)
  BY <1>3, <1>6, OwnersAssumption DEF OwnerOK
<1>8. TypeInv'
  BY <1>1, <1>2 DEF TypeInv
<1>9. NestOK'
  <2>1. ASSUME NEW j \in 1..n, NEW k \in 1..n, At(j)' = At(k)' PROVE j = k
    <3>1. j + 1 = k + 1
      BY <1>2, <1>5, <2>1 DEF NestOK
    <3>. QED  BY <1>5, <3>1
  <2>2. ASSUME NEW h \in Irqs, \A k \in 1..n : At(k)' # h
        PROVE  pc[h] = "idle" /\ locks[h] = 0
    <3>1. CASE h = At(1)
      BY <1>6, <3>1
    <3>2. CASE h # At(1)
      <4>1. ASSUME NEW k \in Levels, k # 1 PROVE At(k) # h
        <5>1. k - 1 \in 1..n /\ (k - 1) + 1 = k
          BY <1>2, <1>3, <4>1
        <5>. QED  BY <1>2, <2>2, <5>1
      <4>. QED  BY <3>2, <4>1 DEF NestOK
    <3>. QED  BY <3>1, <3>2
  <2>. QED  BY <1>1, <1>4, <2>1, <2>2 DEF NestOK
<1>10. OwnerOK'
  BY <1>1 DEF OwnerOK, Admitted
<1>11. StepsOK'
  <2>1. ASSUME NEW k \in 1..n, pc[At(k)'] = "own"
        PROVE  owner = NoOwner \/ \E j \in 1..k - 1 : owner = At(j)'
    <3>1. owner = NoOwner \/ \E j \in 1..(k + 1) - 1 : owner = At(j)
      BY <1>2, <1>5, <2>1 DEF StepsOK
    <3>2. ASSUME NEW j \in 1..(k + 1) - 1, owner = At(j) PROVE \E m \in 1..k - 1 : owner = At(m)'
      <4>1. j # 1
        BY <1>7, <3>2
      <4>2. j - 1 \in 1..k - 1 /\ j - 1 \in 1..n /\ (j - 1) + 1 = j
        BY <1>2, <4>1
      <4>3. owner = At(j - 1)'
        BY <1>2, <3>2, <4>2
      <4>. QED  BY <4>2, <4>3
    <3>. QED  BY <3>1, <3>2
  <2>2. ASSUME NEW k \in 1..n, pc[At(k)'] = "again" PROVE Admitted(At(k)')
    BY <1>2, <1>5, <2>2 DEF StepsOK
  <2>3. ASSUME NEW k \in 1..n, pc[At(k)'] = "count" PROVE FALSE
    <3>1. k + 1 = 1
      BY <1>2, <1>5, <2>3 DEF StepsOK
    <3>. QED  BY <1>5, <3>1
  <2>4. ASSUME NEW k \in 1..n, pc[At(k)'] = "clear"
        PROVE  k = 1 /\ lockCount = 0 /\ owner \in {NoOwner, At(1)'}
    <3>1. k + 1 > 1
      BY <1>5
    <3>2. k + 1 = 2 /\ lockCount = locks[At(1)] /\ owner \in {NoOwner, At(1), At(2)}
      BY <1>2, <1>5, <2>4, <3>1 DEF StepsOK
    <3>3. k = 1
      BY <1>5, <3>2
    <3>4. At(1)' = At(2)
      BY <1>2, <3>2, <3>3
    <3>. QED  BY <1>6, <1>7, <3>2, <3>3, <3>4
  <2>5. \A d : Admitted(d)' = Admitted(d)
    BY <1>1 DEF Admitted
  <2>6. 1 \in 1..n
    BY <1>2
  <2>7. pc[At(1)'] = "clear" => lockCount = 0 /\ (owner = NoOwner \/ Admitted(At(1)'))
    BY <2>4, <2>6 DEF Admitted
  <2>8. \A k \in 1..n : k > 1 => pc[At(k)'] # "clear"
    BY <2>4
  <2>. QED  BY <1>1, <1>4, <2>1, <2>2, <2>3, <2>5, <2>7, <2>8 DEF StepsOK
<1>12. PICK base \in [Irqs -> Nat] : CountOK(base)
  BY DEF MutexInv
<1>13. Rest' = Rest
  BY <1>1 DEF Rest
<1>14. ASSUME NEW k \in 1..n
       PROVE  Below(base, k)' = Below(base, k + 1) /\ (k # n => nest'[k] = nest[k + 1])
  <2>1. CASE k = n
    BY <1>2, <1>13, <2>1 DEF Below
  <2>2. CASE k # n
    <3>1. k + 1 \in 1..n /\ k # Len(nest') + 1 /\ k + 1 # n + 1 /\ At(k)' = At(k + 1)
      BY <1>2, <2>2
    <3>2. nest'[k] = nest[k + 1]
      BY <3>1 DEF At
    <3>. QED  BY <3>1, <3>2 DEF Below
  <2>. QED  BY <2>1, <2>2
<1>15. CountOK(base)'
  <2>1. lockCount = locks[At(1)'] + Below(base, 1)'
    <3>1. 1 \in 1..n
      BY <1>2
    <3>2. lockCount = 0 + Below(base, 1) /\ Below(base, 1) \in Nat
      BY <1>3, <1>6, <1>12, BelowNat DEF CountOK
    <3>3. Below(base, 1) = locks[At(1 + 1)] + Below(base, 1 + 1)
      BY <1>12, <3>1 DEF CountOK
    <3>4. At(1)' = At(1 + 1) /\ Below(base, 1)' = Below(base, 1 + 1)
      BY <1>2, <1>14, <3>1
    <3>. QED  BY <3>2, <3>3, <3>4
  <2>2. ASSUME NEW k \in 1..n - 1
        PROVE  Below(base, k)' = locks[At(k + 1)'] + Below(base, k + 1)'
    <3>1. k \in 1..n /\ k + 1 \in 1..n
      BY <1>2
    <3>2. Below(base, k + 1) = locks[At((k + 1) + 1)] + Below(base, (k + 1) + 1)
      BY <1>12, <3>1 DEF CountOK
    <3>3. Below(base, k)' = Below(base, k + 1) /\ Below(base, k + 1)' = Below(base, (k + 1) + 1)
      BY <1>14, <3>1
    <3>. QED  BY <1>2, <3>1, <3>2, <3>3
  <2>3. ASSUME NEW k \in 1..n - 1, NEW j \in 1..n, k < j
        PROVE  locks[At(j)'] <= Below(base, k)' /\ Rest <= Below(base, k)'
    <3>1. k \in 1..n /\ k + 1 \in 1..n /\ k + 1 < j + 1
      BY <1>2, <2>3
    <3>2. locks[At(j + 1)] <= Below(base, k + 1) /\ Rest <= Below(base, k + 1)
      BY <1>5, <1>12, <3>1 DEF CountOK
    <3>. QED  BY <1>2, <1>14, <3>1, <3>2
  <2>4. ASSUME NEW k \in 1..n - 1, owner = nest'[k] PROVE Below(base, k)' = 0
    <3>1. k \in 1..n /\ k + 1 \in 1..n /\ k # n
      BY <1>2
    <3>. QED  BY <1>12, <1>14, <2>4, <3>1 DEF CountOK
  <2>. QED  BY <1>1, <1>2, <1>4, <1>13, <2>1, <2>2, <2>3, <2>4 DEF CountOK
<1>. QED  BY <1>8, <1>9, <1>10, <1>11, <1>15 DEF MutexInv

-----------------------------------------------------------------------------

LEMMA InitMutex == RInit => MutexInv
<1>. SUFFICES ASSUME RInit PROVE MutexInv
  OBVIOUS
<1>1. /\ current \in Threads /\ nest = <<>> /\ pc = [c \in Actors |-> "idle"]
      /\ owner = NoOwner /\ lockCount = 0 /\ locks = [c \in Actors |-> 0]
  BY DEF RInit, ContextsInit
<1>2. nest \in Seq(Irqs) /\ Len(nest) = 0 /\ Levels = {1} /\ 1..Len(nest) = {}
  BY <1>1, EmptySeq DEF Levels
<1>3. At(1) = current /\ current \in Actors
  BY <1>1, <1>2 DEF At, Actors
<1>4. TypeInv
  BY <1>1, <1>2 DEF TypeInv, LockPcs
<1>5. NestOK
  BY <1>1, <1>2 DEF NestOK, Actors
<1>6. OwnerOK /\ StepsOK
  BY <1>1, <1>2, <1>3 DEF OwnerOK, StepsOK
<1>7. PICK base \in [Irqs -> Nat] : base = [i \in Irqs |-> 0]
  OBVIOUS
<1>8. Below(base, 1) = 0
  BY <1>1, <1>2, OwnersAssumption DEF Below, Rest, Actors
<1>9. CountOK(base)
  BY <1>1, <1>2, <1>3, <1>8 DEF CountOK
<1>. QED  BY <1>4, <1>5, <1>6, <1>9 DEF MutexInv

LEMMA NextMutex ==
  ASSUME ~Window, MutexInv, [RNext]_rmVars
  PROVE  MutexInv'
<1>1. ASSUME NEW c \in Actors, Lock(c) PROVE MutexInv'
  BY <1>1, LockInv
<1>2. ASSUME NEW c \in Actors, TestOwner(c) PROVE MutexInv'
  BY <1>2, TestOwnerInv
<1>3. ASSUME NEW c \in Actors, SetOwner(c) PROVE MutexInv'
  BY <1>3, SetOwnerInv
<1>4. ASSUME NEW c \in Actors, SetCount(c) PROVE MutexInv'
  BY <1>4, SetCountInv
<1>5. ASSUME NEW c \in Actors, LockAgain(c) PROVE MutexInv'
  BY <1>5, LockAgainInv
<1>6. ASSUME NEW c \in Actors, CountDown(c) PROVE MutexInv'
  BY <1>6, CountDownInv
<1>7. ASSUME NEW c \in Actors, ClearOwner(c) PROVE MutexInv'
  BY <1>7, ClearOwnerInv
<1>8. ASSUME Yield({"idle"}), UNCHANGED lockVars PROVE MutexInv'
  BY <1>8, SwitchInv DEF Yield, lockVars
<1>9. ASSUME NEW i \in Irqs, ~Uninterruptible, Interrupted(i), UNCHANGED lockVars PROVE MutexInv'
  BY <1>9, InterruptInv
<1>10. ASSUME Returned, locks[Head(nest)] = 0, UNCHANGED lockVars PROVE MutexInv'
  BY <1>10, ReturnInv
<1>11. CASE UNCHANGED rmVars
  <2>1. UNCHANGED <<current, nest, pc, owner, lockCount, locks>>
    BY <1>11 DEF rmVars
  <2>2. Levels' = Levels /\ \A k : At(k)' = At(k)
    BY <2>1, LevelsStay
  <2>3. Rest' = Rest /\ \A d : Admitted(d)' = Admitted(d)
    BY <2>1 DEF Rest, Admitted
  <2>4. \A base, k : Below(base, k)' = Below(base, k)
    BY <2>1, <2>3 DEF Below
  <2>5. PICK base \in [Irqs -> Nat] : CountOK(base)
    BY DEF MutexInv
  <2>6. CountOK(base)'
    BY <2>1, <2>2, <2>3, <2>4, <2>5 DEF CountOK
  <2>7. TypeInv' /\ NestOK' /\ OwnerOK'
    BY <2>1, <2>2, <2>3 DEF MutexInv, TypeInv, NestOK, OwnerOK
  <2>8. StepsOK'
    BY <2>1, <2>2, <2>3 DEF MutexInv, StepsOK
  <2>. QED  BY <2>6, <2>7, <2>8 DEF MutexInv
<1>. QED  BY <1>1, <1>2, <1>3, <1>4, <1>5, <1>6, <1>7, <1>8, <1>9, <1>10, <1>11 DEF RNext

\* Who has locks is admitted, the owner has some or is between the two stores, the count is that
\* of all locks, and what an interrupted lock() or unlock() has tested still holds when it goes
\* on (mutex.h:65-94), unless handlers come between the stores of owner and lock_count.
THEOREM MutexInvariant == ~Window => (RSpec => []MutexInv)
<1>. SUFFICES ASSUME ~Window PROVE RSpec => []MutexInv
  OBVIOUS
<1>1. RInit => MutexInv
  BY InitMutex
<1>2. MutexInv /\ [RNext]_rmVars => MutexInv'
  BY NextMutex
<1>. QED  BY <1>1, <1>2, PTL DEF RSpec

LEMMA InvOwners == MutexInv => OwnersOnly
<1>. SUFFICES ASSUME MutexInv PROVE OwnersOnly
  OBVIOUS
<1>1. \A c \in Holders : owner = c \/ (c \in Irqs /\ owner = current)
  BY DEF MutexInv, OwnerOK, Holders, Admitted
<1>2. ASSUME \A c \in Actors : pc[c] = "idle" /\ locks[c] = 0
      PROVE  owner = NoOwner /\ lockCount = 0
  BY <1>2 DEF MutexInv, TypeInv, OwnerOK
<1>. QED  BY <1>1, <1>2 DEF OwnersOnly

\* For any threads, handlers and depth of locks: who holds a recursive_mutex is its owner, or a
\* handler that interrupts the owner, and when nobody holds or tries it, it is free.
THEOREM OwnersStayOnly == ~Window => (RSpec => []OwnersOnly)
<1>. SUFFICES ASSUME ~Window PROVE RSpec => []OwnersOnly
  OBVIOUS
<1>1. RSpec => []MutexInv
  BY MutexInvariant
<1>. QED  BY <1>1, InvOwners, PTL

=============================================================================
