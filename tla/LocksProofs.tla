---------------------------- MODULE LocksProofs -----------------------------
(***************************************************************************)
(* For every number of readers and writers: the lock excludes, no wake-up  *)
(* is lost, and the data it guards is as if reads and writes were atomic.  *)
(* For every number of callers of the spin lock, and whatever the timeouts *)
(* and the clock: no increment is lost.  For every number of uses of the   *)
(* semaphore and every initial count: permits are conserved and no permit  *)
(* is free while all who want it sleep.                                    *)
(***************************************************************************)
EXTENDS Locks, ProofLemmas

(* Who is at which control point: readers do not store. *)
Roles == \A r \in Readers : pc[r] # "storing"

(* The inductive invariant.  Exclusion is not inductive by itself: the     *)
(* predicates look at the count and the flag, so these must be known to    *)
(* tell who holds the lock.                                                *)
IInv == TypeOK /\ Roles /\ HoldersKnown /\ Exclusion /\ SleepersAreBlocked

ReadersInside == { r \in Readers : Holding(r) }
-----------------------------------------------------------------------------
(* The count of the readers inside is a natural number, bounded by their   *)
(* number, and zero when there is none.                                    *)
LEMMA CountOfReaders ==
    ASSUME NEW R \in SUBSET Readers
    PROVE  /\ IsFiniteSet(R)
           /\ Cardinality(R) \in Nat
           /\ Cardinality(R) <= Cardinality(Readers)
           /\ Cardinality(Readers) \in Nat
           /\ Cardinality(R) = 0 <=> R = {}
<1>1. IsFiniteSet(Readers)
    BY ReadWriteLockAssumption
<1>2. IsFiniteSet(R) /\ Cardinality(R) <= Cardinality(Readers)
    BY <1>1, FS_Subset
<1> QED BY <1>1, <1>2, FS_CardinalityType, FS_EmptySet

(* What a step that moves one thread does to the control points. *)
LEMMA OneMoves ==
    ASSUME TypeOK, NEW t \in Threads, NEW q \in Points, pc' = Move(pc, t, q)
    PROVE  /\ pc' \in [Threads -> Points]
           /\ pc'[t] = q
           /\ \A u \in Threads \ {t} : pc'[u] = pc[u]
    BY DEF TypeOK, Move

(* notify_all lets nobody sleep, and moves nobody else. *)
LEMMA AllAwake ==
    ASSUME NEW f \in [Threads -> Points], NEW g,
           g = NotifyAll(f, "asleep", "awake")
    PROVE  /\ g \in [Threads -> Points]
           /\ \A t \in Threads :
                 /\ g[t] # "asleep"
                 /\ f[t] # "asleep" => g[t] = f[t]
                 /\ f[t] = "asleep" => g[t] = "awake"
    BY DEF NotifyAll, Points

(* A step that moves no thread into or out of the lock keeps all that is   *)
(* known about who holds it.                                               *)
LEMMA HoldersStay ==
    ASSUME IInv, pc' \in [Threads -> Points],
           \A t \in Threads : Holding(t)' <=> Holding(t),
           UNCHANGED <<readers_, writer_>>
    PROVE  HoldersKnown' /\ Exclusion'
<1>1. ReadersInside' = ReadersInside
    BY DEF ReadersInside, Threads
<1>2. HoldersKnown'
    BY <1>1 DEF IInv, HoldersKnown, ReadersInside, Threads
<1>3. Exclusion'
    BY DEF IInv, Exclusion, Threads
<1> QED BY <1>2, <1>3
-----------------------------------------------------------------------------
(* lock_read: the reader is let in, or sleeps while a writer is inside.    *)
LEMMA LockReadStep ==
    ASSUME IInv, NEW r \in Readers, lock_read(r)
    PROVE  IInv'
<1>1. r \in Threads /\ ~Holding(r) /\ {"inside", "asleep"} \subseteq Points
    BY DEF lock_read, Calls, Holding, Threads, Points
<1>2. UNCHANGED <<writer_, data>>
    BY DEF lock_read
<1>3. CASE CanRead /\ readers_' = readers_ + 1 /\ pc' = Move(pc, r, "inside")
    <2>1. /\ pc' \in [Threads -> Points] /\ pc'[r] = "inside"
          /\ \A u \in Threads \ {r} : pc'[u] = pc[u]
        BY <1>1, <1>3, OneMoves DEF IInv
    <2>2. ReadersInside' = ReadersInside \cup {r} /\ r \notin ReadersInside
        BY <1>1, <2>1 DEF ReadersInside, Holding, Threads
    <2>3. /\ Cardinality(ReadersInside') = Cardinality(ReadersInside) + 1
          /\ Cardinality(ReadersInside) \in Nat
          /\ Cardinality(ReadersInside') <= Cardinality(Readers)
          /\ Cardinality(Readers) \in Nat
        <3>1. ReadersInside \in SUBSET Readers /\ ReadersInside' \in SUBSET Readers
            BY DEF ReadersInside
        <3> QED BY <2>2, <3>1, CountOfReaders, FS_AddElement
    <2>4. readers_ = Cardinality(ReadersInside) /\ ~writer_
          /\ \A w \in Writers : ~Holding(w)
        BY <1>3 DEF IInv, HoldersKnown, CanRead, ReadersInside
    <2>5. \A w \in Writers : ~Holding(w)'
        BY <2>1, <2>4, ReadWriteLockAssumption DEF Holding, Threads
    <2>6. TypeOK'
        BY <1>2, <1>3, <2>1, <2>3, <2>4 DEF IInv, TypeOK, data
    <2>7. HoldersKnown'
        BY <1>2, <1>3, <2>3, <2>4, <2>5 DEF HoldersKnown, ReadersInside
    <2>8. Exclusion'
        BY <2>5 DEF Exclusion
    <2>9. Roles' /\ SleepersAreBlocked'
        BY <1>2, <1>3, <2>1, <2>3, <2>4
        DEF IInv, Roles, SleepersAreBlocked, CanRead, CanWrite, Threads
    <2> QED BY <2>6, <2>7, <2>8, <2>9 DEF IInv
<1>4. CASE ~CanRead /\ pc' = Move(pc, r, "asleep") /\ UNCHANGED readers_
    <2>1. /\ pc' \in [Threads -> Points] /\ pc'[r] = "asleep"
          /\ \A u \in Threads \ {r} : pc'[u] = pc[u]
        BY <1>1, <1>4, OneMoves DEF IInv
    <2>2. HoldersKnown' /\ Exclusion'
        <3>1. \A t \in Threads : Holding(t)' <=> Holding(t)
            BY <1>1, <2>1 DEF Holding
        <3> QED BY <1>2, <1>4, <2>1, <3>1, HoldersStay
    <2>3. TypeOK'
        BY <1>2, <1>4, <2>1 DEF IInv, TypeOK, data
    <2>4. Roles' /\ SleepersAreBlocked'
        BY <1>2, <1>4, <2>1, ReadWriteLockAssumption
        DEF IInv, Roles, SleepersAreBlocked, CanRead, CanWrite, Threads
    <2> QED BY <2>2, <2>3, <2>4 DEF IInv
<1> QED BY <1>3, <1>4 DEF lock_read

(* lock_write: the writer is let in alone, or sleeps.                      *)
LEMMA LockWriteStep ==
    ASSUME IInv, NEW w \in Writers, lock_write(w)
    PROVE  IInv'
<1>1. w \in Threads /\ ~Holding(w) /\ {"inside", "asleep"} \subseteq Points
    BY DEF lock_write, Calls, Holding, Threads, Points
<1>2. UNCHANGED <<readers_, data>>
    BY DEF lock_write
<1>3. CASE CanWrite /\ writer_' = TRUE /\ pc' = Move(pc, w, "inside")
    <2>1. /\ pc' \in [Threads -> Points] /\ pc'[w] = "inside"
          /\ \A u \in Threads \ {w} : pc'[u] = pc[u]
        BY <1>1, <1>3, OneMoves DEF IInv
    <2>2. \A t \in Threads : ~Holding(t)
        <3>1. ReadersInside = {}
            BY <1>3, CountOfReaders
            DEF IInv, HoldersKnown, CanWrite, ReadersInside
        <3>2. \A v \in Writers : ~Holding(v)
            BY <1>3 DEF IInv, HoldersKnown, CanWrite
        <3> QED BY <3>1, <3>2 DEF ReadersInside, Threads
    <2>3. Holding(w)' /\ \A t \in Threads \ {w} : ~Holding(t)'
        BY <2>1, <2>2 DEF Holding
    <2>4. Exclusion'
        BY <2>3 DEF Exclusion, Threads
    <2>5. HoldersKnown'
        <3>1. ReadersInside' = ReadersInside
            BY <2>2, <2>3, ReadWriteLockAssumption DEF ReadersInside, Threads
        <3>2. readers_' = Cardinality(ReadersInside')
            BY <1>2, <3>1 DEF IInv, HoldersKnown, ReadersInside
        <3> QED BY <1>3, <2>3, <3>2 DEF HoldersKnown, ReadersInside, Threads
    <2>6. TypeOK'
        BY <1>2, <1>3, <2>1 DEF IInv, TypeOK, data
    <2>7. Roles' /\ SleepersAreBlocked'
        BY <1>2, <1>3, <2>1, ReadWriteLockAssumption
        DEF IInv, Roles, SleepersAreBlocked, CanRead, CanWrite, Threads
    <2> QED BY <2>4, <2>5, <2>6, <2>7 DEF IInv
<1>4. CASE ~CanWrite /\ pc' = Move(pc, w, "asleep") /\ UNCHANGED writer_
    <2>1. /\ pc' \in [Threads -> Points] /\ pc'[w] = "asleep"
          /\ \A u \in Threads \ {w} : pc'[u] = pc[u]
        BY <1>1, <1>4, OneMoves DEF IInv
    <2>2. HoldersKnown' /\ Exclusion'
        <3>1. \A t \in Threads : Holding(t)' <=> Holding(t)
            BY <1>1, <2>1 DEF Holding
        <3> QED BY <1>2, <1>4, <2>1, <3>1, HoldersStay
    <2>3. TypeOK'
        BY <1>2, <1>4, <2>1 DEF IInv, TypeOK, data
    <2>4. Roles' /\ SleepersAreBlocked'
        BY <1>2, <1>4, <2>1, ReadWriteLockAssumption
        DEF IInv, Roles, SleepersAreBlocked, CanRead, CanWrite, Threads
    <2> QED BY <2>2, <2>3, <2>4 DEF IInv
<1> QED BY <1>3, <1>4 DEF lock_write

(* unlock_read: the last reader leaves no sleeper behind; before it, those *)
(* who sleep have another reader or a writer in their way.                 *)
LEMMA UnlockReadStep ==
    ASSUME IInv, NEW r \in Readers, unlock_read(r)
    PROVE  IInv'
<1> DEFINE left == Move(pc, r, "done")
<1>1. /\ r \in Threads /\ Holding(r) /\ "done" \in Points
      /\ pc \in [Threads -> Points] /\ pc[r] = "leaving"
    BY DEF unlock_read, Holding, Threads, Points, IInv, TypeOK
<1>2. UNCHANGED <<writer_, data>> /\ readers_' = readers_ - 1
    BY DEF unlock_read
<1>3. /\ left \in [Threads -> Points] /\ left[r] = "done"
      /\ \A u \in Threads \ {r} : left[u] = pc[u]
    BY <1>1 DEF Move
<1>4. /\ pc' \in [Threads -> Points] /\ pc'[r] = "done"
      /\ \A u \in Threads \ {r} :
            /\ pc'[u] = "asleep" => pc[u] = "asleep" /\ readers_' # 0
            /\ pc[u] \notin {"asleep", "awake"} => pc'[u] = pc[u]
            /\ pc[u] \in {"asleep", "awake"} => pc'[u] \in {"asleep", "awake"}
    <2>1. CASE readers_' = 0 /\ pc' = NotifyAll(left, "asleep", "awake")
        BY <1>1, <1>3, <2>1, AllAwake
    <2>2. CASE readers_' # 0 /\ pc' = left
        BY <2>2, <1>3
    <2> QED BY <2>1, <2>2 DEF unlock_read
<1>5. /\ ~Holding(r)'
      /\ \A u \in Threads \ {r} : Holding(u)' <=> Holding(u)
    BY <1>1, <1>4 DEF Holding
<1>6. ReadersInside' = ReadersInside \ {r} /\ r \in ReadersInside
    BY <1>1, <1>5 DEF ReadersInside, Threads
<1>7. /\ Cardinality(ReadersInside') = Cardinality(ReadersInside) - 1
      /\ Cardinality(ReadersInside') \in Nat
      /\ Cardinality(ReadersInside') <= Cardinality(Readers)
      /\ Cardinality(Readers) \in Nat
    <2>1. ReadersInside \in SUBSET Readers /\ ReadersInside' \in SUBSET Readers
        BY DEF ReadersInside
    <2> QED BY <1>6, <2>1, CountOfReaders, FS_RemoveElement
<1>8. /\ readers_' = Cardinality(ReadersInside')
      /\ ~writer_ /\ \A w \in Writers : ~Holding(w)
    BY <1>1, <1>2, <1>7, ReadWriteLockAssumption
    DEF IInv, HoldersKnown, Exclusion, ReadersInside, Threads
<1>9. \A w \in Writers : ~Holding(w)'
    BY <1>5, <1>8, ReadWriteLockAssumption DEF Threads
<1>10. TypeOK'
    BY <1>2, <1>4, <1>7, <1>8 DEF IInv, TypeOK, data
<1>11. HoldersKnown' /\ Exclusion'
    BY <1>2, <1>8, <1>9 DEF HoldersKnown, Exclusion, ReadersInside
<1>12. Roles'
    BY <1>1, <1>4 DEF IInv, Roles, Threads, TypeOK
<1>13. SleepersAreBlocked'
    BY <1>2, <1>4, <1>8 DEF IInv, SleepersAreBlocked, CanRead, CanWrite, Threads
<1> QED BY <1>10, <1>11, <1>12, <1>13 DEF IInv

(* unlock_write: nobody was inside beside the writer, and nobody sleeps.   *)
LEMMA UnlockWriteStep ==
    ASSUME IInv, NEW w \in Writers, unlock_write(w)
    PROVE  IInv'
<1> DEFINE left == Move(pc, w, "done")
<1>1. /\ w \in Threads /\ Holding(w) /\ "done" \in Points
      /\ pc \in [Threads -> Points] /\ pc[w] = "leaving"
    BY DEF unlock_write, Holding, Threads, Points, IInv, TypeOK
<1>2. UNCHANGED <<readers_, data>> /\ writer_' = FALSE
    BY DEF unlock_write
<1>3. /\ left \in [Threads -> Points] /\ left[w] = "done"
      /\ \A u \in Threads \ {w} : left[u] = pc[u]
    BY <1>1 DEF Move
<1>4. /\ pc' \in [Threads -> Points] /\ pc'[w] = "done"
      /\ \A u \in Threads \ {w} :
            /\ pc'[u] # "asleep"
            /\ pc[u] # "asleep" => pc'[u] = pc[u]
            /\ pc[u] = "asleep" => pc'[u] = "awake"
    BY <1>1, <1>3, AllAwake DEF unlock_write
<1>5. \A u \in Threads : ~Holding(u)'
    <2>1. \A u \in Threads \ {w} : ~Holding(u)
        BY <1>1 DEF IInv, Exclusion
    <2> QED BY <1>1, <1>4, <2>1 DEF Holding
<1>6. HoldersKnown' /\ Exclusion'
    <2>1. ReadersInside' = ReadersInside
        BY <1>1, <1>5, ReadWriteLockAssumption
        DEF ReadersInside, Threads, IInv, Exclusion
    <2> QED BY <1>2, <1>5, <2>1
            DEF IInv, HoldersKnown, Exclusion, ReadersInside, Threads
<1>7. TypeOK'
    BY <1>2, <1>4 DEF IInv, TypeOK, data
<1>8. Roles' /\ SleepersAreBlocked'
    BY <1>1, <1>4 DEF IInv, Roles, SleepersAreBlocked, Threads
<1> QED BY <1>6, <1>7, <1>8 DEF IInv

(* A thread that goes on inside the lock, or leaves cv_, changes nothing   *)
(* the lock looks at.                                                      *)
LEMMA InnerStep ==
    ASSUME IInv, NEW t \in Threads, NEW q \in Points, pc' = Move(pc, t, q),
           UNCHANGED <<readers_, writer_>>,
           q \in {"storing", "leaving"} <=> Holding(t), q \in {"storing", "leaving", "awake"},
           q = "storing" => t \in Writers
    PROVE  /\ pc' \in [Threads -> Points]
           /\ Roles' /\ HoldersKnown' /\ Exclusion' /\ SleepersAreBlocked'
<1>1. /\ pc' \in [Threads -> Points] /\ pc'[t] = q
      /\ \A u \in Threads \ {t} : pc'[u] = pc[u]
    BY OneMoves DEF IInv
<1>2. \A u \in Threads : Holding(u)' <=> Holding(u)
    BY <1>1 DEF Holding
<1>3. HoldersKnown' /\ Exclusion'
    BY <1>1, <1>2, HoldersStay
<1>4. Roles' /\ SleepersAreBlocked'
    BY <1>1, ReadWriteLockAssumption
    DEF IInv, Roles, SleepersAreBlocked, CanRead, CanWrite, Threads
<1> QED BY <1>1, <1>3, <1>4

(* The threads of test_manual_rwlock outside the lock's own methods.       *)
LEMMA DataStep ==
    ASSUME IInv,
           \/ \E r \in Readers : Read(r)
           \/ \E w \in Writers : BeginStore(w) \/ EndStore(w)
           \/ \E t \in Threads : SpuriousWakeup(t)
    PROVE  IInv'
<1> USE DEF Points, Threads, Holding
<1>1. ASSUME NEW r \in Readers, Read(r) PROVE IInv'
    <2>1. pc' \in [Threads -> Points] /\ Roles' /\ HoldersKnown' /\ Exclusion'
          /\ SleepersAreBlocked'
        BY <1>1, InnerStep DEF Read
    <2> QED BY <1>1, <2>1 DEF Read, IInv, TypeOK
<1>2. ASSUME NEW w \in Writers, BeginStore(w) PROVE IInv'
    <2>1. pc' \in [Threads -> Points] /\ Roles' /\ HoldersKnown' /\ Exclusion'
          /\ SleepersAreBlocked'
        BY <1>2, InnerStep DEF BeginStore
    <2> QED BY <1>2, <2>1 DEF BeginStore, IInv, TypeOK, data
<1>3. ASSUME NEW w \in Writers, EndStore(w) PROVE IInv'
    <2>1. pc' \in [Threads -> Points] /\ Roles' /\ HoldersKnown' /\ Exclusion'
          /\ SleepersAreBlocked'
        BY <1>3, InnerStep DEF EndStore
    <2> QED BY <1>3, <2>1 DEF EndStore, IInv, TypeOK
<1>4. ASSUME NEW t \in Threads, SpuriousWakeup(t) PROVE IInv'
    <2>1. pc' \in [Threads -> Points] /\ Roles' /\ HoldersKnown' /\ Exclusion'
          /\ SleepersAreBlocked'
        BY <1>4, InnerStep DEF SpuriousWakeup
    <2> QED BY <1>4, <2>1 DEF SpuriousWakeup, IInv, TypeOK, data
<1> QED BY <1>1, <1>2, <1>3, <1>4

(* A lock nobody holds and nobody waits for. *)
LEMMA Initially == Init => IInv
<1> SUFFICES ASSUME Init PROVE IInv
    OBVIOUS
<1>1. ReadersInside = {} /\ \A t \in Threads : ~Holding(t) /\ pc[t] = "idle"
    BY DEF Init, ReadersInside, Holding, Threads
<1>2. Cardinality(ReadersInside) = 0 /\ Cardinality(Readers) \in Nat
    <2>1. ReadersInside \in SUBSET Readers
        BY DEF ReadersInside
    <2> QED BY <1>1, <2>1, CountOfReaders
<1>3. TypeOK
    <2>1. readers_ \in 0 .. Cardinality(Readers)
        BY <1>2 DEF Init
    <2>2. pc \in [Threads -> Points]
        BY DEF Init, Points
    <2>3. seen \in [Readers -> Writers \cup {"initial", "torn", "nothing"}]
        BY DEF Init
    <2> QED BY <2>1, <2>2, <2>3 DEF Init, TypeOK
<1>4. HoldersKnown /\ Exclusion
    BY <1>1, <1>2 DEF Init, HoldersKnown, Exclusion, ReadersInside, Threads
<1>5. Roles /\ SleepersAreBlocked
    BY <1>1 DEF Roles, SleepersAreBlocked, Threads
<1> QED BY <1>3, <1>4, <1>5 DEF IInv

(* Every method, wake-up and access of the datum keeps the invariant. *)
LEMMA Preserved == IInv /\ [Next]_vars => IInv'
<1> SUFFICES ASSUME IInv, [Next]_vars PROVE IInv'
    OBVIOUS
<1>1. ASSUME NEW r \in Readers, Reader(r) PROVE IInv'
    BY <1>1, LockReadStep, UnlockReadStep, DataStep DEF Reader
<1>2. ASSUME NEW w \in Writers, Writer(w) PROVE IInv'
    BY <1>2, LockWriteStep, UnlockWriteStep, DataStep DEF Writer
<1>3. ASSUME NEW t \in Threads, SpuriousWakeup(t) PROVE IInv'
    BY <1>3, DataStep
<1>4. CASE UNCHANGED vars
    BY <1>4 DEF vars, data, IInv, TypeOK, Roles, HoldersKnown, Exclusion,
                SleepersAreBlocked, CanRead, CanWrite, Holding
<1> QED BY <1>1, <1>2, <1>3, <1>4 DEF Next, Finished

(* A writer that holds the lock is alone with it, in every behaviour of    *)
(* the lock, fair or not.                                                  *)
THEOREM WriterStaysAlone == Spec => []WriterAlone
<1>1. IInv => WriterAlone
    BY DEF IInv, WriterAlone
<1> QED BY <1>1, Initially, Preserved, PTL DEF Spec

(* No wake-up is lost on the condition variable readers and writers share. *)
THEOREM NoSleeperForgotten == Spec => []SleepersAreBlocked
<1>1. IInv => SleepersAreBlocked
    BY DEF IInv
<1> QED BY <1>1, Initially, Preserved, PTL DEF Spec
-----------------------------------------------------------------------------
(* The refinement: the lock's methods are steps nobody sees, a read is a   *)
(* read of data_ and the end of a store is a write of it.                  *)
Effective == { t \in Threads : pc[t] \in {"leaving", "done"} }

(* A step that brings no thread past its access of the datum. *)
LEMMA Unseen ==
    ASSUME UNCHANGED data,
           \A t \in Threads :
               pc'[t] \in {"leaving", "done"} <=> pc[t] \in {"leaving", "done"}
    PROVE  UNCHANGED ThreadSafe!vars
    BY DEF ThreadSafe!vars, data

(* notify_all as the datum sees it. *)
LEMMA LeavingUnseen ==
    ASSUME TypeOK, NEW t \in Threads, pc[t] = "leaving",
           UNCHANGED data,
           \/ pc' = Move(pc, t, "done")
           \/ pc' = NotifyAll(Move(pc, t, "done"), "asleep", "awake")
    PROVE  UNCHANGED ThreadSafe!vars
<1> DEFINE left == Move(pc, t, "done")
<1>1. /\ left \in [Threads -> Points] /\ left[t] = "done"
      /\ \A u \in Threads \ {t} : left[u] = pc[u]
    BY DEF Move, TypeOK, Points
<1>2. CASE pc' = left
    BY <1>1, <1>2, Unseen
<1>3. CASE pc' = NotifyAll(left, "asleep", "awake")
    <2>1. \A u \in Threads :
              /\ left[u] # "asleep" => pc'[u] = left[u]
              /\ left[u] = "asleep" => pc'[u] = "awake"
        BY <1>1, <1>3, AllAwake
    <2>2. \A u \in Threads :
              pc'[u] \in {"leaving", "done"} <=> pc[u] \in {"leaving", "done"}
        BY <1>1, <2>1
    <2> QED BY <2>2, Unseen
<1> QED BY <1>2, <1>3

(* Every step is a step of ThreadSafeData or is not seen by it. *)
LEMMA StepRefines ==
    ASSUME IInv, [Next]_vars
    PROVE  [ThreadSafe!Next]_(ThreadSafe!vars)
<1> USE DEF IInv
<1>1. ASSUME NEW r \in Readers, Read(r) PROVE ThreadSafe!Next
    <2>1. r \in Threads /\ pc[r] = "inside" /\ pc' = Move(pc, r, "leaving")
        BY <1>1 DEF Read, Threads
    <2>2. At(pc, "storing") = {}
        BY <2>1, ReadWriteLockAssumption
        DEF At, TypeOK, Roles, Exclusion, Holding, Threads
    <2>3. Effective' = Effective \cup {r} /\ r \notin Effective
        BY <2>1 DEF Effective, Move, TypeOK
    <2>4. ThreadSafe!read(r)
        BY <1>1, <2>2, <2>3 DEF Read, ThreadSafe!read, Effective
    <2> QED BY <2>4 DEF ThreadSafe!Next
<1>2. ASSUME NEW w \in Writers, EndStore(w) PROVE ThreadSafe!Next
    <2>1. w \in Threads /\ pc[w] = "storing" /\ pc' = Move(pc, w, "leaving")
        BY <1>2 DEF EndStore, Threads
    <2>2. At(pc, "storing") = {w}
        BY <2>1, ReadWriteLockAssumption
        DEF At, TypeOK, Roles, Exclusion, Holding, Threads
    <2>3. Effective' = Effective \cup {w} /\ w \notin Effective
        BY <2>1 DEF Effective, Move, TypeOK
    <2>4. ThreadSafe!write(w)
        BY <1>2, <2>2, <2>3 DEF EndStore, ThreadSafe!write, Effective
    <2> QED BY <2>4 DEF ThreadSafe!Next
<1>3. ASSUME NEW r \in Readers, lock_read(r) PROVE UNCHANGED ThreadSafe!vars
    BY <1>3, Unseen DEF lock_read, Calls, Move, TypeOK, Threads
<1>4. ASSUME NEW w \in Writers, lock_write(w) PROVE UNCHANGED ThreadSafe!vars
    BY <1>4, Unseen DEF lock_write, Calls, Move, TypeOK, Threads
<1>5. ASSUME NEW r \in Readers, unlock_read(r) PROVE UNCHANGED ThreadSafe!vars
    BY <1>5, LeavingUnseen DEF unlock_read, Threads
<1>6. ASSUME NEW w \in Writers, unlock_write(w) PROVE UNCHANGED ThreadSafe!vars
    BY <1>6, LeavingUnseen DEF unlock_write, Threads
<1>7. ASSUME NEW w \in Writers, BeginStore(w) PROVE UNCHANGED ThreadSafe!vars
    BY <1>7, Unseen DEF BeginStore, Move, TypeOK, Threads
<1>8. ASSUME NEW t \in Threads, SpuriousWakeup(t) PROVE UNCHANGED ThreadSafe!vars
    BY <1>8, Unseen DEF SpuriousWakeup, Move, TypeOK
<1>9. CASE UNCHANGED vars
    BY <1>9 DEF vars, data, ThreadSafe!vars
<1> QED BY <1>1, <1>2, <1>3, <1>4, <1>5, <1>6, <1>7, <1>8, <1>9
        DEF Next, Reader, Writer, Finished

(* Guarded by this lock, shared_data behaves as data guarded by            *)
(* std::shared_mutex: reads and writes are atomic, and no torn value is    *)
(* ever seen or left.                                                      *)
THEOREM LockImplementsThreadSafeData == Spec => ImplementsThreadSafeData
<1>1. Init => ThreadSafe!Init
    BY DEF Init, ThreadSafe!Init
<1> QED BY <1>1, Initially, Preserved, StepRefines, PTL
        DEF Spec, ImplementsThreadSafeData, ThreadSafe!Spec
-----------------------------------------------------------------------------
(* The spin lock.  Who is between the test_and_set that found the flag     *)
(* clear and unlock, and whose increment is stored.                        *)
SpinInside == { t \in Callers : spin_pc[t] \in {"inside", "loading", "leaving"} }
Stored == { t \in Callers : spin_pc[t] \in {"leaving", "done"} }

(* The inductive invariant.  That there is one caller inside at most is    *)
(* not enough for the count: what the one that is about to store has       *)
(* loaded must still be the value of shared_data.                          *)
OneInside == /\ \A t, u \in SpinInside : t = u
             /\ flag <=> SpinInside # {}
LoadedIsCurrent == \A t \in Callers : spin_pc[t] = "loading" => loaded[t] = spin_data
Counted == spin_data = Cardinality(Stored)

SpinInv == Spin!TypeOK /\ OneInside /\ LoadedIsCurrent /\ Counted

(* A caller that moves; the others stay. *)
LEMMA CallerMoves ==
    ASSUME Spin!TypeOK, NEW t \in Callers, NEW p \in Spin!Points, NEW q \in Spin!Points,
           Spin!Goes(t, p, q)
    PROVE  /\ spin_pc[t] = p /\ spin_pc'[t] = q
           /\ \A u \in Callers \ {t} : spin_pc'[u] = spin_pc[u]
           /\ spin_pc' \in [Callers -> Spin!Points]
    BY DEF Spin!TypeOK, Spin!Goes

(* Where nobody passes one of the lines that count, what is known stays.   *)
LEMMA OutsideStep ==
    ASSUME SpinInv, Spin!TypeOK', NEW t \in Callers,
           spin_pc[t] \notin {"inside", "loading", "leaving", "done"},
           spin_pc'[t] \notin {"inside", "loading", "leaving", "done"},
           \A u \in Callers \ {t} : spin_pc'[u] = spin_pc[u],
           UNCHANGED <<flag, spin_data, loaded>>
    PROVE  SpinInv'
<1>1. SpinInside' = SpinInside /\ Stored' = Stored
    BY DEF SpinInside, Stored
<1>2. OneInside'
    BY <1>1 DEF SpinInv, OneInside
<1>3. LoadedIsCurrent'
    BY DEF SpinInv, LoadedIsCurrent
<1>4. Counted'
    BY <1>1 DEF SpinInv, Counted
<1> QED BY <1>2, <1>3, <1>4 DEF SpinInv

(* The call begins, or the deadline has passed or not. *)
LEMMA OutsideSteps ==
    ASSUME SpinInv, NEW t \in Callers,
           \/ Spin!lock(t)
           \/ \E d \in Timeouts : Spin!try_lock_for(t, d)
           \/ Spin!Look(t)
    PROVE  SpinInv'
<1>0. Spin!TypeOK
    BY DEF SpinInv
<1>1. CASE Spin!lock(t)
    <2>1. Spin!Goes(t, "idle", "testing") /\ UNCHANGED <<flag, now, end, spin_data, loaded>>
        BY <1>1 DEF Spin!lock
    <2>2. /\ spin_pc[t] = "idle" /\ spin_pc'[t] = "testing"
          /\ \A u \in Callers \ {t} : spin_pc'[u] = spin_pc[u]
          /\ spin_pc' \in [Callers -> Spin!Points]
        BY <1>0, <2>1, CallerMoves DEF Spin!Points
    <2>3. Spin!TypeOK'
        BY <1>0, <2>1, <2>2 DEF Spin!TypeOK
    <2> QED BY <2>1, <2>2, <2>3, OutsideStep
<1>2. ASSUME NEW d \in Timeouts, Spin!try_lock_for(t, d) PROVE SpinInv'
    <2>1. /\ Spin!Goes(t, "idle", "looking") /\ UNCHANGED <<flag, now, spin_data, loaded>>
          /\ now + d <= MaxTime /\ end' = [end EXCEPT ![t] = now + d]
        BY <1>2 DEF Spin!try_lock_for
    <2>2. /\ spin_pc[t] = "idle" /\ spin_pc'[t] = "looking"
          /\ \A u \in Callers \ {t} : spin_pc'[u] = spin_pc[u]
          /\ spin_pc' \in [Callers -> Spin!Points]
        BY <1>0, <2>1, CallerMoves DEF Spin!Points
    <2>3. now + d \in 0 .. MaxTime + 1
        BY <1>0, <2>1, LocksAssumption DEF Spin!TypeOK
    <2>4. end' \in [Callers -> 0 .. MaxTime + 1]
        BY <1>0, <2>1, <2>3 DEF Spin!TypeOK, Spin!Never
    <2>5. Spin!TypeOK'
        BY <1>0, <2>1, <2>2, <2>4 DEF Spin!TypeOK, Spin!Never
    <2> QED BY <2>1, <2>2, <2>5, OutsideStep
<1>3. CASE Spin!Look(t)
    <2> DEFINE to == IF now < end[t] THEN "testing" ELSE "refused"
    <2>1. Spin!Goes(t, "looking", to) /\ UNCHANGED <<flag, now, end, spin_data, loaded>>
        BY <1>3 DEF Spin!Look
    <2>2. to \in {"testing", "refused"}
        OBVIOUS
    <2> HIDE DEF to
    <2>3. /\ spin_pc[t] = "looking" /\ spin_pc'[t] = to
          /\ \A u \in Callers \ {t} : spin_pc'[u] = spin_pc[u]
          /\ spin_pc' \in [Callers -> Spin!Points]
        BY <1>0, <2>1, <2>2, CallerMoves DEF Spin!Points
    <2>4. Spin!TypeOK'
        BY <1>0, <2>1, <2>3 DEF Spin!TypeOK
    <2> QED BY <2>1, <2>2, <2>3, <2>4, OutsideStep
<1> QED BY <1>1, <1>2, <1>3

(* test_and_set lets a caller in only when there was nobody inside.        *)
LEMMA TestAndSetStep ==
    ASSUME SpinInv, NEW t \in Callers, Spin!test_and_set(t)
    PROVE  SpinInv'
<1>0. Spin!TypeOK
    BY DEF SpinInv
<1> DEFINE to == IF ~flag THEN "inside"
                 ELSE IF end[t] = Spin!Never THEN "testing" ELSE "looking"
<1>1. /\ Spin!Goes(t, "testing", to) /\ flag' = TRUE
      /\ UNCHANGED <<now, end, spin_data, loaded>>
    BY DEF Spin!test_and_set
<1>2. /\ flag => to \in {"testing", "looking"}
      /\ ~flag => to = "inside"
      /\ to \in Spin!Points /\ "testing" \in Spin!Points
    BY DEF Spin!Points
<1> HIDE DEF to
<1>3. /\ spin_pc[t] = "testing" /\ spin_pc'[t] = to
      /\ \A u \in Callers \ {t} : spin_pc'[u] = spin_pc[u]
      /\ spin_pc' \in [Callers -> Spin!Points]
    BY <1>0, <1>1, <1>2, CallerMoves
<1>4. Spin!TypeOK'
    BY <1>0, <1>1, <1>3 DEF Spin!TypeOK
<1>5. CASE flag
    BY <1>1, <1>2, <1>3, <1>4, <1>5, OutsideStep
<1>6. CASE ~flag
    <2>1. SpinInside = {} /\ SpinInside' = {t} /\ Stored' = Stored
        BY <1>2, <1>3, <1>6 DEF SpinInv, OneInside, SpinInside, Stored
    <2>2. OneInside'
        BY <1>1, <2>1 DEF OneInside
    <2>3. LoadedIsCurrent'
        BY <1>1, <1>2, <1>3, <1>6 DEF SpinInv, LoadedIsCurrent
    <2>4. Counted'
        BY <1>1, <2>1 DEF SpinInv, Counted
    <2> QED BY <1>4, <2>2, <2>3, <2>4 DEF SpinInv
<1> QED BY <1>5, <1>6

(* ++shared_data: the load and the store are the holder's, so that nobody  *)
(* else has loaded the value in between.                                   *)
LEMMA IncrementSteps ==
    ASSUME SpinInv, NEW t \in Callers, Spin!Load(t) \/ Spin!Store(t)
    PROVE  SpinInv'
<1>0. Spin!TypeOK
    BY DEF SpinInv
<1>1. CASE Spin!Load(t)
    <2>1. /\ Spin!Goes(t, "inside", "loading") /\ UNCHANGED <<flag, now, end, spin_data>>
          /\ loaded' = [loaded EXCEPT ![t] = spin_data]
        BY <1>1 DEF Spin!Load
    <2>2. /\ spin_pc[t] = "inside" /\ spin_pc'[t] = "loading"
          /\ \A u \in Callers \ {t} : spin_pc'[u] = spin_pc[u]
          /\ spin_pc' \in [Callers -> Spin!Points]
        BY <1>0, <2>1, CallerMoves DEF Spin!Points
    <2>3. Spin!TypeOK'
        BY <1>0, <2>1, <2>2 DEF Spin!TypeOK
    <2>4. SpinInside' = SpinInside /\ Stored' = Stored
        BY <2>2 DEF SpinInside, Stored
    <2>5. OneInside'
        BY <2>1, <2>4 DEF SpinInv, OneInside
    <2>6. LoadedIsCurrent'
        BY <1>0, <2>1, <2>2 DEF SpinInv, LoadedIsCurrent, Spin!TypeOK
    <2>7. Counted'
        BY <2>1, <2>4 DEF SpinInv, Counted
    <2> QED BY <2>3, <2>5, <2>6, <2>7 DEF SpinInv
<1>2. CASE Spin!Store(t)
    <2>1. /\ Spin!Goes(t, "loading", "leaving") /\ UNCHANGED <<flag, now, end, loaded>>
          /\ spin_data' = loaded[t] + 1
        BY <1>2 DEF Spin!Store
    <2>2. /\ spin_pc[t] = "loading" /\ spin_pc'[t] = "leaving"
          /\ \A u \in Callers \ {t} : spin_pc'[u] = spin_pc[u]
          /\ spin_pc' \in [Callers -> Spin!Points]
        BY <1>0, <2>1, CallerMoves DEF Spin!Points
    <2>3. loaded[t] = spin_data /\ loaded[t] \in Nat
        BY <1>0, <2>2 DEF SpinInv, LoadedIsCurrent, Spin!TypeOK
    <2>4. Spin!TypeOK'
        BY <1>0, <2>1, <2>2, <2>3 DEF Spin!TypeOK
    <2>5. SpinInside' = SpinInside /\ t \in SpinInside
        BY <2>2 DEF SpinInside
    <2>6. Stored' = Stored \cup {t} /\ t \notin Stored
        BY <2>2 DEF Stored
    <2>7. OneInside'
        BY <2>1, <2>5 DEF SpinInv, OneInside
    <2>8. LoadedIsCurrent'
        <3>1. \A u \in Callers \ {t} : spin_pc'[u] # "loading"
            BY <2>2, <2>5 DEF SpinInv, OneInside, SpinInside
        <3> QED BY <2>2, <3>1 DEF LoadedIsCurrent
    <2>9. Counted'
        <3>1. IsFiniteSet(Stored)
            BY LocksAssumption, FS_Subset DEF Stored
        <3>2. Cardinality(Stored') = Cardinality(Stored) + 1
            BY <2>6, <3>1, FS_AddElement
        <3> QED BY <2>1, <2>3, <3>2 DEF SpinInv, Counted
    <2> QED BY <2>4, <2>7, <2>8, <2>9 DEF SpinInv
<1> QED BY <1>1, <1>2

(* unlock: nobody is left inside when the flag is cleared.                 *)
LEMMA SpinUnlockStep ==
    ASSUME SpinInv, NEW t \in Callers, Spin!unlock(t)
    PROVE  SpinInv'
<1>0. Spin!TypeOK
    BY DEF SpinInv
<1>1. /\ Spin!Goes(t, "leaving", "done") /\ flag' = FALSE
      /\ UNCHANGED <<now, end, spin_data, loaded>>
    BY DEF Spin!unlock
<1>2. /\ spin_pc[t] = "leaving" /\ spin_pc'[t] = "done"
      /\ \A u \in Callers \ {t} : spin_pc'[u] = spin_pc[u]
      /\ spin_pc' \in [Callers -> Spin!Points]
    BY <1>0, <1>1, CallerMoves DEF Spin!Points
<1>3. Spin!TypeOK'
    BY <1>0, <1>1, <1>2 DEF Spin!TypeOK
<1>4. SpinInside' = {} /\ Stored' = Stored
    BY <1>2 DEF SpinInv, OneInside, SpinInside, Stored
<1>5. OneInside'
    BY <1>1, <1>4 DEF OneInside
<1>6. LoadedIsCurrent'
    BY <1>1, <1>2 DEF SpinInv, LoadedIsCurrent
<1>7. Counted'
    BY <1>1, <1>4 DEF SpinInv, Counted
<1> QED BY <1>3, <1>5, <1>6, <1>7 DEF SpinInv

(* The clock goes on, and callers that have ended stay. *)
LEMMA ClockStep ==
    ASSUME SpinInv, Spin!Tick \/ UNCHANGED spinVars
    PROVE  SpinInv'
<1>1. UNCHANGED <<flag, end, spin_pc, spin_data, loaded>> /\ now' \in 0 .. MaxTime
    BY LocksAssumption DEF Spin!Tick, spinVars, SpinInv, Spin!TypeOK
<1>2. Spin!TypeOK'
    BY <1>1 DEF SpinInv, Spin!TypeOK
<1>3. SpinInside' = SpinInside /\ Stored' = Stored
    BY <1>1 DEF SpinInside, Stored
<1>4. OneInside' /\ LoadedIsCurrent' /\ Counted'
    BY <1>1, <1>3 DEF SpinInv, OneInside, LoadedIsCurrent, Counted
<1> QED BY <1>2, <1>4 DEF SpinInv

LEMMA SpinInitially == Spin!Init => SpinInv
<1> SUFFICES ASSUME Spin!Init PROVE SpinInv
    OBVIOUS
<1>1. Spin!TypeOK
    <2>1. MaxTime + 1 \in 0 .. MaxTime + 1 /\ 0 \in 0 .. MaxTime
        BY LocksAssumption
    <2>2. end \in [Callers -> 0 .. MaxTime + 1]
        BY <2>1 DEF Spin!Init, Spin!Never
    <2>3. spin_pc \in [Callers -> Spin!Points] /\ loaded \in [Callers -> Nat]
        BY DEF Spin!Init, Spin!Points
    <2> QED BY <2>1, <2>2, <2>3 DEF Spin!Init, Spin!TypeOK, Spin!Never
<1>2. SpinInside = {} /\ Stored = {}
    BY DEF Spin!Init, SpinInside, Stored
<1>3. OneInside /\ LoadedIsCurrent
    BY <1>2 DEF Spin!Init, OneInside, LoadedIsCurrent
<1>4. Counted
    BY <1>2, FS_EmptySet DEF Spin!Init, Counted
<1> QED BY <1>1, <1>3, <1>4 DEF SpinInv

LEMMA SpinPreserved == SpinInv /\ [LocksNext]_locksVars => SpinInv'
<1> SUFFICES ASSUME SpinInv, [LocksNext]_locksVars PROVE SpinInv'
    OBVIOUS
<1>1. CASE UNCHANGED spinVars
    BY <1>1, ClockStep
<1>2. CASE Spin!Next
    <2>1. ASSUME NEW t \in Callers,
                 \/ Spin!lock(t) \/ \E d \in Timeouts : Spin!try_lock_for(t, d)
                 \/ Spin!Look(t) \/ Spin!test_and_set(t)
                 \/ Spin!Load(t) \/ Spin!Store(t) \/ Spin!unlock(t)
          PROVE  SpinInv'
        BY <2>1, OutsideSteps, TestAndSetStep, IncrementSteps, SpinUnlockStep
    <2>2. CASE Spin!Tick
        BY <2>2, ClockStep
    <2>3. CASE Spin!Finished
        BY <2>3, <1>1 DEF Spin!Finished, Spin!vars, spinVars
    <2> QED BY <1>2, <2>1, <2>2, <2>3 DEF Spin!Next
<1> QED BY <1>1, <1>2 DEF LocksNext, locksVars

(* What the run checks says of the sets what SpinInv says.                 *)
LEMMA SpinInvCounts == SpinInv => IncrementsCounted
<1> SUFFICES ASSUME SpinInv PROVE IncrementsCounted
    OBVIOUS
<1>1. /\ Spin!At({"leaving", "done"}) = Stored
      /\ Spin!At({"inside", "loading", "leaving"}) = SpinInside
    BY DEF Spin!At, Stored, SpinInside
<1>2. Cardinality(SpinInside) = IF flag THEN 1 ELSE 0
    <2>1. CASE flag
        <3>1. PICK t : SpinInside = {t}
            BY <2>1 DEF SpinInv, OneInside
        <3> QED BY <2>1, <3>1, FS_Singleton
    <2>2. CASE ~flag
        <3>1. SpinInside = {}
            BY <2>2 DEF SpinInv, OneInside
        <3> QED BY <2>2, <3>1, FS_EmptySet
    <2> QED BY <2>1, <2>2
<1>3. /\ Spin!TypeOK
      /\ spin_data = Cardinality(Spin!At({"leaving", "done"}))
      /\ Cardinality(Spin!At({"inside", "loading", "leaving"})) = IF flag THEN 1 ELSE 0
    BY <1>1, <1>2 DEF SpinInv, Counted
<1>4. \A T : Spin!Cardinality(T) = Cardinality(T)
    BY DEF Spin!Cardinality, Cardinality
<1> QED BY <1>3, <1>4 DEF IncrementsCounted, Spin!IncrementsCounted

(* test_manual_spinlock counts right: every increment made under the spin  *)
(* lock is in shared_data, and callers that time out disturb nobody.       *)
THEOREM NoIncrementIsLost == LocksSpec => []IncrementsCounted
<1>1. LocksInit => SpinInv
    BY SpinInitially DEF LocksInit
<1> QED BY <1>1, SpinPreserved, SpinInvCounts, PTL DEF LocksSpec
-----------------------------------------------------------------------------
(* What the semaphore takes from CondVar is what this module has.          *)
LEMMA SameOperators ==
    /\ \A f, p : Sem!At(f, p) = At(f, p)
    /\ \A f, u, q : Sem!Move(f, u, q) = Move(f, u, q)
    /\ \A f, a, w : Sem!NotifyOne(f, a, w) = NotifyOne(f, a, w)
    /\ \A T : Sem!Cardinality(T) = Cardinality(T)
<1>1. \A f, p : Sem!At(f, p) = At(f, p)
    BY DEF Sem!At, At
<1>2. \A f, u, q : Sem!Move(f, u, q) = Move(f, u, q)
    BY DEF Sem!Move, Move
<1>3. \A f, a, w : Sem!NotifyOne(f, a, w) = NotifyOne(f, a, w)
    BY <1>1, <1>2 DEF Sem!NotifyOne, NotifyOne
<1>4. \A T : Sem!Cardinality(T) = Cardinality(T)
    BY DEF Sem!Cardinality, Cardinality
<1> QED BY <1>1, <1>2, <1>3, <1>4

(* The inductive invariant.  Each part needs the types; Sem!NoStrandedPermit   *)
(* is inductive because Sem!Take lowers both of its sides at most together.    *)
SemInv == Sem!TypeOK /\ Sem!PermitsConserved /\ Sem!NoStrandedPermit

(* The three populations the invariants compare are counted by naturals.   *)
LEMMA Counts ==
    ASSUME NEW f \in [Uses -> Sem!Points], NEW p
    PROVE  /\ Cardinality(At(f, p)) \in Nat
           /\ Cardinality(At(f, p)) = 0 <=> At(f, p) = {}
    BY LocksAssumption, AtIsFinite

(* What a thread's move does to them. *)
LEMMA Moves ==
    ASSUME NEW f \in [Uses -> Sem!Points], NEW t \in Uses, NEW q \in Sem!Points,
           f[t] # q
    PROVE  /\ Move(f, t, q) \in [Uses -> Sem!Points]
           /\ Cardinality(At(Move(f, t, q), q)) = Cardinality(At(f, q)) + 1
           /\ Cardinality(At(Move(f, t, q), f[t])) = Cardinality(At(f, f[t])) - 1
           /\ \A r : r # q /\ r # f[t] => At(Move(f, t, q), r) = At(f, r)
<1>0. IsFiniteSet(Uses)
    BY LocksAssumption
<1>1. Move(f, t, q) \in [Uses -> Sem!Points]
    BY DEF Move
<1>2. Cardinality(At(Move(f, t, q), q)) = Cardinality(At(f, q)) + 1
    BY <1>0, Joins
<1>3. Cardinality(At(Move(f, t, q), f[t])) = Cardinality(At(f, f[t])) - 1
    <2> DEFINE g == Move(f, t, q)
    <2>1. g = [f EXCEPT ![t] = q] /\ DOMAIN g = Uses /\ DOMAIN f = Uses
        BY DEF Move
    <2>2. At(g, f[t]) = At(f, f[t]) \ {t} /\ t \in At(f, f[t])
        BY <2>1 DEF At
    <2>3. IsFiniteSet(At(f, f[t]))
        BY <1>0, AtIsFinite
    <2> QED BY <2>2, <2>3, FS_RemoveElement
<1>4. \A r : r # q /\ r # f[t] => At(Move(f, t, q), r) = At(f, r)
    BY Stays
<1> QED BY <1>1, <1>2, <1>3, <1>4

(* A thread that finds a permit, on its call or after a wake-up. *)
LEMMA TakeStep ==
    ASSUME SemInv, NEW t \in Uses, use_pc[t] \in {"idle", "awake"}, Sem!Take(t)
    PROVE  /\ count_' \in 0 .. Initial
           /\ use_pc' \in [Uses -> Sem!Points]
           /\ Sem!PermitsConserved'
           /\ Sem!NoStrandedPermit'
<1>1. use_pc \in [Uses -> Sem!Points] /\ "holding" \in Sem!Points /\ use_pc[t] # "holding"
    BY DEF SemInv, Sem!TypeOK, Sem!Points
<1>2. use_pc' = Move(use_pc, t, "holding") /\ count_' = count_ - 1 /\ count_ > 0
      /\ count_ \in 0 .. Initial
    BY SameOperators DEF Sem!Take, Sem!CanTake, SemInv, Sem!TypeOK
<1>3. /\ use_pc' \in [Uses -> Sem!Points]
      /\ Cardinality(At(use_pc', "holding")) = Cardinality(At(use_pc, "holding")) + 1
      /\ Cardinality(At(use_pc', use_pc[t])) = Cardinality(At(use_pc, use_pc[t])) - 1
      /\ \A p : p # "holding" /\ p # use_pc[t] => At(use_pc', p) = At(use_pc, p)
    BY <1>1, <1>2, Moves
<1>4. Cardinality(At(use_pc, "awake")) \in Nat /\ Cardinality(At(use_pc, "holding")) \in Nat
    BY <1>1, Counts
<1>5. count_' \in 0 .. Initial
    BY <1>2, LocksAssumption
<1>6. Sem!PermitsConserved'
    BY <1>2, <1>3, <1>4, LocksAssumption, SameOperators DEF SemInv, Sem!PermitsConserved, Sem!Holders
<1>7. Sem!NoStrandedPermit'
    <2>1. At(use_pc', "asleep") = At(use_pc, "asleep")
        BY <1>3
    <2>2. Cardinality(At(use_pc', "awake")) >= Cardinality(At(use_pc, "awake")) - 1
        <3>1. CASE use_pc[t] = "awake"
            BY <3>1, <1>3, <1>4
        <3>2. CASE use_pc[t] # "awake"
            BY <3>2, <1>3, <1>4
        <3> QED BY <3>1, <3>2
    <2>3. Cardinality(At(use_pc', "awake")) \in Nat
        BY <1>3, Counts
    <2> QED BY <1>2, <1>4, <2>1, <2>2, <2>3, LocksAssumption, SameOperators
            DEF SemInv, Sem!NoStrandedPermit
<1> QED BY <1>3, <1>5, <1>6, <1>7

(* A thread that finds no permit goes to sleep or is refused. *)
LEMMA NoPermitStep ==
    ASSUME SemInv, NEW t \in Uses, use_pc[t] \in {"idle", "awake"},
           Sem!Sleep(t) \/ Sem!Refuse(t)
    PROVE  /\ count_' \in 0 .. Initial
           /\ use_pc' \in [Uses -> Sem!Points]
           /\ Sem!PermitsConserved'
           /\ Sem!NoStrandedPermit'
<1>1. /\ use_pc \in [Uses -> Sem!Points] /\ count_ \in 0 .. Initial
      /\ count_ = 0 /\ count_' = 0
    BY LocksAssumption, SameOperators DEF SemInv, Sem!TypeOK, Sem!Sleep, Sem!Refuse, Sem!CanTake
<1>2. PICK q \in {"asleep", "refused"} : use_pc' = Move(use_pc, t, q)
    BY SameOperators DEF Sem!Sleep, Sem!Refuse
<1>3. q \in Sem!Points /\ use_pc[t] # q
    BY <1>2 DEF Sem!Points
<1>4. /\ use_pc' \in [Uses -> Sem!Points]
      /\ \A p : p # q /\ p # use_pc[t] => At(use_pc', p) = At(use_pc, p)
    BY <1>1, <1>2, <1>3, Moves
<1>5. At(use_pc', "holding") = At(use_pc, "holding")
    BY <1>2, <1>4
<1>6. Cardinality(At(use_pc', "awake")) \in Nat
    BY <1>4, Counts
<1> QED BY <1>1, <1>4, <1>5, <1>6, SameOperators
        DEF SemInv, Sem!PermitsConserved, Sem!NoStrandedPermit, Sem!Holders

(* A sleeper that leaves cv_ uninvited adds to those on their way out. *)
LEMMA WakeStep ==
    ASSUME SemInv, NEW t \in Uses, use_pc[t] = "asleep",
           use_pc' = Move(use_pc, t, "awake"), count_' = count_
    PROVE  use_pc' \in [Uses -> Sem!Points] /\ Sem!PermitsConserved' /\ Sem!NoStrandedPermit'
<1>1. use_pc \in [Uses -> Sem!Points] /\ "awake" \in Sem!Points /\ use_pc[t] # "awake"
    BY DEF SemInv, Sem!TypeOK, Sem!Points
<1>2. /\ use_pc' \in [Uses -> Sem!Points]
      /\ Cardinality(At(use_pc', "awake")) = Cardinality(At(use_pc, "awake")) + 1
      /\ At(use_pc', "holding") = At(use_pc, "holding")
    BY <1>1, Moves
<1>3. Cardinality(At(use_pc, "awake")) \in Nat /\ count_ \in 0 .. Initial
    BY <1>1, Counts DEF SemInv, Sem!TypeOK
<1>4. At(use_pc, "asleep") # {}
    BY <1>1 DEF At
<1> QED BY <1>2, <1>3, <1>4, LocksAssumption, SameOperators
        DEF SemInv, Sem!PermitsConserved, Sem!NoStrandedPermit, Sem!Holders

(* What notify_one does to the populations. *)
LEMMA NotifyCounts ==
    ASSUME NEW f \in [Uses -> Sem!Points], NEW g \in NotifyOne(f, "asleep", "awake")
    PROVE  /\ g \in [Uses -> Sem!Points]
           /\ At(g, "holding") = At(f, "holding")
           /\ \/ At(g, "asleep") = {} /\ g = f
              \/ /\ At(f, "asleep") # {}
                 /\ Cardinality(At(g, "awake")) = Cardinality(At(f, "awake")) + 1
<1>1. CASE At(f, "asleep") = {} /\ g = f
    BY <1>1
<1>2. ASSUME NEW u \in Uses, f[u] = "asleep", g = Move(f, u, "awake")
      PROVE  /\ g \in [Uses -> Sem!Points]
             /\ At(g, "holding") = At(f, "holding")
             /\ At(f, "asleep") # {}
             /\ Cardinality(At(g, "awake")) = Cardinality(At(f, "awake")) + 1
    <2>1. "awake" \in Sem!Points /\ f[u] # "awake" /\ At(f, "asleep") # {}
        BY <1>2 DEF Sem!Points, At
    <2>2. /\ g \in [Uses -> Sem!Points]
          /\ Cardinality(At(g, "awake")) = Cardinality(At(f, "awake")) + 1
          /\ \A r : r # "awake" /\ r # "asleep" => At(g, r) = At(f, r)
        BY <1>2, <2>1, Moves
    <2> QED BY <2>1, <2>2
<1>3. \/ At(f, "asleep") = {} /\ g = f
      \/ \E u \in Uses : f[u] = "asleep" /\ g = Move(f, u, "awake")
    BY NotifyOneCases
<1> QED BY <1>1, <1>2, <1>3

(* release: the permit is free again, and a sleeper, if any, is told. *)
LEMMA ReleaseStep ==
    ASSUME SemInv, NEW t \in Uses, Sem!Release(t)
    PROVE  /\ count_' \in 0 .. Initial
           /\ use_pc' \in [Uses -> Sem!Points]
           /\ Sem!PermitsConserved'
           /\ Sem!NoStrandedPermit'
<1>1. PICK mid : /\ mid = Move(use_pc, t, "done")
                 /\ use_pc' \in NotifyOne(mid, "asleep", "awake")
    BY SameOperators DEF Sem!Release
<1>2. /\ use_pc \in [Uses -> Sem!Points] /\ use_pc[t] = "holding" /\ "done" \in Sem!Points
      /\ count_ \in 0 .. Initial /\ count_' = count_ + 1
    BY SameOperators DEF SemInv, Sem!TypeOK, Sem!Points, Sem!Release
<1>3. /\ mid \in [Uses -> Sem!Points]
      /\ Cardinality(At(mid, "holding")) = Cardinality(At(use_pc, "holding")) - 1
      /\ At(mid, "asleep") = At(use_pc, "asleep")
      /\ At(mid, "awake") = At(use_pc, "awake")
    <2>1. use_pc[t] # "done" /\ mid = Move(use_pc, t, "done")
        BY <1>1, <1>2
    <2>2. /\ mid \in [Uses -> Sem!Points]
          /\ Cardinality(At(mid, use_pc[t])) = Cardinality(At(use_pc, use_pc[t])) - 1
          /\ \A r : r # "done" /\ r # use_pc[t] => At(mid, r) = At(use_pc, r)
        BY <1>2, <2>1, Moves
    <2> QED BY <1>2, <2>2
<1>4. /\ Cardinality(At(use_pc, "holding")) \in Nat
      /\ Cardinality(At(mid, "holding")) \in Nat
      /\ Cardinality(At(use_pc, "awake")) \in Nat
    BY <1>2, <1>3, Counts
<1>5. /\ use_pc' \in [Uses -> Sem!Points]
      /\ At(use_pc', "holding") = At(mid, "holding")
      /\ \/ At(use_pc', "asleep") = {}
         \/ /\ At(mid, "asleep") # {}
            /\ Cardinality(At(use_pc', "awake")) = Cardinality(At(mid, "awake")) + 1
    BY <1>1, <1>3, NotifyCounts
<1>6. count_' \in 0 .. Initial /\ Sem!PermitsConserved'
    BY <1>2, <1>3, <1>4, <1>5, LocksAssumption, SameOperators
    DEF SemInv, Sem!PermitsConserved, Sem!Holders
<1>7. Sem!NoStrandedPermit'
    BY <1>2, <1>3, <1>4, <1>5, SameOperators DEF SemInv, Sem!NoStrandedPermit
<1> QED BY <1>5, <1>6, <1>7

(* The constructor's state: nobody holds a permit, nobody sleeps. *)
LEMMA SemInitially == Sem!Init => SemInv
<1> SUFFICES ASSUME Sem!Init PROVE SemInv
    OBVIOUS
<1>1. use_pc \in [Uses -> Sem!Points] /\ Sem!TypeOK
    BY LocksAssumption DEF Sem!Init, Sem!TypeOK, Sem!Points
<1>2. At(use_pc, "holding") = {} /\ At(use_pc, "asleep") = {}
    BY DEF Sem!Init, At
<1> QED BY <1>1, <1>2, Counts, LocksAssumption, SameOperators
        DEF Sem!Init, SemInv, Sem!PermitsConserved, Sem!NoStrandedPermit, Sem!Holders

(* Every operation, wake-up and passing deadline keeps the invariant. *)
LEMMA SemPreserved == SemInv /\ [LocksNext]_locksVars => SemInv'
<1> SUFFICES ASSUME SemInv, [LocksNext]_locksVars PROVE SemInv'
    OBVIOUS
<1> USE DEF Sem!TypeOK
<1>1. ASSUME NEW t \in Uses, Sem!Acquire(t) PROVE SemInv'
    BY <1>1, TakeStep, NoPermitStep DEF Sem!Acquire, SemInv
<1>2. ASSUME NEW t \in Uses, Sem!TryAcquire(t) PROVE SemInv'
    BY <1>2, TakeStep, NoPermitStep DEF Sem!TryAcquire, SemInv
<1>3. ASSUME NEW t \in Uses, Sem!TryAcquireFor(t) PROVE SemInv'
    <2>1. deadline' \in [Uses -> {"none", "ahead", "passed"}]
        BY <1>3 DEF Sem!TryAcquireFor, SemInv
    <2>2. use_pc[t] \in {"idle", "awake"} /\ (Sem!Take(t) \/ Sem!Sleep(t) \/ Sem!Refuse(t))
        BY <1>3 DEF Sem!TryAcquireFor
    <2> QED BY <2>1, <2>2, TakeStep, NoPermitStep DEF SemInv
<1>4. ASSUME NEW t \in Uses, Sem!Release(t) PROVE SemInv'
    BY <1>4, ReleaseStep, SameOperators DEF Sem!Release, SemInv
<1>5. ASSUME NEW t \in Uses, Sem!SpuriousWakeup(t) PROVE SemInv'
    BY <1>5, WakeStep, SameOperators DEF Sem!SpuriousWakeup, SemInv
<1>6. ASSUME NEW t \in Uses, Sem!DeadlinePasses(t) PROVE SemInv'
    BY <1>6, SameOperators DEF Sem!DeadlinePasses, SemInv, Sem!PermitsConserved, Sem!NoStrandedPermit, Sem!Holders
<1>7. ASSUME NEW t \in Uses, Sem!Expire(t) PROVE SemInv'
    BY <1>7, WakeStep, SameOperators DEF Sem!Expire, SemInv
<1>8. CASE UNCHANGED semVars
    BY <1>8, SameOperators DEF semVars, SemInv, Sem!PermitsConserved, Sem!NoStrandedPermit, Sem!Holders
<1> QED BY <1>1, <1>2, <1>3, <1>4, <1>5, <1>6, <1>7, <1>8
        DEF LocksNext, locksVars, Sem!Next, Sem!Finished, Sem!vars, semVars

(* Permits are neither made nor lost, in every behaviour of the semaphore, *)
(* fair or not.                                                            *)
THEOREM PermitsStaySound == LocksSpec => []PermitsSound
<1>1. SemInv => PermitsSound
    BY DEF SemInv, PermitsSound, Sem!PermitsSound
<1>2. LocksInit => SemInv
    BY SemInitially DEF LocksInit
<1> QED BY <1>1, <1>2, SemPreserved, PTL DEF LocksSpec

(* No wake-up is lost: while a thread sleeps, every free permit has a      *)
(* thread on its way out of the wait.                                      *)
THEOREM NoPermitStranded == LocksSpec => []NoStrandedPermit
<1>1. SemInv => NoStrandedPermit
    BY DEF SemInv, NoStrandedPermit
<1>2. LocksInit => SemInv
    BY SemInitially DEF LocksInit
<1> QED BY <1>1, <1>2, SemPreserved, PTL DEF LocksSpec

(* What Semaphore_Test::test_concurrency looks for on its console: never   *)
(* more threads inside than the constructor was given.                     *)
THEOREM AtMostInitialInside == LocksSpec => [](Cardinality(Sem!Holders) <= Initial)
<1>1. PermitsSound => Cardinality(Sem!Holders) <= Initial
    BY Counts, LocksAssumption, SameOperators DEF PermitsSound, Sem!PermitsSound, Sem!TypeOK, Sem!PermitsConserved, Sem!Holders
<1> QED BY <1>1, PermitsStaySound, PTL
=============================================================================
