--------------------------- MODULE ReadWriteLock ---------------------------
(***************************************************************************)
(* Concurrent_Control_Component/ReadWriteLock.h: a readers-writer lock     *)
(* built from a mutex, one condition variable, a count and a flag, and the *)
(* datum test_manual_rwlock guards with it.                                *)
(*                                                                         *)
(* A member of Readers is one lock_read, read of shared_data, unlock_read; *)
(* a member of Writers one lock_write, store, unlock_write.  The lock does *)
(* not know threads, so a thread that uses it again is another member.     *)
(*                                                                         *)
(* The four methods run with mtx_ held: each is one action, up to the wait *)
(* that releases mtx_.  shared_data is not atomic: a store is a begin and  *)
(* an end, and whatever overlaps it sees or leaves a torn value.           *)
(***************************************************************************)
EXTENDS Integers, FiniteSets, CondVar

CONSTANTS Readers, Writers

ASSUME ReadWriteLockAssumption ==
    /\ IsFiniteSet(Readers)
    /\ IsFiniteSet(Writers)
    /\ Readers \cap Writers = {}

VARIABLES readers_,     \* how many readers hold the lock
          writer_,      \* whether a writer holds it
          pc,           \* where each thread is
          shared_data,  \* "initial", the writer that stored last, or "torn"
          seen          \* of each reader: what it read

vars == <<readers_, writer_, pc, shared_data, seen>>
data == <<shared_data, seen>>

Threads == Readers \cup Writers

(* asleep: blocked in cv_.  awake: left cv_ and must take mtx_ again.      *)
(* inside: holds the lock.  storing: in the middle of its store.           *)
(* leaving: holds the lock and is finished with shared_data.               *)
Points == {"idle", "asleep", "awake", "inside", "storing", "leaving", "done"}

Holding(t) == pc[t] \in {"inside", "storing", "leaving"}

Init == /\ readers_ = 0
        /\ writer_ = FALSE
        /\ pc = [t \in Threads |-> "idle"]
        /\ shared_data = "initial"
        /\ seen = [r \in Readers |-> "nothing"]
-----------------------------------------------------------------------------
(* Seeded fault: readers do not look at the flag. *)
CanReadAlways == TRUE

(* The two predicates of cv_. *)
CanRead == ~writer_

(* Seeded fault: a writer looks at the other writers only. *)
CanWriteIgnoringReaders == ~writer_

CanWrite == ~writer_ /\ readers_ = 0

Calls(t) == pc[t] \in {"idle", "awake"}

lock_read(r) ==
    /\ Calls(r)
    /\ \/ /\ CanRead
          /\ readers_' = readers_ + 1
          /\ pc' = Move(pc, r, "inside")
       \/ /\ ~CanRead
          /\ pc' = Move(pc, r, "asleep")
          /\ UNCHANGED readers_
    /\ UNCHANGED <<writer_, data>>

lock_write(w) ==
    /\ Calls(w)
    /\ \/ /\ CanWrite
          /\ writer_' = TRUE
          /\ pc' = Move(pc, w, "inside")
       \/ /\ ~CanWrite
          /\ pc' = Move(pc, w, "asleep")
          /\ UNCHANGED writer_
    /\ UNCHANGED <<readers_, data>>

(* Seeded faults: the last reader does not notify; every reader counts     *)
(* itself out twice.                                                       *)
unlock_readSilently(r) ==
    /\ pc[r] = "leaving"
    /\ readers_' = readers_ - 1
    /\ pc' = Move(pc, r, "done")
    /\ UNCHANGED <<writer_, data>>

unlock_readTwice(r) ==
    /\ pc[r] = "leaving"
    /\ readers_' = readers_ - 2
    /\ pc' = NotifyAll(Move(pc, r, "done"), "asleep", "awake")
    /\ UNCHANGED <<writer_, data>>

unlock_read(r) ==
    /\ pc[r] = "leaving"
    /\ readers_' = readers_ - 1
    /\ LET left == Move(pc, r, "done")
       IN  pc' = IF readers_' = 0 THEN NotifyAll(left, "asleep", "awake") ELSE left
    /\ UNCHANGED <<writer_, data>>

(* Seeded fault: readers and writers share cv_, yet only one is notified. *)
unlock_writeToOne(w) ==
    /\ pc[w] = "leaving"
    /\ writer_' = FALSE
    /\ pc' \in NotifyOne(Move(pc, w, "done"), "asleep", "awake")
    /\ UNCHANGED <<readers_, data>>

unlock_write(w) ==
    /\ pc[w] = "leaving"
    /\ writer_' = FALSE
    /\ pc' = NotifyAll(Move(pc, w, "done"), "asleep", "awake")
    /\ UNCHANGED <<readers_, data>>

SpuriousWakeup(t) == /\ pc[t] = "asleep"
                     /\ pc' = Move(pc, t, "awake")
                     /\ UNCHANGED <<readers_, writer_, data>>
-----------------------------------------------------------------------------
(* Line 107, and line 117 in two steps. *)
Read(r) == /\ pc[r] = "inside"
           /\ seen' = [seen EXCEPT ![r] =
                          IF At(pc, "storing") = {} THEN shared_data ELSE "torn"]
           /\ pc' = Move(pc, r, "leaving")
           /\ UNCHANGED <<readers_, writer_, shared_data>>

BeginStore(w) == /\ pc[w] = "inside"
                 /\ pc' = Move(pc, w, "storing")
                 /\ UNCHANGED <<readers_, writer_, data>>

EndStore(w) == /\ pc[w] = "storing"
               /\ shared_data' = IF At(pc, "storing") = {w} THEN w ELSE "torn"
               /\ pc' = Move(pc, w, "leaving")
               /\ UNCHANGED <<readers_, writer_, seen>>

Finished == /\ \A t \in Threads : pc[t] = "done"
            /\ UNCHANGED vars

Reader(r) == lock_read(r) \/ Read(r) \/ unlock_read(r)
Writer(w) == lock_write(w) \/ BeginStore(w) \/ EndStore(w) \/ unlock_write(w)

Next == \/ \E r \in Readers : Reader(r)
        \/ \E w \in Writers : Writer(w)
        \/ \E t \in Threads : SpuriousWakeup(t)
        \/ Finished

Spec == Init /\ [][Next]_vars

(* The threads of the driver run: each makes its calls, and one that was   *)
(* woken gets mtx_ eventually.  Nothing wakes a sleeper but a notification.*)
Fairness == /\ \A r \in Readers : WF_vars(Reader(r))
            /\ \A w \in Writers : WF_vars(Writer(w))
-----------------------------------------------------------------------------
TypeOK == /\ readers_ \in 0 .. Cardinality(Readers)
          /\ writer_ \in BOOLEAN
          /\ pc \in [Threads -> Points]
          /\ shared_data \in Writers \cup {"initial", "torn"}
          /\ seen \in [Readers -> Writers \cup {"initial", "torn", "nothing"}]

(* The count and the flag say who holds the lock. *)
HoldersKnown == /\ readers_ = Cardinality({ r \in Readers : Holding(r) })
                /\ writer_ <=> \E w \in Writers : Holding(w)

Exclusion == \A w \in Writers : \A t \in Threads \ {w} : ~(Holding(w) /\ Holding(t))

(* A writer that holds the lock holds it alone; readers share it, and the  *)
(* count never leaves the range of the readers.                            *)
WriterAlone == TypeOK /\ Exclusion

(* No lost wake-up on the shared cv_: whoever sleeps is blocked by somebody*)
(* who will notify it on unlocking, also when a thread that did not sleep  *)
(* takes the lock before those that were notified.                         *)
SleepersAreBlocked ==
    /\ \A r \in Readers : pc[r] = "asleep" => ~CanRead
    /\ \A w \in Writers : pc[w] = "asleep" => ~CanWrite

(* test_manual_rwlock is to do with this lock what test_shared_mutex does  *)
(* with std::shared_mutex: guarded by it, shared_data behaves as if every  *)
(* read and every write happened at one instant (the effect of a writer is *)
(* that of the end of its store), so no reader sees a torn value.          *)
ThreadSafe == INSTANCE ThreadSafeData
                  WITH data_ <- shared_data,
                       finished <- { t \in Threads : pc[t] \in {"leaving", "done"} }
ImplementsThreadSafeData == ThreadSafe!Spec

(* Line 123 joins all threads: finitely many users of the lock, readers    *)
(* and writers in any order, are all served.                               *)
EveryThreadEnds == <>(\A t \in Threads : pc[t] = "done")
=============================================================================
