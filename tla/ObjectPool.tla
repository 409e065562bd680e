----------------------------- MODULE ObjectPool -----------------------------
(***************************************************************************)
(* Infrastructure_Components/ObjectPool.h: a pool of objects that users    *)
(* acquire, that come back when the last shared_ptr goes, and that resize  *)
(* enlarges.                                                               *)
(*                                                                         *)
(* A member of Users is one acquire and the end of the shared_ptr it       *)
(* returned.  A critical section of mutex_ is one action; the deleter      *)
(* notifies after it has released mutex_, which is an action of its own.   *)
(* Objects are numbered in the order they are created.                     *)
(***************************************************************************)
EXTENDS Integers, Sequences, FiniteSets, CondVar

CONSTANTS Users,
          initialSize,  \* the argument of the constructor
          Sizes,        \* the arguments resize is called with
          MayThrow,     \* whether the constructor of T may throw
          MaxObjects    \* bound: no more objects than that are created

VARIABLES maxSize_,  \* the capacity
          count_,    \* how many objects were created
          pool_,     \* the objects in the pool
          pc,        \* where each user is
          object,    \* of each user: the object it holds, or Nothing
          untold     \* history: the objects whose arrival no resize has notified

vars == <<maxSize_, count_, pool_, pc, object, untold>>

Nothing == 0

(* asleep: blocked in cv_.  awake: left cv_.  holding: has an object.      *)
(* notifying: in the deleter, past its critical section.                   *)
Points == {"idle", "asleep", "awake", "holding", "notifying", "done"}

(* The objects created after the first n, up to number m. *)
Created(n, m) == [i \in 1 .. m - n |-> n + i]

Init == /\ maxSize_ = initialSize
        /\ count_ = initialSize
        /\ pool_ = Created(0, initialSize)
        /\ pc = [u \in Users |-> "idle"]
        /\ object = [u \in Users |-> Nothing]
        /\ untold = 0
-----------------------------------------------------------------------------
(* Seeded fault: resize tells one of the waiting users. *)
resizeForOne(n) ==
    /\ n >= maxSize_
    /\ count_ + (n - maxSize_) <= MaxObjects
    /\ count_' = count_ + (n - maxSize_)
    /\ pool_' = pool_ \o Created(count_, count_')
    /\ maxSize_' = n
    /\ pc' \in NotifyOne(pc, "asleep", "awake")
    /\ untold' = 0
    /\ UNCHANGED object

(* resize to fewer than maxSize_ throws and changes nothing. *)
resize(n) ==
    /\ n >= maxSize_
    /\ count_ + (n - maxSize_) <= MaxObjects
    /\ count_' = count_ + (n - maxSize_)
    /\ pool_' = pool_ \o Created(count_, count_')
    /\ maxSize_' = n
    /\ pc' = NotifyAll(pc, "asleep", "awake")
    /\ untold' = 0
    /\ UNCHANGED object

(* new T() throws after k objects: resize ends there. *)
resizeThrows(n) ==
    /\ MayThrow
    /\ n > maxSize_
    /\ \E k \in 0 .. n - maxSize_ - 1 :
          /\ count_ + k <= MaxObjects
          /\ count_' = count_ + k
          /\ pool_' = pool_ \o Created(count_, count_')
          /\ untold' = untold + k
    /\ UNCHANGED <<maxSize_, pc, object>>

(* Seeded fault: acquire leaves the object in the pool. *)
acquireShared(u) ==
    /\ pc[u] \in {"idle", "awake"}
    /\ \/ /\ pool_ # <<>>
          /\ object' = [object EXCEPT ![u] = Head(pool_)]
          /\ pc' = Move(pc, u, "holding")
       \/ /\ pool_ = <<>>
          /\ pc' = Move(pc, u, "asleep")
          /\ UNCHANGED object
    /\ UNCHANGED <<maxSize_, count_, pool_, untold>>

acquire(u) ==
    /\ pc[u] \in {"idle", "awake"}
    /\ \/ /\ pool_ # <<>>
          /\ pool_' = Tail(pool_)
          /\ object' = [object EXCEPT ![u] = Head(pool_)]
          /\ pc' = Move(pc, u, "holding")
       \/ /\ pool_ = <<>>
          /\ pc' = Move(pc, u, "asleep")
          /\ UNCHANGED <<pool_, object>>
    /\ UNCHANGED <<maxSize_, count_, untold>>

(* The deleter of makeShared: its critical section, then notify_one. *)
PutBack(u) == /\ pc[u] = "holding"
              /\ pool_' = Append(pool_, object[u])
              /\ object' = [object EXCEPT ![u] = Nothing]
              /\ pc' = Move(pc, u, "notifying")
              /\ UNCHANGED <<maxSize_, count_, untold>>

(* Seeded fault: the deleter does not notify. *)
NotifyNobody(u) == /\ pc[u] = "notifying"
                   /\ pc' = Move(pc, u, "done")
                   /\ UNCHANGED <<maxSize_, count_, pool_, object, untold>>

Notify(u) == /\ pc[u] = "notifying"
             /\ pc' \in NotifyOne(Move(pc, u, "done"), "asleep", "awake")
             /\ UNCHANGED <<maxSize_, count_, pool_, object, untold>>

SpuriousWakeup(u) == /\ pc[u] = "asleep"
                     /\ pc' = Move(pc, u, "awake")
                     /\ UNCHANGED <<maxSize_, count_, pool_, object, untold>>

Finished == /\ \A u \in Users : pc[u] = "done"
            /\ UNCHANGED vars

Next == \/ \E n \in Sizes : resize(n) \/ resizeThrows(n)
        \/ \E u \in Users : \/ acquire(u) \/ PutBack(u) \/ Notify(u)
                            \/ SpuriousWakeup(u)
        \/ Finished

Spec == Init /\ [][Next]_vars

(* A user that was woken gets mutex_ eventually, and lets go of its object.*)
(* Nobody has to call acquire or resize.                                   *)
Fairness ==
    \A u \in Users : /\ WF_vars(pc[u] = "awake" /\ acquire(u))
                     /\ WF_vars(PutBack(u))
                     /\ WF_vars(Notify(u))
-----------------------------------------------------------------------------
TypeOK == /\ maxSize_ \in Nat
          /\ count_ \in 0 .. MaxObjects
          /\ pool_ \in Seq(1 .. count_)
          /\ pc \in [Users -> Points]
          /\ object \in [Users -> 0 .. count_]
          /\ untold \in Nat
          /\ \A u \in Users : pc[u] = "holding" <=> object[u] # Nothing

(* Line 52: the total is what is in the pool and what is in use.  Each     *)
(* object that was created is in exactly one of these places: none is lost *)
(* and none is handed to two users, also when resize throws half-way.      *)
EveryObjectInOnePlace ==
    /\ TypeOK
    /\ \A o \in 1 .. count_ :
          Cardinality({ i \in DOMAIN pool_ : pool_[i] = o })
              + Cardinality({ u \in Users : object[u] = o }) = 1

(* No lost wake-up: while a user sleeps, every object in the pool has a    *)
(* user on its way out of cv_ or a deleter that has yet to notify, except  *)
(* for what was pushed by a resize that threw before it notified.          *)
NoStrandedObject ==
    At(pc, "asleep") # {} =>
        Cardinality(At(pc, "awake")) + Cardinality(At(pc, "notifying")) + untold
            >= Len(pool_)

(* A user that waits gets an object, unless a resize throws. *)
EveryUserServed ==
    [](untold = 0) => \A u \in Users : pc[u] = "asleep" /\ count_ > 0 ~> pc[u] = "holding"
=============================================================================
