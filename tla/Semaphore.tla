----------------------------- MODULE Semaphore -----------------------------
(***************************************************************************)
(* Concurrent_Control_Component/Semaphore.h: a counting semaphore built    *)
(* from a mutex, a condition variable and an int.                          *)
(*                                                                         *)
(* A member of Threads is one use of the semaphore: one call of acquire,   *)
(* try_acquire or try_acquire_for, followed, when it is granted, by one    *)
(* release (the thread body of Semaphore_Test::test_concurrency).  A       *)
(* semaphore does not know threads, so a thread that uses it several times *)
(* is several members of Threads.                                          *)
(*                                                                         *)
(* Every access of count_ is made with mtx_ held, and a critical section   *)
(* ends by releasing mtx_ or by blocking in cv_, which releases it: an     *)
(* action is one such critical section.                                    *)
(***************************************************************************)
EXTENDS Integers, FiniteSets, CondVar

CONSTANTS Threads,   \* the uses of the semaphore
          Initial    \* the argument of the constructor, a natural number

VARIABLES count_,    \* permits nobody holds
          deadline,  \* of each thread: none, or that of its try_acquire_for
          pc         \* where each thread is

vars == <<count_, deadline, pc>>

(* idle: has not called yet.  asleep: blocked in cv_.  awake: left cv_ and *)
(* must take mtx_ again.  holding: was granted a permit.  refused: the     *)
(* call returned false.  done: has released its permit.                    *)
Points == {"idle", "asleep", "awake", "holding", "refused", "done"}

Init == /\ count_ = Initial
        /\ deadline = [t \in Threads |-> "none"]
        /\ pc = [t \in Threads |-> "idle"]
-----------------------------------------------------------------------------
(* Seeded fault: the boundary of the predicate is off by one. *)
CanTakeAtZero == count_ >= 0

(* The predicate of every wait and the condition of try_acquire. *)
CanTake == count_ > 0

(* --count_, and the call returns (true). *)
Take(t) == /\ CanTake
           /\ count_' = count_ - 1
           /\ pc' = Move(pc, t, "holding")

(* The predicate is false: wait releases mtx_ and blocks. *)
Sleep(t) == /\ ~CanTake
            /\ pc' = Move(pc, t, "asleep")
            /\ UNCHANGED count_

(* The call returns false. *)
Refuse(t) == /\ ~CanTake
             /\ pc' = Move(pc, t, "refused")
             /\ UNCHANGED count_

(* acquire, from its call or from a wake-up. *)
Acquire(t) == /\ \/ pc[t] = "idle"
                 \/ pc[t] = "awake" /\ deadline[t] = "none"
              /\ Take(t) \/ Sleep(t)
              /\ UNCHANGED deadline

TryAcquire(t) == /\ pc[t] = "idle"
                 /\ Take(t) \/ Refuse(t)
                 /\ UNCHANGED deadline

(* try_acquire_for: the call, a wake-up before the deadline, and a wake-up *)
(* after it, which returns the value of the predicate.                     *)
TryAcquireFor(t) ==
    \/ /\ pc[t] = "idle"
       /\ Take(t) \/ Sleep(t)
       /\ deadline' = [deadline EXCEPT ![t] = "ahead"]
    \/ /\ pc[t] = "awake"
       /\ \/ deadline[t] = "ahead" /\ (Take(t) \/ Sleep(t))
          \/ deadline[t] = "passed" /\ (Take(t) \/ Refuse(t))
       /\ UNCHANGED deadline

(* Seeded faults: release does not notify; release counts twice. *)
ReleaseSilently(t) == /\ pc[t] = "holding"
                      /\ count_' = count_ + 1
                      /\ pc' = Move(pc, t, "done")
                      /\ UNCHANGED deadline

ReleaseTwice(t) == /\ pc[t] = "holding"
                   /\ count_' = count_ + 2
                   /\ pc' \in NotifyOne(Move(pc, t, "done"), "asleep", "awake")
                   /\ UNCHANGED deadline

Release(t) == /\ pc[t] = "holding"
              /\ count_' = count_ + 1
              /\ pc' \in NotifyOne(Move(pc, t, "done"), "asleep", "awake")
              /\ UNCHANGED deadline
-----------------------------------------------------------------------------
(* What happens without a call: a spurious wake-up, a deadline passing     *)
(* while its thread sleeps or waits for mtx_, and the timer of wait_for    *)
(* waking its sleeper.                                                     *)
SpuriousWakeup(t) == /\ pc[t] = "asleep"
                     /\ pc' = Move(pc, t, "awake")
                     /\ UNCHANGED <<count_, deadline>>

DeadlinePasses(t) == /\ pc[t] \in {"asleep", "awake"}
                     /\ deadline[t] = "ahead"
                     /\ deadline' = [deadline EXCEPT ![t] = "passed"]
                     /\ UNCHANGED <<count_, pc>>

(* Seeded fault: wait instead of wait_for, a deadline wakes nobody. *)
ExpireNever(t) == /\ FALSE
                  /\ UNCHANGED vars

Expire(t) == /\ pc[t] = "asleep"
             /\ deadline[t] = "passed"
             /\ pc' = Move(pc, t, "awake")
             /\ UNCHANGED <<count_, deadline>>

Returned(t) == pc[t] \in {"refused", "done"}

Finished == /\ \A t \in Threads : Returned(t)
            /\ UNCHANGED vars

Next == \/ \E t \in Threads : \/ Acquire(t)
                              \/ TryAcquire(t)
                              \/ TryAcquireFor(t)
                              \/ Release(t)
                              \/ SpuriousWakeup(t)
                              \/ DeadlinePasses(t)
                              \/ Expire(t)
        \/ Finished

Spec == Init /\ [][Next]_vars

(* A woken thread gets mtx_ eventually and time passes.  No thread has to  *)
(* make its call, no holder has to release, and no wake-up is spurious on  *)
(* demand.                                                                 *)
Fairness == \A t \in Threads : /\ WF_vars(pc[t] = "awake" /\ Acquire(t))
                                /\ WF_vars(pc[t] = "awake" /\ TryAcquireFor(t))
                                /\ WF_vars(DeadlinePasses(t))
                                /\ WF_vars(Expire(t))
-----------------------------------------------------------------------------
Holders == At(pc, "holding")

(* Types, and count_ between 0 and the constructor's argument. *)
TypeOK == /\ count_ \in 0 .. Initial
          /\ deadline \in [Threads -> {"none", "ahead", "passed"}]
          /\ pc \in [Threads -> Points]

PermitsConserved == count_ + Cardinality(Holders) = Initial

(* Semaphore_Test::test_concurrency expects at most as many threads inside *)
(* as the constructor was given: permits are neither made nor lost by the  *)
(* three ways of taking one, however they interleave with release.         *)
PermitsSound == TypeOK /\ PermitsConserved

(* No lost wake-up: release calls notify_one once per permit, so while     *)
(* somebody sleeps there are at least as many threads on their way out of  *)
(* cv_ as free permits, even when a newcomer barges in and takes the       *)
(* permit the notified thread was woken for, or a sleeper times out.       *)
NoStrandedPermit ==
    At(pc, "asleep") # {} => Cardinality(At(pc, "awake")) >= count_

(* Lines 89-94 expect try_acquire_for to come back while the permit stays  *)
(* taken: it returns even if no holder ever releases.                      *)
TimedCallsReturn ==
    \A t \in Threads :
        deadline[t] = "ahead" ~> pc[t] \in {"holding", "refused", "done"}

(* Lines 123-125 join all threads: if holders release, everybody leaves    *)
(* the semaphore, whatever is notified to whom.  (No thread comes back, so *)
(* an end that is reached is final.)                                       *)
EveryCallReturns ==
    <>[](Holders = {}) => <>[](At(pc, "asleep") \cup At(pc, "awake") = {})

(* Nobody waits for ever, with or without the help of the holders. *)
CallsReturn == TimedCallsReturn /\ EveryCallReturns
=============================================================================
