------------------------------ MODULE SpinLock ------------------------------
(***************************************************************************)
(* Concurrent_Control_Component/SpinLock.h: a lock that is one atomic_flag,*)
(* and the counter that worker increments under it.                        *)
(*                                                                         *)
(* A member of Callers is one call of lock or of try_lock_for and, when it *)
(* returns with the lock, one ++shared_data, a load and a store that are   *)
(* not atomic, and unlock.  Every look at the clock and every test_and_set *)
(* is a step; yield is none.                                               *)
(***************************************************************************)
EXTENDS Integers, FiniteSets

CONSTANTS Callers,
          Timeouts,   \* the arguments of try_lock_for
          MaxTime     \* bound: the clock stops there

VARIABLES flag,
          now,          \* steady_clock
          end,          \* of each caller: its deadline, Never for lock
          pc,           \* where each caller is
          shared_data,
          loaded        \* of each caller: the value its increment has read

vars == <<flag, now, end, pc, shared_data, loaded>>

Never == MaxTime + 1

(* looking: at the clock.  testing: before test_and_set.  inside, loading: *)
(* before the load and before the store.  leaving: before unlock.          *)
Points == {"idle", "looking", "testing", "inside", "loading", "leaving",
           "refused", "done"}

At(points) == { t \in Callers : pc[t] \in points }

Init == /\ flag = FALSE
        /\ now = 0
        /\ end = [t \in Callers |-> Never]
        /\ pc = [t \in Callers |-> "idle"]
        /\ shared_data = 0
        /\ loaded = [t \in Callers |-> 0]

Goes(t, from, to) == pc[t] = from /\ pc' = [pc EXCEPT ![t] = to]
-----------------------------------------------------------------------------
lock(t) == Goes(t, "idle", "testing") /\ UNCHANGED <<flag, now, end, shared_data, loaded>>

try_lock_for(t, timeout) ==
    /\ Goes(t, "idle", "looking")
    /\ now + timeout <= MaxTime
    /\ end' = [end EXCEPT ![t] = now + timeout]
    /\ UNCHANGED <<flag, now, shared_data, loaded>>

(* Seeded fault: a call that times out clears the flag. *)
LookAndClear(t) ==
    /\ Goes(t, "looking", IF now < end[t] THEN "testing" ELSE "refused")
    /\ flag' = (flag /\ now < end[t])
    /\ UNCHANGED <<now, end, shared_data, loaded>>

Look(t) ==
    /\ Goes(t, "looking", IF now < end[t] THEN "testing" ELSE "refused")
    /\ UNCHANGED <<flag, now, end, shared_data, loaded>>

test_and_set(t) ==
    /\ Goes(t, "testing", IF ~flag THEN "inside"
                          ELSE IF end[t] = Never THEN "testing" ELSE "looking")
    /\ flag' = TRUE
    /\ UNCHANGED <<now, end, shared_data, loaded>>

Load(t) == /\ Goes(t, "inside", "loading")
           /\ loaded' = [loaded EXCEPT ![t] = shared_data]
           /\ UNCHANGED <<flag, now, end, shared_data>>

Store(t) == /\ Goes(t, "loading", "leaving")
            /\ shared_data' = loaded[t] + 1
            /\ UNCHANGED <<flag, now, end, loaded>>

unlock(t) == /\ Goes(t, "leaving", "done")
             /\ flag' = FALSE
             /\ UNCHANGED <<now, end, shared_data, loaded>>

Tick == /\ now < MaxTime
        /\ now' = now + 1
        /\ UNCHANGED <<flag, end, pc, shared_data, loaded>>

Finished == At({"refused", "done"}) = Callers /\ UNCHANGED vars

Next == \/ \E t \in Callers : \/ lock(t) \/ \E d \in Timeouts : try_lock_for(t, d)
                              \/ Look(t) \/ test_and_set(t)
                              \/ Load(t) \/ Store(t) \/ unlock(t)
        \/ Tick
        \/ Finished

Spec == Init /\ [][Next]_vars
-----------------------------------------------------------------------------
TypeOK == /\ flag \in BOOLEAN /\ now \in 0 .. MaxTime
          /\ end \in [Callers -> 0 .. Never]
          /\ pc \in [Callers -> Points]
          /\ shared_data \in Nat /\ loaded \in [Callers -> Nat]

(* Line 60: no increment is lost.  The flag is set while a caller is       *)
(* inside, one at most, and a call that times out, even just after the     *)
(* lock was freed, leaves it to others.                                    *)
IncrementsCounted ==
    /\ TypeOK
    /\ shared_data = Cardinality(At({"leaving", "done"}))
    /\ Cardinality(At({"inside", "loading", "leaving"})) = IF flag THEN 1 ELSE 0
=============================================================================
