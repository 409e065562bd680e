------------------------------- MODULE Locks --------------------------------
(* The three hand-made locks of the repository, the readers-writer lock, the  *)
(* spin lock and the counting semaphore: which says which one is used; the    *)
(* others stay as they were constructed.                                      *)
EXTENDS ReadWriteLock

CONSTANTS Callers, Timeouts, MaxTime, Uses, Initial

ASSUME LocksAssumption ==
    /\ IsFiniteSet(Callers)
    /\ Timeouts \subseteq Nat
    /\ MaxTime \in Nat
    /\ IsFiniteSet(Uses) /\ Initial \in Nat

VARIABLES which, flag, now, end, spin_pc, spin_data, loaded, count_, deadline, use_pc

spinVars == <<flag, now, end, spin_pc, spin_data, loaded>>
semVars == <<count_, deadline, use_pc>>

Spin == INSTANCE SpinLock WITH pc <- spin_pc, shared_data <- spin_data
Sem == INSTANCE Semaphore WITH Threads <- Uses, pc <- use_pc

LocksInit == which \in {"rwlock", "spin", "semaphore"} /\ Init /\ Spin!Init /\ Sem!Init

LocksNext ==
    \/ which = "rwlock" /\ Next /\ UNCHANGED <<which, spinVars, semVars>>
    \/ which = "spin" /\ Spin!Next /\ UNCHANGED <<which, vars, semVars>>
    \/ which = "semaphore" /\ Sem!Next /\ UNCHANGED <<which, vars, spinVars>>

locksVars == <<which, vars, spinVars, semVars>>

(* The fairness of the readers and writers, where there are any; that of the  *)
(* semaphore asks nothing of a use that has not called.                       *)
LocksSpec == /\ LocksInit
             /\ [][LocksNext]_locksVars
             /\ which = "rwlock" => Fairness
             /\ Sem!Fairness
-----------------------------------------------------------------------------
(* No increment under the spin lock is lost, whatever times out meanwhile.    *)
IncrementsCounted == Spin!IncrementsCounted

(* test_manual_rwlock joins its threads: finitely many users of the           *)
(* readers-writer lock, in any order, are all served.                         *)
EveryThreadServed == which = "rwlock" => EveryThreadEnds

(* The permits of the semaphore are neither made nor lost, ...                *)
PermitsSound == Sem!PermitsSound

(* ... no free one is left to sleepers nobody has woken, ...                  *)
NoStrandedPermit == Sem!NoStrandedPermit

(* ... and timed calls come back, as all do if the holders release.           *)
CallsReturn == Sem!CallsReturn
=============================================================================
