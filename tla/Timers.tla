------------------------------- MODULE Timers -------------------------------
(* The two timers of the repository, a heap and a wheel: which says which    *)
(* one is used; the other stays as it was constructed.                        *)
EXTENDS Timer

CONSTANTS WheelTimers, WheelDelays, WHEEL_SIZE, TICK_MS, MaxTick, MaxElapsed

ASSUME TimersAssumption ==
    /\ WheelDelays \subseteq Nat
    /\ WHEEL_SIZE \in Nat \ {0} /\ TICK_MS \in Nat \ {0}

VARIABLES which, wheel, task_map, current_tick, expire_time, callback, running, wheel_worker,
          wheel_current, owed, measured, fired, behind

wheelVars == <<wheel, task_map, current_tick, expire_time, callback, running, wheel_worker,
               wheel_current, owed, measured, fired, behind>>

Wheel == INSTANCE TimeWheel WITH
           Timers <- WheelTimers, Delays <- WheelDelays, worker <- wheel_worker, current <- wheel_current

TimersInit == which \in {"heap", "wheel"} /\ Init /\ Wheel!Init

TimersNext == \/ which = "heap" /\ Next /\ UNCHANGED <<which, wheelVars>>
              \/ which = "wheel" /\ Wheel!Next /\ UNCHANGED <<which, vars>>

TimersSpec == /\ TimersInit
              /\ [][TimersNext]_<<which, vars, wheelVars>>
              /\ which = "heap" => Fairness
-----------------------------------------------------------------------------
(* Every task of the wheel is in the slot of its tick until it is called,    *)
(* and active until it is called or cancelled.                                *)
WheelConserved == Wheel!WheelConserved

(* A callback is called in the step of its tick, or one turn later if a      *)
(* callback of the same step added it, once at most and never if cancelled.  *)
FiresInItsTick == Wheel!FiresInItsTick
=============================================================================
