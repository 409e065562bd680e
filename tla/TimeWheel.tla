----------------------------- MODULE TimeWheel -----------------------------
(***************************************************************************)
(* Infrastructure_Components/TimeWheel.h: a wheel of slots, each the list  *)
(* of the tasks whose tick falls on it, which a worker advances.  Nothing  *)
(* is locked: the owner's calls come when the worker is not inside step,   *)
(* as otherwise they race with it; callbacks add and cancel inside step.   *)
(* A member of Timers is one call of add_timer and the id of its task.     *)
(***************************************************************************)
EXTENDS Integers, Sequences, SequencesExt

CONSTANTS Timers,
          Delays,            \* the delays asked for, in milliseconds
          WHEEL_SIZE, TICK_MS,
          MaxTick,           \* bound on the steps
          MaxElapsed         \* bound on the milliseconds between two turns of the worker

VARIABLES wheel,         \* the list of each slot
          task_map,      \* the ids of the tasks that are active
          current_tick,
          expire_time,   \* of each task, in ticks
          callback,      \* the ids of the tasks whose callback is not null
          running,
          worker,        \* off, waiting, advancing, walking, executing
          current,       \* the rest of the list that step is walking along
          owed,          \* the steps left of ticks_to_advance
          measured,      \* history: the milliseconds worker_loop has seen elapse
          fired,         \* history: how often each callback was called
          behind         \* history: the tasks added to the slot step is at

vars == <<wheel, task_map, current_tick, expire_time, callback, running, worker, current, owed, measured, fired, behind>>

Init == /\ wheel = [s \in 0 .. WHEEL_SIZE - 1 |-> <<>>]
        /\ task_map = {} /\ current_tick = 0
        /\ expire_time = [t \in Timers |-> -1]
        /\ callback = {} /\ running = FALSE /\ worker = "off"
        /\ current = <<>> /\ owed = 0 /\ measured = 0
        /\ fired = [t \in Timers |-> 0] /\ behind = {}
-----------------------------------------------------------------------------
(* off: no thread.  waiting: at the while.  advancing: in the for, before  *)
(* a step.  walking: in step.  executing: in the callback of Head(current). *)
start == /\ ~running /\ worker = "off"
         /\ running' = TRUE /\ worker' = "waiting"
         /\ UNCHANGED <<wheel, task_map, current_tick, expire_time, callback, current, owed,
                        measured, fired, behind>>

(* stop(); the join is over when worker is off *)
stop == /\ running
        /\ running' = FALSE
        /\ UNCHANGED <<wheel, task_map, current_tick, expire_time, callback, worker, current,
                       owed, measured, fired, behind>>

MayCall == worker # "walking"

slot(tick) == tick % WHEEL_SIZE
Insert(w, t, tick) == [w EXCEPT ![slot(tick)] = <<t>> \o @]

add_timer(t) ==
    /\ MayCall /\ expire_time[t] = -1
    /\ \E delay_ms \in Delays :
         LET tick == current_tick + delay_ms \div TICK_MS
         IN /\ expire_time' = [expire_time EXCEPT ![t] = tick]
            /\ wheel' = Insert(wheel, t, tick)
            /\ behind' = IF worker = "executing" /\ tick = current_tick THEN behind \cup {t} ELSE behind
    /\ task_map' = task_map \cup {t}
    /\ callback' = callback \cup {t}
    /\ UNCHANGED <<current_tick, running, worker, current, owed, measured, fired>>

(* Seeded fault: the callback stays. *)
forget_timer(t) ==
    /\ MayCall /\ t \in task_map
    /\ task_map' = task_map \ {t}
    /\ UNCHANGED <<wheel, current_tick, expire_time, callback, running, worker, current, owed,
                   measured, fired, behind>>

(* The task stays in its slot without a callback. *)
cancel_timer(t) ==
    /\ MayCall /\ t \in task_map
    /\ callback' = callback \ {t}
    /\ task_map' = task_map \ {t}
    /\ UNCHANGED <<wheel, current_tick, expire_time, running, worker, current, owed, measured,
                   fired, behind>>
-----------------------------------------------------------------------------
(* worker_loop: one turn of the while, a millisecond or more after the     *)
(* last; what has elapsed beyond whole ticks is dropped.                   *)
Iterate ==
    /\ worker = "waiting" /\ running
    /\ \E elapsed \in 1 .. MaxElapsed :
         /\ owed' = elapsed \div TICK_MS
         /\ current_tick + owed' <= MaxTick
         /\ measured' = measured + elapsed
    /\ worker' = IF owed' = 0 THEN "waiting" ELSE "advancing"
    /\ UNCHANGED <<wheel, task_map, current_tick, expire_time, callback, running, current,
                   fired, behind>>

Leave == /\ worker = "waiting" /\ ~running
         /\ worker' = "off"
         /\ UNCHANGED <<wheel, task_map, current_tick, expire_time, callback, running, current,
                        owed, measured, fired, behind>>

BeginStep ==
    /\ worker = "advancing"
    /\ current' = wheel[slot(current_tick)]
    /\ wheel' = [wheel EXCEPT ![slot(current_tick)] = <<>>]
    /\ worker' = "walking"
    /\ UNCHANGED <<task_map, current_tick, expire_time, callback, running, owed, measured,
                   fired, behind>>

(* Seeded fault: whatever is in the slot is taken to be due. *)
DueBySlot(t) == TRUE

Due(t) == expire_time[t] <= current_tick

(* the next task of the list: called, dropped if it was cancelled, or put back *)
Visit ==
    /\ worker = "walking" /\ current # <<>>
    /\ LET t == Head(current)
       IN \/ /\ Due(t) /\ t \in callback
             /\ fired' = [fired EXCEPT ![t] = @ + 1]
             /\ worker' = "executing"
             /\ UNCHANGED <<wheel, task_map, current>>
          \/ /\ Due(t) /\ t \notin callback
             /\ task_map' = task_map \ {t} /\ current' = Tail(current)
             /\ UNCHANGED <<wheel, worker, fired>>
          \/ /\ ~Due(t)
             /\ wheel' = Insert(wheel, t, expire_time[t]) /\ current' = Tail(current)
             /\ UNCHANGED <<task_map, worker, fired>>
    /\ UNCHANGED <<current_tick, expire_time, callback, running, owed, measured, behind>>

(* the callback returns or throws *)
CallbackEnds ==
    /\ worker = "executing"
    /\ task_map' = task_map \ {Head(current)}
    /\ current' = Tail(current)
    /\ worker' = "walking"
    /\ UNCHANGED <<wheel, current_tick, expire_time, callback, running, owed, measured, fired,
                   behind>>

EndStep ==
    /\ worker = "walking" /\ current = <<>>
    /\ current_tick' = current_tick + 1
    /\ owed' = owed - 1
    /\ worker' = IF owed = 1 THEN "waiting" ELSE "advancing"
    /\ UNCHANGED <<wheel, task_map, expire_time, callback, running, current,
                   measured, fired, behind>>

Next == \/ start \/ stop
        \/ \E t \in Timers : add_timer(t) \/ cancel_timer(t)
        \/ Iterate \/ Leave \/ BeginStep \/ Visit \/ CallbackEnds \/ EndStep

Spec == Init /\ [][Next]_vars
-----------------------------------------------------------------------------
Places(t) == {s \in DOMAIN wheel : Contains(wheel[s], t)}
Executing(t) == worker = "executing" /\ t = Head(current)

(* A task that was added and not called is in one slot, that of its tick,  *)
(* or in the list that step is walking along; none is left behind the tick *)
(* the wheel has reached, except those a callback put into the slot of its *)
(* own step, for less than a tick: they wait a whole turn.  What is active *)
(* is what has yet to be called and was not cancelled, with the task whose *)
(* callback is running.                                                    *)
WheelConserved ==
    /\ \A t \in Timers : expire_time[t] # -1 /\ fired[t] = 0 =>
         \/ Places(t) = {slot(expire_time[t])} /\ ~Contains(current, t)
            /\ \/ expire_time[t] >= current_tick
               \/ t \in behind /\ current_tick <= expire_time[t] + WHEEL_SIZE
         \/ Places(t) = {} /\ Contains(current, t)
         \/ Places(t) = {} /\ t \notin callback
    /\ \A t \in task_map : t \in callback /\ (fired[t] = 0 \/ Executing(t))
    /\ \A t \in callback : fired[t] = 0 => t \in task_map

(* A callback is called once at most, in the step of its tick or, if that  *)
(* slot was being emptied when a callback added it, exactly one turn of    *)
(* the wheel later; and never when the task was cancelled first.           *)
FiresInItsTick ==
    [][\A t \in Timers : fired'[t] # fired[t] =>
         /\ fired'[t] = 1 /\ t \in task_map
         /\ current_tick = expire_time[t] + (IF t \in behind THEN WHEEL_SIZE ELSE 0)]_vars

(* A tick has TICK_MS milliseconds (line 149): between two turns of        *)
(* worker_loop the wheel is less than a tick behind the time that loop has *)
(* seen elapse.                                                            *)
TicksKeepTime == worker = "waiting" => measured < (current_tick + 1) * TICK_MS
=============================================================================
