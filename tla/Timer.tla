------------------------------- MODULE Timer -------------------------------
(***************************************************************************)
(* Infrastructure_Components/Timer.h: one worker thread runs tasks from a  *)
(* heap ordered by due time; threads add tasks; an owner calls start and   *)
(* stop, again and again if it likes.                                      *)
(*                                                                         *)
(* A member of Adds is one call of add_one_shot_task or                    *)
(* add_fixed_rate_task (interval zero or not) and the id of the task.  It  *)
(* may come from any thread, from inside a task as well.                   *)
(*                                                                         *)
(* heap_ is only touched with mutex_ held; running_ is atomic and changes  *)
(* without it.  The worker holds mutex_ between the test of a condition    *)
(* and the moment it blocks in cv_, so these are separate actions: nobody  *)
(* can add in between, but stop can do all its work there.  Otherwise a    *)
(* critical section is one action.  Time is `now`, in ticks.               *)
(***************************************************************************)
EXTENDS Integers

CONSTANTS Adds,       \* the calls that add a task
          Delays,     \* the delays they may ask for
          Intervals,  \* the intervals; 0: a one-shot task
          MaxTime     \* bound: the model's clock stops there

NoTask == [id |-> "none", next_run |-> 0, interval |-> 0]

ASSUME TimerAssumption ==
    /\ NoTask.id \notin Adds
    /\ Delays \subseteq Nat
    /\ Intervals \subseteq Nat
    /\ MaxTime \in Nat

VARIABLES now,       \* Clock::now()
          heap_,     \* the set of TimerTasks
          running_,  \* the atomic flag
          worker,    \* where worker_thread_ is
          until,     \* the deadline of its wait_until
          current,   \* the task it executes
          adder,     \* of each call: idle, drafted, notifying, returned
          draft,     \* of each call: its TimerTask
          owner,     \* idle, or inside stop(): notifying, joining
          lastStart  \* history: when each task was last started, or Never

vars == <<now, heap_, running_, worker, until, current, adder, draft, owner, lastStart>>

TimerTask == [id : Adds, next_run : Nat, interval : Nat]
Never == -1

(* off: no thread.  loop: at the while.  blocking, asleep, awake: before,  *)
(* in and after the wait of an empty heap.  arming, dozing, woken: before, *)
(* in and after the wait for the first due time.  executing: in task().    *)
(* ended: run() has returned.                                              *)
WorkerPoints == {"off", "loop", "blocking", "asleep", "awake",
                 "arming", "dozing", "woken", "executing", "ended"}

MutexFree == worker \notin {"blocking", "arming"}

Init == /\ now = 0
        /\ heap_ = {}
        /\ running_ = FALSE
        /\ worker = "off"
        /\ until = 0
        /\ current = NoTask
        /\ adder = [a \in Adds |-> "idle"]
        /\ draft = [a \in Adds |-> NoTask]
        /\ owner = "idle"
        /\ lastStart = [a \in Adds |-> Never]
-----------------------------------------------------------------------------
(* Where a notification of cv_ takes the worker, its only waiter. *)
Notified(w) == CASE w = "asleep" -> "awake"
                 [] w = "dozing" -> "woken"
                 [] OTHER -> w

(* A task that is due first; heap_ does not order equal due times. *)
IsTop(e) == e \in heap_ /\ \A f \in heap_ : e.next_run <= f.next_run

start == /\ owner = "idle" /\ ~running_
         /\ running_' = TRUE
         /\ worker' = "loop"
         /\ UNCHANGED <<now, heap_, until, current, adder, draft, owner, lastStart>>

(* stop(): the exchange, notify_all, join; without mutex_. *)
StopExchange == /\ owner = "idle" /\ running_
                /\ running_' = FALSE
                /\ owner' = "notifying"
                /\ UNCHANGED <<now, heap_, worker, until, current, adder, draft, lastStart>>

StopNotify == /\ owner = "notifying"
              /\ worker' = Notified(worker)
              /\ owner' = "joining"
              /\ UNCHANGED <<now, heap_, running_, until, current, adder, draft, lastStart>>

StopJoin == /\ owner = "joining" /\ worker = "ended"
            /\ worker' = "off"
            /\ owner' = "idle"
            /\ UNCHANGED <<now, heap_, running_, until, current, adder, draft, lastStart>>
-----------------------------------------------------------------------------
(* add_task: the due time is computed, the task is pushed under mutex_,    *)
(* and cv_ is notified when mutex_ has been released.                      *)
AddDraft(a) ==
    /\ adder[a] = "idle"
    /\ \E d \in Delays, i \in Intervals :
          draft' = [draft EXCEPT ![a] = [id |-> a, next_run |-> now + d, interval |-> i]]
    /\ adder' = [adder EXCEPT ![a] = "drafted"]
    /\ UNCHANGED <<now, heap_, running_, worker, until, current, owner, lastStart>>

AddPush(a) ==
    /\ adder[a] = "drafted" /\ MutexFree
    /\ heap_' = heap_ \cup {draft[a]}
    /\ adder' = [adder EXCEPT ![a] = "notifying"]
    /\ UNCHANGED <<now, running_, worker, until, current, draft, owner, lastStart>>

(* Seeded fault: nobody is told. *)
AddNotifyNobody(a) ==
    /\ adder[a] = "notifying"
    /\ adder' = [adder EXCEPT ![a] = "returned"]
    /\ UNCHANGED <<now, heap_, running_, worker, until, current, draft, owner, lastStart>>

AddNotify(a) ==
    /\ adder[a] = "notifying"
    /\ worker' = Notified(worker)
    /\ adder' = [adder EXCEPT ![a] = "returned"]
    /\ UNCHANGED <<now, heap_, running_, until, current, draft, owner, lastStart>>
-----------------------------------------------------------------------------
(* run(): the while. *)
Loop == /\ worker = "loop" /\ ~running_
        /\ worker' = "ended"
        /\ UNCHANGED <<now, heap_, running_, until, current, adder, draft, owner, lastStart>>

(* running_ was seen true; with mutex_ held the heap is empty, and the     *)
(* predicate of wait decides (also after a wake-up).                       *)
AwaitTask == /\ (worker = "loop" /\ running_) \/ worker = "awake"
             /\ heap_ = {}
             /\ worker' = IF running_ THEN "blocking" ELSE "loop"
             /\ UNCHANGED <<now, heap_, running_, until, current, adder, draft, owner, lastStart>>

Block == /\ worker = "blocking"
         /\ worker' = "asleep"
         /\ UNCHANGED <<now, heap_, running_, until, current, adder, draft, owner, lastStart>>

(* The predicate holds, or wait_until is over: continue. *)
Continue == /\ \/ worker = "awake" /\ heap_ # {}
               \/ worker = "woken"
            /\ worker' = "loop"
            /\ UNCHANGED <<now, heap_, running_, until, current, adder, draft, owner, lastStart>>

AwaitDueTime == /\ worker = "loop" /\ running_
                /\ \E e \in heap_ : /\ IsTop(e)
                                    /\ e.next_run > now
                                    /\ until' = e.next_run
                /\ worker' = "arming"
                /\ UNCHANGED <<now, heap_, running_, current, adder, draft, owner, lastStart>>

Doze == /\ worker = "arming"
        /\ worker' = "dozing"
        /\ UNCHANGED <<now, heap_, running_, until, current, adder, draft, owner, lastStart>>

Fetch == /\ worker = "loop" /\ running_
         /\ \E e \in heap_ : /\ IsTop(e)
                             /\ e.next_run <= now
                             /\ current' = e
                             /\ heap_' = heap_ \ {e}
                             /\ lastStart' = [lastStart EXCEPT ![e.id] = now]
         /\ worker' = "executing"
         /\ UNCHANGED <<now, running_, until, adder, draft, owner>>

(* Seeded fault: the next due time is not moved. *)
DueAtOnce == current

(* The time a task that has just run is due next. *)
DueAgain == [current EXCEPT !.next_run = now + current.interval]

(* Seeded fault: a stopped timer forgets the task it was running. *)
RescheduleIfRunning ==
    /\ worker = "executing"
    /\ heap_' = IF current.interval > 0 /\ running_ THEN heap_ \cup {DueAgain} ELSE heap_
    /\ current' = NoTask
    /\ worker' = "loop"
    /\ UNCHANGED <<now, running_, until, adder, draft, owner, lastStart>>

(* task() returns or throws; a periodic task is pushed again (the          *)
(* notification that follows finds no waiter: the worker is here).         *)
Reschedule ==
    /\ worker = "executing"
    /\ heap_' = IF current.interval > 0 THEN heap_ \cup {DueAgain} ELSE heap_
    /\ current' = NoTask
    /\ worker' = "loop"
    /\ UNCHANGED <<now, running_, until, adder, draft, owner, lastStart>>
-----------------------------------------------------------------------------
(* The clock, the timeout of wait_until, and spurious wake-ups. *)
Tick == /\ now < MaxTime
        /\ now' = now + 1
        /\ UNCHANGED <<heap_, running_, worker, until, current, adder, draft, owner, lastStart>>

Expire == /\ worker = "dozing" /\ until <= now
          /\ worker' = "woken"
          /\ UNCHANGED <<now, heap_, running_, until, current, adder, draft, owner, lastStart>>

SpuriousWakeup ==
    /\ worker \in {"asleep", "dozing"}
    /\ worker' = Notified(worker)
    /\ UNCHANGED <<now, heap_, running_, until, current, adder, draft, owner, lastStart>>

Run == \/ Loop \/ AwaitTask \/ Block \/ Continue
       \/ AwaitDueTime \/ Doze \/ Fetch \/ Reschedule

Add(a) == AddDraft(a) \/ AddPush(a) \/ AddNotify(a)

Next == \/ start \/ StopExchange \/ StopNotify \/ StopJoin
        \/ \E a \in Adds : Add(a)
        \/ Run
        \/ Tick \/ Expire \/ SpuriousWakeup

Spec == Init /\ [][Next]_vars

(* Time passes, wait_until times out, and a thread that can go on does: a  *)
(* task ends, a call of add_task or stop that has begun takes its next     *)
(* step.  Nobody has to call start, stop or add_task.                      *)
Fairness == /\ WF_vars(Run) /\ WF_vars(Tick) /\ WF_vars(Expire)
            /\ WF_vars(StopNotify) /\ WF_vars(StopJoin)
            /\ \A a \in Adds : WF_vars(AddPush(a)) /\ WF_vars(AddNotify(a))

FairSpec == Spec /\ Fairness
-----------------------------------------------------------------------------
TypeOK == /\ now \in 0 .. MaxTime
          /\ heap_ \subseteq TimerTask
          /\ running_ \in BOOLEAN
          /\ worker \in WorkerPoints
          /\ until \in Nat
          /\ current \in TimerTask \cup {NoTask}
          /\ adder \in [Adds -> {"idle", "drafted", "notifying", "returned"}]
          /\ draft \in [Adds -> TimerTask \cup {NoTask}]
          /\ owner \in {"idle", "notifying", "joining"}
          /\ lastStart \in [Adds -> Nat \cup {Never}]

Pushed(a) == adder[a] \in {"notifying", "returned"}
Periodic(a) == draft[a].interval > 0
Queued(a) == \E e \in heap_ : e.id = a

(* No task is lost or doubled, whatever start and stop do meanwhile: a     *)
(* task is in the heap once or in execution, and only a one-shot task that *)
(* was started is in neither place.                                        *)
TasksConserved ==
    /\ TypeOK
    /\ \A e, f \in heap_ : e.id = f.id => e = f
    /\ \A a \in Adds : Pushed(a) =>
          IF Queued(a) THEN current.id # a /\ (Periodic(a) \/ lastStart[a] = Never)
                       ELSE current.id = a \/ (~Periodic(a) /\ lastStart[a] # Never)

(* The worker never sleeps through a due time: it waits on an empty heap,  *)
(* or for a time no later than the first in the heap, unless a caller of   *)
(* add_task (which notifies after releasing mutex_) has yet to notify it.  *)
WaitsForTheFirst ==
    \/ \E a \in Adds : adder[a] = "notifying"
    \/ /\ worker \in {"blocking", "asleep"} => heap_ = {}
       /\ worker \in {"arming", "dozing"} => \A e \in heap_ : until <= e.next_run

(* Two starts of a task are at least its interval apart, also when the     *)
(* timer is stopped and started in between.                                *)
IntervalsKept ==
    [][\A a \in Adds : lastStart[a] # Never /\ lastStart'[a] # lastStart[a]
                           => lastStart'[a] >= lastStart[a] + draft[a].interval]_vars

(* A task that is due is started, unless the timer is stopped first. *)
DueTasksStart ==
    \A a \in Adds : running_ /\ (\E e \in heap_ : e.id = a /\ e.next_run <= now)
                        ~> ~running_ \/ current.id = a

(* Line 153 and the destructor expect stop() to return.                    *)
StopReturns == owner = "joining" ~> owner = "idle"
=============================================================================
