---------------------------- MODULE TimersProofs ----------------------------
(***************************************************************************)
(* For every number of tasks, every delay and every interval: neither      *)
(* timer loses a task, and none is started before its time.                *)
(***************************************************************************)
EXTENDS Timers, Sequences, TLAPS

(* The inductive invariant of the heap.  What was drafted keeps its id; the*)
(* tasks in the heap and in execution are drafts that were pushed.         *)
FromDrafts ==
    /\ \A a \in Adds : adder[a] # "idle" => draft[a] \in TimerTask /\ draft[a].id = a
    /\ \A e \in heap_ : Pushed(e.id) /\ e.interval = draft[e.id].interval
    /\ worker = "executing" <=> current # NoTask
    /\ current # NoTask => Pushed(current.id) /\ current.interval = draft[current.id].interval

(* When tasks were started, and that those in the heap wait their interval.*)
StartsApart ==
    /\ \A a \in Adds : lastStart[a] <= now
    /\ \A a \in Adds : ~Pushed(a) => lastStart[a] = Never
    /\ current # NoTask => lastStart[current.id] # Never
    /\ \A e \in heap_ : lastStart[e.id] # Never => e.next_run >= lastStart[e.id] + e.interval

(* While the worker holds the mutex nothing is pushed; once it sleeps, the *)
(* caller that pushed has yet to notify.                                   *)
WaitsKnown ==
    /\ worker = "blocking" => heap_ = {}
    /\ worker = "arming" => \A e \in heap_ : until <= e.next_run
    /\ WaitsForTheFirst

(* There is no thread before start and after stop. *)
OffWhenStopped == owner = "idle" /\ ~running_ => worker = "off"

HeapInv == TasksConserved /\ FromDrafts /\ StartsApart /\ WaitsKnown /\ OffWhenStopped
-----------------------------------------------------------------------------
(* The types of the invariant, as the steps need them. *)
LEMMA HeapTypes ==
    ASSUME HeapInv
    PROVE  /\ now \in Nat /\ now <= MaxTime /\ heap_ \subseteq TimerTask
           /\ running_ \in BOOLEAN /\ worker \in WorkerPoints /\ until \in Nat
           /\ current \in TimerTask \cup {NoTask} /\ (current = NoTask <=> current \notin TimerTask)
           /\ \A a \in Adds : a # NoTask.id
           /\ adder \in [Adds -> {"idle", "drafted", "notifying", "returned"}]
           /\ draft \in [Adds -> TimerTask \cup {NoTask}]
           /\ owner \in {"idle", "notifying", "joining"}
           /\ lastStart \in [Adds -> Nat \cup {Never}]
           /\ \A a \in Adds : lastStart[a] \in Nat \cup {-1}
    BY TimerAssumption DEF HeapInv, TasksConserved, TypeOK, TimerTask, NoTask, Never

(* A step that touches no task: it moves the worker, the owner, the flag   *)
(* or the clock.                                                           *)
LEMMA TasksUntouched ==
    ASSUME HeapInv, UNCHANGED <<heap_, current, adder, draft, lastStart>>,
           now' \in 0 .. MaxTime, now' >= now, running_' \in BOOLEAN, until' \in Nat,
           worker' \in WorkerPoints, worker' = "executing" <=> worker = "executing",
           owner' \in {"idle", "notifying", "joining"}
    PROVE  TasksConserved' /\ FromDrafts' /\ StartsApart'
<1>1. TypeOK'
    BY DEF HeapInv, TasksConserved, TypeOK
<1>2. TasksConserved'
    BY <1>1 DEF HeapInv, TasksConserved, Pushed, Periodic, Queued
<1>3. FromDrafts'
    BY DEF HeapInv, FromDrafts, Pushed
<1>4. StartsApart'
    BY HeapTypes DEF HeapInv, StartsApart, Pushed, Never
<1> QED BY <1>2, <1>3, <1>4

(* start, and the three steps of stop. *)
LEMMA OwnerStep ==
    ASSUME HeapInv, start \/ StopExchange \/ StopNotify \/ StopJoin
    PROVE  HeapInv'
<1>1. /\ UNCHANGED <<now, heap_, until, current, adder, draft, lastStart>>
      /\ running_' \in BOOLEAN /\ owner' \in {"idle", "notifying", "joining"}
      /\ worker' \in {worker, "loop", "off", "awake", "woken"}
      /\ worker' # "executing" => worker # "executing"
    BY HeapTypes
    DEF HeapInv, OffWhenStopped, start, StopExchange, StopNotify, StopJoin, Notified
<1>2. worker' \in WorkerPoints /\ now' \in 0 .. MaxTime /\ now' >= now /\ until' \in Nat
    BY <1>1, HeapTypes, TimerAssumption DEF WorkerPoints
<1>3. TasksConserved' /\ FromDrafts' /\ StartsApart'
    BY <1>1, <1>2, TasksUntouched
<1>4. WaitsKnown'
    BY <1>1 DEF HeapInv, WaitsKnown, WaitsForTheFirst
<1>5. OffWhenStopped'
    BY HeapTypes DEF HeapInv, OffWhenStopped, start, StopExchange, StopNotify, StopJoin
<1> QED BY <1>3, <1>4, <1>5 DEF HeapInv

(* The worker moves without taking a task, and the clock. *)
LEMMA WorkerMoves ==
    ASSUME HeapInv,
           Loop \/ AwaitTask \/ Block \/ Continue \/ AwaitDueTime \/ Doze
             \/ Tick \/ Expire \/ SpuriousWakeup
    PROVE  HeapInv'
<1>1. /\ UNCHANGED <<heap_, running_, current, adder, draft, owner, lastStart>>
      /\ worker' \in {worker, "ended", "blocking", "loop", "asleep", "arming", "dozing",
                      "woken", "awake"}
      /\ worker' = "executing" <=> worker = "executing"
    BY HeapTypes
    DEF Loop, AwaitTask, Block, Continue, AwaitDueTime, Doze, Tick, Expire, SpuriousWakeup, Notified
<1>2. /\ now' \in 0 .. MaxTime /\ now' >= now
    BY HeapTypes, TimerAssumption
    DEF Loop, AwaitTask, Block, Continue, AwaitDueTime, Doze, Tick, Expire, SpuriousWakeup
<1>3. until' \in Nat
    <2>1. CASE AwaitDueTime
        <3>1. PICK e \in heap_ : until' = e.next_run
            BY <2>1 DEF AwaitDueTime
        <3> QED BY <3>1, HeapTypes DEF TimerTask
    <2>2. CASE ~AwaitDueTime
        BY <2>2, HeapTypes DEF Loop, AwaitTask, Block, Continue, Doze, Tick, Expire, SpuriousWakeup
    <2> QED BY <2>1, <2>2
<1>4. worker' \in WorkerPoints
    BY <1>1, HeapTypes DEF WorkerPoints
<1>5. TasksConserved' /\ FromDrafts' /\ StartsApart'
    BY <1>1, <1>2, <1>3, <1>4, HeapTypes, TasksUntouched
<1>6. WaitsKnown'
    <2>1. CASE AwaitDueTime
        <3>1. worker' = "arming" /\ \A e \in heap_ : until' <= e.next_run
            BY <2>1 DEF AwaitDueTime, IsTop
        <3> QED BY <1>1, <3>1 DEF WaitsKnown, WaitsForTheFirst
    <2>2. CASE ~AwaitDueTime
        BY <1>1, <2>2
        DEF HeapInv, WaitsKnown, WaitsForTheFirst, Notified,
            Loop, AwaitTask, Block, Continue, Doze, Tick, Expire, SpuriousWakeup
    <2> QED BY <2>1, <2>2
<1>7. OffWhenStopped'
    BY <1>1
    DEF HeapInv, OffWhenStopped, Loop, AwaitTask, Block, Continue, AwaitDueTime, Doze, Tick,
        Expire, SpuriousWakeup
<1> QED BY <1>5, <1>6, <1>7 DEF HeapInv

(* add_task has computed the due time. *)
LEMMA AddDraftStep ==
    ASSUME HeapInv, NEW a \in Adds, AddDraft(a)
    PROVE  HeapInv'
<1>1. PICK d \in Delays, i \in Intervals :
         draft' = [draft EXCEPT ![a] = [id |-> a, next_run |-> now + d, interval |-> i]]
    BY DEF AddDraft
<1>2. /\ adder[a] = "idle" /\ adder' = [adder EXCEPT ![a] = "drafted"]
      /\ UNCHANGED <<now, heap_, running_, worker, until, current, owner, lastStart>>
    BY DEF AddDraft
<1>3. /\ draft'[a] \in TimerTask /\ draft'[a].id = a
      /\ \A b \in Adds \ {a} : draft'[b] = draft[b]
    BY <1>1, HeapTypes, TimerAssumption DEF TimerTask
<1>4. draft' \in [Adds -> TimerTask \cup {NoTask}]
    BY <1>1, <1>3, HeapTypes
<1>5. /\ adder' \in [Adds -> {"idle", "drafted", "notifying", "returned"}]
      /\ adder'[a] = "drafted" /\ \A b \in Adds \ {a} : adder'[b] = adder[b]
    BY <1>2, HeapTypes
<1>6. TypeOK'
    BY <1>2, <1>4, <1>5 DEF HeapInv, TasksConserved, TypeOK
<1>7. \A b \in Adds : Pushed(b)' <=> Pushed(b)
    BY <1>2, <1>5 DEF Pushed
<1>8. \A b \in Adds : Pushed(b) => draft'[b] = draft[b]
    BY <1>2, <1>3 DEF Pushed
<1>9. TasksConserved'
    <2>1. \A b \in Adds : Pushed(b) => (Periodic(b)' <=> Periodic(b)) /\ (Queued(b)' <=> Queued(b))
        BY <1>2, <1>8 DEF Periodic, Queued
    <2> QED BY <1>2, <1>6, <1>7, <2>1 DEF HeapInv, TasksConserved
<1>10. FromDrafts'
    <2>1. \A e \in heap_ : e.id \in Adds
        BY HeapTypes DEF TimerTask
    <2>2. current # NoTask => current.id \in Adds
        BY HeapTypes DEF TimerTask
    <2> QED BY <1>2, <1>3, <1>5, <1>7, <1>8, <2>1, <2>2 DEF HeapInv, FromDrafts
<1>11. StartsApart'
    BY <1>2, <1>7 DEF HeapInv, StartsApart
<1>12. WaitsKnown' /\ OffWhenStopped'
    BY <1>2, <1>5 DEF HeapInv, WaitsKnown, WaitsForTheFirst, OffWhenStopped
<1> QED BY <1>9, <1>10, <1>11, <1>12 DEF HeapInv

(* ... pushes its task while the worker does not hold the mutex, ... *)
LEMMA AddPushStep ==
    ASSUME HeapInv, NEW a \in Adds, AddPush(a)
    PROVE  HeapInv'
<1>1. /\ adder[a] = "drafted" /\ MutexFree
      /\ heap_' = heap_ \cup {draft[a]} /\ adder' = [adder EXCEPT ![a] = "notifying"]
      /\ UNCHANGED <<now, running_, worker, until, current, draft, owner, lastStart>>
    BY DEF AddPush
<1>2. draft[a] \in TimerTask /\ draft[a].id = a
    BY <1>1 DEF HeapInv, FromDrafts
<1>3. ~Pushed(a) /\ lastStart[a] = Never /\ ~Queued(a) /\ current.id # a
    <2>1. ~Pushed(a)
        BY <1>1 DEF Pushed
    <2>2. lastStart[a] = Never
        BY <2>1 DEF HeapInv, StartsApart
    <2>3. ~Queued(a)
        BY <2>1 DEF HeapInv, FromDrafts, Queued
    <2>4. current.id # a
        BY <2>1, TimerAssumption DEF HeapInv, FromDrafts
    <2> QED BY <2>1, <2>2, <2>3, <2>4
<1>4. /\ adder' \in [Adds -> {"idle", "drafted", "notifying", "returned"}]
      /\ adder'[a] = "notifying" /\ \A b \in Adds \ {a} : adder'[b] = adder[b]
    BY <1>1, HeapTypes
<1>5. TypeOK'
    BY <1>1, <1>2, <1>4 DEF HeapInv, TasksConserved, TypeOK
<1>6. \A b \in Adds \ {a} : (Pushed(b)' <=> Pushed(b)) /\ (Queued(b)' <=> Queued(b))
    BY <1>1, <1>2, <1>4 DEF Pushed, Queued
<1>7. Pushed(a)' /\ Queued(a)' /\ \A b \in Adds : Periodic(b)' <=> Periodic(b)
    BY <1>1, <1>2, <1>4 DEF Pushed, Queued, Periodic
<1>8. TasksConserved'
    <2>1. \A e, f \in heap_' : e.id = f.id => e = f
        BY <1>1, <1>2, <1>3 DEF HeapInv, TasksConserved, Queued
    <2>2. \A b \in Adds : Pushed(b)' =>
             IF Queued(b)' THEN current'.id # b /\ (Periodic(b)' \/ lastStart'[b] = Never)
                           ELSE current'.id = b \/ (~Periodic(b)' /\ lastStart'[b] # Never)
        BY <1>1, <1>3, <1>6, <1>7 DEF HeapInv, TasksConserved
    <2> QED BY <1>5, <2>1, <2>2 DEF TasksConserved
<1>9. FromDrafts'
    <2>1. \A e \in heap_ : e.id \in Adds
        BY HeapTypes DEF TimerTask
    <2>2. current # NoTask => current.id \in Adds
        BY HeapTypes DEF TimerTask
    <2>3. \A b \in Adds : Pushed(b) => Pushed(b)'
        BY <1>6, <1>7
    <2> QED BY <1>1, <1>2, <1>4, <1>7, <2>1, <2>2, <2>3 DEF HeapInv, FromDrafts
<1>10. StartsApart'
    BY <1>1, <1>2, <1>3, <1>6, <1>7 DEF HeapInv, StartsApart
<1>11. WaitsKnown' /\ OffWhenStopped'
    BY <1>1, <1>4 DEF HeapInv, WaitsKnown, WaitsForTheFirst, OffWhenStopped, MutexFree
<1> QED BY <1>8, <1>9, <1>10, <1>11 DEF HeapInv

(* ... and notifies: whoever slept on the old heap looks at the new one.   *)
LEMMA AddNotifyStep ==
    ASSUME HeapInv, NEW a \in Adds, AddNotify(a)
    PROVE  HeapInv'
<1>1. /\ adder[a] = "notifying" /\ worker' = Notified(worker)
      /\ adder' = [adder EXCEPT ![a] = "returned"]
      /\ UNCHANGED <<now, heap_, running_, until, current, draft, owner, lastStart>>
    BY DEF AddNotify
<1>2. /\ adder' \in [Adds -> {"idle", "drafted", "notifying", "returned"}]
      /\ \A b \in Adds : Pushed(b)' <=> Pushed(b)
      /\ \A b \in Adds : adder'[b] = "idle" <=> adder[b] = "idle"
    BY <1>1, HeapTypes DEF Pushed
<1>3. /\ worker' \in WorkerPoints /\ worker' \notin {"asleep", "dozing"}
      /\ worker' = worker \/ worker' \in {"awake", "woken"}
      /\ worker' = "executing" <=> worker = "executing"
      /\ worker' = "off" <=> worker = "off"
    BY <1>1, HeapTypes DEF Notified, WorkerPoints
<1>4. TypeOK'
    BY <1>1, <1>2, <1>3 DEF HeapInv, TasksConserved, TypeOK
<1>5. TasksConserved'
    BY <1>1, <1>2, <1>4 DEF HeapInv, TasksConserved, Periodic, Queued
<1>6. FromDrafts'
    <2>1. \A e \in heap_ : e.id \in Adds
        BY HeapTypes DEF TimerTask
    <2>2. current # NoTask => current.id \in Adds
        BY HeapTypes DEF TimerTask
    <2> QED BY <1>1, <1>2, <1>3, <2>1, <2>2 DEF HeapInv, FromDrafts
<1>7. StartsApart'
    BY <1>1, <1>2 DEF HeapInv, StartsApart
<1>8. WaitsKnown' /\ OffWhenStopped'
    BY <1>1, <1>3 DEF HeapInv, WaitsKnown, WaitsForTheFirst, OffWhenStopped
<1> QED BY <1>5, <1>6, <1>7, <1>8 DEF HeapInv

(* The worker takes a due task out of the heap and starts it. *)
LEMMA FetchStep ==
    ASSUME HeapInv, Fetch
    PROVE  /\ HeapInv'
           /\ \A a \in Adds : lastStart[a] # Never /\ lastStart'[a] # lastStart[a]
                                  => lastStart'[a] >= lastStart[a] + draft[a].interval
<1>1. PICK e \in heap_ : /\ e.next_run <= now /\ current' = e /\ heap_' = heap_ \ {e}
                         /\ lastStart' = [lastStart EXCEPT ![e.id] = now]
    BY DEF Fetch
<1>2. /\ worker = "loop" /\ running_ /\ worker' = "executing"
      /\ UNCHANGED <<now, running_, until, adder, draft, owner>>
    BY DEF Fetch
<1>3. e \in TimerTask /\ e.id \in Adds /\ e.next_run \in Nat /\ e.interval \in Nat /\ e # NoTask
    BY HeapTypes DEF TimerTask
<1>4. /\ lastStart' \in [Adds -> Nat \cup {Never}]
      /\ lastStart'[e.id] = now /\ now # Never
      /\ \A b \in Adds \ {e.id} : lastStart'[b] = lastStart[b]
    BY <1>1, <1>3, HeapTypes DEF Never
<1>5. TypeOK'
    BY <1>1, <1>2, <1>3, <1>4 DEF HeapInv, TasksConserved, TypeOK, WorkerPoints
<1>6. current = NoTask
    BY <1>2 DEF HeapInv, FromDrafts
<1>7. \A b \in Adds : (Pushed(b)' <=> Pushed(b)) /\ (Periodic(b)' <=> Periodic(b))
    BY <1>2 DEF Pushed, Periodic
<1>8. ~Queued(e.id)' /\ \A b \in Adds \ {e.id} : Queued(b)' <=> Queued(b)
    BY <1>1 DEF HeapInv, TasksConserved, Queued
<1>9. TasksConserved'
    <2>1. \A f, g \in heap_' : f.id = g.id => f = g
        BY <1>1 DEF HeapInv, TasksConserved
    <2>2. ASSUME NEW b \in Adds, Pushed(b)'
          PROVE  IF Queued(b)' THEN current'.id # b /\ (Periodic(b)' \/ lastStart'[b] = Never)
                               ELSE current'.id = b \/ (~Periodic(b)' /\ lastStart'[b] # Never)
        <3>1. CASE b = e.id
            BY <1>1, <1>8, <3>1
        <3>2. CASE b # e.id
            <4>1. current.id # b
                BY <1>6, TimerAssumption
            <4> QED BY <1>1, <1>4, <1>7, <1>8, <2>2, <3>2, <4>1 DEF HeapInv, TasksConserved
        <3> QED BY <3>1, <3>2
    <2> QED BY <1>5, <2>1, <2>2 DEF TasksConserved
<1>10. FromDrafts'
    BY <1>1, <1>2, <1>3, <1>7 DEF HeapInv, FromDrafts, Pushed
<1>11. StartsApart'
    <2>1. \A b \in Adds : lastStart'[b] <= now'
        BY <1>2, <1>4, HeapTypes DEF HeapInv, StartsApart
    <2>2. \A b \in Adds : ~Pushed(b)' => lastStart'[b] = Never
        <3>1. Pushed(e.id)
            BY DEF HeapInv, FromDrafts
        <3> QED BY <1>4, <1>7, <3>1 DEF HeapInv, StartsApart
    <2>3. \A f \in heap_' : lastStart'[f.id] = lastStart[f.id]
        <3>1. \A f \in heap_' : f.id \in Adds /\ f.id # e.id
            BY <1>1, HeapTypes DEF HeapInv, TasksConserved, TimerTask
        <3> QED BY <1>4, <3>1
    <2>4. \A f \in heap_' : lastStart'[f.id] # Never => f.next_run >= lastStart'[f.id] + f.interval
        BY <1>1, <2>3 DEF HeapInv, StartsApart
    <2> QED BY <1>1, <1>4, <2>1, <2>2, <2>4 DEF StartsApart
<1>12. WaitsKnown' /\ OffWhenStopped'
    BY <1>2 DEF WaitsKnown, WaitsForTheFirst, OffWhenStopped
<1>13. ASSUME NEW a \in Adds, lastStart[a] # Never, lastStart'[a] # lastStart[a]
       PROVE  lastStart'[a] >= lastStart[a] + draft[a].interval
    <2>1. a = e.id /\ lastStart'[a] = now
        BY <1>4, <1>13
    <2>2. e.next_run >= lastStart[a] + e.interval /\ e.interval = draft[a].interval
        BY <1>13, <2>1 DEF HeapInv, StartsApart, FromDrafts
    <2>3. lastStart[a] \in Nat
        BY <1>13, HeapTypes DEF Never
    <2> QED BY <1>1, <1>3, <2>1, <2>2, <2>3, HeapTypes
<1> QED BY <1>9, <1>10, <1>11, <1>12, <1>13 DEF HeapInv

(* The task has ended; a periodic one is due its interval later. *)
LEMMA RescheduleStep ==
    ASSUME HeapInv, Reschedule
    PROVE  HeapInv'
<1>1. /\ worker = "executing" /\ worker' = "loop" /\ current' = NoTask
      /\ heap_' = IF current.interval > 0 THEN heap_ \cup {DueAgain} ELSE heap_
      /\ UNCHANGED <<now, running_, until, adder, draft, owner, lastStart>>
    BY DEF Reschedule
<1>2. PICK a \in Adds :
         /\ current \in TimerTask /\ a = current.id /\ current.interval \in Nat
         /\ Pushed(a) /\ current.interval = draft[a].interval /\ lastStart[a] # Never
    BY <1>1, HeapTypes DEF HeapInv, FromDrafts, StartsApart, TimerTask
<1>3. /\ DueAgain \in TimerTask /\ DueAgain.id = a /\ DueAgain.interval = current.interval
      /\ DueAgain.next_run = now + current.interval
    BY <1>2, HeapTypes DEF DueAgain, TimerTask
<1>4. ~Queued(a)
    BY <1>2 DEF HeapInv, TasksConserved
<1>5. TypeOK'
    BY <1>1, <1>3 DEF HeapInv, TasksConserved, TypeOK, WorkerPoints
<1>6. \A b \in Adds : (Pushed(b)' <=> Pushed(b)) /\ (Periodic(b)' <=> Periodic(b))
    BY <1>1 DEF Pushed, Periodic
<1>7. /\ Queued(a)' <=> Periodic(a)
      /\ \A b \in Adds \ {a} : Queued(b)' <=> Queued(b)
    <2>1. CASE current.interval > 0
        <3>1. heap_' = heap_ \cup {DueAgain} /\ Periodic(a)
            BY <1>1, <1>2, <2>1 DEF Periodic
        <3>2. Queued(a)'
            BY <1>3, <3>1 DEF Queued
        <3>3. \A b \in Adds \ {a} : Queued(b)' <=> Queued(b)
            BY <1>3, <3>1 DEF Queued
        <3> QED BY <3>1, <3>2, <3>3
    <2>2. CASE ~(current.interval > 0)
        <3>1. heap_' = heap_ /\ ~Periodic(a)
            BY <1>1, <1>2, <2>2 DEF Periodic
        <3> QED BY <1>4, <3>1 DEF Queued
    <2> QED BY <2>1, <2>2
<1>8. TasksConserved'
    <2>1. \A e, f \in heap_' : e.id = f.id => e = f
        BY <1>1, <1>3, <1>4 DEF HeapInv, TasksConserved, Queued
    <2>2. ASSUME NEW b \in Adds, Pushed(b)'
          PROVE  IF Queued(b)' THEN current'.id # b /\ (Periodic(b)' \/ lastStart'[b] = Never)
                               ELSE current'.id = b \/ (~Periodic(b)' /\ lastStart'[b] # Never)
        <3>1. current'.id # b
            BY <1>1, TimerAssumption
        <3>2. CASE b = a
            <4>1. (Queued(a)' <=> Periodic(a)) /\ (Periodic(a)' <=> Periodic(a)) /\ lastStart'[a] # Never
                BY <1>1, <1>2, <1>6, <1>7
            <4> QED BY <3>1, <3>2, <4>1
        <3>3. CASE b # a
            <4>1. current.id # b /\ lastStart'[b] = lastStart[b]
                BY <1>1, <1>2, <3>3
            <4> QED BY <1>6, <1>7, <2>2, <3>1, <3>3, <4>1 DEF HeapInv, TasksConserved
        <3> QED BY <3>2, <3>3
    <2> QED BY <1>5, <2>1, <2>2 DEF TasksConserved
<1>9. FromDrafts'
    BY <1>1, <1>2, <1>3 DEF HeapInv, FromDrafts, Pushed
<1>10. StartsApart'
    <2>1. lastStart[a] <= now /\ lastStart[a] \in Nat
        BY <1>2, HeapTypes DEF HeapInv, StartsApart, Never
    <2>2. now + current.interval >= lastStart[a] + current.interval
        BY <1>2, <2>1, HeapTypes
    <2> QED BY <1>1, <1>3, <1>6, <2>2 DEF HeapInv, StartsApart
<1>11. WaitsKnown' /\ OffWhenStopped'
    BY <1>1 DEF HeapInv, WaitsKnown, WaitsForTheFirst, OffWhenStopped
<1> QED BY <1>8, <1>9, <1>10, <1>11 DEF HeapInv

(* Every step keeps the invariant and the intervals. *)
LEMMA HeapStep ==
    HeapInv /\ [Next]_vars =>
        /\ HeapInv'
        /\ \A a \in Adds : lastStart[a] # Never /\ lastStart'[a] # lastStart[a]
                               => lastStart'[a] >= lastStart[a] + draft[a].interval
<1> SUFFICES ASSUME HeapInv, [Next]_vars
             PROVE  /\ HeapInv'
                    /\ \A a \in Adds : lastStart[a] # Never /\ lastStart'[a] # lastStart[a]
                               => lastStart'[a] >= lastStart[a] + draft[a].interval
    OBVIOUS
<1>1. CASE Fetch
    BY <1>1, FetchStep
<1>2. CASE Reschedule
    <2>1. UNCHANGED lastStart
        BY <1>2 DEF Reschedule
    <2> QED BY <1>2, <2>1, RescheduleStep
<1>3. ASSUME NEW a \in Adds, Add(a) PROVE HeapInv' /\ UNCHANGED lastStart
    <2>1. UNCHANGED lastStart
        BY <1>3 DEF Add, AddDraft, AddPush, AddNotify
    <2> QED BY <1>3, <2>1, AddDraftStep, AddPushStep, AddNotifyStep DEF Add
<1>4. CASE start \/ StopExchange \/ StopNotify \/ StopJoin
    <2>1. UNCHANGED lastStart
        BY <1>4 DEF start, StopExchange, StopNotify, StopJoin
    <2> QED BY <1>4, <2>1, OwnerStep
<1>5. CASE Loop \/ AwaitTask \/ Block \/ Continue \/ AwaitDueTime \/ Doze
             \/ Tick \/ Expire \/ SpuriousWakeup
    <2>1. UNCHANGED lastStart
        BY <1>5 DEF Loop, AwaitTask, Block, Continue, AwaitDueTime, Doze, Tick, Expire,
                    SpuriousWakeup
    <2> QED BY <1>5, <2>1, WorkerMoves
<1>6. CASE UNCHANGED vars
    BY <1>6 DEF vars, HeapInv, TasksConserved, TypeOK, Pushed, Periodic, Queued, FromDrafts,
                StartsApart, WaitsKnown, WaitsForTheFirst, OffWhenStopped
<1> QED BY <1>1, <1>2, <1>3, <1>4, <1>5, <1>6 DEF Next, Run

(* The timer starts without a task and without a thread. *)
LEMMA HeapStart == Init => HeapInv
<1> SUFFICES ASSUME Init PROVE HeapInv
    OBVIOUS
<1>1. /\ now = 0 /\ heap_ = {} /\ running_ = FALSE /\ worker = "off" /\ until = 0
      /\ current = NoTask /\ owner = "idle"
      /\ adder \in [Adds -> {"idle", "drafted", "notifying", "returned"}]
      /\ draft \in [Adds -> TimerTask \cup {NoTask}]
      /\ lastStart \in [Adds -> Nat \cup {Never}]
      /\ \A a \in Adds : adder[a] = "idle" /\ lastStart[a] = -1
    BY DEF Init, Never
<1>2. TypeOK
    <2>1. now \in 0 .. MaxTime /\ heap_ \subseteq TimerTask /\ until \in Nat
        BY <1>1, TimerAssumption
    <2>2. running_ \in BOOLEAN /\ worker \in WorkerPoints
        BY <1>1 DEF WorkerPoints
    <2> QED BY <1>1, <2>1, <2>2 DEF TypeOK
<1>3. TasksConserved /\ FromDrafts
    BY <1>1, <1>2 DEF TasksConserved, Pushed, FromDrafts
<1>4. StartsApart
    BY <1>1 DEF StartsApart, Never
<1>5. WaitsKnown /\ OffWhenStopped
    BY <1>1 DEF WaitsKnown, WaitsForTheFirst, OffWhenStopped
<1> QED BY <1>3, <1>4, <1>5 DEF HeapInv
-----------------------------------------------------------------------------
(* The lists of the wheel: what is in one, and that nothing is there twice.*)
Holds(list, t) == \E i \in 1 .. Len(list) : list[i] = t
Once(list) == \A i, j \in 1 .. Len(list) : list[i] = list[j] => i = j

(* The empty list. *)
LEMMA EmptyList == Once(<<>>) /\ \A t : ~Holds(<<>>, t)
    BY DEF Once, Holds

(* A list that a task is put in front of. *)
LEMMA PutInFront ==
    ASSUME NEW T, NEW list \in Seq(T), NEW t \in T
    PROVE  /\ <<t>> \o list \in Seq(T)
           /\ \A x : Holds(<<t>> \o list, x) <=> x = t \/ Holds(list, x)
           /\ Once(list) /\ ~Holds(list, t) => Once(<<t>> \o list)
<1> DEFINE longer == <<t>> \o list
<1>1. /\ longer \in Seq(T) /\ Len(list) \in Nat /\ Len(longer) = Len(list) + 1
      /\ longer[1] = t /\ \A i \in 1 .. Len(list) : longer[i + 1] = list[i]
    OBVIOUS
<1> HIDE DEF longer
<1>2. \A i \in 1 .. Len(longer) : i = 1 \/ (i - 1 \in 1 .. Len(list) /\ longer[i] = list[i - 1])
    <2> TAKE i \in 1 .. Len(longer)
    <2>1. CASE i # 1
        <3>1. i - 1 \in 1 .. Len(list) /\ (i - 1) + 1 = i
            BY <1>1, <2>1
        <3> QED BY <1>1, <3>1
    <2> QED BY <2>1
<1>3. ASSUME NEW x PROVE Holds(longer, x) <=> x = t \/ Holds(list, x)
    <2>1. CASE x = t
        <3>1. 1 \in 1 .. Len(longer)
            BY <1>1
        <3> QED BY <1>1, <2>1, <3>1 DEF Holds
    <2>2. ASSUME Holds(list, x) PROVE Holds(longer, x)
        <3>1. PICK i \in 1 .. Len(list) : list[i] = x
            BY <2>2 DEF Holds
        <3>2. i + 1 \in 1 .. Len(longer) /\ longer[i + 1] = x
            BY <1>1, <3>1
        <3> QED BY <3>2 DEF Holds
    <2>3. ASSUME Holds(longer, x), x # t PROVE Holds(list, x)
        BY <1>1, <1>2, <2>3 DEF Holds
    <2> QED BY <2>1, <2>2, <2>3
<1>4. ASSUME Once(list), ~Holds(list, t) PROVE Once(longer)
    <2> SUFFICES ASSUME NEW i \in 1 .. Len(longer), NEW j \in 1 .. Len(longer),
                        longer[i] = longer[j]
                 PROVE  i = j
        BY DEF Once
    <2>1. CASE i # 1 /\ j # 1
        <3>1. /\ i - 1 \in 1 .. Len(list) /\ j - 1 \in 1 .. Len(list)
              /\ list[i - 1] = list[j - 1]
            BY <1>2, <2>1
        <3>2. i - 1 = j - 1
            BY <1>4, <3>1 DEF Once
        <3> QED BY <1>1, <3>2
    <2> QED BY <1>1, <1>2, <1>4, <2>1 DEF Holds
<1> QED BY <1>1, <1>3, <1>4 DEF longer

(* A list that loses its first task. *)
LEMMA TakeFirst ==
    ASSUME NEW T, NEW list \in Seq(T), list # <<>>, Once(list)
    PROVE  /\ Head(list) \in T /\ Holds(list, Head(list))
           /\ Tail(list) \in Seq(T) /\ Once(Tail(list))
           /\ \A x : Holds(Tail(list), x) <=> Holds(list, x) /\ x # Head(list)
<1> DEFINE rest == Tail(list)
<1>1. /\ Len(list) \in Nat /\ Len(list) > 0 /\ Head(list) = list[1] /\ list[1] \in T
      /\ rest \in Seq(T) /\ Len(rest) = Len(list) - 1
      /\ \A i \in 1 .. Len(list) - 1 : rest[i] = list[i + 1]
    OBVIOUS
<1> HIDE DEF rest
<1>2. Holds(list, list[1])
    BY <1>1 DEF Holds
<1>3. Once(rest)
    <2> SUFFICES ASSUME NEW i \in 1 .. Len(rest), NEW j \in 1 .. Len(rest), rest[i] = rest[j]
                 PROVE  i = j
        BY DEF Once
    <2>1. i + 1 \in 1 .. Len(list) /\ j + 1 \in 1 .. Len(list) /\ list[i + 1] = list[j + 1]
        BY <1>1
    <2>2. i + 1 = j + 1
        BY <2>1 DEF Once
    <2> QED BY <2>2
<1>4. ASSUME NEW x PROVE Holds(rest, x) <=> Holds(list, x) /\ x # list[1]
    <2>1. ASSUME Holds(rest, x) PROVE Holds(list, x) /\ x # list[1]
        <3>1. PICK i \in 1 .. Len(rest) : rest[i] = x
            BY <2>1 DEF Holds
        <3>2. /\ i + 1 \in 1 .. Len(list) /\ 1 \in 1 .. Len(list) /\ i + 1 # 1
              /\ list[i + 1] = x
            BY <1>1, <3>1
        <3>3. list[i + 1] # list[1]
            BY <3>2 DEF Once
        <3> QED BY <3>2, <3>3 DEF Holds
    <2>2. ASSUME Holds(list, x), x # list[1] PROVE Holds(rest, x)
        <3>1. PICK i \in 1 .. Len(list) : list[i] = x
            BY <2>2 DEF Holds
        <3>2. i - 1 \in 1 .. Len(rest) /\ rest[i - 1] = x
            BY <1>1, <2>2, <3>1
        <3> QED BY <3>2 DEF Holds
    <2> QED BY <2>1, <2>2
<1> QED BY <1>1, <1>2, <1>3, <1>4 DEF rest

(* Ticks and their slots: the remainder of a division, ... *)
LEMMA DivMod ==
    ASSUME NEW w \in Nat \ {0}, NEW a \in Nat
    PROVE  /\ a \div w \in Nat /\ a % w \in 0 .. w - 1
           /\ a = w * (a \div w) + (a % w)
<1>1. a = w * (a \div w) + (a % w)
    OBVIOUS
<1>2. a \div w \in Nat /\ a % w \in 0 .. w - 1
    OBVIOUS
<1> QED BY <1>1, <1>2

(* A multiple of w that is smaller than w is zero. *)
LEMMA SmallMultiple ==
    ASSUME NEW w \in Nat \ {0}, NEW q \in Int, q * w < w, -w < q * w
    PROVE  q = 0
<1>1. CASE q >= 1
    <2>1. (q - 1) * w >= 0
        BY <1>1
    <2>2. (q - 1) * w = q * w - w
        OBVIOUS
    <2>3. q * w \in Int
        OBVIOUS
    <2> QED BY <2>1, <2>2, <2>3
<1>2. CASE q <= -1
    <2>1. (q + 1) * w <= 0
        BY <1>2
    <2>2. (q + 1) * w = q * w + w
        OBVIOUS
    <2>3. q * w \in Int
        OBVIOUS
    <2> QED BY <2>1, <2>2, <2>3
<1> QED BY <1>1, <1>2

(* ... two ticks of one slot that are at most a turn apart, ... *)
LEMMA NextTurn ==
    ASSUME NEW w \in Nat \ {0}, NEW a \in Nat, NEW b \in Nat, a < b, b <= a + w, a % w = b % w
    PROVE  b = a + w
<1> DEFINE p == a \div w
           q == b \div w
           r == a % w
<1>1. p \in Nat /\ r \in 0 .. w - 1 /\ a = w * p + r
    BY DivMod
<1>2. q \in Nat /\ b = w * q + r
    <2>1. q \in Nat /\ b = w * q + (b % w)
        BY DivMod
    <2> QED BY <2>1
<1> HIDE DEF p, q, r
<1>3. b - a = w * q - w * p
    <2>1. w * p \in Int /\ w * q \in Int
        BY <1>1, <1>2
    <2> QED BY <1>1, <1>2, <2>1
<1>4. w * q - w * p = (q - p) * w
    BY <1>1, <1>2
<1>5. (q - p) * w > 0 /\ (q - p) * w <= w
    BY <1>3, <1>4
<1>6. (q - p - 1) * w = (q - p) * w - w
    BY <1>1, <1>2
<1>7. q - p - 1 \in Int /\ (q - p - 1) * w < w /\ -w < (q - p - 1) * w
    BY <1>1, <1>2, <1>5, <1>6
<1>8. q - p - 1 = 0
    BY <1>7, SmallMultiple
<1>9. (q - p) * w = w
    BY <1>1, <1>2, <1>6, <1>8
<1> QED BY <1>3, <1>4, <1>9

(* ... and a tick and the one a turn later. *)
LEMMA SameSlot ==
    ASSUME NEW w \in Nat \ {0}, NEW a \in Nat
    PROVE  (a + w) % w = a % w
<1> DEFINE p == a \div w
           q == (a + w) \div w
           r == a % w
           s == (a + w) % w
<1>1. /\ p \in Nat /\ q \in Nat /\ r \in 0 .. w - 1 /\ s \in 0 .. w - 1
      /\ a = w * p + r /\ a + w = w * q + s
    <2>1. a + w \in Nat
        OBVIOUS
    <2> QED BY <2>1, DivMod
<1> HIDE DEF p, q, r, s
<1>2. s - r = w * p + w - w * q
    <2>1. w * p \in Int /\ w * q \in Int
        BY <1>1
    <2> QED BY <1>1, <2>1
<1>3. w * p + w - w * q = (p + 1 - q) * w
    BY <1>1
<1>4. p + 1 - q \in Int /\ (p + 1 - q) * w < w /\ -w < (p + 1 - q) * w
    BY <1>1, <1>2, <1>3
<1>5. p + 1 - q = 0
    BY <1>4, SmallMultiple
<1>6. (p + 1 - q) * w = 0
    BY <1>5
<1> QED BY <1>1, <1>2, <1>3, <1>6 DEF r, s

(* A delay in ticks. *)
LEMMA DelayInTicks ==
    ASSUME NEW m \in Nat, NEW d \in Nat \ {0}
    PROVE  m \div d \in Nat
    OBVIOUS
-----------------------------------------------------------------------------
Slots == 0 .. WHEEL_SIZE - 1
SlotOf(t) == expire_time[t] % WHEEL_SIZE
InStep == wheel_worker \in {"walking", "executing"}

WheelTypes == /\ wheel \in [Slots -> Seq(WheelTimers)]
              /\ wheel_current \in Seq(WheelTimers)
              /\ current_tick \in Nat
              /\ expire_time \in [WheelTimers -> Nat \cup {-1}]
              /\ fired \in [WheelTimers -> Nat]

(* A task in a slot is in that of its tick, once, and was not called; one  *)
(* that step has yet to reach is in no slot.                               *)
Listed ==
    /\ Once(wheel_current) /\ \A s \in Slots : Once(wheel[s])
    /\ \A s \in Slots, t \in WheelTimers : Holds(wheel[s], t) =>
          expire_time[t] # -1 /\ s = SlotOf(t) /\ fired[t] = 0 /\ ~Holds(wheel_current, t)
    /\ \A t \in WheelTimers : Holds(wheel_current, t) =>
          expire_time[t] # -1 /\ (fired[t] = 0 \/ Wheel!Executing(t))
    /\ wheel_worker = "executing" => wheel_current # <<>> /\ fired[Head(wheel_current)] # 0
    /\ ~InStep => wheel_current = <<>>

(* A task that was added stays in a list until it is called. *)
NoneLost == \A t \in WheelTimers : expire_time[t] # -1 /\ fired[t] = 0 =>
                Holds(wheel[SlotOf(t)], t) \/ Holds(wheel_current, t) \/ t \notin callback

NotAdded == \A t \in WheelTimers : expire_time[t] = -1 =>
                fired[t] = 0 /\ t \notin callback /\ t \notin behind

(* What is active was not called, or is being called. *)
Callable == /\ \A t \in task_map : t \in callback /\ (fired[t] = 0 \/ Wheel!Executing(t))
            /\ \A t \in callback : fired[t] = 0 => t \in task_map
            /\ callback \subseteq WheelTimers

(* The wheel reaches the slot of a task at its tick, or, when the task was *)
(* put into the slot that is being emptied, a turn later.                  *)
InTime ==
    /\ \A t \in WheelTimers : t \in behind =>
          expire_time[t] <= current_tick /\ (~InStep => expire_time[t] < current_tick)
    /\ \A s \in Slots, t \in WheelTimers : Holds(wheel[s], t) =>
          IF t \in behind
            THEN /\ current_tick <= expire_time[t] + WHEEL_SIZE
                 /\ InStep => current_tick < expire_time[t] + WHEEL_SIZE
            ELSE expire_time[t] >= current_tick /\ (InStep => expire_time[t] > current_tick)
    /\ \A t \in WheelTimers : Holds(wheel_current, t) =>
          IF t \in behind THEN current_tick = expire_time[t] + WHEEL_SIZE
                          ELSE expire_time[t] >= current_tick

WheelInv == WheelTypes /\ Listed /\ NoneLost /\ NotAdded /\ Callable /\ InTime

(* A task is put in front of a slot. *)
LEMMA Inserted ==
    ASSUME NEW k \in Slots, NEW t \in WheelTimers,
           wheel \in [Slots -> Seq(WheelTimers)], \A s \in Slots : Once(wheel[s]),
           ~Holds(wheel[k], t), wheel' = [wheel EXCEPT ![k] = <<t>> \o @]
    PROVE  /\ wheel' \in [Slots -> Seq(WheelTimers)]
           /\ \A s \in Slots, x \in WheelTimers :
                 Holds(wheel'[s], x) <=> Holds(wheel[s], x) \/ (s = k /\ x = t)
           /\ \A s \in Slots : Once(wheel'[s])
<1>1. wheel[k] \in Seq(WheelTimers)
    OBVIOUS
<1>2. /\ <<t>> \o wheel[k] \in Seq(WheelTimers)
      /\ \A x : Holds(<<t>> \o wheel[k], x) <=> x = t \/ Holds(wheel[k], x)
      /\ Once(wheel[k]) /\ ~Holds(wheel[k], t) => Once(<<t>> \o wheel[k])
    BY <1>1, PutInFront
<1>3. wheel' \in [Slots -> Seq(WheelTimers)]
    BY <1>2
<1>4. wheel'[k] = <<t>> \o wheel[k] /\ \A s \in Slots \ {k} : wheel'[s] = wheel[s]
    OBVIOUS
<1> QED BY <1>2, <1>3, <1>4

(* A step that touches no list, no task and not the tick. *)
LEMMA ListsUntouched ==
    ASSUME WheelInv,
           UNCHANGED <<wheel, task_map, current_tick, expire_time, callback, wheel_current,
                       fired, behind>>,
           wheel_worker' = wheel_worker \/ (~InStep /\ ~InStep')
    PROVE  WheelInv'
<1>1. InStep' <=> InStep
    BY DEF InStep
<1>2. wheel_worker' = "executing" <=> wheel_worker = "executing"
    BY DEF InStep
<1>3. \A t : Wheel!Executing(t)' <=> Wheel!Executing(t)
    BY <1>2 DEF Wheel!Executing
<1>4. WheelTypes' /\ NoneLost' /\ NotAdded'
    BY DEF WheelInv, WheelTypes, NoneLost, NotAdded, SlotOf
<1>5. Listed'
    BY <1>1, <1>2, <1>3 DEF WheelInv, Listed, SlotOf
<1>6. Callable' /\ InTime'
    BY <1>1, <1>3 DEF WheelInv, Callable, InTime
<1> QED BY <1>4, <1>5, <1>6 DEF WheelInv

(* add_timer, from the owner's thread or from a callback inside step. *)
LEMMA AddTimerStep ==
    ASSUME WheelInv, NEW t \in WheelTimers, Wheel!add_timer(t)
    PROVE  WheelInv'
<1>1. PICK delay_ms \in WheelDelays :
         /\ expire_time' = [expire_time EXCEPT ![t] = current_tick + delay_ms \div TICK_MS]
         /\ wheel' = Wheel!Insert(wheel, t, current_tick + delay_ms \div TICK_MS)
         /\ behind' = IF /\ wheel_worker = "executing"
                         /\ current_tick + delay_ms \div TICK_MS = current_tick
                        THEN behind \cup {t} ELSE behind
    BY DEF Wheel!add_timer
<1>2. PICK tick \in Nat : tick = current_tick + delay_ms \div TICK_MS /\ tick >= current_tick
    <2>1. delay_ms \div TICK_MS \in Nat
        BY DelayInTicks, TimersAssumption
    <2>2. current_tick \in Nat
        BY DEF WheelInv, WheelTypes
    <2> QED BY <2>1, <2>2
<1>3. PICK k \in Slots : k = tick % WHEEL_SIZE
    <2>1. tick % WHEEL_SIZE \in Slots
        BY DivMod, TimersAssumption DEF Slots
    <2> QED BY <2>1
<1>4. /\ expire_time[t] = -1 /\ wheel_worker # "walking"
      /\ task_map' = task_map \cup {t} /\ callback' = callback \cup {t}
      /\ UNCHANGED <<current_tick, wheel_worker, wheel_current, fired>>
      /\ wheel' = [wheel EXCEPT ![k] = <<t>> \o @]
    BY <1>1, <1>2, <1>3 DEF Wheel!add_timer, Wheel!MayCall, Wheel!Insert, Wheel!slot
<1>5. /\ ~Holds(wheel_current, t) /\ \A s \in Slots : ~Holds(wheel[s], t)
      /\ fired[t] = 0 /\ t \notin behind
    BY <1>4 DEF WheelInv, Listed, NotAdded
<1>6. /\ wheel' \in [Slots -> Seq(WheelTimers)]
      /\ \A s \in Slots, x \in WheelTimers :
            Holds(wheel'[s], x) <=> Holds(wheel[s], x) \/ (s = k /\ x = t)
      /\ \A s \in Slots : Once(wheel'[s])
    <2>1. wheel \in [Slots -> Seq(WheelTimers)] /\ \A s \in Slots : Once(wheel[s])
        BY DEF WheelInv, WheelTypes, Listed
    <2>2. wheel' = [wheel EXCEPT ![k] = <<t>> \o @] /\ ~Holds(wheel[k], t)
        BY <1>4, <1>5
    <2> QED BY <2>1, <2>2, Inserted
<1>7. /\ expire_time' \in [WheelTimers -> Nat \cup {-1}]
      /\ expire_time'[t] = tick /\ tick # -1
      /\ \A x \in WheelTimers \ {t} : expire_time'[x] = expire_time[x]
    BY <1>1, <1>2 DEF WheelInv, WheelTypes
<1>8. SlotOf(t)' = k /\ \A x \in WheelTimers \ {t} : SlotOf(x)' = SlotOf(x)
    BY <1>3, <1>7 DEF SlotOf
<1>9. /\ InStep' <=> InStep
      /\ InStep => wheel_worker = "executing"
      /\ \A x : Wheel!Executing(x)' <=> Wheel!Executing(x)
    BY <1>4 DEF InStep, Wheel!Executing
<1>10. /\ \A x \in WheelTimers \ {t} : x \in behind' <=> x \in behind
       /\ t \in behind' <=> InStep /\ tick = current_tick
    BY <1>1, <1>2, <1>5, <1>9 DEF InStep
<1>11. WheelTypes'
    BY <1>4, <1>6, <1>7 DEF WheelInv, WheelTypes
<1>12. Listed'
    <2>1. Once(wheel_current)' /\ \A s \in Slots : Once(wheel[s])'
        BY <1>4, <1>6 DEF WheelInv, Listed
    <2>2. ASSUME NEW s \in Slots, NEW x \in WheelTimers, Holds(wheel'[s], x)
          PROVE  /\ expire_time'[x] # -1 /\ s = SlotOf(x)' /\ fired'[x] = 0
                 /\ ~Holds(wheel_current', x)
        <3>1. CASE x = t
            <4>1. s = k
                BY <1>5, <1>6, <2>2, <3>1
            <4> QED BY <1>4, <1>5, <1>7, <1>8, <3>1, <4>1
        <3>2. CASE x # t
            <4>1. Holds(wheel[s], x)
                BY <1>6, <2>2, <3>2
            <4> QED BY <1>4, <1>7, <1>8, <3>2, <4>1 DEF WheelInv, Listed
        <3> QED BY <3>1, <3>2
    <2>3. \A x \in WheelTimers : Holds(wheel_current', x) =>
             expire_time'[x] # -1 /\ (fired'[x] = 0 \/ Wheel!Executing(x)')
        BY <1>4, <1>5, <1>7, <1>9 DEF WheelInv, Listed
    <2>4. /\ wheel_worker' = "executing" => wheel_current' # <<>> /\ fired'[Head(wheel_current')] # 0
          /\ ~InStep' => wheel_current' = <<>>
        BY <1>4, <1>9 DEF WheelInv, Listed
    <2> QED BY <2>1, <2>2, <2>3, <2>4 DEF Listed
<1>13. NoneLost'
    <2> SUFFICES ASSUME NEW x \in WheelTimers, (expire_time[x] # -1)', (fired[x] = 0)'
                 PROVE  (Holds(wheel[SlotOf(x)], x) \/ Holds(wheel_current, x) \/ x \notin callback)'
        BY DEF NoneLost
    <2>1. CASE x = t
        BY <1>6, <1>8, <2>1
    <2>2. CASE x # t
        <3>1. Holds(wheel[SlotOf(x)], x) \/ Holds(wheel_current, x) \/ x \notin callback
            BY <1>4, <1>7, <2>2 DEF WheelInv, NoneLost
        <3>2. Holds(wheel[SlotOf(x)], x) => SlotOf(x) \in Slots
            <4>1. expire_time[x] \in Nat
                BY <1>7, <2>2 DEF WheelInv, WheelTypes
            <4> QED BY <4>1, DivMod, TimersAssumption DEF SlotOf, Slots
        <3> QED BY <1>4, <1>6, <1>8, <2>2, <3>1, <3>2
    <2> QED BY <2>1, <2>2
<1>14. NotAdded' /\ Callable'
    BY <1>4, <1>5, <1>7, <1>9, <1>10 DEF WheelInv, NotAdded, Callable
<1>15. InTime'
    <2>1. \A x \in WheelTimers : (x \in behind =>
             expire_time[x] <= current_tick /\ (~InStep => expire_time[x] < current_tick))'
        BY <1>2, <1>4, <1>7, <1>9, <1>10 DEF WheelInv, InTime, WheelTypes
    <2>2. ASSUME NEW s \in Slots, NEW x \in WheelTimers, Holds(wheel'[s], x)
          PROVE  (IF x \in behind
                    THEN /\ current_tick <= expire_time[x] + WHEEL_SIZE
                         /\ InStep => current_tick < expire_time[x] + WHEEL_SIZE
                    ELSE expire_time[x] >= current_tick /\ (InStep => expire_time[x] > current_tick))'
        <3>1. CASE x = t
            BY <1>2, <1>4, <1>7, <1>9, <1>10, <3>1, TimersAssumption DEF WheelInv, WheelTypes
        <3>2. CASE x # t
            <4>1. Holds(wheel[s], x)
                BY <1>6, <2>2, <3>2
            <4> QED BY <1>4, <1>7, <1>9, <1>10, <3>2, <4>1 DEF WheelInv, InTime
        <3> QED BY <3>1, <3>2
    <2>3. \A x \in WheelTimers : (Holds(wheel_current, x) =>
             IF x \in behind THEN current_tick = expire_time[x] + WHEEL_SIZE
                             ELSE expire_time[x] >= current_tick)'
        BY <1>4, <1>5, <1>7, <1>10 DEF WheelInv, InTime
    <2> QED BY <2>1, <2>2, <2>3 DEF InTime
<1> QED BY <1>11, <1>12, <1>13, <1>14, <1>15 DEF WheelInv

(* cancel_timer: the task stays in its list, without a callback. *)
LEMMA CancelTimerStep ==
    ASSUME WheelInv, NEW t \in WheelTimers, Wheel!cancel_timer(t)
    PROVE  WheelInv'
<1>1. /\ callback' = callback \ {t} /\ task_map' = task_map \ {t}
      /\ UNCHANGED <<wheel, current_tick, expire_time, wheel_worker, wheel_current, fired, behind>>
    BY DEF Wheel!cancel_timer
<1>2. /\ InStep' <=> InStep
      /\ \A x : Wheel!Executing(x)' <=> Wheel!Executing(x)
      /\ \A x : SlotOf(x)' = SlotOf(x)
    BY <1>1 DEF InStep, Wheel!Executing, SlotOf
<1>3. WheelTypes' /\ NotAdded'
    BY <1>1 DEF WheelInv, WheelTypes, NotAdded
<1>4. Listed'
    BY <1>1, <1>2 DEF WheelInv, Listed
<1>5. InTime'
    BY <1>1, <1>2 DEF WheelInv, InTime
<1>6. NoneLost'
    BY <1>1, <1>2 DEF WheelInv, NoneLost
<1>7. Callable'
    BY <1>1, <1>2 DEF WheelInv, Callable
<1> QED BY <1>3, <1>4, <1>5, <1>6, <1>7 DEF WheelInv

(* step takes the list of the slot of its tick. *)
LEMMA BeginStepStep ==
    ASSUME WheelInv, Wheel!BeginStep
    PROVE  WheelInv'
<1>1. PICK k \in Slots : k = current_tick % WHEEL_SIZE
    <2>1. current_tick % WHEEL_SIZE \in Slots
        BY DivMod, TimersAssumption DEF Slots, WheelInv, WheelTypes
    <2> QED BY <2>1
<1>2. /\ wheel_worker = "advancing" /\ wheel_worker' = "walking"
      /\ wheel_current' = wheel[k] /\ wheel' = [wheel EXCEPT ![k] = <<>>]
      /\ UNCHANGED <<task_map, current_tick, expire_time, callback, fired, behind>>
    BY <1>1 DEF Wheel!BeginStep, Wheel!slot
<1>3. ~InStep /\ InStep' /\ wheel_current = <<>> /\ \A x : ~Holds(wheel_current, x)
    BY <1>2, EmptyList DEF InStep, WheelInv, Listed
<1>4. /\ \A x : ~Wheel!Executing(x) /\ ~Wheel!Executing(x)'
      /\ \A x : SlotOf(x)' = SlotOf(x)
    BY <1>2 DEF Wheel!Executing, SlotOf
<1>5. WheelTypes'
    BY <1>2 DEF WheelInv, WheelTypes
<1>6. /\ \A s \in Slots \ {k} : wheel'[s] = wheel[s]
      /\ wheel'[k] = <<>>
    BY <1>2 DEF WheelInv, WheelTypes
<1>7. \A s \in Slots, x \in WheelTimers : Holds(wheel'[s], x) <=> s # k /\ Holds(wheel[s], x)
    BY <1>6, EmptyList
<1>8. Listed'
    <2>1. Once(wheel_current)' /\ \A s \in Slots : Once(wheel[s])'
        BY <1>2, <1>6, EmptyList DEF WheelInv, Listed
    <2>2. \A s \in Slots, x \in WheelTimers : Holds(wheel'[s], x) =>
             expire_time'[x] # -1 /\ s = SlotOf(x)' /\ fired'[x] = 0 /\ ~Holds(wheel_current', x)
        BY <1>2, <1>4, <1>7 DEF WheelInv, Listed
    <2>3. \A x \in WheelTimers : Holds(wheel_current', x) => expire_time'[x] # -1 /\ fired'[x] = 0
        BY <1>2 DEF WheelInv, Listed
    <2> QED BY <1>2, <1>3, <2>1, <2>2, <2>3 DEF Listed
<1>9. NoneLost'
    <2> SUFFICES ASSUME NEW x \in WheelTimers, expire_time[x] # -1, fired[x] = 0, x \in callback
                 PROVE  Holds(wheel'[SlotOf(x)], x) \/ Holds(wheel_current', x)
        BY <1>2, <1>4 DEF NoneLost
    <2>1. Holds(wheel[SlotOf(x)], x)
        BY <1>3 DEF WheelInv, NoneLost
    <2>2. SlotOf(x) \in Slots
        <3>1. expire_time[x] \in Nat
            BY DEF WheelInv, WheelTypes
        <3> QED BY <3>1, DivMod, TimersAssumption DEF SlotOf, Slots
    <2> QED BY <1>2, <1>7, <2>1, <2>2
<1>10. NotAdded' /\ Callable'
    BY <1>2, <1>4 DEF WheelInv, NotAdded, Callable
<1>11. ASSUME NEW s \in Slots, NEW x \in WheelTimers, Holds(wheel[s], x)
       PROVE  /\ expire_time[x] \in Nat /\ current_tick \in Nat
              /\ s = k <=> expire_time[x] % WHEEL_SIZE = current_tick % WHEEL_SIZE
              /\ s # k => expire_time[x] # current_tick
              /\ s # k => current_tick # expire_time[x] + WHEEL_SIZE
              /\ x \in behind => expire_time[x] < current_tick
    <2>1. expire_time[x] \in Nat /\ current_tick \in Nat /\ s = expire_time[x] % WHEEL_SIZE
        BY <1>11 DEF WheelInv, WheelTypes, Listed, SlotOf
    <2>2. (expire_time[x] + WHEEL_SIZE) % WHEEL_SIZE = expire_time[x] % WHEEL_SIZE
        BY <2>1, SameSlot, TimersAssumption
    <2>3. x \in behind => expire_time[x] < current_tick
        BY <1>3 DEF WheelInv, InTime
    <2> QED BY <1>1, <2>1, <2>2, <2>3
<1>12. InTime'
    <2>1. \A x \in WheelTimers : (x \in behind =>
             expire_time[x] <= current_tick /\ (~InStep => expire_time[x] < current_tick))'
        BY <1>2, <1>3 DEF WheelInv, InTime
    <2>2. ASSUME NEW s \in Slots, NEW x \in WheelTimers, Holds(wheel'[s], x)
          PROVE  IF x \in behind
                    THEN /\ current_tick <= expire_time[x] + WHEEL_SIZE
                         /\ current_tick < expire_time[x] + WHEEL_SIZE
                    ELSE expire_time[x] >= current_tick /\ expire_time[x] > current_tick
        <3>1. s # k /\ Holds(wheel[s], x)
            BY <1>7, <2>2
        <3>2. IF x \in behind THEN current_tick <= expire_time[x] + WHEEL_SIZE
                              ELSE expire_time[x] >= current_tick
            BY <3>1 DEF WheelInv, InTime
        <3> QED BY <1>11, <3>1, <3>2, TimersAssumption
    <2>3. ASSUME NEW x \in WheelTimers, Holds(wheel_current', x)
          PROVE  IF x \in behind THEN current_tick = expire_time[x] + WHEEL_SIZE
                                 ELSE expire_time[x] >= current_tick
        <3>1. Holds(wheel[k], x)
            BY <1>2, <2>3
        <3>2. IF x \in behind THEN current_tick <= expire_time[x] + WHEEL_SIZE
                              ELSE expire_time[x] >= current_tick
            BY <3>1 DEF WheelInv, InTime
        <3>3. /\ expire_time[x] \in Nat /\ current_tick \in Nat
              /\ expire_time[x] % WHEEL_SIZE = current_tick % WHEEL_SIZE
              /\ x \in behind => expire_time[x] < current_tick
            BY <1>11, <3>1
        <3> QED BY <3>2, <3>3, NextTurn, TimersAssumption
    <2> QED BY <1>2, <1>3, <2>1, <2>2, <2>3 DEF InTime
<1> QED BY <1>5, <1>8, <1>9, <1>10, <1>12 DEF WheelInv

(* step comes to the next task of its list.  One that is not due is put    *)
(* back; one that was cancelled is dropped; else its callback begins.      *)
LEMMA VisitStep ==
    ASSUME WheelInv, Wheel!Visit
    PROVE  /\ WheelInv'
           /\ \A t \in WheelTimers : fired'[t] # fired[t] =>
                 /\ fired'[t] = 1 /\ t \in task_map
                 /\ current_tick = expire_time[t] + (IF t \in behind THEN WHEEL_SIZE ELSE 0)
<1>1. PICK t \in WheelTimers : /\ t = Head(wheel_current) /\ Holds(wheel_current, t)
                               /\ wheel_current # <<>>
    <2>1. wheel_current # <<>> /\ wheel_current \in Seq(WheelTimers) /\ Once(wheel_current)
        BY DEF Wheel!Visit, WheelInv, WheelTypes, Listed
    <2> QED BY <2>1, TakeFirst
<1>2. /\ wheel_worker = "walking" /\ InStep /\ \A x : ~Wheel!Executing(x)
      /\ UNCHANGED <<current_tick, expire_time, callback, behind>>
      /\ \A x : SlotOf(x)' = SlotOf(x)
    BY DEF Wheel!Visit, InStep, Wheel!Executing, SlotOf
<1>3. /\ expire_time[t] \in Nat /\ current_tick \in Nat /\ fired[t] = 0
      /\ \A s \in Slots : ~Holds(wheel[s], t)
      /\ IF t \in behind THEN current_tick = expire_time[t] + WHEEL_SIZE
                         ELSE expire_time[t] >= current_tick
    BY <1>1, <1>2 DEF WheelInv, WheelTypes, Listed, InTime
<1>4. /\ Tail(wheel_current) \in Seq(WheelTimers) /\ Once(Tail(wheel_current))
      /\ \A x : Holds(Tail(wheel_current), x) <=> Holds(wheel_current, x) /\ x # t
    BY <1>1, TakeFirst DEF WheelInv, WheelTypes, Listed
<1>5. CASE /\ Wheel!Due(t) /\ t \in callback
           /\ fired' = [fired EXCEPT ![t] = @ + 1] /\ wheel_worker' = "executing"
           /\ UNCHANGED <<wheel, task_map, wheel_current>>
    <2>1. /\ fired' \in [WheelTimers -> Nat] /\ fired'[t] = 1
          /\ \A x \in WheelTimers \ {t} : fired'[x] = fired[x]
        BY <1>3, <1>5 DEF WheelInv, WheelTypes
    <2>2. /\ InStep' /\ Wheel!Executing(t)'
          /\ t = Head(wheel_current')
        BY <1>1, <1>5 DEF InStep, Wheel!Executing
    <2>3. current_tick = expire_time[t] + (IF t \in behind THEN WHEEL_SIZE ELSE 0)
        BY <1>3, <1>5, TimersAssumption DEF Wheel!Due
    <2>4. t \in task_map
        BY <1>3, <1>5 DEF WheelInv, Callable
    <2>5. WheelTypes'
        BY <1>2, <1>5, <2>1 DEF WheelInv, WheelTypes
    <2>6. Listed'
        <3>1. Once(wheel_current)' /\ \A s \in Slots : Once(wheel[s])'
            BY <1>5 DEF WheelInv, Listed
        <3>2. \A s \in Slots, x \in WheelTimers : Holds(wheel'[s], x) =>
                 expire_time'[x] # -1 /\ s = SlotOf(x)' /\ fired'[x] = 0 /\ ~Holds(wheel_current', x)
            BY <1>2, <1>3, <1>5, <2>1 DEF WheelInv, Listed
        <3>3. \A x \in WheelTimers : Holds(wheel_current', x) =>
                 expire_time'[x] # -1 /\ (fired'[x] = 0 \/ Wheel!Executing(x)')
            BY <1>2, <1>5, <2>1, <2>2 DEF WheelInv, Listed
        <3> QED BY <1>1, <1>5, <2>1, <2>2, <3>1, <3>2, <3>3 DEF Listed
    <2>7. NoneLost'
        BY <1>2, <1>5, <2>1 DEF WheelInv, NoneLost
    <2>8. NotAdded'
        BY <1>2, <1>3, <2>1 DEF WheelInv, NotAdded
    <2>9. Callable'
        BY <1>2, <1>5, <2>1, <2>2 DEF WheelInv, Callable
    <2>10. InTime'
        BY <1>2, <1>5, <2>2 DEF WheelInv, InTime
    <2>11. \A x \in WheelTimers : fired'[x] # fired[x] => x = t
        BY <2>1
    <2> QED BY <2>1, <2>3, <2>4, <2>5, <2>6, <2>7, <2>8, <2>9, <2>10, <2>11 DEF WheelInv
<1>6. CASE /\ Wheel!Due(t) /\ t \notin callback
           /\ task_map' = task_map \ {t} /\ wheel_current' = Tail(wheel_current)
           /\ UNCHANGED <<wheel, wheel_worker, fired>>
    <2>1. InStep' /\ wheel_worker' = "walking" /\ \A x : ~Wheel!Executing(x)'
        BY <1>2, <1>6 DEF InStep, Wheel!Executing
    <2>2. \A x : Holds(wheel_current', x) <=> Holds(wheel_current, x) /\ x # t
        BY <1>4, <1>6
    <2>3. WheelTypes'
        BY <1>2, <1>4, <1>6 DEF WheelInv, WheelTypes
    <2>4. Listed'
        <3>1. Once(wheel_current)' /\ \A s \in Slots : Once(wheel[s])'
            BY <1>4, <1>6 DEF WheelInv, Listed
        <3>2. \A s \in Slots, x \in WheelTimers : Holds(wheel'[s], x) =>
                 expire_time'[x] # -1 /\ s = SlotOf(x)' /\ fired'[x] = 0 /\ ~Holds(wheel_current', x)
            BY <1>2, <1>6, <2>2 DEF WheelInv, Listed
        <3>3. \A x \in WheelTimers : Holds(wheel_current', x) =>
                 expire_time'[x] # -1 /\ fired'[x] = 0
            BY <1>2, <1>6, <2>2 DEF WheelInv, Listed
        <3> QED BY <2>1, <3>1, <3>2, <3>3 DEF Listed
    <2>5. NoneLost'
        BY <1>2, <1>6, <2>2 DEF WheelInv, NoneLost
    <2>6. NotAdded' /\ Callable'
        BY <1>2, <1>6, <2>1 DEF WheelInv, NotAdded, Callable
    <2>7. InTime'
        BY <1>2, <1>6, <2>1, <2>2 DEF WheelInv, InTime
    <2> QED BY <1>6, <2>3, <2>4, <2>5, <2>6, <2>7 DEF WheelInv
<1>7. CASE /\ ~Wheel!Due(t)
           /\ wheel' = Wheel!Insert(wheel, t, expire_time[t]) /\ wheel_current' = Tail(wheel_current)
           /\ UNCHANGED <<task_map, wheel_worker, fired>>
    <2>1. InStep' /\ wheel_worker' = "walking" /\ \A x : ~Wheel!Executing(x)'
        BY <1>2, <1>7 DEF InStep, Wheel!Executing
    <2>2. \A x : Holds(wheel_current', x) <=> Holds(wheel_current, x) /\ x # t
        BY <1>4, <1>7
    <2>3. expire_time[t] > current_tick /\ t \notin behind
        BY <1>3, <1>7, TimersAssumption DEF Wheel!Due
    <2>4. PICK k \in Slots : k = SlotOf(t)
        <3>1. SlotOf(t) \in Slots
            BY <1>3, DivMod, TimersAssumption DEF SlotOf, Slots
        <3> QED BY <3>1
    <2>5. /\ wheel' \in [Slots -> Seq(WheelTimers)]
          /\ \A s \in Slots, x \in WheelTimers :
                Holds(wheel'[s], x) <=> Holds(wheel[s], x) \/ (s = k /\ x = t)
          /\ \A s \in Slots : Once(wheel'[s])
        <3>1. wheel \in [Slots -> Seq(WheelTimers)] /\ \A s \in Slots : Once(wheel[s])
            BY DEF WheelInv, WheelTypes, Listed
        <3>2. wheel' = [wheel EXCEPT ![k] = <<t>> \o @]
            BY <1>7, <2>4 DEF Wheel!Insert, Wheel!slot, SlotOf
        <3>3. ~Holds(wheel[k], t)
            BY <1>3
        <3> QED BY <3>1, <3>2, <3>3, Inserted
    <2>6. WheelTypes'
        BY <1>2, <1>4, <1>7, <2>5 DEF WheelInv, WheelTypes
    <2>7. Listed'
        <3>1. Once(wheel_current)' /\ \A s \in Slots : Once(wheel[s])'
            BY <1>4, <1>7, <2>5
        <3>2. ASSUME NEW s \in Slots, NEW x \in WheelTimers, Holds(wheel'[s], x)
              PROVE  /\ expire_time'[x] # -1 /\ s = SlotOf(x)' /\ fired'[x] = 0
                     /\ ~Holds(wheel_current', x)
            <4>1. CASE x = t
                BY <1>2, <1>3, <1>7, <2>2, <2>4, <2>5, <3>2, <4>1
            <4>2. CASE x # t
                BY <1>2, <1>7, <2>2, <2>5, <3>2, <4>2 DEF WheelInv, Listed
            <4> QED BY <4>1, <4>2
        <3>3. \A x \in WheelTimers : Holds(wheel_current', x) =>
                 expire_time'[x] # -1 /\ fired'[x] = 0
            BY <1>2, <1>7, <2>2 DEF WheelInv, Listed
        <3> QED BY <2>1, <3>1, <3>2, <3>3 DEF Listed
    <2>8. NoneLost'
        <3> SUFFICES ASSUME NEW x \in WheelTimers, expire_time[x] # -1, fired[x] = 0, x \in callback
                     PROVE  Holds(wheel'[SlotOf(x)], x) \/ Holds(wheel_current', x)
            BY <1>2, <1>7 DEF NoneLost
        <3>1. SlotOf(x) \in Slots
            <4>1. expire_time[x] \in Nat
                BY DEF WheelInv, WheelTypes
            <4> QED BY <4>1, DivMod, TimersAssumption DEF SlotOf, Slots
        <3>2. Holds(wheel[SlotOf(x)], x) \/ Holds(wheel_current, x)
            BY DEF WheelInv, NoneLost
        <3> QED BY <2>2, <2>4, <2>5, <3>1, <3>2
    <2>9. NotAdded' /\ Callable'
        BY <1>2, <1>7, <2>1 DEF WheelInv, NotAdded, Callable
    <2>10. InTime'
        <3>1. \A x \in WheelTimers : (x \in behind =>
                 expire_time[x] <= current_tick /\ (~InStep => expire_time[x] < current_tick))'
            BY <1>2, <2>1 DEF WheelInv, InTime
        <3>2. ASSUME NEW s \in Slots, NEW x \in WheelTimers, Holds(wheel'[s], x)
              PROVE  IF x \in behind
                        THEN /\ current_tick <= expire_time[x] + WHEEL_SIZE
                             /\ current_tick < expire_time[x] + WHEEL_SIZE
                        ELSE expire_time[x] >= current_tick /\ expire_time[x] > current_tick
            <4>1. CASE x = t
                BY <1>3, <2>3, <4>1
            <4>2. CASE x # t
                <5>1. Holds(wheel[s], x)
                    BY <2>5, <3>2, <4>2
                <5> QED BY <1>2, <5>1 DEF WheelInv, InTime
            <4> QED BY <4>1, <4>2
        <3>3. \A x \in WheelTimers : Holds(wheel_current', x) =>
                 IF x \in behind THEN current_tick = expire_time[x] + WHEEL_SIZE
                                 ELSE expire_time[x] >= current_tick
            BY <2>2 DEF WheelInv, InTime
        <3> QED BY <1>2, <2>1, <3>1, <3>2, <3>3 DEF InTime
    <2> QED BY <1>7, <2>6, <2>7, <2>8, <2>9, <2>10 DEF WheelInv
<1> QED BY <1>1, <1>5, <1>6, <1>7 DEF Wheel!Visit

(* The callback has returned: the task leaves the list and the map. *)
LEMMA CallbackEndsStep ==
    ASSUME WheelInv, Wheel!CallbackEnds
    PROVE  WheelInv'
<1>1. /\ wheel_worker = "executing" /\ wheel_worker' = "walking"
      /\ wheel_current # <<>> /\ wheel_current' = Tail(wheel_current)
      /\ task_map' = task_map \ {Head(wheel_current)}
      /\ UNCHANGED <<wheel, current_tick, expire_time, callback, fired, behind>>
      /\ \A x : SlotOf(x)' = SlotOf(x)
    BY DEF Wheel!CallbackEnds, WheelInv, Listed, SlotOf
<1>2. PICK t \in WheelTimers : t = Head(wheel_current) /\ Holds(wheel_current, t) /\ fired[t] # 0
    <2>1. /\ wheel_current \in Seq(WheelTimers) /\ Once(wheel_current)
          /\ fired[Head(wheel_current)] # 0
        BY <1>1 DEF WheelInv, WheelTypes, Listed
    <2> QED BY <1>1, <2>1, TakeFirst
<1>3. /\ Tail(wheel_current) \in Seq(WheelTimers) /\ Once(Tail(wheel_current))
      /\ \A x : Holds(wheel_current', x) <=> Holds(wheel_current, x) /\ x # t
    BY <1>1, <1>2, TakeFirst DEF WheelInv, WheelTypes, Listed
<1>4. /\ InStep /\ InStep' /\ \A x : ~Wheel!Executing(x)'
      /\ \A x : Wheel!Executing(x) <=> x = t
    BY <1>1, <1>2 DEF InStep, Wheel!Executing
<1>5. WheelTypes'
    BY <1>1, <1>3 DEF WheelInv, WheelTypes
<1>6. Listed'
    <2>1. Once(wheel_current)' /\ \A s \in Slots : Once(wheel[s])'
        BY <1>1, <1>3 DEF WheelInv, Listed
    <2>2. \A s \in Slots, x \in WheelTimers : Holds(wheel'[s], x) =>
             expire_time'[x] # -1 /\ s = SlotOf(x)' /\ fired'[x] = 0 /\ ~Holds(wheel_current', x)
        BY <1>1, <1>3 DEF WheelInv, Listed
    <2>3. \A x \in WheelTimers : Holds(wheel_current', x) => expire_time'[x] # -1 /\ fired'[x] = 0
        BY <1>1, <1>3, <1>4 DEF WheelInv, Listed
    <2> QED BY <1>1, <1>4, <2>1, <2>2, <2>3 DEF Listed
<1>7. NoneLost'
    BY <1>1, <1>2, <1>3 DEF WheelInv, NoneLost
<1>8. NotAdded' /\ Callable'
    BY <1>1, <1>2, <1>4 DEF WheelInv, NotAdded, Callable
<1>9. InTime'
    BY <1>1, <1>3, <1>4 DEF WheelInv, InTime
<1> QED BY <1>5, <1>6, <1>7, <1>8, <1>9 DEF WheelInv

(* step has reached the end of its list: the next tick begins. *)
LEMMA EndStepStep ==
    ASSUME WheelInv, Wheel!EndStep
    PROVE  WheelInv'
<1>1. /\ wheel_worker = "walking" /\ wheel_worker' \in {"waiting", "advancing"}
      /\ wheel_current = <<>> /\ current_tick' = current_tick + 1
      /\ UNCHANGED <<wheel, task_map, expire_time, callback, wheel_current, fired, behind>>
      /\ \A x : SlotOf(x)' = SlotOf(x)
    BY DEF Wheel!EndStep, SlotOf
<1>2. /\ InStep /\ ~InStep' /\ \A x : ~Wheel!Executing(x) /\ ~Wheel!Executing(x)'
      /\ \A x : ~Holds(wheel_current, x)
    BY <1>1, EmptyList DEF InStep, Wheel!Executing
<1>3. WheelTypes' /\ NotAdded' /\ Callable'
    BY <1>1, <1>2 DEF WheelInv, WheelTypes, NotAdded, Callable
<1>4. Listed'
    BY <1>1, <1>2 DEF WheelInv, Listed
<1>5. NoneLost'
    BY <1>1 DEF WheelInv, NoneLost
<1>6. InTime'
    <2>1. /\ current_tick \in Nat
          /\ \A x \in WheelTimers : expire_time[x] \in Nat \cup {-1}
        BY DEF WheelInv, WheelTypes
    <2>2. \A x \in WheelTimers : x \in behind => expire_time[x] < current_tick'
        BY <1>1, <2>1 DEF WheelInv, InTime
    <2>3. ASSUME NEW s \in Slots, NEW x \in WheelTimers, Holds(wheel[s], x)
          PROVE  IF x \in behind THEN current_tick' <= expire_time[x] + WHEEL_SIZE
                                 ELSE expire_time[x] >= current_tick'
        <3>1. IF x \in behind THEN current_tick < expire_time[x] + WHEEL_SIZE
                              ELSE expire_time[x] > current_tick
            BY <1>2, <2>3 DEF WheelInv, InTime
        <3> QED BY <1>1, <2>1, <3>1, TimersAssumption
    <2>4. \A x \in WheelTimers : expire_time[x] < current_tick' => expire_time[x] <= current_tick'
        BY <1>1, <2>1
    <2> QED BY <1>1, <1>2, <2>2, <2>3, <2>4 DEF InTime
<1> QED BY <1>3, <1>4, <1>5, <1>6 DEF WheelInv

(* Every step keeps the invariant, and calls a task once and in its tick.  *)
LEMMA WheelStep ==
    WheelInv /\ (Wheel!Next \/ UNCHANGED wheelVars) =>
        /\ WheelInv'
        /\ \A t \in WheelTimers : fired'[t] # fired[t] =>
              /\ fired'[t] = 1 /\ t \in task_map
              /\ current_tick = expire_time[t] + (IF t \in behind THEN WHEEL_SIZE ELSE 0)
<1> SUFFICES ASSUME WheelInv, Wheel!Next \/ UNCHANGED wheelVars
             PROVE  /\ WheelInv'
                    /\ \A t \in WheelTimers : fired'[t] # fired[t] =>
                          /\ fired'[t] = 1 /\ t \in task_map
                          /\ current_tick =
                                expire_time[t] + (IF t \in behind THEN WHEEL_SIZE ELSE 0)
    OBVIOUS
<1>1. CASE Wheel!Visit
    BY <1>1, VisitStep
<1>2. CASE Wheel!start \/ Wheel!stop \/ Wheel!Iterate \/ Wheel!Leave \/ UNCHANGED wheelVars
    <2>1. /\ UNCHANGED <<wheel, task_map, current_tick, expire_time, callback, wheel_current,
                         fired, behind>>
          /\ wheel_worker' = wheel_worker \/ (~InStep /\ ~InStep')
        BY <1>2
        DEF Wheel!start, Wheel!stop, Wheel!Iterate, Wheel!Leave, wheelVars, InStep
    <2> QED BY <2>1, ListsUntouched
<1>3. ASSUME NEW t \in WheelTimers, Wheel!add_timer(t) \/ Wheel!cancel_timer(t)
      PROVE  WheelInv' /\ UNCHANGED fired
    <2>1. UNCHANGED fired
        BY <1>3 DEF Wheel!add_timer, Wheel!cancel_timer
    <2> QED BY <1>3, <2>1, AddTimerStep, CancelTimerStep
<1>4. CASE Wheel!BeginStep \/ Wheel!CallbackEnds \/ Wheel!EndStep
    <2>1. UNCHANGED fired
        BY <1>4 DEF Wheel!BeginStep, Wheel!CallbackEnds, Wheel!EndStep
    <2> QED BY <1>4, <2>1, BeginStepStep, CallbackEndsStep, EndStepStep
<1> QED BY <1>1, <1>2, <1>3, <1>4 DEF Wheel!Next

(* The wheel starts empty. *)
LEMMA WheelStart == Wheel!Init => WheelInv
<1> SUFFICES ASSUME Wheel!Init PROVE WheelInv
    OBVIOUS
<1>1. /\ wheel = [s \in Slots |-> <<>>] /\ task_map = {} /\ current_tick = 0
      /\ expire_time = [t \in WheelTimers |-> -1] /\ fired = [t \in WheelTimers |-> 0]
      /\ callback = {} /\ wheel_worker = "off" /\ wheel_current = <<>> /\ behind = {}
    BY DEF Wheel!Init, Slots
<1>2. <<>> \in Seq(WheelTimers)
    OBVIOUS
<1>3. WheelTypes
    BY <1>1, <1>2 DEF WheelTypes
<1>4. Listed
    BY <1>1, EmptyList DEF Listed, InStep
<1>5. NoneLost /\ NotAdded /\ Callable /\ InTime
    BY <1>1, EmptyList DEF NoneLost, NotAdded, Callable, InTime
<1> QED BY <1>3, <1>4, <1>5 DEF WheelInv

(* What the invariant says of the wheel, in the wheel's own terms. *)
LEMMA WheelInvConserves == WheelInv => WheelConserved
<1> SUFFICES ASSUME WheelInv PROVE WheelConserved
    OBVIOUS
<1>1. \A list, t : Wheel!Contains(list, t) <=> Holds(list, t)
    BY DEF Wheel!Contains, Holds
<1>2. ASSUME NEW t \in WheelTimers, expire_time[t] # -1, fired[t] = 0
      PROVE  \/ /\ Wheel!Places(t) = {Wheel!slot(expire_time[t])}
                /\ ~Wheel!Contains(wheel_current, t)
                /\ \/ expire_time[t] >= current_tick
                   \/ t \in behind /\ current_tick <= expire_time[t] + WHEEL_SIZE
             \/ Wheel!Places(t) = {} /\ Wheel!Contains(wheel_current, t)
             \/ Wheel!Places(t) = {} /\ t \notin callback
    <2>1. Wheel!Places(t) = { s \in Slots : Holds(wheel[s], t) }
        BY <1>1 DEF Wheel!Places, WheelInv, WheelTypes
    <2>2. Wheel!slot(expire_time[t]) = SlotOf(t) /\ SlotOf(t) \in Slots
        <3>1. expire_time[t] \in Nat
            BY <1>2 DEF WheelInv, WheelTypes
        <3> QED BY <3>1, DivMod, TimersAssumption DEF Wheel!slot, SlotOf, Slots
    <2>3. \A s \in Slots : Holds(wheel[s], t) => s = SlotOf(t) /\ ~Holds(wheel_current, t)
        BY DEF WheelInv, Listed
    <2>4. CASE Holds(wheel[SlotOf(t)], t)
        <3>1. Wheel!Places(t) = {SlotOf(t)} /\ ~Holds(wheel_current, t)
            BY <2>1, <2>2, <2>3, <2>4
        <3>2. \/ expire_time[t] >= current_tick
              \/ t \in behind /\ current_tick <= expire_time[t] + WHEEL_SIZE
            BY <2>2, <2>4 DEF WheelInv, InTime
        <3> QED BY <1>1, <2>2, <3>1, <3>2
    <2>5. CASE ~Holds(wheel[SlotOf(t)], t)
        <3>1. Wheel!Places(t) = {}
            BY <2>1, <2>3, <2>5
        <3>2. Holds(wheel_current, t) \/ t \notin callback
            BY <1>2, <2>5 DEF WheelInv, NoneLost
        <3> QED BY <1>1, <3>1, <3>2
    <2> QED BY <2>4, <2>5
<1>3. /\ \A t \in task_map : t \in callback /\ (fired[t] = 0 \/ Wheel!Executing(t))
      /\ \A t \in callback : fired[t] = 0 => t \in task_map
    BY DEF WheelInv, Callable
<1> QED BY <1>2, <1>3 DEF WheelConserved, Wheel!WheelConserved
-----------------------------------------------------------------------------
(* Both invariants hold in every state of the two timers. *)
LEMMA TimersInvariant == TimersSpec => [](HeapInv /\ WheelInv)
<1>1. TimersInit => HeapInv /\ WheelInv
    BY HeapStart, WheelStart DEF TimersInit
<1>2. HeapInv /\ WheelInv /\ [TimersNext]_<<which, vars, wheelVars>> => (HeapInv /\ WheelInv)'
    <2> SUFFICES ASSUME HeapInv, WheelInv, [TimersNext]_<<which, vars, wheelVars>>
                 PROVE  HeapInv' /\ WheelInv'
        OBVIOUS
    <2>1. [Next]_vars /\ (Wheel!Next \/ UNCHANGED wheelVars)
        BY DEF TimersNext
    <2> QED BY <2>1, HeapStep, WheelStep
<1> QED BY <1>1, <1>2, PTL DEF TimersSpec

(* No task is lost or doubled, whatever start and stop do meanwhile: it is *)
(* in the heap or in execution until a one-shot task has been started.     *)
THEOREM TasksKept == TimersSpec => []TasksConserved
<1>1. HeapInv => TasksConserved
    BY DEF HeapInv
<1> QED BY <1>1, TimersInvariant, PTL

(* The worker never sleeps through a due time, although add_task notifies  *)
(* only after it has released the mutex and stop notifies without it.      *)
THEOREM NeverSleepsThrough == TimersSpec => []WaitsForTheFirst
<1>1. HeapInv => WaitsForTheFirst
    BY DEF HeapInv, WaitsKnown
<1> QED BY <1>1, TimersInvariant, PTL

(* Two starts of a periodic task are its interval apart, also across stop  *)
(* and start.                                                              *)
THEOREM StartsKeepIntervals == TimersSpec => IntervalsKept
<1>1. HeapInv /\ [TimersNext]_<<which, vars, wheelVars>> =>
         [\A a \in Adds : lastStart[a] # Never /\ lastStart'[a] # lastStart[a]
                              => lastStart'[a] >= lastStart[a] + draft[a].interval]_vars
    <2> SUFFICES ASSUME HeapInv, [TimersNext]_<<which, vars, wheelVars>>
                 PROVE  \A a \in Adds : lastStart[a] # Never /\ lastStart'[a] # lastStart[a]
                              => lastStart'[a] >= lastStart[a] + draft[a].interval
        OBVIOUS
    <2>1. [Next]_vars
        BY DEF TimersNext
    <2> QED BY <2>1, HeapStep
<1> QED BY <1>1, TimersInvariant, PTL DEF TimersSpec, IntervalsKept

(* A task of the wheel is in the slot of its tick until step reaches it,   *)
(* and active until it is called or cancelled, whatever the callbacks that *)
(* step calls add and cancel.                                              *)
THEOREM WheelKeepsTasks == TimersSpec => []WheelConserved
<1> QED BY WheelInvConserves, TimersInvariant, PTL

(* A callback is called once at most, in the step of its tick, or one turn *)
(* of the wheel later when it was added to the slot being emptied.         *)
THEOREM CalledInItsTick == TimersSpec => FiresInItsTick
<1>1. WheelInv /\ [TimersNext]_<<which, vars, wheelVars>> =>
         [\A t \in WheelTimers : fired'[t] # fired[t] =>
             /\ fired'[t] = 1 /\ t \in task_map
             /\ current_tick = expire_time[t] + (IF t \in behind THEN WHEEL_SIZE ELSE 0)]_Wheel!vars
    <2> SUFFICES ASSUME WheelInv, [TimersNext]_<<which, vars, wheelVars>>
                 PROVE  \A t \in WheelTimers : fired'[t] # fired[t] =>
                           /\ fired'[t] = 1 /\ t \in task_map
                           /\ current_tick =
                                 expire_time[t] + (IF t \in behind THEN WHEEL_SIZE ELSE 0)
        OBVIOUS
    <2>1. Wheel!Next \/ UNCHANGED wheelVars
        BY DEF TimersNext
    <2> QED BY <2>1, WheelStep
<1> QED BY <1>1, TimersInvariant, PTL DEF TimersSpec, FiresInItsTick, Wheel!FiresInItsTick
=============================================================================
