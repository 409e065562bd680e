----------------------------- MODULE ThreadPool -----------------------------
(***************************************************************************)
(* Infrastructure_Components/ThreadPool.h: worker threads that take tasks  *)
(* from one queue, enqueue, and the destructor.                            *)
(*                                                                         *)
(* A member of Clients is one call of enqueue made outside the pool, for   *)
(* Task(c).  If c is in Nesting the body of that task calls enqueue in its *)
(* turn, for Child(c), before it ends.                                     *)
(*                                                                         *)
(* enqueue and the destructor notify after they have released queue_mutex, *)
(* so the notification is an action of its own.  The owner starts the      *)
(* destructor when every call of enqueue made outside has returned, as C++ *)
(* asks of it; tasks may be queued and running.                            *)
(***************************************************************************)
EXTENDS Integers, Sequences, FiniteSets, CondVar

CONSTANTS Workers,  \* the threads of the pool
          Clients,  \* the calls of enqueue from outside
          Nesting   \* those whose task enqueues another

(* A pool without workers runs nothing: num_threads is 0 only by request,  *)
(* or where hardware_concurrency cannot tell.                              *)
ASSUME ThreadPoolAssumption ==
    /\ IsFiniteSet(Workers) /\ Workers # {}
    /\ IsFiniteSet(Clients)
    /\ Workers \cap Clients = {}
    /\ Nesting \subseteq Clients

VARIABLES tasks,     \* the queue
          stop,      \* set by the destructor
          pc,        \* where each worker and each client is
          owner,     \* where the owner is: using, stopping, joining, destroyed
          task,      \* of each worker: the task it runs
          future,    \* of each task: pending, value or exception
          accepted,  \* history: the tasks enqueue has queued, in order
          started    \* history: the tasks taken by workers, in order

vars == <<tasks, stop, pc, owner, task, future, accepted, started>>

Task(c)  == <<c, "task">>
Child(c) == <<c, "child">>
Tasks == { Task(c) : c \in Clients } \cup { Child(c) : c \in Nesting }
NoTask == <<>>

(* Whether the body of task t calls enqueue. *)
Nests(t) == \E c \in Nesting : t = Task(c)

(* Of a worker: awake (wants queue_mutex, to look for a task), asleep (in  *)
(* condition), running (in task(), before its call of enqueue if it makes  *)
(* one), notifying (inside that call), ending (in task(), past it),        *)
(* returned.  Of a client: idle, notifying (inside enqueue), called.       *)
Points == {"awake", "asleep", "running", "notifying", "ending", "returned",
           "idle", "called"}

Init == /\ tasks = <<>>
        /\ stop = FALSE
        /\ pc = [t \in Workers \cup Clients |-> IF t \in Workers THEN "awake" ELSE "idle"]
        /\ owner = "using"
        /\ task = [w \in Workers |-> NoTask]
        /\ future = [t \in Tasks |-> "pending"]
        /\ accepted = <<>>
        /\ started = <<>>
-----------------------------------------------------------------------------
(* Seeded fault: a stopped pool leaves with tasks in the queue. *)
MayReturnEarly == stop

MayReturn == stop /\ tasks = <<>>

(* Seeded fault: wait without its predicate, front() of an empty queue. *)
FetchUnchecked(w) ==
    /\ pc[w] = "awake"
    /\ ~MayReturn
    /\ task' = [task EXCEPT ![w] = IF tasks = <<>> THEN NoTask ELSE Head(tasks)]
    /\ tasks' = IF tasks = <<>> THEN <<>> ELSE Tail(tasks)
    /\ pc' = Move(pc, w, "running")
    /\ UNCHANGED <<started, stop, owner, future, accepted>>

(* One turn of the worker's loop, up to wait or to the call of task(). *)
Fetch(w) ==
    /\ pc[w] = "awake"
    /\ \/ /\ MayReturn
          /\ pc' = Move(pc, w, "returned")
          /\ UNCHANGED <<tasks, task, started>>
       \/ /\ ~MayReturn /\ tasks # <<>>
          /\ task' = [task EXCEPT ![w] = Head(tasks)]
          /\ started' = Append(started, Head(tasks))
          /\ tasks' = Tail(tasks)
          /\ pc' = Move(pc, w, "running")
       \/ /\ ~stop /\ tasks = <<>>
          /\ pc' = Move(pc, w, "asleep")
          /\ UNCHANGED <<tasks, task, started>>
    /\ UNCHANGED <<stop, owner, future, accepted>>

(* Seeded fault: enqueue does not look at stop. *)
QueueAlways(caller, t) == /\ tasks' = Append(tasks, t)
                          /\ accepted' = Append(accepted, t)
                          /\ pc' = Move(pc, caller, "notifying")

(* The locked part of enqueue, when the pool is not stopped. *)
Queue(caller, t) == /\ ~stop
                    /\ tasks' = Append(tasks, t)
                    /\ accepted' = Append(accepted, t)
                    /\ pc' = Move(pc, caller, "notifying")

Enqueue(c) == /\ pc[c] = "idle"
              /\ owner = "using"
              /\ Queue(c, Task(c))
              /\ UNCHANGED <<stop, owner, task, future, started>>

NestedEnqueue(w) == /\ pc[w] = "running"
                    /\ \E c \in Nesting : task[w] = Task(c) /\ Queue(w, Child(c))
                    /\ UNCHANGED <<stop, owner, task, future, started>>

(* enqueue throws into the body of a task: the packaged_task keeps the     *)
(* exception for the future and the worker goes on.                        *)
NestedEnqueueThrows(w) == /\ pc[w] = "running"
                          /\ Nests(task[w])
                          /\ stop
                          /\ future' = [future EXCEPT ![task[w]] = "exception"]
                          /\ task' = [task EXCEPT ![w] = NoTask]
                          /\ pc' = Move(pc, w, "awake")
                          /\ UNCHANGED <<tasks, stop, owner, accepted, started>>

AfterNotify(t) == IF t \in Workers THEN "ending" ELSE "called"

(* Seeded fault: enqueue forgets to notify. *)
NotifyNobody(t) == /\ pc[t] = "notifying"
                   /\ pc' = Move(pc, t, AfterNotify(t))
                   /\ UNCHANGED <<tasks, stop, owner, task, future, accepted, started>>

(* The last line of enqueue, in a client or in a worker. *)
Notify(t) == /\ pc[t] = "notifying"
             /\ pc' \in NotifyOne(Move(pc, t, AfterNotify(t)), "asleep", "awake")
             /\ UNCHANGED <<tasks, stop, owner, task, future, accepted, started>>

(* task() returns. *)
EndTask(w) == /\ \/ pc[w] = "running" /\ ~Nests(task[w])
                 \/ pc[w] = "ending"
              /\ future' = [future EXCEPT ![task[w]] = "value"]
              /\ task' = [task EXCEPT ![w] = NoTask]
              /\ pc' = Move(pc, w, "awake")
              /\ UNCHANGED <<tasks, stop, owner, accepted, started>>

SpuriousWakeup(w) == /\ pc[w] = "asleep"
                     /\ pc' = Move(pc, w, "awake")
                     /\ UNCHANGED <<tasks, stop, owner, task, future, accepted, started>>
-----------------------------------------------------------------------------
(* The destructor: stop under the mutex, notify_all without, then the joins. *)
SetStop == /\ owner = "using"
           /\ \A c \in Clients : pc[c] # "notifying"
           /\ stop' = TRUE
           /\ owner' = "stopping"
           /\ UNCHANGED <<tasks, pc, task, future, accepted, started>>

(* Seeded fault: one worker is told to stop. *)
TellOneToStop == /\ owner = "stopping"
                 /\ pc' \in NotifyOne(pc, "asleep", "awake")
                 /\ owner' = "joining"
                 /\ UNCHANGED <<tasks, stop, task, future, accepted, started>>

TellAllToStop == /\ owner = "stopping"
                 /\ pc' = NotifyAll(pc, "asleep", "awake")
                 /\ owner' = "joining"
                 /\ UNCHANGED <<tasks, stop, task, future, accepted, started>>

(* Seeded fault: the destructor does not wait for busy workers. *)
JoinIdle == /\ owner = "joining"
            /\ tasks = <<>>
            /\ owner' = "destroyed"
            /\ UNCHANGED <<tasks, stop, pc, task, future, accepted, started>>

Join == /\ owner = "joining"
        /\ \A w \in Workers : pc[w] = "returned"
        /\ owner' = "destroyed"
        /\ UNCHANGED <<tasks, stop, pc, task, future, accepted, started>>

Destroyed == owner = "destroyed" /\ UNCHANGED vars

Worker(w) == \/ Fetch(w) \/ NestedEnqueue(w) \/ NestedEnqueueThrows(w)
             \/ Notify(w) \/ EndTask(w)

Next == \/ \E w \in Workers : Worker(w) \/ SpuriousWakeup(w)
        \/ \E c \in Clients : Enqueue(c) \/ Notify(c)
        \/ SetStop \/ TellAllToStop \/ Join \/ Destroyed

Spec == Init /\ [][Next]_vars

(* Threads that can take a step take one: a worker that is not blocked     *)
(* gets queue_mutex and its tasks end, a call of enqueue returns, and a    *)
(* destructor that has begun goes on.  Nothing makes it begin.             *)
FairSpec == /\ Spec
            /\ \A w \in Workers : WF_vars(Worker(w))
            /\ \A c \in Clients : WF_vars(Notify(c))
            /\ WF_vars(TellAllToStop)
            /\ WF_vars(Join)
-----------------------------------------------------------------------------
TypeOK == /\ tasks \in Seq(Tasks)
          /\ stop \in BOOLEAN
          /\ pc \in [Workers \cup Clients -> Points]
          /\ owner \in {"using", "stopping", "joining", "destroyed"}
          /\ task \in [Workers -> Tasks \cup {NoTask}]
          /\ future \in [Tasks -> {"pending", "value", "exception"}]
          /\ \A w \in Workers : pc[w] \in {"running", "ending"} => task[w] # NoTask

(* No lost wake-up although nobody notifies with queue_mutex held: while a *)
(* worker sleeps, every queued task has a notification still to be sent or *)
(* a worker on its way to the queue, and a stopped pool still has its      *)
(* notify_all to send.  The types hold.                                    *)
NoLostWakeup ==
    /\ TypeOK
    /\ At(pc, "asleep") # {} =>
        /\ Cardinality(At(pc, "awake")) + Cardinality(At(pc, "notifying")) >= Len(tasks)
        /\ stop => owner = "stopping"

(* The queue is a channel from enqueue to the workers, closed by the       *)
(* destructor: each accepted task is taken once and in its turn, none is   *)
(* accepted after stop, and a worker leaves only when none is left.        *)
Channel == INSTANCE BoundedChannel
               WITH Items <- Tasks, Receivers <- Workers, capacity <- 0,
                    sent <- accepted, received <- started,
                    closed <- stop, told <- At(pc, "returned")
ImplementsChannel == Channel!Spec

(* When the destructor has returned every accepted task has run to its end *)
(* and its future is ready: no future is left broken, also when tasks were *)
(* queued, or queued others, while the pool was being stopped.             *)
DestructorCompletesTasks ==
    owner = "destroyed" =>
        \A i \in DOMAIN accepted : future[accepted[i]] # "pending"

(* Lines 100-117 wait for every future: a task that was accepted ends. *)
AcceptedTasksEnd ==
    \A t \in Tasks : (\E i \in DOMAIN accepted : accepted[i] = t) ~> future[t] # "pending"

(* The end of test(): the destructor returns. *)
DestructorReturns == owner = "stopping" ~> owner = "destroyed"

(* Nothing that was begun stays unfinished, however notifications that are *)
(* sent without the mutex interleave with workers going to sleep.          *)
EverythingEnds == AcceptedTasksEnd /\ DestructorReturns
=============================================================================
