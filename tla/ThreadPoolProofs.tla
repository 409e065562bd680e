-------------------------- MODULE ThreadPoolProofs --------------------------
(***************************************************************************)
(* For every number of workers and every set of calls of enqueue: no       *)
(* wake-up is lost, the destructor leaves no accepted task undone, and the *)
(* pool's queue implements BoundedChannel.                                 *)
(***************************************************************************)
EXTENDS ThreadPool, ProofLemmas

Threads == Workers \cup Clients

(* A worker has a task exactly while it is in task(). *)
BusyHaveTasks ==
    \A w \in Workers : task[w] # NoTask <=> pc[w] \in {"running", "notifying", "ending"}

(* What was accepted has been started or is in the queue, in order. *)
History == started \in Seq(Tasks) /\ accepted = started \o tasks

(* A task that was started has ended or is with a worker. *)
StartedAreKept ==
    \A i \in DOMAIN started :
        future[started[i]] # "pending" \/ \E w \in Workers : task[w] = started[i]

(* A worker returns from a stopped pool and an empty queue. *)
ReturnedAtTheEnd == At(pc, "returned") # {} => stop /\ tasks = <<>>

(* The pool is destroyed when every worker has returned. *)
JoinedAll == owner = "destroyed" => \A w \in Workers : pc[w] = "returned"

(* The inductive invariant.  NoLostWakeup, with its types, is inductive by *)
(* itself; what the destructor promises needs to know where each task is.  *)
PoolInv == /\ NoLostWakeup /\ BusyHaveTasks /\ History
           /\ StartedAreKept /\ ReturnedAtTheEnd /\ JoinedAll

(* The threads on their way to the queue, and those about to notify. *)
Coming(f) == Cardinality(At(f, "awake")) + Cardinality(At(f, "notifying"))
-----------------------------------------------------------------------------
(* What the proofs need to know of a function from threads to points. *)
LEMMA ThreadsFinite ==
    ASSUME NEW f \in [Threads -> Points]
    PROVE  /\ IsFiniteSet(DOMAIN f) /\ DOMAIN f = Threads
           /\ \A p : Cardinality(At(f, p)) \in Nat
           /\ Coming(f) \in Nat
<1>1. IsFiniteSet(Threads)
    BY ThreadPoolAssumption, FS_Union DEF Threads
<1>2. IsFiniteSet(DOMAIN f) /\ DOMAIN f = Threads
    BY <1>1
<1>3. \A p : Cardinality(At(f, p)) \in Nat
    BY <1>2, AtCounted
<1> QED BY <1>2, <1>3 DEF Coming

(* A thread that moves takes no more than itself from those that come, and *)
(* adds itself where it comes to be one of them.                           *)
LEMMA ComingMoves ==
    ASSUME NEW f \in [Threads -> Points], NEW t \in Threads, NEW q \in Points
    PROVE  /\ Move(f, t, q) \in [Threads -> Points]
           /\ Coming(Move(f, t, q)) >= Coming(f) - 1
           /\ q \in {"awake", "notifying"} /\ f[t] \notin {"awake", "notifying"} =>
                 Coming(Move(f, t, q)) = Coming(f) + 1
           /\ \A p : p # q /\ p # f[t] => At(Move(f, t, q), p) = At(f, p)
           /\ At(Move(f, t, q), q) = At(f, q) \cup {t}
<1> DEFINE g == Move(f, t, q)
<1>1. /\ IsFiniteSet(DOMAIN f) /\ t \in DOMAIN f
      /\ \A p : Cardinality(At(f, p)) \in Nat
    BY ThreadsFinite
<1>2. g \in [Threads -> Points]
    BY DEF Move
<1>3. \A p : Cardinality(At(g, p)) \in Nat
    BY <1>2, ThreadsFinite
<1>4. /\ \A p : p # q /\ p # f[t] => At(g, p) = At(f, p)
      /\ At(g, q) = At(f, q) \cup {t}
    BY <1>1, MoveAt
<1>5. /\ Cardinality(At(g, "awake")) >= Cardinality(At(f, "awake")) - 1
      /\ Cardinality(At(g, "notifying")) >= Cardinality(At(f, "notifying")) - 1
      /\ f[t] # q => Cardinality(At(g, q)) = Cardinality(At(f, q)) + 1
    BY <1>1, MoveLosesOne, MoveGainsOne
<1>6. q \in {"awake", "notifying"} /\ f[t] \notin {"awake", "notifying"} =>
          Coming(g) = Coming(f) + 1
    <2>1. CASE q = "awake" /\ f[t] \notin {"awake", "notifying"}
        <3>1. At(g, "notifying") = At(f, "notifying")
            BY <1>4, <2>1
        <3> QED BY <1>1, <1>3, <1>5, <2>1, <3>1 DEF Coming
    <2>2. CASE q = "notifying" /\ f[t] \notin {"awake", "notifying"}
        <3>1. At(g, "awake") = At(f, "awake")
            BY <1>4, <2>2
        <3> QED BY <1>1, <1>3, <1>5, <2>2, <3>1 DEF Coming
    <2> QED BY <2>1, <2>2
<1>7. Coming(g) >= Coming(f) - 1
    <2>1. CASE f[t] # "awake"
        <3>1. Cardinality(At(g, "awake")) >= Cardinality(At(f, "awake"))
            <4>1. CASE q = "awake"
                BY <1>1, <1>3, <1>5, <2>1, <4>1
            <4>2. CASE q # "awake"
                BY <1>1, <1>3, <1>4, <2>1, <4>2
            <4> QED BY <4>1, <4>2
        <3> QED BY <1>1, <1>3, <1>5, <3>1 DEF Coming
    <2>2. CASE f[t] = "awake"
        <3>1. Cardinality(At(g, "notifying")) >= Cardinality(At(f, "notifying"))
            <4>1. CASE q = "notifying"
                BY <1>1, <1>3, <1>5, <2>2, <4>1
            <4>2. CASE q # "notifying"
                BY <1>1, <1>3, <1>4, <2>2, <4>2
            <4> QED BY <4>1, <4>2
        <3> QED BY <1>1, <1>3, <1>5, <3>1 DEF Coming
    <2> QED BY <2>1, <2>2
<1> QED BY <1>2, <1>4, <1>6, <1>7

(* The types of the invariant, as the steps need them. *)
LEMMA PoolTypes ==
    ASSUME PoolInv
    PROVE  /\ TypeOK
           /\ pc \in [Threads -> Points]
           /\ tasks \in Seq(Tasks) /\ Len(tasks) \in Nat /\ started \in Seq(Tasks)
           /\ accepted = started \o tasks
           /\ Coming(pc) \in Nat
           /\ At(pc, "asleep") # {} => Coming(pc) >= Len(tasks)
           /\ At(pc, "asleep") # {} => (stop => owner = "stopping")
<1>1. TypeOK
    BY DEF PoolInv, NoLostWakeup
<1>2. accepted = started \o tasks
    BY DEF PoolInv, History
<1>3. pc \in [Threads -> Points] /\ tasks \in Seq(Tasks)
    BY <1>1 DEF TypeOK, Threads
<1>4. Coming(pc) \in Nat
    BY <1>3, ThreadsFinite
<1>5. started \in Seq(Tasks)
    BY DEF PoolInv, History
<1>6. /\ At(pc, "asleep") # {} => Coming(pc) >= Len(tasks)
      /\ At(pc, "asleep") # {} => (stop => owner = "stopping")
    BY DEF PoolInv, NoLostWakeup, Coming
<1> QED BY <1>1, <1>2, <1>3, <1>4, <1>5, <1>6

(* Holding no task is told from every task. *)
LEMMA TasksAreTasks == NoTask \notin Tasks
    BY DEF Tasks, Task, Child, NoTask

(* A worker takes the first task. *)
LEMMA FetchTakes ==
    ASSUME PoolInv, NEW w \in Workers, pc[w] = "awake", tasks # <<>>, ~MayReturn,
           task' = [task EXCEPT ![w] = Head(tasks)],
           started' = Append(started, Head(tasks)),
           tasks' = Tail(tasks),
           pc' = Move(pc, w, "running"),
           UNCHANGED <<stop, owner, future, accepted>>
    PROVE  PoolInv' /\ Channel!Receive
<1>1. w \in Threads /\ "running" \in Points
    BY DEF Threads, Points
<1>2. /\ pc' \in [Threads -> Points] /\ Coming(pc') >= Coming(pc) - 1
      /\ At(pc', "asleep") = At(pc, "asleep") /\ At(pc', "returned") = At(pc, "returned")
    <2>1. pc' \in [Threads -> Points] /\ Coming(pc') >= Coming(pc) - 1
        BY <1>1, PoolTypes, ComingMoves
    <2>2. At(pc', "asleep") = At(pc, "asleep") /\ At(pc', "returned") = At(pc, "returned")
        BY <1>1, PoolTypes DEF At, Move
    <2> QED BY <2>1, <2>2
<1>3. /\ started' \o tasks' = started \o tasks
      /\ (started \o tasks)[Len(started) + 1] = Head(tasks)
      /\ Len(started) < Len(started \o tasks)
      /\ Head(tasks) \in Tasks
      /\ tasks' \in Seq(Tasks) /\ started' \in Seq(Tasks)
      /\ Len(tasks') = Len(tasks) - 1 /\ Len(tasks) \in Nat
    BY PoolTypes, QueueShrinks
<1>4. /\ task' \in [Workers -> Tasks \cup {NoTask}] /\ task'[w] = Head(tasks)
      /\ \A u \in Workers \ {w} : task'[u] = task[u] /\ pc'[u] = pc[u]
      /\ pc'[w] = "running" /\ task[w] = NoTask
    BY <1>1, <1>3, PoolTypes DEF TypeOK, Move, PoolInv, BusyHaveTasks, Threads
<1>5. TypeOK'
    BY <1>2, <1>3, <1>4, PoolTypes, TasksAreTasks DEF TypeOK, Threads
<1>6. NoLostWakeup'
    <2>1. Coming(pc') \in Nat
        BY <1>2, ThreadsFinite
    <2> QED BY <1>2, <1>3, <1>5, <2>1, PoolTypes DEF NoLostWakeup, Coming
<1>7. BusyHaveTasks'
    BY <1>3, <1>4, TasksAreTasks DEF PoolInv, BusyHaveTasks
<1>8. History' /\ Channel!Receive
    BY <1>2, <1>3, PoolTypes DEF PoolInv, History, Channel!Receive
<1>9. StartedAreKept'
    <2>1. SUFFICES ASSUME NEW i \in DOMAIN started'
                   PROVE  \/ future[started'[i]] # "pending"
                          \/ \E u \in Workers : task'[u] = started'[i]
        BY DEF StartedAreKept
    <2>2. CASE i \in DOMAIN started
        <3>1. started'[i] = started[i] /\ started[i] \in Tasks
            BY <1>3, <2>2, PoolTypes
        <3>2. \/ future[started[i]] # "pending"
              \/ \E u \in Workers : task[u] = started[i]
            BY <2>2 DEF PoolInv, StartedAreKept
        <3> QED BY <1>4, <3>1, <3>2, TasksAreTasks
    <2>3. CASE i \notin DOMAIN started
        <3>1. started'[i] = Head(tasks)
            BY <1>3, <2>1, <2>3, PoolTypes
        <3> QED BY <1>4, <3>1
    <2> QED BY <2>2, <2>3
<1>10. ReturnedAtTheEnd' /\ JoinedAll'
    <2>1. owner # "destroyed"
        BY DEF PoolInv, JoinedAll
    <2> QED BY <1>2, <2>1 DEF PoolInv, ReturnedAtTheEnd, JoinedAll, MayReturn
<1> QED BY <1>6, <1>7, <1>8, <1>9, <1>10 DEF PoolInv

(* A step that moves one worker and touches no task. *)
LEMMA OnlyMoves ==
    ASSUME PoolInv, NEW w \in Workers, NEW q \in {"returned", "asleep", "awake"},
           pc' = Move(pc, w, q),
           UNCHANGED <<tasks, stop, owner, task, future, accepted, started>>,
           \/ q = "returned" /\ pc[w] = "awake" /\ stop /\ tasks = <<>>
           \/ q = "asleep" /\ pc[w] = "awake" /\ ~stop /\ tasks = <<>>
           \/ q = "awake" /\ pc[w] = "asleep"
    PROVE  PoolInv'
<1>1. w \in Threads /\ q \in Points
    BY DEF Threads, Points
<1>2. /\ pc' \in [Threads -> Points] /\ Coming(pc') >= Coming(pc) - 1
      /\ q = "awake" => Coming(pc') = Coming(pc) + 1
      /\ Coming(pc') \in Nat
    BY <1>1, PoolTypes, ComingMoves, ThreadsFinite
<1>3. \A u \in Workers \ {w} : pc'[u] = pc[u]
    BY <1>1, PoolTypes DEF Move, Threads
<1>4. pc'[w] = q
    BY <1>1, PoolTypes DEF Move
<1>5. TypeOK'
    BY <1>2, <1>3, <1>4, PoolTypes DEF TypeOK, Threads
<1>6. NoLostWakeup'
    <2>1. q # "asleep" => At(pc', "asleep") \subseteq At(pc, "asleep")
        BY <1>1, PoolTypes DEF At, Move
    <2>2. CASE q = "asleep"
        <3>1. Len(tasks) = 0
            BY <2>2
        <3> QED BY <1>2, <1>5, <2>2, <3>1 DEF NoLostWakeup, Coming
    <2>3. CASE q = "awake"
        BY <1>2, <1>5, <2>1, <2>3, PoolTypes DEF NoLostWakeup, Coming
    <2>4. CASE q = "returned"
        <3>1. Len(tasks) = 0
            BY <2>4
        <3> QED BY <1>2, <1>5, <2>1, <2>4, <3>1, PoolTypes DEF NoLostWakeup, Coming
    <2> QED BY <2>2, <2>3, <2>4
<1>7. BusyHaveTasks'
    BY <1>3, <1>4 DEF PoolInv, BusyHaveTasks
<1>8. History' /\ StartedAreKept'
    BY DEF PoolInv, History, StartedAreKept
<1>9. ReturnedAtTheEnd'
    <2>1. q # "returned" => At(pc', "returned") = At(pc, "returned")
        BY <1>1, PoolTypes DEF At, Move
    <2> QED BY <2>1 DEF PoolInv, ReturnedAtTheEnd
<1>10. JoinedAll'
    <2>1. owner # "destroyed"
        BY DEF PoolInv, JoinedAll
    <2> QED BY <2>1 DEF JoinedAll
<1> QED BY <1>6, <1>7, <1>8, <1>9, <1>10 DEF PoolInv

(* An accepted task comes behind those in the queue. *)
LEMMA AcceptedLast ==
    ASSUME PoolInv, NEW x \in Tasks
    PROVE  /\ Append(started \o tasks, x) = started \o Append(tasks, x)
           /\ Append(tasks, x) \in Seq(Tasks)
           /\ Len(Append(tasks, x)) = Len(tasks) + 1
<1>1. started \in Seq(Tasks) /\ tasks \in Seq(Tasks)
    BY PoolTypes
<1> QED BY <1>1

(* The locked part of enqueue, called by a client or from inside a task.   *)
LEMMA QueueStep ==
    ASSUME PoolInv, NEW t \in Threads, NEW x \in Tasks,
           pc[t] = "running" \/ (pc[t] = "idle" /\ t \notin Workers),
           Queue(t, x), UNCHANGED <<stop, owner, task, future, started>>
    PROVE  PoolInv' /\ Channel!Send(x)
<1>1. /\ ~stop /\ tasks' = Append(tasks, x) /\ accepted' = Append(accepted, x)
      /\ pc' = Move(pc, t, "notifying") /\ "notifying" \in Points
    BY DEF Queue, Points
<1>2. /\ pc' \in [Threads -> Points] /\ Coming(pc') = Coming(pc) + 1
    BY <1>1, PoolTypes, ComingMoves
<1>3. /\ At(pc', "asleep") = At(pc, "asleep") /\ At(pc', "returned") = At(pc, "returned")
      /\ pc'[t] = "notifying" /\ \A u \in Threads \ {t} : pc'[u] = pc[u]
    BY <1>1, PoolTypes DEF At, Move
<1>4. TypeOK'
    BY <1>1, <1>2, <1>3, PoolTypes, AcceptedLast DEF TypeOK, Threads
<1>5. NoLostWakeup'
    BY <1>1, <1>2, <1>3, <1>4, PoolTypes, AcceptedLast DEF NoLostWakeup, Coming
<1>6. BusyHaveTasks'
    BY <1>3 DEF PoolInv, BusyHaveTasks, Threads
<1>7. History' /\ StartedAreKept'
    BY <1>1, PoolTypes, AcceptedLast DEF PoolInv, History, StartedAreKept
<1>8. ReturnedAtTheEnd' /\ JoinedAll'
    <2>1. At(pc, "returned") = {}
        BY <1>1 DEF PoolInv, ReturnedAtTheEnd
    <2>2. owner # "destroyed"
        <3>1. PICK w \in Workers : TRUE
            BY ThreadPoolAssumption
        <3>2. pc[w] # "returned"
            BY <2>1, PoolTypes DEF At, Threads
        <3> QED BY <3>2 DEF PoolInv, JoinedAll
    <2> QED BY <1>3, <2>1, <2>2 DEF ReturnedAtTheEnd, JoinedAll
<1>9. Channel!Send(x)
    BY <1>1, <1>3 DEF Channel!Send
<1> QED BY <1>5, <1>6, <1>7, <1>8, <1>9 DEF PoolInv

(* A task ends, by itself or by the exception enqueue threw into it: its   *)
(* future is ready and its worker looks for the next.                      *)
LEMMA EndStep ==
    ASSUME PoolInv, NEW w \in Workers, pc[w] \in {"running", "ending"},
           NEW v \in {"value", "exception"},
           future' = [future EXCEPT ![task[w]] = v],
           task' = [task EXCEPT ![w] = NoTask],
           pc' = Move(pc, w, "awake"),
           UNCHANGED <<tasks, stop, owner, accepted, started>>
    PROVE  PoolInv' /\ At(pc', "returned") = At(pc, "returned")
<1>1. w \in Threads /\ "awake" \in Points
    BY DEF Threads, Points
<1>2. /\ pc' \in [Threads -> Points] /\ Coming(pc') = Coming(pc) + 1
    BY <1>1, PoolTypes, ComingMoves
<1>3. /\ At(pc', "asleep") = At(pc, "asleep") /\ At(pc', "returned") = At(pc, "returned")
      /\ pc'[w] = "awake" /\ \A u \in Threads \ {w} : pc'[u] = pc[u]
    BY <1>1, PoolTypes DEF At, Move
<1>4. task[w] \in Tasks
    BY PoolTypes DEF PoolInv, BusyHaveTasks, TypeOK
<1>5. /\ future' \in [Tasks -> {"pending", "value", "exception"}]
      /\ \A x \in Tasks : future[x] # "pending" \/ x = task[w] => future'[x] # "pending"
    BY <1>4, PoolTypes DEF TypeOK
<1>6. /\ task' \in [Workers -> Tasks \cup {NoTask}] /\ task'[w] = NoTask
      /\ \A u \in Workers \ {w} : task'[u] = task[u]
    BY PoolTypes DEF TypeOK
<1>7. TypeOK'
    BY <1>2, <1>3, <1>5, <1>6, PoolTypes DEF TypeOK, Threads
<1>8. NoLostWakeup'
    BY <1>2, <1>3, <1>7, PoolTypes DEF NoLostWakeup, Coming
<1>9. BusyHaveTasks'
    BY <1>3, <1>6 DEF PoolInv, BusyHaveTasks, Threads
<1>10. StartedAreKept'
    <2>1. SUFFICES ASSUME NEW i \in DOMAIN started
                   PROVE  \/ future'[started[i]] # "pending"
                          \/ \E u \in Workers : task'[u] = started[i]
        BY DEF StartedAreKept
    <2>2. started[i] \in Tasks
        BY PoolTypes
    <2>3. \/ future[started[i]] # "pending"
          \/ \E u \in Workers : task[u] = started[i]
        BY DEF PoolInv, StartedAreKept
    <2> QED BY <1>5, <1>6, <2>2, <2>3
<1>11. History' /\ ReturnedAtTheEnd' /\ JoinedAll'
    <2>1. owner # "destroyed"
        BY DEF PoolInv, JoinedAll
    <2> QED BY <1>3, <2>1 DEF PoolInv, History, ReturnedAtTheEnd, JoinedAll
<1> QED BY <1>3, <1>8, <1>9, <1>10, <1>11 DEF PoolInv

(* The last line of enqueue: a sleeping worker is woken, if there is one.  *)
LEMMA NotifyStep ==
    ASSUME PoolInv, NEW t \in Threads, Notify(t)
    PROVE  PoolInv' /\ At(pc', "returned") = At(pc, "returned")
<1> DEFINE mid == Move(pc, t, AfterNotify(t))
<1>1. /\ pc[t] = "notifying" /\ pc' \in NotifyOne(mid, "asleep", "awake")
      /\ UNCHANGED <<tasks, stop, owner, task, future, accepted, started>>
      /\ AfterNotify(t) \in {"ending", "called"} /\ AfterNotify(t) \in Points
      /\ t \in Workers => AfterNotify(t) = "ending"
    BY DEF Notify, AfterNotify, Points
<1>2. mid \in [Threads -> Points] /\ Coming(mid) >= Coming(pc) - 1
    BY <1>1, PoolTypes, ComingMoves
<1>3. /\ At(mid, "asleep") = At(pc, "asleep") /\ At(mid, "returned") = At(pc, "returned")
      /\ mid[t] = AfterNotify(t) /\ \A u \in Threads \ {t} : mid[u] = pc[u]
    BY <1>1, PoolTypes DEF At, Move
<1>4. pc' \in [Threads -> Points] /\ Coming(pc') \in Nat
    BY <1>1, <1>2, StepsKeepPoints, ThreadsFinite DEF Points
<1>5. \/ At(mid, "asleep") = {} /\ pc' = mid
      \/ At(mid, "asleep") # {} /\ Coming(pc') = Coming(mid) + 1
    <2>1. \/ At(mid, "asleep") = {} /\ pc' = mid
          \/ /\ At(mid, "asleep") # {}
             /\ Cardinality(At(pc', "awake")) = Cardinality(At(mid, "awake")) + 1
        BY <1>1, <1>2, ThreadsFinite, NotifyOneCounts
    <2>2. At(pc', "notifying") = At(mid, "notifying")
        BY <1>1, <1>2, ThreadsFinite, NotifyOneCounts
    <2>3. \A p : Cardinality(At(mid, p)) \in Nat
        BY <1>2, ThreadsFinite
    <2> QED BY <2>1, <2>2, <2>3 DEF Coming
<1>6. \A u \in Threads : pc'[u] = mid[u] \/ (mid[u] = "asleep" /\ pc'[u] = "awake")
    BY <1>1, <1>2 DEF NotifyOne, At, Move
<1>7. At(pc', "returned") = At(pc, "returned")
    BY <1>2, <1>3, <1>4, <1>6 DEF At
<1>8. \A w \in Workers : pc'[w] \in {"running", "notifying", "ending"}
                            <=> pc[w] \in {"running", "notifying", "ending"}
    BY <1>1, <1>3, <1>6 DEF Threads
<1>9. BusyHaveTasks'
    BY <1>1, <1>8 DEF PoolInv, BusyHaveTasks
<1>10. TypeOK'
    BY <1>1, <1>4, <1>9, PoolTypes DEF TypeOK, BusyHaveTasks, Threads
<1>11. NoLostWakeup'
    <2>1. At(pc', "asleep") # {} => At(pc, "asleep") # {} /\ Coming(pc') >= Coming(pc)
        <3>1. Coming(mid) \in Nat
            BY <1>2, ThreadsFinite
        <3> HIDE DEF mid
        <3> QED BY <1>2, <1>3, <1>4, <1>5, <3>1, PoolTypes
    <2> QED BY <1>1, <1>4, <1>10, <2>1, PoolTypes DEF NoLostWakeup, Coming
<1>12. History' /\ StartedAreKept' /\ ReturnedAtTheEnd'
    BY <1>1, <1>7 DEF PoolInv, History, StartedAreKept, ReturnedAtTheEnd
<1>13. JoinedAll'
    <2>1. \A w \in Workers : pc[w] = "returned" => pc'[w] = "returned"
        BY <1>1, <1>3, <1>6 DEF Threads
    <2> QED BY <1>1, <2>1 DEF PoolInv, JoinedAll
<1> QED BY <1>7, <1>9, <1>11, <1>12, <1>13 DEF PoolInv
-----------------------------------------------------------------------------
(* A worker's turn: a task, the end of the pool, or sleep. *)
LEMMA FetchStep ==
    ASSUME PoolInv, NEW w \in Workers, Fetch(w)
    PROVE  PoolInv' /\ [Channel!Next]_Channel!vars
<1>1. pc[w] = "awake" /\ UNCHANGED <<stop, owner, future, accepted>>
    BY DEF Fetch
<1>2. CASE /\ MayReturn /\ pc' = Move(pc, w, "returned")
           /\ UNCHANGED <<tasks, task, started>>
    <2>1. PoolInv'
        BY <1>1, <1>2, OnlyMoves DEF MayReturn
    <2>2. At(pc', "returned") = At(pc, "returned") \cup {w}
        BY <1>2, PoolTypes DEF At, Move, Threads
    <2>3. started = accepted
        BY <1>2, PoolTypes DEF MayReturn
    <2>4. Channel!Tell(w)
        BY <1>1, <1>2, <2>2, <2>3 DEF Channel!Tell, MayReturn
    <2> QED BY <2>1, <2>4 DEF Channel!Next
<1>3. CASE /\ ~MayReturn /\ tasks # <<>>
           /\ task' = [task EXCEPT ![w] = Head(tasks)]
           /\ started' = Append(started, Head(tasks))
           /\ tasks' = Tail(tasks)
           /\ pc' = Move(pc, w, "running")
    BY <1>1, <1>3, FetchTakes DEF Channel!Next
<1>4. CASE /\ ~stop /\ tasks = <<>> /\ pc' = Move(pc, w, "asleep")
           /\ UNCHANGED <<tasks, task, started>>
    <2>1. PoolInv'
        BY <1>1, <1>4, OnlyMoves
    <2>2. At(pc', "returned") = At(pc, "returned")
        BY <1>1, <1>4, PoolTypes DEF At, Move
    <2> QED BY <1>1, <1>4, <2>1, <2>2 DEF Channel!vars
<1> QED BY <1>2, <1>3, <1>4 DEF Fetch

(* The three steps of the destructor. *)
LEMMA DestructorStep ==
    ASSUME PoolInv, SetStop \/ TellAllToStop \/ Join
    PROVE  PoolInv' /\ [Channel!Next]_Channel!vars
<1>1. CASE SetStop
    <2>1. /\ owner = "using" /\ stop' = TRUE /\ owner' = "stopping"
          /\ UNCHANGED <<tasks, pc, task, future, accepted, started>>
        BY <1>1 DEF SetStop
    <2>2. PoolInv'
        BY <2>1 DEF PoolInv, NoLostWakeup, TypeOK, BusyHaveTasks, History, StartedAreKept,
                    ReturnedAtTheEnd, JoinedAll
    <2> QED BY <2>1, <2>2 DEF Channel!Next, Channel!Close
<1>2. CASE TellAllToStop
    <2>1. /\ owner = "stopping" /\ owner' = "joining"
          /\ pc' = NotifyAll(pc, "asleep", "awake")
          /\ UNCHANGED <<tasks, stop, task, future, accepted, started>>
        BY <1>2 DEF TellAllToStop
    <2>2. /\ pc' \in [Threads -> Points]
          /\ \A t \in Threads : pc'[t] = IF pc[t] = "asleep" THEN "awake" ELSE pc[t]
        BY <2>1, PoolTypes DEF NotifyAll, Points
    <2>3. At(pc', "asleep") = {} /\ At(pc', "returned") = At(pc, "returned")
        BY <2>1, NotifyAllAt
    <2>4. TypeOK' /\ BusyHaveTasks'
        BY <2>1, <2>2, PoolTypes DEF PoolInv, TypeOK, BusyHaveTasks, Threads
    <2>5. NoLostWakeup' /\ History' /\ StartedAreKept' /\ ReturnedAtTheEnd' /\ JoinedAll'
        BY <2>1, <2>3, <2>4
        DEF PoolInv, NoLostWakeup, History, StartedAreKept, ReturnedAtTheEnd, JoinedAll
    <2> QED BY <2>1, <2>3, <2>4, <2>5 DEF PoolInv, Channel!vars
<1>3. CASE Join
    <2>1. /\ owner = "joining" /\ owner' = "destroyed" /\ \A w \in Workers : pc[w] = "returned"
          /\ UNCHANGED <<tasks, stop, pc, task, future, accepted, started>>
        BY <1>3 DEF Join
    <2>2. PoolInv'
        BY <2>1 DEF PoolInv, NoLostWakeup, TypeOK, BusyHaveTasks, History, StartedAreKept,
                    ReturnedAtTheEnd, JoinedAll
    <2> QED BY <2>1, <2>2 DEF Channel!vars
<1> QED BY <1>1, <1>2, <1>3

(* Every step keeps the invariant, and is a step of the channel or none.   *)
LEMMA PoolStep ==
    PoolInv /\ [Next]_vars => PoolInv' /\ [Channel!Next]_Channel!vars
<1> SUFFICES ASSUME PoolInv, [Next]_vars
             PROVE  PoolInv' /\ [Channel!Next]_Channel!vars
    OBVIOUS
<1>1. ASSUME NEW w \in Workers, Fetch(w)
      PROVE  PoolInv' /\ [Channel!Next]_Channel!vars
    BY <1>1, FetchStep
<1>2. ASSUME NEW w \in Workers, NestedEnqueue(w)
      PROVE  PoolInv' /\ [Channel!Next]_Channel!vars
    <2>1. PICK c \in Nesting : Queue(w, Child(c))
        BY <1>2 DEF NestedEnqueue
    <2>2. Child(c) \in Tasks /\ w \in Threads
        BY DEF Tasks, Threads
    <2>3. pc[w] = "running" /\ UNCHANGED <<stop, owner, task, future, started>>
        BY <1>2 DEF NestedEnqueue
    <2> QED BY <2>1, <2>2, <2>3, QueueStep DEF Channel!Next
<1>3. ASSUME NEW w \in Workers, NestedEnqueueThrows(w)
      PROVE  PoolInv' /\ [Channel!Next]_Channel!vars
    <2>1. PoolInv' /\ At(pc', "returned") = At(pc, "returned")
        BY <1>3, EndStep DEF NestedEnqueueThrows
    <2> QED BY <1>3, <2>1 DEF NestedEnqueueThrows, Channel!vars
<1>4. ASSUME NEW w \in Workers, EndTask(w)
      PROVE  PoolInv' /\ [Channel!Next]_Channel!vars
    <2>1. PoolInv' /\ At(pc', "returned") = At(pc, "returned")
        BY <1>4, EndStep DEF EndTask
    <2> QED BY <1>4, <2>1 DEF EndTask, Channel!vars
<1>5. ASSUME NEW t \in Threads, Notify(t)
      PROVE  PoolInv' /\ [Channel!Next]_Channel!vars
    <2>1. PoolInv' /\ At(pc', "returned") = At(pc, "returned")
        BY <1>5, NotifyStep
    <2> QED BY <1>5, <2>1 DEF Notify, Channel!vars
<1>6. ASSUME NEW w \in Workers, SpuriousWakeup(w)
      PROVE  PoolInv' /\ [Channel!Next]_Channel!vars
    <2>1. PoolInv'
        BY <1>6, OnlyMoves DEF SpuriousWakeup
    <2>2. At(pc', "returned") = At(pc, "returned")
        BY <1>6, PoolTypes DEF SpuriousWakeup, At, Move
    <2> QED BY <1>6, <2>1, <2>2 DEF SpuriousWakeup, Channel!vars
<1>7. ASSUME NEW c \in Clients, Enqueue(c)
      PROVE  PoolInv' /\ [Channel!Next]_Channel!vars
    <2>1. Task(c) \in Tasks /\ c \in Threads /\ c \notin Workers
        BY ThreadPoolAssumption DEF Tasks, Threads
    <2>2. /\ pc[c] = "idle" /\ Queue(c, Task(c))
          /\ UNCHANGED <<stop, owner, task, future, started>>
        BY <1>7 DEF Enqueue
    <2> QED BY <2>1, <2>2, QueueStep DEF Channel!Next
<1>8. CASE SetStop \/ TellAllToStop \/ Join
    BY <1>8, DestructorStep
<1>9. CASE UNCHANGED vars
    BY <1>9 DEF vars, PoolInv, NoLostWakeup, TypeOK, BusyHaveTasks, History, StartedAreKept,
                ReturnedAtTheEnd, JoinedAll, Channel!vars
<1> QED BY <1>1, <1>2, <1>3, <1>4, <1>5, <1>6, <1>7, <1>8, <1>9
        DEF Next, Worker, Destroyed, Threads

(* The constructor's state is that of an empty channel. *)
LEMMA PoolStart == Init => PoolInv /\ Channel!Init
<1> SUFFICES ASSUME Init PROVE PoolInv /\ Channel!Init
    OBVIOUS
<1>1. /\ pc \in [Threads -> Points] /\ \A w \in Workers : pc[w] = "awake"
      /\ At(pc, "asleep") = {} /\ At(pc, "returned") = {}
    BY DEF Init, At, Points, Threads
<1>2. <<>> \in Seq(Tasks) /\ <<>> \o <<>> = <<>> /\ DOMAIN <<>> = {}
    OBVIOUS
<1>3. tasks = <<>> /\ started = <<>> /\ accepted = <<>> /\ stop = FALSE /\ owner = "using"
    BY DEF Init
<1>4. /\ task \in [Workers -> Tasks \cup {NoTask}] /\ \A w \in Workers : task[w] = NoTask
      /\ future \in [Tasks -> {"pending", "value", "exception"}]
    BY DEF Init
<1>5. TypeOK
    <2>1. stop \in BOOLEAN /\ owner \in {"using", "stopping", "joining", "destroyed"}
        BY <1>3
    <2>2. \A w \in Workers : pc[w] \notin {"running", "ending"}
        BY <1>1
    <2> QED BY <1>1, <1>2, <1>3, <1>4, <2>1, <2>2, Zenon DEF TypeOK, Threads
<1>6. BusyHaveTasks
    BY <1>1, <1>4 DEF BusyHaveTasks
<1>7. History /\ StartedAreKept /\ ReturnedAtTheEnd /\ JoinedAll
    BY <1>1, <1>2, <1>3 DEF History, StartedAreKept, ReturnedAtTheEnd, JoinedAll
<1>8. NoLostWakeup
    BY <1>1, <1>5, Zenon DEF NoLostWakeup
<1> QED BY <1>1, <1>3, <1>6, <1>7, <1>8 DEF PoolInv, Channel!Init

(* The invariant holds in every state of every behaviour. *)
LEMMA PoolInvStays == Spec => []PoolInv
    BY PoolStart, PoolStep, PTL DEF Spec

(* No worker sleeps while a task waits and nobody is on the way to it, and *)
(* none sleeps through stop, although nobody notifies with the mutex held. *)
THEOREM PoolLosesNoWakeup == Spec => []NoLostWakeup
<1>1. PoolInv => NoLostWakeup
    BY DEF PoolInv
<1> QED BY <1>1, PoolInvStays, PTL

(* When the destructor has returned no future is left pending: a worker    *)
(* only leaves an empty queue, and no task that was started is dropped.    *)
THEOREM DestructorLeavesNoTask == Spec => []DestructorCompletesTasks
<1>1. PoolInv => DestructorCompletesTasks
    <2> SUFFICES ASSUME PoolInv, owner = "destroyed", NEW i \in DOMAIN accepted
                 PROVE  future[accepted[i]] # "pending"
        BY DEF DestructorCompletesTasks
    <2>1. \A w \in Workers : pc[w] = "returned"
        BY DEF PoolInv, JoinedAll
    <2>2. tasks = <<>>
        <3>1. PICK w \in Workers : TRUE
            BY ThreadPoolAssumption
        <3>2. w \in At(pc, "returned")
            BY <2>1, PoolTypes DEF At, Threads
        <3> QED BY <3>2 DEF PoolInv, ReturnedAtTheEnd
    <2>3. accepted = started /\ accepted[i] \in Tasks
        BY <2>2, PoolTypes
    <2>4. \A w \in Workers : task[w] = NoTask
        BY <2>1 DEF PoolInv, BusyHaveTasks
    <2> QED BY <2>3, <2>4, TasksAreTasks DEF PoolInv, StartedAreKept
<1> QED BY <1>1, PoolInvStays, PTL

(* The pool's queue is a channel to its workers: each accepted task is     *)
(* taken once and in its turn, none is accepted after stop, and a worker   *)
(* returns only when all have been taken.                                  *)
THEOREM PoolIsChannel == Spec => ImplementsChannel
<1> QED BY PoolStart, PoolStep, PTL DEF Spec, ImplementsChannel, Channel!Spec
=============================================================================
