# Verification of Cpp_learn

Cpp_learn is a collection of header-only C++ components, each with a small test driver that
`main.cpp` calls. There is no program that ties them together: a component is used by the
threads of its callers. This directory holds a TLA+ model of every component with a behaviour
worth checking, the configurations TLC checks them with, and proofs for TLAPS.

Paths below are relative to `src/`.

## 1. Inventory

| Component | State | Operations | What is hard | What makes it correct |
|---|---|---|---|---|
| `Concurrent_Control_Component/Semaphore.h` | `count_`, a mutex, a condition variable | `acquire`, `release`, `try_acquire`, `try_acquire_for` | barging, time-outs racing with releases, one notification per release | permits are conserved; nobody sleeps beside a free permit; calls return |
| `.../ReadWriteLock.h` | `readers_`, `writer_`, one condition variable with two predicates | `lock_read`, `unlock_read`, `lock_write`, `unlock_write` | readers and writers share one wait | a writer is alone; no wake-up is lost; guarded data behaves as if atomic; everybody is served |
| same file, `ThreadSafeData` | `data_` under `std::shared_mutex` | `read`, `write` | – | atomic; used as the specification of the lock above |
| `.../ProducerConsumerQueue.h` | `queue_`, `max_size_`, `shutdown_`, two condition variables | `push`, `pop`, `try_pop`, `shutdown` | full and empty waits, shutdown at any moment | a bounded closable FIFO channel; no lost wake-up; everybody leaves after shutdown |
| `.../SpinLock.h` | an `atomic_flag` | `lock`, `try_lock_for`, `unlock` | a time-out that races with an unlock | no increment under the lock is lost; a call that times out takes nothing |
| `Infrastructure_Components/ThreadPool.h` | `tasks`, `stop`, workers | `enqueue`, destructor, worker loop | notifications outside the mutex, tasks that enqueue, destruction with work queued | accepted tasks run once, in order, and have run when the destructor returns |
| `.../Timer.h` | heap of tasks, `running_`, a worker thread | `start`, `stop`, two ways of adding, `run` | two kinds of waits, notifications and `stop` outside the mutex, restarts | no task lost or doubled; due tasks start; `stop` returns |
| `.../TimeWheel.h` | slots, `task_map`, `current_tick` | `start`, `stop`, `add_timer`, `cancel_timer`, `step`, worker loop | delays of more than a turn, callbacks that add and cancel, no mutex at all, milliseconds that make no tick | a callback is called once, in the step of its tick, never after a cancel; a tick lasts `TICK_MS` |
| `.../ObjectPool.h` | `pool_`, `count_`, `maxSize_` | `resize`, `acquire`, the deleter | a deleter that notifies outside the mutex, constructors that throw | every object in one place; no object stranded; waiting users served |
| `.../Singleton.h` | one static local | `getInstance` | – | guaranteed by C++ |
| `Database_Component/MysqlPool.h` | `pool_`, `initialized_`, connections at a server | `initialize`, `getConnection`, the deleter | server closes connections, reconnect fails with the mutex held | every connection in one place; waiting clients served |
| `Data_Structure_Component/LockFreeQueue.h` | `head`, `tail`, nodes | `enqueue`, `dequeue`, `empty` | every interleaving of atomics; deleted nodes | FIFO; no access of a deleted node; calls end |
| `.../CircularBuffer.h` | ring, `head_`, `tail_`, two condition variables | `push`, `pop`, `clear` | indices that wrap, one place always empty, notifications after unlock, `clear` beside sleepers | FIFO; no lost wake-up |
| `.../HashTable.h` | buckets, `num_elements` | `insert`, `find`, `erase`, `size` | `rehash` in the middle of `insert` | a pair lies in the bucket its hash selects; agrees with a map |
| `.../LRU.h` | nodes of a doubly linked list, a map of keys to nodes | `get`, `put` | four pointers per move, eviction at the capacity | both directions of the list and the map agree; the least recently used key leaves |
| `.../SkipList.h` | nodes with one pointer per level | `insert`, `find`, `erase` | random levels, equal values, unlinking on several levels | every level is a sorted part of the one below; agrees with a bag |
| `.../Trie.h` | a tree of nodes with children by letter | `insert`, `search`, `deleteWord`, `getAllWords` | a word that is the beginning of another, pruning | no dead branch; agrees with a set of words |
| `.../BloomFilter.h` | a bit array | `insert`, `contains` | hashes that wrap at the width of `size_t` | no false negative |
| `Network_Communication_Component/TcpConnectionManager.h` | connections by descriptor, `running_`, threads | start, connect, send, close, stop, callbacks | detached threads, descriptors reused by the kernel, failing calls, close by several threads | the map agrees with the open descriptors; callbacks in order; every end is announced |
| `Observer.h` | `weak_ptr`s in the order of `attach` | `attach`, `detach`, `notify` | observers that end, also during `notify`; an observer attached twice | who stays is told once per attachment, nobody else |
| `FileSystem.h` | one directory of named nodes | `mkdir`, `createFile`, `move`, `ls`, `printTree` | a move onto a name that exists | agrees with a map of names |
| `cpp_json.h` | a value; a parser and a serialiser | assignment, both `[]`, `parse`, `serialize` | escapes, texts cut off, `[]` that adds a key by being read | parsing what was written gives it back |
| `DecisonTree.h`, `KNNClassifier.h` | a tree; training data | `fit`, `predict` | ties, contradicting examples, more neighbours asked for than there are | the answer to training data comes from it |
| `Decorator.h`, `Factory_Product.h` | – | – | – | – |

Components do not call one another. What they share is the C++ library: every blocking
component is built from `std::mutex` and `std::condition_variable`, whose behaviour
(`CondVar.tla`) is therefore the one module all of them use; and some meet in an abstract
specification: `ProducerConsumerQueue`, `ThreadPool` and `LockFreeQueue` each implement
`BoundedChannel`, and `ReadWriteLock` implements `ThreadSafeData`.

## 2. Modules

| Module | Models | Remarks |
|---|---|---|
| `CondVar` | `std::condition_variable` (external) | operators on a function `pc` from threads to control points: a wait is a pair of points (asleep, awake); `NotifyOne` is the set of possible outcomes, `NotifyAll` one |
| `Semaphore` | `Semaphore.h` | a member of `Threads` is one taking call and one release |
| `ReadWriteLock` | the hand-made lock and the datum of `test_manual_rwlock` | a store has a begin and an end, so that a broken lock shows as a torn value |
| `ThreadSafeData` | `ThreadSafeData` | also the abstract specification of `ReadWriteLock` |
| `ProducerConsumerQueue` | `ProducerConsumerQueue.h` | `max_size_` is chosen in the initial state, so one run covers bounded and unbounded queues |
| `BoundedChannel` | what a bounded, closable FIFO promises | abstract: no threads, locks or wake-ups |
| `ThreadPool` | `ThreadPool.h` | notifications are actions of their own because they are sent without the mutex |
| `Timer` | `Timer.h` | the worker's steps between the test of a condition and the wait are separate actions: `stop` works without the mutex and can fall between them |
| `ObjectPool` | `ObjectPool.h` | objects are numbered in order of creation; `untold` counts what a throwing `resize` pushed without notifying |
| `MysqlPool` | `MysqlPool.h` | `mtx_` is a variable: it is held while the server is talked to, and during the unwinding that takes it again; `leaked` records the connections whose `setSchema` threw |
| `LockFreeQueue`, `MCLockFreeQueue` | `LockFreeQueue.h` | one action per access of a shared pointer; nodes are addresses that `new` may return again; an exchange may fail although the values are equal, and `leftBehind` remembers that line 60 has; `cast` says which threads use the queue together |
| `TcpConnectionManager` | `TcpConnectionManager.h` | the map `entries` (`connections_`) beside the kernel's descriptor `table`: the code knows a connection by its number only; `victims` records the connections a thread of another one touched that way |
| `SpinLock` | `SpinLock.h` and its `worker` | one action per `test_and_set`, clock reading and half of the increment |
| `CircularBuffer` | `CircularBuffer.h` | the capacity is chosen in the initial state; notifications are actions of their own |
| `TimeWheel` | `TimeWheel.h` | `step` is walked task by task, because a callback adds and cancels in the middle of it; `behind` records the tasks added to the slot that is being emptied |
| `Locks`, `Channels`, `Timers`, `Pools` | – | two or three components of one kind in one specification, see below |
| `Object` | – | what the sequential components share: `this`, the last `call` and what it `returned` |
| `HashTable`, `LRU`, `SkipList`, `Trie`, `FileSystem`, `Observer`, `BloomFilter`, `Json`, `DecisionTree`, `KNNClassifier` | the header of that name | one action per member function; pointers are indices into sequences of nodes where the structure is linked by pointers |
| `Sequential` | – | the ten modules above, instantiated |
| `ProofLemmas`, `LocksProofs`, `ChannelsProofs`, `ThreadPoolProofs`, `PoolsProofs`, `TimersProofs`, `LockFreeQueueProofs`, `TcpConnectionManagerProofs` | – | proofs, see section 5 |

### Several components in one specification

`Locks`, `Channels`, `Timers`, `Pools` and `Sequential` hold components that answer to the same
question and never call one another. A variable `which` is chosen in the initial state and
never changes: the component it names takes its steps and the others stay as their
constructors left them. The state graph is therefore the disjoint union of the components' own
graphs, and a property holds of the composition exactly if it holds of each component by itself.
Fairness is assumed of the component in use only, and a liveness property is asked of it only.

### The sequential components

A call of one thread on one object is an action: `this` is changed as the body changes the
members, and `call` and `returned` remember the call and its answer. Each module then says two
things. `Sound` is a property of the representation: which pointers meet, where a pair must lie,
that no node is lost or reached twice. `Promise` is an action property over the abstract content
(`Map`, `Bag`, a list by recency, a set of words), which it computes from the representation
before and after the step: whatever was called changes that content as the abstract operation
does, and answers from it. Random choices (`random_level`, the order `std::sort` leaves among
equal distances, the feature that entropy would prefer) are existential quantifiers, so that
the properties hold for every outcome.

### How code becomes an action

* A critical section under the component's mutex is one action, from the moment the mutex is
  taken (on a call or on leaving a wait) to the moment it is released (by returning or by
  blocking in a wait). Nothing outside can see its intermediate states. Where the code does
  something outside the mutex that another thread can see (a notification after unlock, an
  atomic flag, an access of a lock-free pointer), that is an action of its own.
* `wait(lock, predicate)` evaluates the predicate in the same action as the code around it: if
  it is false the thread goes to the point *asleep*; a notification, a time-out or a spurious
  wake-up moves it to *awake*, from where it repeats the test when it gets the mutex.
* Spurious wake-ups are always possible and never fair: nothing that is proved or checked
  relies on one.
* A "thread" of a model is one use of the component (one call, or a call and the call that
  undoes it). The components do not know threads, so a thread that makes several calls is
  several members of the constant; and liveness can be asked without an unbounded supply of
  calls. Consumers of the queues do call again and again, as in the drivers.
* Operators named as a *seeded fault* are not part of any specification. Each is the operator
  that follows it with one plausible mistake (a dropped notification, an off-by-one, a missing
  check) and documents which property notices that mistake.

## 3. What is checked

Every run of a concurrent component uses its fair specification where one exists, so that
safety, action and liveness properties and refinements are checked together. A module's
`TypeOK` is the first conjunct of its first invariant.

| Run | Instance | Distinct states | Shows |
|---|---|---|---|
| `Locks` | 3 readers and 2 writers; 4 callers of the spin lock, time-outs 0 and 2; 4 uses of a semaphore of 2 permits | 129,723 | readers-writer lock: `WriterAlone`; `SleepersAreBlocked`: whoever sleeps has somebody in the way who will notify; `ImplementsThreadSafeData` (refinement); `EveryThreadServed`. Spin lock: `IncrementsCounted`. Semaphore: `PermitsSound`: permits are conserved; `NoStrandedPermit`: while somebody sleeps, at least as many threads are on their way out of the wait as there are free permits; `CallsReturn`: `try_acquire_for` returns whoever hoards, and if holders release, every call returns |
| `Channels` | 4 pushes, 2 consumers, bounds 0, 1, 2; a ring of 0, 1, 2 places with 3 pushes, 2 poppers and `clear` | 34,342 | queue: `NoLostWakeup` in both directions; `ImplementsChannel` (refinement of `BoundedChannel`); `NothingStays`: blocked pushes end, accepted items come out, and after shutdown everybody leaves. Ring: `RingInOrder`, `RingNoLostWakeup` |
| `ThreadPool` | 2 workers, 3 calls, one nested | 11,914 | `NoLostWakeup`; `ImplementsChannel`; `DestructorCompletesTasks`; `EverythingEnds`: accepted tasks end and the destructor returns |
| `Timers` | heap: 2 adds, delays and intervals 0 or 2, 4 instants; wheel: 3 timers, 2 slots, 3 ticks | 504,662 | heap: `TasksConserved`; `WaitsForTheFirst`: the worker never sleeps past the first due time; `IntervalsKept`; `DueTasksStart`. Wheel: `WheelConserved`; `FiresInItsTick`: once, in the step of its tick, never after a cancel |
| `Timer_stop` | 1 add | – | **violated**: `StopReturns`, finding 1 |
| `TimeWheel_ticks` | 1 timer, a tick of 2 ms | – | **violated**: `TicksKeepTime`, finding 10 |
| `Pools` | 3 clients, 2 connections, one failed initialisation (`connect` or `setSchema` throws); 3 users, an object pool from size 0 to 3, constructors may throw | 15,938 | `EveryConnectionInOnePlace`, `EveryObjectInOnePlace`; `NoStrandedConnection`, `NoStrandedObject`; `EveryClientServed` while reconnects succeed, `EveryUserServed` unless a constructor throws |
| `MysqlPool_reconnect` | 2 clients, 1 connection | – | **violated**: `FailedReconnectReturnsConnection`, finding 2 |
| `LockFreeQueue` | a producer (4 calls) with a consumer, and 2 producers; 3 addresses; exchanges may fail spuriously | 10,599 | `NoDanglingAccess`, until line 60 has failed so; `ListHoldsTheRest`; `ImplementsChannel`; `EveryItemComesOut` |
| `TcpConnectionManager` | 1 incoming and 1 outgoing connection, 3 descriptors, 3 calls | 332,265 | `CallbacksInOrder`: CONNECTED, the data in order, DISCONNECTED once; `EndsAreAnnounced` |
| `TcpConnectionManager_reuse` | 2 incoming connections and 1 outgoing, 2 descriptors, 3 calls, no data | 787,288 | `ConnectionsCounted`: `connections_` agrees with the open descriptors but for what is being inserted or erased, where every number is given out again while threads still go by it |
| `Sequential` | ten components, instances in `Sequential.tla` | 69,722 | `StructuresSound`: each `Sound`; `CallsAnswered`: each `Promise`; `JsonReadBack`: what is written is read back, and no text that is cut off is; `LearnersConsistent`: answers about training data come from it |

**Why these bounds.** A lost wake-up needs a sleeper, a thread that was notified and a thread
that barges in between; a second sleeper tells notify_one from notify_all. Four uses of two
permits, three users of a pool, four producers against one or two places with two consumers
contain all of these at once. The lock needs two readers beside a writer (the first must not
notify, the last must) and a second writer. The pool's interesting case is a task that enqueues
while the destructor is at work, with a second worker to be forgotten. The timer needs a task
due later than another that is added while the worker already sleeps for the first: two adds,
two delays and enough instants for a periodic task to come again. The lock-free queue needs
the consumer to overtake a producer that has linked and not yet moved `tail`, and an address
to be reused after that: four items and a dummy on three addresses; two producers for the race
on the last node; and a second call after one whose last exchange has failed. The connection
manager needs a second connection to inherit the first one's number (it does not matter
whether `accept` or `connect` makes it), three descriptors so that the listening socket leaves
two and can also run out of them, and three calls of the program: one opens, one closes, and
one more acts on the number that has become free. Its second run has three connections on two
numbers and no data: there a number passes to a third connection while threads of the first
and the second still go by it, so that an entry can be overwritten before it is erased.

The spin lock's interesting case is a caller that times out while another unlocks and a third
is about to test: three callers, and one more that has finished. The ring needs to wrap, which
three pushes do on every size, and a ring of no places is full and empty at once. The wheel
needs a delay of a whole turn, so that a task is met in its slot before its tick, and a
callback that adds to the slot being emptied: two slots and three ticks contain a turn and the
step after it; a third timer is met behind the one whose callback cancels it. For the sequential
components the sizes are those at which a structure changes its shape: a hash table that
doubles twice with keys that share a bucket before and part after; a cache of two entries and
three keys (the first, the last and the only node), and of none; three nodes on three levels
with two of equal value; words that are beginnings of others and that branch; an observer
attached twice among two; a Bloom filter whose double hash wraps; JSON values two levels deep
with every kind of leaf; three training rows, so that votes can tie and contradict.

Bounds that stand for something unbounded in the code: `MaxTime` (the clock stops there; a task
that is due by then must still start), `MaxTick` and `MaxElapsed` (steps of the wheel and
milliseconds between two turns of its worker), `MaxObjects` (no `resize` beyond it),
`MaxConnections` (no retry of `initialize` beyond it), `Calls` and `Nodes` (calls of `enqueue` and
addresses), `Fds`, `Talkers`, `MaxData` and `MaxCalls` of `TcpConnectionManager` (descriptor
numbers, connections whose other end sends, how often, and calls of the program), and in the
sequential modules `MaxBuckets`, `MaxNodes`, `MaxAttached`, `MaxText`, `MaxData`, `Numbers`
and `Width`.

**Fairness.** With one exception only weak fairness is assumed, and only of steps the code itself
will take once begun: a thread that was woken gets the mutex eventually, a notification after unlock is sent,
a task or a critical section ends, the clock ticks and time-outs expire. Where a property is
about holders that let go (`ObjectPool`, `MysqlPool`, the drivers' threads in `ReadWriteLock`)
the release is fair because the drivers release unconditionally; `Semaphore` does not assume it
and states it in the property instead. Nobody is ever obliged to make a first call, to call
`shutdown` or `stop`, or to begin a destructor. The exception is `LockFreeQueue`: an exchange
that a loop tries again and again is strongly fair, that is, it does not fail spuriously for
ever; of line 60, which is tried once, nothing is assumed. Nothing is asked of the future, and no fairness
assumed, of `SpinLock` (no order among those who spin: one of them may lose every race),
`CircularBuffer` (`clear` may strand a pusher, finding 12), `TimeWheel` (its ticks may never
come, finding 10) and the sequential components.

The `CHECK_DEADLOCK` default is left on but for the runs of `TcpConnectionManager`: the other models
can always take a step (`Finished` and `Destroyed` are the driver's joins, after which nothing
happens). The connection manager really may stop: its threads wait for peers that never come, and `stop`
locks itself out (finding 6).

## 4. Where code and intention disagree

1. **`Timer::stop` may never return** (`Infrastructure_Components/Timer.h:71-76`). It changes
   `running_` and notifies without the mutex. Both can fall between the moment the worker
   finds its predicate false and the moment it blocks; the worker then sleeps on an empty heap
   and `join` waits for it. TLC's trace (`Timer_stop`): start, the worker finds the heap empty,
   `stop` exchanges and notifies, the worker blocks.
2. **`MysqlPool::getConnection` locks up when a reconnect fails**
   (`Database_Component/MysqlPool.h:84`). The exception destroys `sp` while `lock` is still
   held; the deleter locks the same mutex again.
3. **`LockFreeQueue::enqueue` may loop for ever**
   (`Data_Structure_Component/LockFreeQueue.h:42,46,60`). `tail` is loaded before the loop and only
   loaded again by a failing exchange on line 55, which the failing comparison of line 46 keeps
   from being reached. Beside another producer it is enough that the other one moves `tail`;
   `EnqueueEnds` carries this as its exception (`prev_tail[p] # tail`). But a single producer is
   affected too: line 60 is a `compare_exchange_weak` outside any loop, which may fail although
   the values are equal and leaves `tail` behind. The next call then moves `tail` itself, on
   line 55, and compares its stale `prev_tail` for ever. `EveryItemComesOut` carries this as
   the exception `leftBehind`; `pc[p] = "readNext" ~> pc[p] = "idle"` without it is refuted by TLC
   with that trace, of ten steps, also for a producer that is the only one in its cast.
4. **`ObjectPool::resize` that throws half-way** (`Infrastructure_Components/ObjectPool.h:28-33`)
   leaves objects in the pool that nobody was notified of, and that `maxSize_` does not count,
   so that a later `resize` creates more objects than `maxSize_`. The first is the term `untold`
   of `NoStrandedObject`.
5. **`add_fixed_rate_task` keeps a fixed delay** (`Timer.h:109`): the next due time is counted
   from the end of the task, so due times drift.
6. **`TcpConnectionManager::stop` locks itself out**
   (`Network_Communication_Component/TcpConnectionManager.h:112-115`): it holds
   `connections_mutex_` and calls `closeConnection`, which locks it again. With any entry in
   the map neither `stop` nor the destructor returns. Other steps of `stop`: an `accept` already
   waiting still takes a connection after it, and a `start` that failed has left a stale
   number in `listen_fd_`, which may be a connection's by the time `stop` closes it (line 108).
7. **A descriptor is closed before its entry is erased** (lines 188 and 192). TLC's shortest
   way to a victim without any `closeConnection` by the program: a connection is accepted and
   its peer closes it; its receiver closes the number; `connect` gets the same number and
   inserts its entry; the receiver erases that entry.
8. **A failed `connect` leaves its entry** (line 145), which `getConnectionCount` counts.
9. **A connection the program closes is closed twice** (line 181): its receiver still holds the
   number, and announces DISCONNECTED again.
10. **The wheel drops the milliseconds that make no tick** (`TimeWheel.h:134`): `last_time` is
    set in every turn, also when no tick has passed. With the loop's sleep of one millisecond
    and ticks of ten, no tick passes as long as the worker is on time, and no timer ever fires.
11. **A callback's timer of less than a tick waits a whole turn** (`TimeWheel.h:67,88-89`): it
    goes into the slot `step` has just emptied. `behind` in `FiresInItsTick`.
12. **`CircularBuffer::clear` wakes nobody** (`CircularBuffer.h:82`): a pusher that sleeps stays
    asleep beside an empty ring. `cleared` in `NoLostWakeup`.
13. **Escapes are written and not read** (`cpp_json.h:255`), and **doubles keep six decimals**
    (line 365). `Plain` in `JsonReadBack`.
14. **`printTree` prints a directory's old name** (`FileSystem.h:109`): `move` leaves
    `Node::name` as it was, `ls` prints the new one.
15. **`false_positive_rate` forgets the exponential** (`BloomFilter.h:53`): its result is never
    below 1. A formula without state, not modelled.
16. **A cache of capacity 0 grows without bound** (`LRU.h:106`): its first `put` finds it full
    while it is empty and inserts all the same; afterwards `size()` is never 0 again.
17. **`MysqlPool::initialize` leaks a connection whose `setSchema` throws**
    (`Database_Component/MysqlPool.h:53-57`). Only the local `rawConn` points at it; it is
    neither closed nor pushed, and the exception says it was not created. It is in `leaked`, the
    exception of `EveryConnectionInOnePlace`.
18. **The lock-free queue's consumer deletes a node a producer is about to read**
    (`LockFreeQueue.h:80`, read on line 45). It happens with one producer and one consumer
    once line 60 has failed spuriously: `tail` still points at the node before the one linked, the
    producer's next call loads it, and the consumer moves `tail` and takes the node off. This is
    the exception `leftBehind` of `NoDanglingAccess`; without it TLC finds that trace, of 17
    steps. And it happens with two producers beside a consumer though nothing fails: one loads
    `tail`, the other links behind that node and moves `tail`, and the consumer takes the node
    off. With `{p1, p2, c1}` for a cast and `MayFail` false TLC finds it in 14 steps; the
    run leaves such casts out, as what happens after is undefined.

The properties of `TcpConnectionManager` state these as exceptions: `victims` (7, the second
close of 9, and what follows of them: a thread whose connection was closed that way makes, looks
up, reads or erases the entry of the connection that has the number now), connections whose `connect` failed (8), connections the program closed (9) and a
manager that was stopped (6).

Runs that expect a violation show findings 1, 2 and 10. Findings 3, 4 (the first half), 7, 8, 9, 11,
12, 13, 16, 17 and 18 are exceptions in properties of passing runs; `EndsAreAnnounced` leaves out a stopped manager because of 6, and
`CallsAnswered` says of `printTree` what 14 says. 5 and the second half of 4 were met in reading
the code and no property is about them; 15 is not modelled.

## 5. What is proved

Every safety property the runs check of the concurrent components is a theorem. The proofs are
for every value of the constants, from the `ASSUME` of the modules: sets of threads are finite
and roles disjoint, counts, sizes, delays and bounds are natural numbers, a thread pool has a
worker, and the names a model uses for threads and for "nothing" are no connections.
`TimersAssumption` says more: the wheel's `TICK_MS` and `WHEEL_SIZE` are positive (10 and 256 in
the code, which divides by both). The theorems about `LockFreeQueue` have a hypothesis,
`PairsOnly`: the threads that use the queue together are producers only, or at most one producer
and one consumer. For other uses they would be false: line 80 deletes a node another thread may
still be about to read (finding 18). They are proved whether exchanges may fail spuriously
(`MayFail`) or not.

What is proved of a component inside `Locks`, `Channels`, `Pools` or `Timers` is proved of that
specification, where the components of which `which` names another one stand still.

**`ProofLemmas`**: what a move, `NotifyOne` and `NotifyAll` of `CondVar` do to the number of
threads at a control point. The proofs about wake-ups rest on these counts.

**`LocksProofs`**

* `WriterStaysAlone`, `NoSleeperForgotten`: `Exclusion` is not inductive, since the predicates
  of the lock look at `readers_` and `writer_`. `IInv` adds `HoldersKnown` (the count is the
  number of readers inside, the flag says whether a writer is) and `Roles` (readers do not store).
* `LockImplementsThreadSafeData`: by step simulation under `IInv`: a read by a reader inside
  sees no store in progress, the end of a store sees no other, and every other step leaves the
  abstract variables alone.
* `NoIncrementIsLost` (`SpinLock`): `SpinInv` adds to exclusion that what the caller inside has
  loaded is still the value of the datum (`LoadedIsCurrent`), and that the datum is the number
  of callers past their store. A `try_lock_for` that times out just after the flag was cleared
  moves nobody inside, so that it keeps all three.
* `PermitsStaySound`, `NoPermitStranded`, `AtMostInitialInside` (`Semaphore`): types,
  `PermitsConserved` and `NoStrandedPermit` are inductive together as they stand: `Take` lowers
  the free permits and at most one thread leaves *awake* with it; `Sleep` and `Refuse` happen only
  at zero permits; `Release` raises both sides when there is a sleeper.

**`ChannelsProofs`**

* `QueueLosesNoWakeup`, `QueueIsChannel` (`ProducerConsumerQueue`): `NoLostWakeup` with its types
  is inductive by the counting lemmas: a push adds an item and, when a consumer sleeps, a woken
  one. For the refinement `QueueInv` adds `History`, that what was accepted is what was delivered
  followed by the queue; each step is then one of `BoundedChannel` or a stutter.
* `RingKeepsOrder`, `RingLosesNoWakeup` (`CircularBuffer`): `RingInv` is about `InRing`, the
  items between the indices as a sequence, and `Held`, their number. The lemmas `RingBounds`,
  `RingGrows` and `RingShrinks` settle the arithmetic modulo the length of the buffer: a push
  appends to `InRing`, also where `tail_` wraps, and a pop takes its head. `ItemsAnnounced` and
  `PlacesAnnounced` compare `Held` with the threads awake and those that are yet to notify.

**`ThreadPoolProofs`**: `PoolLosesNoWakeup`, `DestructorLeavesNoTask`, `PoolIsChannel`. What the
destructor promises needs to know where each task is: `PoolInv` adds to `NoLostWakeup` that a
worker has a task exactly while it is in `task()`, that accepted tasks are those started followed
by the queue, that a started task has ended or is with a worker, and that a worker returns only
from a stopped pool and an empty queue. A task that enqueues another after `stop` is refused,
which keeps the last part.

**`PoolsProofs`**: `ConnectionsKept`, `ConnectionsAnnounced`, `ObjectsKept`, `NoObjectStranded`.
Both pools keep numbered things, and `Placed` says of either that each is in the pool once or
with one user, in the form of a sequence and a function, that steps can be reasoned about in;
`PlacedTake`, `PlacedBack` and `PlacedMore` say what the three kinds of step do to it, and
`PlacedOnce` and `PlacedNowhere` that it gives the counts the runs check: one of every
connection, and none of those in `leaked`, which `initialize` has opened and lost. `NobodyWaitsYet` (before `initialize` has
returned nobody sleeps) is needed because `initialize` fills the pool and notifies nobody.

**`TimersProofs`**

* `TasksKept`, `NeverSleepsThrough`, `StartsKeepIntervals` (`Timer`): `HeapInv` adds that a task
  in the heap is a draft of its caller (`FromDrafts`), that the due time of a task started before
  lies its interval after that start (`StartsApart`), what the worker has tested while it holds the
  mutex (`WaitsKnown`: nothing is pushed between its look at the heap and its wait), and that
  there is no worker before `start` and after `stop` (`OffWhenStopped`).
* `WheelKeepsTasks`, `CalledInItsTick` (`TimeWheel`): `WheelInv` says which slots and which part
  of the walked list a task can be in (`Listed`, `NoneLost`, `NotAdded`), which callbacks are
  alive (`Callable`), and how far `current_tick` is from the tick of a task in a slot (`InTime`).
  `NextTurn`, `SameSlot` and `DelayInTicks` are the arithmetic: within one turn two ticks share a
  slot only if they are equal, which is why a task added to the slot that is being emptied comes
  a turn late and no later.

**`LockFreeQueueProofs`**: `NobodyDangles`, `NothingIsLost`, `LockFreeQueueIsChannel`. No variable
holds the list; `QueueInv` says there is a sequence of nodes `L` that is linked from `head` to a
node whose `next` is null, that `tail` is in it, that its items are those to come out (`HistoryIs`),
that a node not yet linked is its producer's alone (`FreshNodes`), and what each thread may rely on
of what it has read (`ProducersIn`, `ProducerAtEnd`, `ConsumerAtHead`). The part that is easily
missed is `ProducerAtEnd`: beside a consumer, the producer's `prev_tail` is the last node until
it has linked its own, so that the consumer cannot have deleted it, and `tail` lags by
one node at most. Once line 60 has failed although `tail` was `prev_tail` (`leftBehind`), the
first half no longer holds, and `NobodyDangles` says nothing from there on. The second half still
does, and a producer that reaches line 49 or 55 with `prev_tail = tail` just tested knows the last
node for certain, as nobody else moves `tail` past it (`AtEnd`): so nothing is lost or reordered
even then, which is why the other two theorems have no such exception. `WalkFinds` shows by
induction along `L` that the walk of `Contents` collects those items.

**`TcpConnectionManagerProofs`**: `OpenConnectionsCounted`, `CallbacksKeepOrder`, for any number of
connections, descriptors and calls. Neither property is inductive: both must know which thread may
still touch a number. `ManagerInv` has eight parts.

* `Numbers`: a connection has one number for life, the one the table and the map know it by, and
  nothing is known of a connection before it has one. `Places`, `Work`: what each thread can be
  doing and for which connection; in particular one thread opens a connection, before there is a
  receiver, and what the program closes is in `called`.
* `ClosedForGood`: between close and erase the connection no longer has its number. `Counted` is
  `ConnectionsCounted` said of connections instead of numbers, which is the form a step can be
  checked in; it needs `Unheard` (before its entry is made nobody is told of a connection, so that
  nobody but its opener can be at work on it).
* `Found`: the information and the socket a receiver holds are its own connection's, or those of a
  victim. `Undisturbed`: a connection that is no victim and that the program has not closed keeps
  its number until its receiver closes it at the end (`KeptOf`), and its log is what
  `Told` says for the data read so far, closed by one DISCONNECTED (`StoryOf`).

There is a lemma per action, each with one step per part. The two that carry the argument are
`InsertStep`, where an entry may replace another's, and `RecvDataStep`, where data read from one
socket is told under the information found earlier: that both are the receiver's own is
`Found`, and that the log grows in order is `ToldGrows`. An earlier form of the model recorded no
victim when an entry was overwritten; the step of `Insert` could not be proved, and the instance of
`TcpConnectionManager_reuse`, where the overwritten connection is missed by the count, shows why.

Only model-checked: all liveness (`CallsReturn`, `EveryThreadServed`, `NothingStays`,
`EverythingEnds`, `DueTasksStart`, `EveryClientServed`, `EveryUserServed`, `EveryItemComesOut`,
`EndsAreAnnounced`: fairness and ENABLED are outside the prover), and the sequential components.
Of the latter, those whose definitions are RECURSIVE (`rehash` and `insert` call each other; the walks along lists and trees;
the parser), and `Sequential`, which instantiates them, are out of the prover's reach for good.
What shows the findings is said at the end of section 4.

## 6. What is not modelled

Components without a behaviour over time: `Singleton` (a static local, guaranteed by C++),
`Factory_Product`, `Decorator`, `main.cpp`.

Of the modelled components:

* Reads that change nothing and are asked of no property (`size`, `empty`, `totalCount`, `front`),
  and in `CircularBuffer` their reading `head_` and `tail_` without the mutex.
* What C++ leaves undefined: calls of the wheel's owner inside a step, and a callback that
  cancels its own timer; `attach` and `detach` inside an `update`; a hash table of 0 buckets; a
  `shared_ptr` that outlives its pool; the data races on the connection manager's
  plain `running_` and `listen_fd_`, which are read and written as if atomic.
* Uses no driver makes and no comment promises: releases of a semaphore by threads that hold
  nothing; an endless stream of readers, which would keep a writer out; a pool of no workers, and
  tasks that wait for other tasks; several owners that call `start` and `stop` of one timer at
  once, or `stop` from inside a task; `getConnection` before or during `initialize`; several
  consumers of the lock-free queue (line 67 reads what line 80 of another has deleted); a second `start` or `stop` of the
  connection manager; a negative capacity of the cache; a second `fit`.
* `Timer::cancel_task` (a stub that returns false), the destructors of `MysqlPool`,
  `LockFreeQueue` and of a wheel with tasks in it, `recv` and `accept` interrupted by a signal
  (nothing here installs a handler), `sendData` and the error callback of the
  connection manager, several samples in one `KNNClassifier::predict`.
* Floating point: the logarithms that size a Bloom filter (their outcomes are a constant of the
  model) and the entropies of the decision tree (the model lets every feature be chosen). In
  JSON texts, exponents, integers beyond `int64_t`, and the two-letter escapes of control
  characters.

## 7. Plan

*Model*: tasks of the pool that wait for other tasks, `getConnection` during `initialize`, a
second `start` and `stop` of the connection manager. Each needs its own answer to what the code
promises there, since neither comments nor tests give one.
