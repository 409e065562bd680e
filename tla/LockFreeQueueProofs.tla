------------------------ MODULE LockFreeQueueProofs ------------------------
(***************************************************************************)
(* For every number of calls and of addresses, when the queue is used by   *)
(* producers alone or by one producer beside one consumer: the list holds  *)
(* what was linked and not taken off, the queue is a first-in first-out    *)
(* channel, and until the exchange of line 60 has failed although tail was *)
(* prev_tail no node is accessed after its delete.                         *)
(***************************************************************************)
EXTENDS LockFreeQueue, FiniteSetTheorems, TLAPS

(* The list as a sequence of nodes: the dummy head first.  Nothing in the  *)
(* state holds this sequence; the invariant says that there is one.        *)
InList(L, n) == \E i \in 1 .. Len(L) : L[i] = n

ListIs(L) ==
    /\ L[1] = head
    /\ \A i, j \in 1 .. Len(L) : L[i] = L[j] => i = j
    /\ \A i \in 1 .. Len(L) : L[i] \in alive
    /\ \A i \in 1 .. Len(L) - 1 : next[L[i]] = L[i + 1]
    /\ next[L[Len(L)]] = nullptr
    /\ InList(L, tail)

(* Its nodes after the head hold the items that are still to come out.     *)
HistoryIs(L) ==
    /\ sent \in Seq(Items) /\ received \in Seq(Items)
    /\ Len(sent) = Len(received) + Len(L) - 1
    /\ \A i \in 1 .. Len(received) : received[i] = sent[i]
    /\ \A i \in 2 .. Len(L) : data[L[i]] = sent[Len(received) + i - 1]

(* A producer that has not linked its node has it for itself.              *)
Linking == {"readNext", "check", "link", "help"}

FreshNodes(L) ==
    \A p \in Producers : pc[p] \in Linking =>
        /\ node[p] \in alive /\ ~InList(L, node[p])
        /\ next[node[p]] = nullptr /\ data[node[p]] \in Items
        /\ \A q \in Producers : pc[q] \in Linking /\ q # p => node[q] # node[p]

(* Beside a consumer there is one producer.  Once line 60 has failed       *)
(* although tail was prev_tail, the next call of enqueue may hold a node   *)
(* that has been taken off.                                                *)
WithConsumer == cast \cap Consumers # {}
Astray == WithConsumer /\ leftBehind

(* Until then what a producer has read points into the list. *)
ProducersIn(L) ==
    \A p \in Producers :
        /\ pc[p] \in Linking => prev_tail[p] \in Nodes /\ (InList(L, prev_tail[p]) \/ Astray)
        /\ pc[p] \in {"check", "help"} => nxt[p] = nullptr \/ InList(L, nxt[p]) \/ Astray
        /\ pc[p] = "help" => nxt[p] # nullptr
        /\ pc[p] = "swing" => InList(L, node[p])

(* Beside a consumer tail lags behind by one node at most: while the       *)
(* producer is between lines 49 and 60, or since line 60 has failed.  What *)
(* the producer has read is the last node, or it has read it from a tail   *)
(* that lagged; but where it goes on with it, at lines 49 and 55, it knows *)
(* the last node for certain.                                              *)
Lags(L) == Len(L) >= 2 /\ tail = L[Len(L) - 1]

AtEnd(L, p) ==
    /\ pc[p] \in Linking => prev_tail[p] = L[Len(L)] \/ leftBehind
    /\ pc[p] = "check" => nxt[p] = next[prev_tail[p]] \/ ~InList(L, prev_tail[p])
    /\ pc[p] = "link" => prev_tail[p] = L[Len(L)] /\ tail = L[Len(L)]
    /\ pc[p] = "help" => leftBehind /\ nxt[p] = L[Len(L)]
    /\ pc[p] = "swing" => /\ node[p] = L[Len(L)]
                          /\ tail = L[Len(L)] \/ (Lags(L) /\ tail = prev_tail[p])

ProducerAtEnd(L) ==
    WithConsumer =>
        /\ \A p \in Producers : AtEnd(L, p)
        /\ tail = L[Len(L)] \/ Lags(L)
        /\ (\A p \in Producers : pc[p] # "swing") => tail = L[Len(L)] \/ leftBehind

(* The consumer works at the head, and takes a node off only when tail has *)
(* left it.                                                                *)
ConsumerAtHead(L) ==
    \A c \in Consumers :
        /\ pc[c] \in {"readTail", "readFirstNext", "checkHead", "helpTail", "readData", "unlink"}
              => first[c] = head
        /\ pc[c] \in {"readFirstNext", "checkHead", "readData", "unlink"}
              => (last[c] # head => tail # head)
        /\ pc[c] = "checkHead" => /\ nxt[c] = nullptr \/ (Len(L) >= 2 /\ nxt[c] = L[2])
                                  /\ last[c] # head => nxt[c] # nullptr
        /\ pc[c] = "helpTail" => last[c] = head
        /\ pc[c] \in {"readData", "unlink"} => last[c] # head
        /\ pc[c] \in {"helpTail", "readData", "unlink"} => Len(L) >= 2 /\ nxt[c] = L[2]
        /\ pc[c] = "unlink" => result[c] = data[L[2]]
        /\ pc[c] = "free" =>
              /\ first[c] \in alive /\ ~InList(L, first[c])
              /\ \A p \in Producers : pc[p] \in Linking => node[p] # first[c]

Linked(L) == /\ L \in Seq(Nodes) /\ Len(L) >= 1
             /\ ListIs(L) /\ HistoryIs(L)
             /\ FreshNodes(L) /\ ProducersIn(L)
             /\ ProducerAtEnd(L) /\ ConsumerAtHead(L)

(* The inductive invariant.  A thread that is in a call belongs to cast.   *)
CastKnown == \A t \in Threads : pc[t] # "idle" => t \in cast

Sound == TypeOK /\ Paired(cast) /\ CastKnown /\ (dangling => leftBehind)
QueueInv == Sound /\ \E L \in Seq(Nodes) : Linked(L)
-----------------------------------------------------------------------------
(* Who may be in a call beside whom. *)
LEMMA OneBesideOne ==
    ASSUME Sound, WithConsumer
    PROVE  /\ \A p, q \in Producers : p \in cast /\ q \in cast => p = q
           /\ \A c, d \in Consumers : c \in cast /\ d \in cast => c = d
<1>1. PICK p \in Producers, c \in Consumers : cast \subseteq {p, c}
    BY DEF Sound, Paired, WithConsumer
<1> QED BY <1>1, LockFreeQueueAssumption

(* A thread that moves; the others stay where they are. *)
LEMMA ThreadMoves ==
    ASSUME Sound, NEW t \in Threads, t \in cast, NEW q \in Points, Goto(t, q),
           UNCHANGED cast
    PROVE  /\ pc'[t] = q
           /\ \A u \in Threads \ {t} : pc'[u] = pc[u]
           /\ pc' \in [Threads -> Points]
           /\ CastKnown'
    BY DEF Sound, TypeOK, Goto, CastKnown

(* The next of a node in the list. *)
LEMMA NextInList ==
    ASSUME NEW L, Linked(L), NEW n, InList(L, n)
    PROVE  /\ n \in alive
           /\ next[n] = nullptr \/ InList(L, next[n])
           /\ next[n] = nullptr => n = L[Len(L)]
<1>1. PICK i \in 1 .. Len(L) : L[i] = n
    BY DEF InList
<1>2. n \in alive
    BY <1>1 DEF Linked, ListIs
<1>3. CASE i < Len(L)
    <2>1. i + 1 \in 1 .. Len(L) /\ i \in 1 .. Len(L) - 1 /\ Len(L) \in Nat
        BY <1>1, <1>3 DEF Linked
    <2>2. next[n] = L[i + 1] /\ L[i + 1] \in Nodes
        BY <1>1, <2>1 DEF Linked, ListIs
    <2> QED BY <1>2, <2>1, <2>2, LockFreeQueueAssumption DEF InList
<1>4. CASE i = Len(L)
    BY <1>1, <1>2, <1>4 DEF Linked, ListIs
<1> QED BY <1>1, <1>3, <1>4 DEF Linked

(* The nodes themselves, and those of them that are told apart by place.   *)
LEMMA EndsOfList ==
    ASSUME NEW L, Linked(L)
    PROVE  /\ Len(L) \in Nat /\ Len(L) >= 1
           /\ \A i \in 1 .. Len(L) : L[i] \in Nodes
           /\ InList(L, L[1]) /\ InList(L, L[Len(L)])
           /\ Len(L) >= 2 => InList(L, L[2]) /\ L[2] # L[1] /\ L[Len(L)] # L[1] /\ L[2] # nullptr
           /\ tail # head => Len(L) >= 2
<1>1. /\ Len(L) \in Nat /\ Len(L) >= 1
      /\ \A i \in 1 .. Len(L) : L[i] \in Nodes
      /\ L[1] = head
      /\ \A i, j \in 1 .. Len(L) : L[i] = L[j] => i = j
      /\ InList(L, tail)
    BY DEF Linked, ListIs
<1>2. InList(L, L[1]) /\ InList(L, L[Len(L)])
    BY <1>1 DEF InList
<1>3. Len(L) >= 2 => InList(L, L[2]) /\ L[2] # L[1] /\ L[Len(L)] # L[1] /\ L[2] # nullptr
    BY <1>1, LockFreeQueueAssumption DEF InList
<1>4. tail # head => Len(L) >= 2
    BY <1>1 DEF InList
<1> QED BY <1>1, <1>2, <1>3, <1>4

(* The node before the last. *)
LEMMA LastButOne ==
    ASSUME NEW L, Linked(L), Len(L) >= 2
    PROVE  /\ Len(L) - 1 \in 1 .. Len(L) /\ Len(L) \in 1 .. Len(L)
           /\ next[L[Len(L) - 1]] = L[Len(L)]
           /\ L[Len(L) - 1] # L[Len(L)]
<1>1. Len(L) \in Nat
    BY DEF Linked
<1>2. Len(L) - 1 \in 1 .. Len(L) - 1 /\ (Len(L) - 1) + 1 = Len(L)
    BY <1>1
<1>3. next[L[Len(L) - 1]] = L[Len(L)]
    BY <1>2 DEF Linked, ListIs
<1>4. Len(L) - 1 \in 1 .. Len(L) /\ Len(L) \in 1 .. Len(L) /\ Len(L) - 1 # Len(L)
    BY <1>1
<1> QED BY <1>3, <1>4 DEF Linked, ListIs

(* Lengths of one and of two. *)
LEMMA ShortLengths ==
    ASSUME NEW m \in Nat
    PROVE  (m >= 1 /\ m < 2 => m = 1) /\ (1 = m - 1 => m = 2)
    OBVIOUS

(* ---- The producers ---------------------------------------------------- *)
(* A producer's step leaves the consumers' locals and places alone.        *)
LEMMA ConsumersStay ==
    ASSUME Sound, NEW L, Linked(L), NEW p \in Producers,
           \A u \in Threads \ {p} : pc'[u] = pc[u],
           UNCHANGED <<head, dequeueLocals>>, \A c \in Consumers : nxt'[c] = nxt[c],
           \A i \in 1 .. Len(L) : data'[L[i]] = data[L[i]],
           WithConsumer => (tail # head => tail' # head),
           \A c \in Consumers : c \in cast /\ pc[c] = "free" =>
               /\ first[c] \in alive'
               /\ \A q \in Producers : pc'[q] \in Linking => node'[q] # first[c]
    PROVE  ConsumerAtHead(L)'
<1>1. \A c \in Consumers : /\ pc'[c] = pc[c] /\ first'[c] = first[c] /\ last'[c] = last[c]
                           /\ result'[c] = result[c] /\ nxt'[c] = nxt[c]
    BY LockFreeQueueAssumption DEF Threads, dequeueLocals
<1>2. \A c \in Consumers : pc[c] # "idle" => c \in cast /\ WithConsumer
    BY DEF Sound, CastKnown, Threads, WithConsumer
<1>3. Len(L) >= 2 => data'[L[2]] = data[L[2]]
    BY DEF Linked
<1> QED BY <1>1, <1>2, <1>3 DEF ConsumerAtHead, Linked, InList

(* Line 42: the new node is in nobody else's hands. *)
LEMMA BeginStep ==
    ASSUME Sound, NEW L \in Seq(Nodes), Linked(L), NEW p \in Producers, p \in cast, Begin(p)
    PROVE  Sound' /\ Linked(L)'
<1>1. /\ pc[p] = "idle" /\ made[p] < Calls[p] /\ p \in Threads
      /\ Goto(p, "readNext") /\ prev_tail' = [prev_tail EXCEPT ![p] = tail]
      /\ UNCHANGED <<cast, head, tail, dangling, made, dequeueLocals, nxt, history>>
    BY DEF Begin, Threads
<1>2. PICK n \in Nodes \ alive :
          /\ alive' = alive \cup {n}
          /\ next' = [next EXCEPT ![n] = nullptr]
          /\ data' = [data EXCEPT ![n] = <<p, made[p] + 1>>]
          /\ node' = [node EXCEPT ![p] = n]
    BY DEF Begin
<1>3. /\ pc'[p] = "readNext" /\ \A u \in Threads \ {p} : pc'[u] = pc[u]
      /\ pc' \in [Threads -> Points] /\ CastKnown'
    BY <1>1, ThreadMoves DEF Points
<1>4. <<p, made[p] + 1>> \in Items
    <2>1. made[p] + 1 \in 1 .. Calls[p]
        <3>1. Calls[p] \in Nat /\ made[p] \in Nat
            BY LockFreeQueueAssumption DEF Sound, TypeOK
        <3> QED BY <1>1, <3>1
    <2>2. <<p, made[p] + 1>> \in {p} \X (1 .. Calls[p])
        BY <2>1
    <2> QED BY <2>2 DEF Items
<1>5. Sound'
    <2>1. next' \in [Nodes -> Pointers] /\ data' \in [Nodes -> Items \cup {NoItem}]
        BY <1>2, <1>4 DEF Sound, TypeOK, Pointers
    <2>2. node' \in [Producers -> Pointers] /\ prev_tail' \in [Producers -> Pointers]
        BY <1>1, <1>2 DEF Sound, TypeOK, Pointers
    <2> QED BY <1>1, <1>2, <1>3, <2>1, <2>2 DEF Sound, TypeOK, Paired, dequeueLocals, history
<1>6. /\ Len(L) \in Nat /\ Len(L) >= 1
      /\ \A i \in 1 .. Len(L) : L[i] \in alive /\ L[i] # n /\ L[i] \in Nodes
    BY <1>2, EndsOfList DEF Linked, ListIs
<1>7. \A m \in Nodes : m # n => next'[m] = next[m] /\ data'[m] = data[m]
    BY <1>2 DEF Sound, TypeOK
<1>8. /\ next'[n] = nullptr /\ data'[n] = <<p, made[p] + 1>>
      /\ node'[p] = n /\ \A q \in Producers \ {p} : node'[q] = node[q]
      /\ prev_tail'[p] = tail /\ \A q \in Producers \ {p} : prev_tail'[q] = prev_tail[q]
    BY <1>1, <1>2 DEF Sound, TypeOK
<1>9. ListIs(L)'
    <2>1. next'[L[Len(L)]] = nullptr
        BY <1>6, <1>7 DEF Linked, ListIs
    <2>2. \A i \in 1 .. Len(L) - 1 : next'[L[i]] = L[i + 1]
        BY <1>6, <1>7 DEF Linked, ListIs
    <2> QED BY <1>1, <1>2, <1>6, <2>1, <2>2 DEF Linked, ListIs, InList
<1>10. HistoryIs(L)'
    <2>1. \A i \in 2 .. Len(L) : data'[L[i]] = data[L[i]]
        BY <1>6, <1>7
    <2>2. sent' = sent /\ received' = received
        BY <1>1 DEF history
    <2> QED BY <2>1, <2>2 DEF Linked, HistoryIs
<1>11. FreshNodes(L)'
    <2>1. ~InList(L, n)
        BY <1>6 DEF InList
    <2>2. \A q \in Producers \ {p} : pc[q] \in Linking =>
              /\ pc'[q] = pc[q] /\ node'[q] = node[q] /\ node[q] # n /\ node[q] \in alive
              /\ ~InList(L, node[q]) /\ next'[node[q]] = nullptr /\ data'[node[q]] \in Items
        BY <1>2, <1>3, <1>7, <1>8 DEF Linked, FreshNodes, Threads, Sound, TypeOK
    <2>3. \A q \in Producers \ {p} : pc'[q] = pc[q]
        BY <1>3 DEF Threads
    <2>4. \A q, r \in Producers : pc[q] \in Linking /\ pc[r] \in Linking /\ q # r => node[q] # node[r]
        BY DEF Linked, FreshNodes
    <2>5. ASSUME NEW q \in Producers, pc'[q] \in Linking
          PROVE  /\ node'[q] \in alive' /\ ~InList(L, node'[q])
                 /\ next'[node'[q]] = nullptr /\ data'[node'[q]] \in Items
        BY <1>2, <1>4, <1>8, <2>1, <2>2, <2>3, <2>5
    <2>6. ASSUME NEW q \in Producers, NEW r \in Producers,
                 pc'[q] \in Linking, pc'[r] \in Linking, q # r
          PROVE  node'[q] # node'[r]
        BY <1>8, <2>2, <2>3, <2>4, <2>6
    <2> QED BY <2>5, <2>6 DEF FreshNodes, InList
<1>12. ProducersIn(L)'
    <2>1. InList(L, tail) /\ tail \in Nodes
        BY DEF Linked, ListIs, Sound, TypeOK
    <2>2. \A q \in Producers \ {p} : pc'[q] = pc[q]
        BY <1>3 DEF Threads
    <2>3. UNCHANGED <<Astray, nxt>>
        BY <1>1 DEF Astray, WithConsumer, history
    <2> QED BY <1>1, <1>3, <1>8, <2>1, <2>2, <2>3 DEF Linked, ProducersIn, InList, Linking
<1>13. ProducerAtEnd(L)'
    <2> SUFFICES ASSUME WithConsumer PROVE ProducerAtEnd(L)'
        BY <1>1 DEF ProducerAtEnd, WithConsumer
    <2>1. \A q \in Producers \ {p} : pc[q] = "idle" /\ pc'[q] = "idle"
        BY <1>3, OneBesideOne DEF Sound, CastKnown, Threads
    <2>2. tail = L[Len(L)] \/ leftBehind
        BY <1>1, <2>1 DEF Linked, ProducerAtEnd
    <2>3. (tail = L[Len(L)] \/ Lags(L))'
        BY <1>1 DEF Linked, ProducerAtEnd, Lags
    <2>4. \A q \in Producers : AtEnd(L, q)'
        BY <1>1, <1>3, <1>8, <2>1, <2>2 DEF AtEnd, Linking, history
    <2> QED BY <1>1, <2>2, <2>3, <2>4 DEF ProducerAtEnd, history
<1>14. ConsumerAtHead(L)'
    <2>1. \A q \in Producers : pc'[q] \in Linking => node'[q] = n \/ (pc[q] \in Linking /\ node'[q] = node[q])
        BY <1>3, <1>8 DEF Threads
    <2>2. \A c \in Consumers : pc[c] = "free" =>
              first[c] \in alive /\ \A q \in Producers : pc[q] \in Linking => node[q] # first[c]
        BY DEF Linked, ConsumerAtHead
    <2>3. \A c \in Consumers : c \in cast /\ pc[c] = "free" =>
               /\ first[c] \in alive'
               /\ \A q \in Producers : pc'[q] \in Linking => node'[q] # first[c]
        BY <1>2, <2>1, <2>2
    <2> QED BY <1>1, <1>3, <1>6, <1>7, <2>3, ConsumersStay
<1> QED BY <1>5, <1>6, <1>9, <1>10, <1>11, <1>12, <1>13, <1>14 DEF Linked

(* A producer that only looks changes none of the shared pointers.         *)
LEMMA LookingStep ==
    ASSUME Sound, NEW L \in Seq(Nodes), Linked(L), NEW p \in Producers, p \in cast,
           ReadNext(p) \/ Check(p)
    PROVE  Sound' /\ Linked(L)'
<1>1. /\ p \in Threads /\ pc[p] \in {"readNext", "check"} /\ pc[p] \in Linking
      /\ UNCHANGED <<shared, enqueueLocals, dequeueLocals, history>>
      /\ \A t \in Threads \ {p} : nxt'[t] = nxt[t]
    BY DEF ReadNext, Check, Threads, Linking, Sound, TypeOK
<1>2. prev_tail[p] \in Nodes /\ (InList(L, prev_tail[p]) \/ Astray)
    BY <1>1 DEF Linked, ProducersIn
<1>3. /\ pc'[p] \in {"readNext", "check", "link", "help"}
      /\ \A u \in Threads \ {p} : pc'[u] = pc[u]
      /\ pc' \in [Threads -> Points] /\ CastKnown'
      /\ dangling' \in BOOLEAN /\ (dangling' => leftBehind) /\ nxt' \in [Threads -> Pointers]
      /\ pc'[p] = "check" => nxt'[p] = next[prev_tail[p]]
      /\ pc'[p] \in {"link", "help"} =>
            /\ pc[p] = "check" /\ prev_tail[p] = tail /\ nxt'[p] = nxt[p]
            /\ pc'[p] = "link" <=> nxt[p] = nullptr
    <2>1. CASE ReadNext(p)
        <3>1. prev_tail[p] \in alive \/ leftBehind
            BY <1>2, NextInList DEF Astray
        <3>2. /\ Goto(p, "check") /\ UNCHANGED cast
              /\ dangling' = (prev_tail[p] \notin alive)
              /\ nxt' = [nxt EXCEPT ![p] = next[prev_tail[p]]]
            BY <2>1, Zenon DEF ReadNext, Access, shared
        <3>3. next[prev_tail[p]] \in Pointers
            BY <1>2 DEF Sound, TypeOK
        <3>4. dangling' \in BOOLEAN /\ (dangling' => leftBehind)
            BY <3>1, <3>2, Zenon
        <3> QED BY <1>1, <3>2, <3>3, <3>4, ThreadMoves DEF Points, Sound, TypeOK
    <2>2. CASE Check(p)
        <3> DEFINE to == IF prev_tail[p] # tail THEN "readNext"
                         ELSE IF nxt[p] = nullptr THEN "link" ELSE "help"
        <3>1. Goto(p, to) /\ UNCHANGED <<cast, dangling, nxt>> /\ pc[p] = "check"
            BY <2>2 DEF Check, shared
        <3>2. /\ to \in {"readNext", "link", "help"}
              /\ to \in {"link", "help"} => prev_tail[p] = tail /\ (to = "link" <=> nxt[p] = nullptr)
            OBVIOUS
        <3> HIDE DEF to
        <3>3. to \in Points
            BY <3>2 DEF Points
        <3> QED BY <1>1, <3>1, <3>2, <3>3, ThreadMoves DEF Sound, TypeOK
    <2> QED BY <2>1, <2>2
<1>4. UNCHANGED <<cast, head, tail, next, data, alive, node, prev_tail, made, first, last,
                  result, sent, received, leftBehind>>
    BY <1>1 DEF shared, enqueueLocals, dequeueLocals, history
<1>5. Sound'
    BY <1>3, <1>4 DEF Sound, TypeOK, Paired
<1>6. ListIs(L)' /\ HistoryIs(L)'
    BY <1>4 DEF Linked, ListIs, HistoryIs, InList
<1>7. \A q \in Producers \ {p} : pc'[q] = pc[q] /\ nxt'[q] = nxt[q]
    BY <1>1, <1>3 DEF Threads
<1>8. \A q \in Producers : pc'[q] \in Linking <=> pc[q] \in Linking
    BY <1>1, <1>3, <1>7 DEF Linking
<1>9. FreshNodes(L)'
    BY <1>4, <1>8 DEF Linked, FreshNodes, InList
<1>10. InList(L, prev_tail[p]) => next[prev_tail[p]] = nullptr \/ InList(L, next[prev_tail[p]])
    BY NextInList
<1>11. ProducersIn(L)'
    <2>1. UNCHANGED Astray
        BY <1>4 DEF Astray, WithConsumer
    <2>2. pc'[p] = "help" => nxt'[p] # nullptr
        BY <1>3
    <2>3. pc'[p] \in {"check", "help"} => nxt'[p] = nullptr \/ InList(L, nxt'[p]) \/ Astray
        BY <1>2, <1>3, <1>10 DEF Linked, ProducersIn
    <2> QED BY <1>2, <1>3, <1>4, <1>7, <1>8, <2>1, <2>2, <2>3 DEF Linked, ProducersIn, InList
<1>12. ProducerAtEnd(L)'
    <2> SUFFICES ASSUME WithConsumer PROVE ProducerAtEnd(L)'
        BY <1>4 DEF ProducerAtEnd, WithConsumer
    <2>1. /\ \A q \in Producers : AtEnd(L, q)
          /\ tail = L[Len(L)] \/ Lags(L)
          /\ (\A q \in Producers : pc[q] # "swing") => tail = L[Len(L)] \/ leftBehind
        BY DEF Linked, ProducerAtEnd
    <2>2. \A q \in Producers : pc'[q] # "swing" <=> pc[q] # "swing"
        BY <1>1, <1>3, <1>7
    <2>3. pc'[p] \in {"link", "help"} => nxt[p] = next[tail]
        <3>1. InList(L, tail)
            BY DEF Linked, ListIs
        <3> QED BY <1>3, <2>1, <3>1 DEF AtEnd
    <2>4. pc'[p] = "link" => tail = L[Len(L)]
        <3>1. InList(L, tail)
            BY DEF Linked, ListIs
        <3>2. next[tail] = nullptr => tail = L[Len(L)]
            BY <3>1, NextInList
        <3> QED BY <1>3, <2>3, <3>2
    <2>5. pc'[p] = "help" => tail # L[Len(L)] /\ nxt[p] = L[Len(L)]
        <3>1. next[L[Len(L)]] = nullptr
            BY DEF Linked, ListIs
        <3>2. Lags(L) => next[tail] = L[Len(L)]
            BY LastButOne DEF Lags
        <3> QED BY <1>3, <2>1, <2>3, <3>1, <3>2
    <2>6. AtEnd(L, p)'
        BY <1>1, <1>3, <1>4, <2>1, <2>4, <2>5 DEF AtEnd
    <2>7. \A q \in Producers \ {p} : AtEnd(L, q)'
        BY <1>4, <1>7, <2>1 DEF AtEnd, InList, Lags
    <2> QED BY <1>4, <2>1, <2>2, <2>6, <2>7 DEF ProducerAtEnd, Lags
<1>13. ConsumerAtHead(L)'
    <2>1. \A c \in Consumers : nxt'[c] = nxt[c]
        BY <1>1, LockFreeQueueAssumption DEF Threads
    <2>2. \A c \in Consumers : pc[c] = "free" =>
              first[c] \in alive /\ \A q \in Producers : pc[q] \in Linking => node[q] # first[c]
        BY DEF Linked, ConsumerAtHead
    <2>3. \A c \in Consumers : c \in cast /\ pc[c] = "free" =>
               /\ first[c] \in alive'
               /\ \A q \in Producers : pc'[q] \in Linking => node'[q] # first[c]
        BY <1>4, <1>8, <2>2
    <2> QED BY <1>1, <1>3, <1>4, <2>1, <2>3, ConsumersStay
<1> QED BY <1>5, <1>6, <1>9, <1>11, <1>12, <1>13 DEF Linked

(* The list with one node more. *)
LEMMA Longer ==
    ASSUME NEW L \in Seq(Nodes), NEW n \in Nodes, NEW M, M = Append(L, n)
    PROVE  /\ M \in Seq(Nodes) /\ Len(L) \in Nat /\ Len(M) = Len(L) + 1
           /\ \A i \in 1 .. Len(L) : M[i] = L[i]
           /\ M[Len(L) + 1] = n
    OBVIOUS

(* Line 49, when the exchange succeeds: only the last node has no next, so *)
(* the node is linked at the end, whatever tail points at.                 *)
LEMMA LinkStep ==
    ASSUME Sound, NEW L \in Seq(Nodes), Linked(L), NEW p \in Producers, p \in cast, Link(p),
           pc'[p] = "swing"
    PROVE  Sound' /\ \E M \in Seq(Nodes) : Linked(M)'
<1> DEFINE n == node[p]
           m == Len(L)
<1>1. /\ p \in Threads /\ pc[p] = "link"
      /\ next[prev_tail[p]] = nullptr
      /\ next' = [next EXCEPT ![prev_tail[p]] = n]
      /\ sent' = Append(sent, data[n])
      /\ Goto(p, "swing")
      /\ UNCHANGED nxt
    BY DEF Link, Goto, Threads, Sound, TypeOK
<1>2. /\ p \in Threads /\ pc[p] = "link" /\ pc[p] \in Linking
      /\ next' = [next EXCEPT ![prev_tail[p]] = n]
      /\ sent' = Append(sent, data[n])
      /\ Goto(p, "swing")
      /\ UNCHANGED <<cast, head, tail, data, alive, node, prev_tail, made, first, last,
                     result, nxt, received, leftBehind>>
    BY <1>1 DEF Link, Linking, enqueueLocals, dequeueLocals
<1>3. /\ pc'[p] = "swing"
      /\ \A u \in Threads \ {p} : pc'[u] = pc[u]
      /\ pc' \in [Threads -> Points] /\ CastKnown'
    BY <1>2, ThreadMoves DEF Points
<1>4. /\ InList(L, prev_tail[p]) /\ n \in alive /\ ~InList(L, n)
      /\ next[n] = nullptr /\ data[n] \in Items /\ n \in Nodes
    <2>1. CASE WithConsumer
        BY <1>2, <2>1, EndsOfList DEF Linked, ProducerAtEnd, AtEnd, FreshNodes, Sound, TypeOK
    <2>2. CASE ~WithConsumer
        BY <1>2, <2>2 DEF Linked, ProducersIn, Astray, FreshNodes, Sound, TypeOK
    <2> QED BY <2>1, <2>2
<1>5. prev_tail[p] = L[m] /\ prev_tail[p] \in alive
    BY <1>1, <1>4, NextInList
<1>6. /\ m \in Nat /\ m >= 1 /\ \A i \in 1 .. m : L[i] \in Nodes /\ L[i] # n
    BY <1>4, EndsOfList DEF InList
<1>7. dangling' = FALSE
    BY <1>5, Zenon DEF Link, Access
<1>8. PICK M \in Seq(Nodes) : M = Append(L, n)
    <2>1. Append(L, n) \in Seq(Nodes)
        BY <1>4
    <2> QED BY <2>1
<1>9. /\ Len(M) = m + 1 /\ M[m + 1] = n
      /\ \A i \in 1 .. m : M[i] = L[i]
    BY <1>4, <1>8, Longer
<1> HIDE DEF m
<1>10. \A x : InList(M, x) <=> InList(L, x) \/ x = n
    <2>1. ASSUME NEW x, InList(M, x) PROVE InList(L, x) \/ x = n
        BY <1>6, <1>9, <2>1 DEF InList, m
    <2>2. ASSUME NEW x, InList(L, x) PROVE InList(M, x)
        <3>1. PICK i \in 1 .. m : L[i] = x
            BY <2>2 DEF InList, m
        <3> QED BY <1>6, <1>9, <3>1 DEF InList
    <2>3. InList(M, n)
        BY <1>6, <1>9 DEF InList
    <2> QED BY <2>1, <2>2, <2>3
<1>11. /\ next'[L[m]] = n
       /\ \A x \in Nodes : x # L[m] => next'[x] = next[x]
       /\ next' \in [Nodes -> Pointers]
    BY <1>2, <1>4, <1>5, <1>6 DEF Sound, TypeOK, Pointers
<1>12. Sound'
    <2>1. sent' = Append(sent, data[n])
        BY <1>2
    <2> QED BY <1>2, <1>3, <1>7, <1>11 DEF Sound, TypeOK, Paired
<1>13. ListIs(M)'
    <2>1. /\ L[1] = head /\ next[L[m]] = nullptr
          /\ \A i, j \in 1 .. m : L[i] = L[j] => i = j
          /\ \A i \in 1 .. m : L[i] \in alive
          /\ \A i \in 1 .. m - 1 : next[L[i]] = L[i + 1]
          /\ InList(L, tail)
        BY DEF Linked, ListIs, m
    <2>2. M[1] = head
        BY <1>6, <1>9, <2>1
    <2>3. \A i, j \in 1 .. m + 1 : M[i] = M[j] => i = j
        BY <1>6, <1>9, <2>1
    <2>4. \A i \in 1 .. m + 1 : M[i] \in alive
        BY <1>4, <1>6, <1>9, <2>1
    <2>5. \A i \in 1 .. m : next'[M[i]] = M[i + 1]
        <3>1. ASSUME NEW i \in 1 .. m - 1 PROVE next'[M[i]] = M[i + 1]
            <4>1. i \in 1 .. m /\ i + 1 \in 1 .. m /\ i # m /\ m \in 1 .. m
                BY <1>6
            <4>2. L[i] # L[m] /\ L[i] \in Nodes
                BY <1>6, <2>1, <4>1
            <4> QED BY <1>9, <1>11, <2>1, <4>1, <4>2
        <3>2. next'[M[m]] = M[m + 1]
            BY <1>6, <1>9, <1>11
        <3> QED BY <1>6, <3>1, <3>2
    <2>6. next'[M[m + 1]] = nullptr
        BY <1>4, <1>6, <1>9, <1>11
    <2>7. InList(M, tail)
        BY <1>10, <2>1
    <2> HIDE DEF n
    <2>8. UNCHANGED <<head, tail, alive>> /\ Len(M) = m + 1 /\ (m + 1) - 1 = m
        BY <1>2, <1>6, <1>9
    <2> QED BY <2>2, <2>3, <2>4, <2>5, <2>6, <2>7, <2>8 DEF ListIs, InList
<1>14. HistoryIs(M)'
    <2>1. /\ sent \in Seq(Items) /\ received \in Seq(Items)
          /\ Len(sent) = Len(received) + m - 1
          /\ \A i \in 1 .. Len(received) : received[i] = sent[i]
          /\ \A i \in 2 .. m : data[L[i]] = sent[Len(received) + i - 1]
        BY DEF Linked, HistoryIs, m
    <2>2. /\ sent' \in Seq(Items) /\ Len(sent') = Len(sent) + 1
          /\ Len(received) \in Nat /\ Len(sent) \in Nat
          /\ sent'[Len(sent) + 1] = data[n]
          /\ \A i \in 1 .. Len(sent) : sent'[i] = sent[i]
        BY <1>2, <1>4, <2>1
    <2>3. Len(sent') = Len(received) + (m + 1) - 1
        BY <1>6, <2>1, <2>2
    <2>4. \A i \in 1 .. Len(received) : received[i] = sent'[i]
        BY <1>6, <2>1, <2>2
    <2>5. ASSUME NEW i \in 2 .. m + 1 PROVE data[M[i]] = sent'[Len(received) + i - 1]
        <3>1. CASE i = m + 1
            <4>1. Len(received) + i - 1 = Len(sent) + 1
                BY <1>6, <2>1, <2>2, <3>1
            <4> QED BY <1>9, <2>2, <3>1, <4>1
        <3>2. CASE i # m + 1
            <4>1. i \in 2 .. m /\ i \in 1 .. m /\ Len(received) + i - 1 \in 1 .. Len(sent)
                BY <1>6, <2>1, <2>2, <3>2
            <4> QED BY <1>9, <2>1, <2>2, <4>1
        <3> QED BY <3>1, <3>2
    <2> QED BY <1>2, <1>9, <2>1, <2>2, <2>3, <2>4, <2>5 DEF HistoryIs
<1>15. \A q \in Producers \ {p} : pc'[q] = pc[q] /\ node'[q] = node[q]
    BY <1>2, <1>3 DEF Threads
<1>16. FreshNodes(M)'
    <2>1. ASSUME NEW q \in Producers, pc'[q] \in Linking
          PROVE  /\ q # p /\ pc[q] \in Linking
                 /\ node[q] \in alive /\ ~InList(L, node[q]) /\ node[q] # n /\ node[q] \in Nodes
                 /\ next[node[q]] = nullptr /\ data[node[q]] \in Items
        BY <1>2, <1>3, <1>15, <2>1 DEF Linked, FreshNodes, Linking, Sound, TypeOK
    <2>2. ASSUME NEW q \in Producers, pc'[q] \in Linking
          PROVE  ~InList(M, node[q]) /\ next'[node[q]] = nullptr
        <3>1. node[q] # L[m]
            BY <2>1, <2>2, <1>6 DEF InList, m
        <3> QED BY <1>10, <1>11, <2>1, <2>2, <3>1
    <2>3. \A q, r \in Producers : pc[q] \in Linking /\ pc[r] \in Linking /\ q # r => node[q] # node[r]
        BY DEF Linked, FreshNodes
    <2> HIDE DEF n
    <2> QED BY <1>2, <2>1, <2>2, <2>3 DEF FreshNodes, InList
<1>17. ProducersIn(M)'
    <2>1. ASSUME NEW q \in Producers \ {p}
          PROVE  /\ pc[q] \in Linking => prev_tail[q] \in Nodes /\ (InList(M, prev_tail[q]) \/ Astray)
                 /\ pc[q] \in {"check", "help"} => nxt[q] = nullptr \/ InList(M, nxt[q]) \/ Astray
                 /\ pc[q] = "help" => nxt[q] # nullptr
                 /\ pc[q] = "swing" => InList(M, node[q])
        BY <1>10 DEF Linked, ProducersIn
    <2>2. pc'[p] = "swing" /\ InList(M, node[p])
        BY <1>3, <1>10
    <2>3. UNCHANGED Astray
        BY <1>2 DEF Astray, WithConsumer
    <2> HIDE DEF n
    <2> QED BY <1>2, <1>15, <2>1, <2>2, <2>3 DEF ProducersIn, InList, Linking
<1>18. ProducerAtEnd(M)'
    <2> SUFFICES ASSUME WithConsumer PROVE ProducerAtEnd(M)'
        BY <1>2 DEF ProducerAtEnd, WithConsumer
    <2>1. \A q \in Producers \ {p} : pc[q] = "idle" /\ pc'[q] = "idle"
        BY <1>15, OneBesideOne DEF Sound, CastKnown, Threads
    <2>2. tail = L[m] /\ prev_tail[p] = L[m]
        BY <1>2 DEF Linked, ProducerAtEnd, AtEnd, m
    <2>3. Len(M) >= 2 /\ tail = M[Len(M) - 1] /\ tail = prev_tail[p] /\ node[p] = M[Len(M)]
        BY <1>6, <1>9, <2>2
    <2>4. Lags(M)' /\ AtEnd(M, p)'
        BY <1>2, <1>3, <2>3 DEF AtEnd, Lags, Linking
    <2>5. \A q \in Producers \ {p} : AtEnd(M, q)'
        BY <2>1 DEF AtEnd, Linking
    <2> HIDE DEF n
    <2> QED BY <1>3, <2>4, <2>5 DEF ProducerAtEnd
<1>19. ConsumerAtHead(M)'
    <2>1. Len(L) >= 2 => Len(M) >= 2 /\ M[2] = L[2]
        BY <1>6, <1>9 DEF m
    <2>2. ASSUME NEW c \in Consumers PROVE pc'[c] = pc[c]
        BY <1>3, LockFreeQueueAssumption DEF Threads
    <2>3. ASSUME NEW c \in Consumers, pc[c] = "free"
          PROVE  /\ first[c] \in alive /\ ~InList(M, first[c])
                 /\ \A q \in Producers : pc'[q] \in Linking => node[q] # first[c]
        <3>1. /\ first[c] \in alive /\ ~InList(L, first[c])
              /\ \A q \in Producers : pc[q] \in Linking => node[q] # first[c]
            BY <2>3 DEF Linked, ConsumerAtHead
        <3>2. \A q \in Producers : pc'[q] \in Linking => pc[q] \in Linking
            BY <1>2, <1>15
        <3> QED BY <1>2, <1>10, <3>1, <3>2
    <2> HIDE DEF n
    <2> QED BY <1>2, <2>1, <2>2, <2>3 DEF Linked, ConsumerAtHead, InList
<1>20. Len(M) >= 1
    BY <1>6, <1>9
<1>21. Linked(M)'
    BY <1>8, <1>13, <1>14, <1>16, <1>17, <1>18, <1>19, <1>20 DEF Linked
<1> QED BY <1>12, <1>21

(* Lines 49, when the exchange fails, and 55: the list stays as it is, and *)
(* tail moves along it.                                                    *)
LEMMA TriesAgain ==
    ASSUME Sound, NEW L \in Seq(Nodes), Linked(L), NEW p \in Producers, p \in cast,
           (Link(p) /\ pc'[p] # "swing") \/ Help(p)
    PROVE  Sound' /\ Linked(L)'
<1>1. /\ p \in Threads /\ pc[p] \in {"link", "help"} /\ pc[p] \in Linking
      /\ Goto(p, "readNext")
      /\ UNCHANGED <<cast, head, next, data, alive, node, made, first, last, result,
                     sent, received, leftBehind>>
    <2>1. CASE Help(p)
        BY <2>1 DEF Help, Threads, Linking, dequeueLocals, history
    <2>2. CASE Link(p) /\ pc'[p] # "swing"
        <3>1. UNCHANGED <<next, sent>> /\ Goto(p, "readNext")
            BY <2>2 DEF Link, Goto, Threads, Sound, TypeOK
        <3> QED BY <2>2, <3>1 DEF Link, Threads, Linking, dequeueLocals, enqueueLocals
    <2> QED BY <2>1, <2>2
<1>2. /\ pc'[p] = "readNext"
      /\ \A u \in Threads \ {p} : pc'[u] = pc[u]
      /\ pc' \in [Threads -> Points] /\ CastKnown'
    BY <1>1, ThreadMoves DEF Points
<1>3. /\ InList(L, tail) /\ tail \in Nodes
      /\ prev_tail[p] \in Nodes /\ (InList(L, prev_tail[p]) \/ Astray)
      /\ prev_tail \in [Producers -> Pointers] /\ nxt \in [Threads -> Pointers]
    BY <1>1 DEF Linked, ListIs, ProducersIn, Sound, TypeOK
(* Line 55 moves tail to a node of the list, beside a consumer to the last.*)
<1>4. /\ dangling' \in BOOLEAN /\ (dangling' => leftBehind) /\ nxt' \in [Threads -> Pointers]
      /\ tail' = tail \/ (pc[p] = "help" /\ tail' = nxt[p])
      /\ prev_tail' = prev_tail \/ (pc[p] = "help" /\ prev_tail' = [prev_tail EXCEPT ![p] = tail])
      /\ \A t \in Threads \ {p} : nxt'[t] = nxt[t]
    <2>1. CASE Help(p)
        BY <1>3, <2>1 DEF Help, Sound, TypeOK
    <2>2. CASE Link(p) /\ pc'[p] # "swing"
        <3>1. /\ nxt' = [nxt EXCEPT ![p] = next[prev_tail[p]]]
              /\ UNCHANGED <<tail, prev_tail>>
            BY <2>2 DEF Link, Goto, Threads, Sound, TypeOK, shared, enqueueLocals
        <3>2. dangling' = (prev_tail[p] \notin alive)
            BY <2>2, Zenon DEF Link, Access
        <3>3. prev_tail[p] \in alive \/ leftBehind
            BY <1>3, NextInList DEF Astray
        <3>4. dangling' \in BOOLEAN /\ (dangling' => leftBehind)
            BY <3>2, <3>3, Zenon
        <3>5. next[prev_tail[p]] \in Pointers
            BY <1>3 DEF Sound, TypeOK
        <3> QED BY <1>1, <1>3, <3>1, <3>4, <3>5
    <2> QED BY <2>1, <2>2
<1>5. /\ pc[p] = "help" => InList(L, nxt[p]) /\ nxt[p] \in Nodes
      /\ WithConsumer /\ pc[p] = "help" => nxt[p] = L[Len(L)]
    <2>1. WithConsumer /\ pc[p] = "help" => nxt[p] = L[Len(L)]
        BY DEF Linked, ProducerAtEnd, AtEnd
    <2>2. pc[p] = "help" => InList(L, nxt[p])
        BY <2>1, EndsOfList DEF Linked, ProducersIn, Astray
    <2>3. \A x : InList(L, x) => x \in Nodes
        BY EndsOfList DEF InList
    <2> QED BY <2>1, <2>2, <2>3
<1>6. /\ tail' \in Nodes /\ InList(L, tail')
      /\ prev_tail'[p] \in Nodes /\ (InList(L, prev_tail'[p]) \/ Astray)
      /\ prev_tail' \in [Producers -> Pointers]
      /\ \A q \in Producers \ {p} : prev_tail'[q] = prev_tail[q]
    BY <1>3, <1>4, <1>5 DEF Pointers
<1>7. Sound'
    BY <1>1, <1>2, <1>4, <1>6 DEF Sound, TypeOK, Paired
<1>8. \A q \in Producers \ {p} : pc'[q] = pc[q] /\ nxt'[q] = nxt[q]
    BY <1>2, <1>4 DEF Threads
<1>9. \A q \in Producers : pc'[q] \in Linking <=> pc[q] \in Linking
    BY <1>1, <1>2, <1>8 DEF Linking
<1>10. ListIs(L)' /\ HistoryIs(L)'
    BY <1>1, <1>6 DEF Linked, ListIs, HistoryIs, InList
<1>11. FreshNodes(L)'
    BY <1>1, <1>9 DEF Linked, FreshNodes, InList
<1>12. ProducersIn(L)'
    <2>1. UNCHANGED Astray
        BY <1>1 DEF Astray, WithConsumer
    <2> QED BY <1>1, <1>2, <1>6, <1>8, <1>9, <2>1 DEF Linked, ProducersIn, InList
<1>13. ProducerAtEnd(L)'
    <2> SUFFICES ASSUME WithConsumer PROVE ProducerAtEnd(L)'
        BY <1>1 DEF ProducerAtEnd, WithConsumer
    <2>1. /\ \A q \in Producers : AtEnd(L, q)
          /\ tail = L[Len(L)] \/ Lags(L)
          /\ (\A q \in Producers : pc[q] # "swing") => tail = L[Len(L)] \/ leftBehind
        BY DEF Linked, ProducerAtEnd
    <2>2. tail' = tail \/ tail' = L[Len(L)]
        BY <1>4, <1>5
    <2>3. prev_tail'[p] = L[Len(L)] \/ leftBehind
        BY <1>1, <1>4, <2>1 DEF AtEnd
    <2>4. AtEnd(L, p)'
        BY <1>1, <1>2, <2>3 DEF AtEnd
    <2>5. \A q \in Producers \ {p} : pc[q] = "idle" /\ pc'[q] = "idle"
        BY <1>1, <1>8, OneBesideOne DEF Sound, CastKnown, Threads
    <2>6. \A q \in Producers \ {p} : AtEnd(L, q)'
        BY <2>5 DEF AtEnd, Linking
    <2>7. \A q \in Producers : pc[q] # "swing"
        BY <1>1, <2>5
    <2> QED BY <1>1, <2>1, <2>2, <2>4, <2>6, <2>7 DEF ProducerAtEnd, Lags
<1>14. ConsumerAtHead(L)'
    <2>1. WithConsumer => (tail # head => tail' # head)
        BY <1>4, <1>5, EndsOfList DEF Linked, ListIs
    <2>2. \A c \in Consumers : nxt'[c] = nxt[c]
        BY <1>4, LockFreeQueueAssumption DEF Threads
    <2>3. \A c \in Consumers : c \in cast /\ pc[c] = "free" =>
               /\ first[c] \in alive'
               /\ \A q \in Producers : pc'[q] \in Linking => node'[q] # first[c]
        BY <1>1, <1>9 DEF Linked, ConsumerAtHead
    <2> QED BY <1>1, <1>2, <2>1, <2>2, <2>3, ConsumersStay DEF dequeueLocals
<1> QED BY <1>7, <1>10, <1>11, <1>12, <1>13, <1>14 DEF Linked

(* Line 60: tail is moved to the node just linked, has been already, or is *)
(* left behind.                                                            *)
LEMMA SwingStep ==
    ASSUME Sound, NEW L \in Seq(Nodes), Linked(L), NEW p \in Producers, p \in cast, Swing(p)
    PROVE  Sound' /\ Linked(L)'
<1>1. /\ p \in Threads /\ pc[p] = "swing" /\ Goto(p, "idle")
      /\ \/ tail = prev_tail[p] /\ tail' = node[p] /\ leftBehind' = leftBehind
         \/ tail # prev_tail[p] /\ tail' = tail /\ leftBehind' = leftBehind
         \/ tail' = tail /\ leftBehind' = TRUE
      /\ made' = [made EXCEPT ![p] = made[p] + 1]
      /\ UNCHANGED <<cast, head, next, data, alive, dangling, node, prev_tail, first, last,
                     result, nxt, sent, received>>
    BY DEF Swing, Threads, dequeueLocals
<1>2. /\ pc'[p] = "idle"
      /\ \A u \in Threads \ {p} : pc'[u] = pc[u]
      /\ pc' \in [Threads -> Points] /\ CastKnown'
    BY <1>1, ThreadMoves DEF Points
<1>3. InList(L, tail) /\ InList(L, node[p])
    BY <1>1 DEF Linked, ListIs, ProducersIn
<1>4. InList(L, tail') /\ tail' \in Nodes
    <2>1. InList(L, tail')
        BY <1>1, <1>3
    <2> QED BY <2>1, EndsOfList DEF InList
<1>5. Sound'
    <2>1. made' \in [Producers -> Nat]
        BY <1>1 DEF Sound, TypeOK
    <2>2. leftBehind' = leftBehind \/ leftBehind' = TRUE
        BY <1>1
    <2>3. leftBehind \in BOOLEAN
        BY DEF Sound, TypeOK
    <2>4. leftBehind' \in BOOLEAN /\ (leftBehind => leftBehind')
        <3>1. CASE leftBehind' = leftBehind
            BY <2>3, <3>1
        <3>2. CASE leftBehind' = TRUE
            BY <3>2
        <3> QED BY <2>2, <3>1, <3>2
    <2> QED BY <1>1, <1>2, <1>4, <2>1, <2>4 DEF Sound, TypeOK, Paired
<1>6. \A q \in Producers \ {p} : pc'[q] = pc[q]
    BY <1>2 DEF Threads
<1>7. \A q \in Producers : pc'[q] \in Linking <=> (pc[q] \in Linking /\ q # p)
    BY <1>1, <1>2, <1>6 DEF Linking
<1>8. ListIs(L)' /\ HistoryIs(L)'
    BY <1>1, <1>4 DEF Linked, ListIs, HistoryIs, InList
<1>9. FreshNodes(L)'
    BY <1>1, <1>7 DEF Linked, FreshNodes, InList
<1>10. ProducersIn(L)'
    <2>1. Astray => Astray'
        BY <1>1 DEF Astray, WithConsumer
    <2> QED BY <1>1, <1>2, <1>6, <1>7, <2>1 DEF Linked, ProducersIn, InList
<1>11. WithConsumer => \/ tail' = L[Len(L)]
                       \/ tail' = tail /\ Lags(L) /\ leftBehind'
    BY <1>1 DEF Linked, ProducerAtEnd, AtEnd
<1>12. ProducerAtEnd(L)'
    <2> SUFFICES ASSUME WithConsumer PROVE ProducerAtEnd(L)'
        BY <1>1 DEF ProducerAtEnd, WithConsumer
    <2>1. \A q \in Producers : pc'[q] = "idle"
        BY <1>2, <1>6, OneBesideOne DEF Sound, CastKnown, Threads
    <2>2. \A q \in Producers : AtEnd(L, q)'
        BY <2>1 DEF AtEnd, Linking
    <2> QED BY <1>11, <2>1, <2>2 DEF ProducerAtEnd, Lags
<1>13. ConsumerAtHead(L)'
    <2>1. WithConsumer => (tail # head => tail' # head)
        BY <1>11, EndsOfList DEF Linked, ListIs
    <2>2. \A c \in Consumers : nxt'[c] = nxt[c]
        BY <1>1
    <2>3. \A c \in Consumers : c \in cast /\ pc[c] = "free" =>
               /\ first[c] \in alive'
               /\ \A q \in Producers : pc'[q] \in Linking => node'[q] # first[c]
        BY <1>1, <1>7 DEF Linked, ConsumerAtHead
    <2> QED BY <1>1, <1>2, <2>1, <2>2, <2>3, ConsumersStay DEF dequeueLocals
<1> QED BY <1>5, <1>8, <1>9, <1>10, <1>12, <1>13 DEF Linked

(* ---- The consumer ------------------------------------------------------ *)
(* A consumer's step that leaves the list to the producers.                *)
LEMMA ProducersStay ==
    ASSUME Sound, NEW L, Linked(L), NEW c \in Consumers,
           \A u \in Threads \ {c} : pc'[u] = pc[u],
           UNCHANGED <<cast, next, data, alive, node, prev_tail, leftBehind>>,
           \A p \in Producers : nxt'[p] = nxt[p]
    PROVE  FreshNodes(L)' /\ ProducersIn(L)'
<1>1. \A p \in Producers : pc'[p] = pc[p]
    BY LockFreeQueueAssumption DEF Threads
<1>2. UNCHANGED Astray
    BY DEF Astray, WithConsumer
<1> QED BY <1>1, <1>2 DEF Linked, FreshNodes, ProducersIn, InList

(* Lines 65, 66, 67, 69 and 78: the consumer looks at the head, and nobody *)
(* can take the nodes it has seen there from under it.                     *)
LEMMA ConsumerLooks ==
    ASSUME Sound, NEW L \in Seq(Nodes), Linked(L), NEW c \in Consumers, c \in cast,
           ReadHead(c) \/ ReadTail(c) \/ ReadFirstNext(c) \/ CheckHead(c) \/ ReadData(c)
    PROVE  Sound' /\ Linked(L)'
<1>0. /\ c \in Threads /\ Len(L) \in Nat /\ Len(L) >= 1
      /\ L[1] = head /\ head \in alive /\ head \in Nodes /\ tail \in Nodes
      /\ Len(L) >= 2 => L[2] \in alive /\ L[2] \in Nodes /\ next[head] = L[2]
      /\ Len(L) < 2 => next[head] = nullptr /\ tail = head
      /\ alive \subseteq Nodes
    <2>1. /\ Len(L) \in Nat /\ Len(L) >= 1
          /\ head \in Nodes /\ tail \in Nodes /\ alive \subseteq Nodes
          /\ L[1] = head /\ next[L[Len(L)]] = nullptr /\ InList(L, tail)
          /\ \A i \in 1 .. Len(L) : L[i] \in alive
          /\ \A i \in 1 .. Len(L) - 1 : next[L[i]] = L[i + 1]
        BY DEF Linked, ListIs, Sound, TypeOK
    <2>2. Len(L) >= 2 => 1 \in 1 .. Len(L) - 1 /\ 2 \in 1 .. Len(L)
        BY <2>1
    <2>3. Len(L) < 2 => Len(L) = 1
        BY <2>1, ShortLengths
    <2>4. 1 \in 1 .. Len(L) /\ c \in Threads
        BY <2>1 DEF Threads
    <2> QED BY <2>1, <2>2, <2>3, <2>4 DEF InList
<1>1. \A d \in Consumers \ {c} : pc[d] = "idle"
    BY OneBesideOne DEF Sound, CastKnown, Threads, WithConsumer
<1>2. /\ UNCHANGED <<cast, head, tail, next, data, alive, node, prev_tail, made, sent, received,
                     leftBehind>>
      /\ \A t \in Threads \ {c} : nxt'[t] = nxt[t]
    BY DEF ReadHead, ReadTail, ReadFirstNext, CheckHead, ReadData,
           shared, enqueueLocals, history, Sound, TypeOK
<1> DEFINE Kept == /\ pc[c] \in {"readTail", "readFirstNext", "checkHead", "helpTail", "readData", "unlink"}
                         => first[c] = head
                   /\ pc[c] \in {"readFirstNext", "checkHead", "readData", "unlink"}
                         => (last[c] # head => tail # head)
                   /\ pc[c] = "checkHead" => /\ nxt[c] = nullptr \/ (Len(L) >= 2 /\ nxt[c] = L[2])
                                             /\ last[c] # head => nxt[c] # nullptr
                   /\ pc[c] = "helpTail" => last[c] = head
                   /\ pc[c] \in {"readData", "unlink"} => last[c] # head
                   /\ pc[c] \in {"helpTail", "readData", "unlink"} => Len(L) >= 2 /\ nxt[c] = L[2]
                   /\ pc[c] = "unlink" => result[c] = data[L[2]]
                   /\ pc[c] # "free"
<1>3. pc[c] # "free" => Kept
    BY DEF Linked, ConsumerAtHead
<1>4. /\ \A u \in Threads \ {c} : pc'[u] = pc[u]
      /\ pc' \in [Threads -> Points] /\ CastKnown'
      /\ dangling' \in BOOLEAN /\ (dangling' => leftBehind) /\ nxt' \in [Threads -> Pointers]
      /\ first' \in [Consumers -> Pointers] /\ last' \in [Consumers -> Pointers]
      /\ result' \in [Consumers -> Items \cup {NoItem}]
      /\ Kept'
    <2>1. CASE ReadHead(c)
        <3>1. /\ first' = [first EXCEPT ![c] = head] /\ UNCHANGED <<dangling, last, result, nxt>>
              /\ Goto(c, "readTail")
            BY <2>1 DEF ReadHead
        <3>2. pc'[c] = "readTail" /\ first'[c] = head
            BY <1>0, <1>2, <3>1, ThreadMoves DEF Sound, TypeOK, Points
        <3> QED BY <1>0, <1>2, <3>1, <3>2, ThreadMoves DEF Sound, TypeOK, Points, Pointers
    <2>2. CASE ReadTail(c)
        <3>1. /\ last' = [last EXCEPT ![c] = tail] /\ UNCHANGED <<dangling, first, result, nxt>>
              /\ Goto(c, "readFirstNext") /\ pc[c] = "readTail"
            BY <2>2 DEF ReadTail
        <3>2. pc'[c] = "readFirstNext" /\ last'[c] = tail /\ first[c] = head
            BY <1>0, <1>2, <1>3, <3>1, ThreadMoves DEF Sound, TypeOK, Points
        <3> QED BY <1>0, <1>2, <3>1, <3>2, ThreadMoves DEF Sound, TypeOK, Points, Pointers
    <2>3. CASE ReadFirstNext(c)
        <3>0. pc[c] = "readFirstNext" /\ first[c] = head /\ (last[c] # head => tail # head)
            BY <1>3, <2>3 DEF ReadFirstNext
        <3>1. /\ nxt' = [nxt EXCEPT ![c] = next[head]] /\ UNCHANGED <<first, last, result>>
              /\ Goto(c, "checkHead")
            BY <2>3, <3>0 DEF ReadFirstNext, dequeueLocals
        <3>2. dangling' = FALSE
            BY <1>0, <2>3, <3>0, Zenon DEF ReadFirstNext, Access
        <3>3. pc'[c] = "checkHead" /\ nxt'[c] = next[head] /\ next[head] \in Pointers
            BY <1>0, <1>2, <3>1, ThreadMoves DEF Sound, TypeOK, Points
        <3>4. next[head] = nullptr <=> Len(L) < 2
            BY <1>0, LockFreeQueueAssumption
        <3>5. /\ \A u \in Threads \ {c} : pc'[u] = pc[u] /\ nxt'[u] = nxt[u]
              /\ pc' \in [Threads -> Points] /\ CastKnown'
              /\ nxt' \in [Threads -> Pointers]
            BY <1>0, <1>2, <3>1, <3>3, ThreadMoves DEF Sound, TypeOK, Points
        <3>6. Kept'
            BY <1>0, <1>2, <3>0, <3>1, <3>3, <3>4
        <3> HIDE DEF Kept
        <3> QED BY <3>1, <3>2, <3>5, <3>6 DEF Sound, TypeOK
    <2>4. CASE CheckHead(c)
        <3> DEFINE to == IF first[c] # head THEN "idle"
                         ELSE IF first[c] # last[c] THEN "readData"
                         ELSE IF nxt[c] = nullptr THEN "idle" ELSE "helpTail"
        <3>1. /\ Goto(c, to) /\ UNCHANGED <<dangling, first, last, result, nxt>>
              /\ pc[c] = "checkHead"
            BY <2>4 DEF CheckHead, dequeueLocals
        <3>2. /\ to \in {"idle", "readData", "helpTail"} /\ first[c] = head
              /\ to = "readData" => last[c] # head
              /\ to = "helpTail" => last[c] = head /\ nxt[c] # nullptr
            BY <1>3, <3>1
        <3> HIDE DEF to
        <3>3. pc'[c] = to /\ to \in Points
            BY <1>0, <1>2, <3>1, <3>2, ThreadMoves DEF Points
        <3> QED BY <1>0, <1>2, <1>3, <3>1, <3>2, <3>3, ThreadMoves DEF Sound, TypeOK
    <2>5. CASE ReadData(c)
        <3>0. /\ pc[c] = "readData" /\ first[c] = head /\ last[c] # head /\ tail # head
              /\ Len(L) >= 2 /\ nxt[c] = L[2]
            BY <1>3, <2>5 DEF ReadData
        <3>1. /\ result' = [result EXCEPT ![c] = data[L[2]]] /\ UNCHANGED <<first, last, nxt>>
              /\ Goto(c, "unlink")
            BY <2>5, <3>0 DEF ReadData
        <3>2. dangling' = FALSE
            BY <1>0, <2>5, <3>0, Zenon DEF ReadData, Access
        <3>3. /\ pc'[c] = "unlink" /\ result'[c] = data[L[2]]
              /\ result' \in [Consumers -> Items \cup {NoItem}]
            BY <1>0, <1>2, <3>0, <3>1, ThreadMoves DEF Sound, TypeOK, Points
        <3> QED BY <1>0, <1>2, <3>0, <3>1, <3>2, <3>3, ThreadMoves DEF Sound, TypeOK, Points
    <2> QED BY <2>1, <2>2, <2>3, <2>4, <2>5
<1>5. Sound'
    BY <1>2, <1>4 DEF Sound, TypeOK, Paired
<1>6. ListIs(L)' /\ HistoryIs(L)'
    BY <1>2 DEF Linked, ListIs, HistoryIs, InList
<1>7. \A p \in Producers : nxt'[p] = nxt[p] /\ pc'[p] = pc[p]
    BY <1>2, <1>4, LockFreeQueueAssumption DEF Threads
<1>8. FreshNodes(L)' /\ ProducersIn(L)'
    BY <1>2, <1>4, <1>7, ProducersStay
<1>9. ProducerAtEnd(L)'
    BY <1>2, <1>7 DEF Linked, ProducerAtEnd, AtEnd, Lags, InList, WithConsumer
<1>10. ConsumerAtHead(L)'
    <2>1. \A d \in Consumers \ {c} : pc'[d] = "idle"
        BY <1>1, <1>4 DEF Threads
    <2> QED BY <1>4, <2>1 DEF ConsumerAtHead
<1> QED BY <1>5, <1>6, <1>8, <1>9, <1>10 DEF Linked

(* Line 75: tail lags behind at the head and is moved to the next node.    *)
LEMMA HelpTailStep ==
    ASSUME Sound, NEW L \in Seq(Nodes), Linked(L), NEW c \in Consumers, c \in cast, HelpTail(c)
    PROVE  Sound' /\ Linked(L)'
<1>1. /\ c \in Threads /\ pc[c] = "helpTail" /\ Goto(c, "idle")
      /\ tail' = tail \/ (tail = last[c] /\ tail' = nxt[c])
      /\ UNCHANGED <<cast, head, next, data, alive, dangling, node, prev_tail, made, first, last,
                     result, nxt, sent, received, leftBehind>>
    BY DEF HelpTail, Threads, dequeueLocals, enqueueLocals, history
<1>2. /\ pc'[c] = "idle"
      /\ \A u \in Threads \ {c} : pc'[u] = pc[u]
      /\ pc' \in [Threads -> Points] /\ CastKnown'
    BY <1>1, ThreadMoves DEF Points
<1>3. last[c] = head /\ Len(L) >= 2 /\ nxt[c] = L[2] /\ head = L[1]
    BY <1>1 DEF Linked, ListIs, ConsumerAtHead
<1>4. InList(L, L[2]) /\ L[2] \in Nodes /\ L[2] # L[1] /\ Len(L) \in Nat
    BY <1>3, EndsOfList
<1>5. InList(L, tail') /\ tail' \in Nodes
    BY <1>1, <1>3, <1>4 DEF Linked, ListIs, Sound, TypeOK
<1>6. Sound'
    BY <1>1, <1>2, <1>5 DEF Sound, TypeOK, Paired
<1>7. ListIs(L)' /\ HistoryIs(L)'
    BY <1>1, <1>5 DEF Linked, ListIs, HistoryIs, InList
<1>8. FreshNodes(L)' /\ ProducersIn(L)'
    BY <1>1, <1>2, ProducersStay
<1>9. \A p \in Producers : pc'[p] = pc[p]
    BY <1>2, LockFreeQueueAssumption DEF Threads
<1>10. ProducerAtEnd(L)'
    <2> SUFFICES ASSUME WithConsumer PROVE ProducerAtEnd(L)'
        BY <1>1 DEF ProducerAtEnd, WithConsumer
    <2>1. /\ \A p \in Producers : AtEnd(L, p)
          /\ tail = L[Len(L)] \/ Lags(L)
          /\ (\A p \in Producers : pc[p] # "swing") => tail = L[Len(L)] \/ leftBehind
        BY DEF Linked, ProducerAtEnd
    <2>2. tail' = tail \/ (Lags(L) /\ tail # L[Len(L)] /\ tail' = L[Len(L)])
        <3> SUFFICES ASSUME tail = L[1], tail' = L[2]
                     PROVE  Lags(L) /\ tail # L[Len(L)] /\ tail' = L[Len(L)]
            BY <1>1, <1>3
        <3>1. tail # L[Len(L)] /\ Lags(L)
            BY <1>3, <2>1, EndsOfList
        <3>2. 1 \in 1 .. Len(L) /\ Len(L) - 1 \in 1 .. Len(L)
            BY <1>3, <1>4
        <3>3. 1 = Len(L) - 1
            BY <3>1, <3>2 DEF Linked, ListIs, Lags
        <3>4. Len(L) = 2
            BY <1>4, <3>3, ShortLengths
        <3> QED BY <3>1, <3>4
    <2>3. \A p \in Producers : AtEnd(L, p)'
        BY <1>1, <1>9, <2>1, <2>2 DEF AtEnd, Lags, InList
    <2> QED BY <1>1, <1>9, <2>1, <2>2, <2>3 DEF ProducerAtEnd, Lags
<1>11. ConsumerAtHead(L)'
    <2>1. \A d \in Consumers : pc'[d] = "idle"
        BY <1>2, OneBesideOne DEF Sound, CastKnown, Threads, WithConsumer
    <2> QED BY <2>1 DEF ConsumerAtHead
<1> QED BY <1>6, <1>7, <1>8, <1>10, <1>11 DEF Linked

(* The list without its first node. *)
LEMMA Shorter ==
    ASSUME NEW L \in Seq(Nodes), Len(L) >= 2, NEW M, M = Tail(L)
    PROVE  /\ M \in Seq(Nodes) /\ Len(L) \in Nat /\ Len(M) = Len(L) - 1
           /\ \A i \in 1 .. Len(L) - 1 : M[i] = L[i + 1]
    OBVIOUS

(* Line 79: the first node leaves the list and the item of the second one  *)
(* leaves the queue.  tail is not left behind.                             *)
LEMMA UnlinkStep ==
    ASSUME Sound, NEW L \in Seq(Nodes), Linked(L), NEW c \in Consumers, c \in cast, Unlink(c),
           pc'[c] = "free"
    PROVE  Sound' /\ \E M \in Seq(Nodes) : Linked(M)'
<1> DEFINE m == Len(L)
<1>1. /\ c \in Threads /\ pc[c] = "unlink"
      /\ first[c] = head /\ last[c] # head /\ tail # head
      /\ m >= 2 /\ nxt[c] = L[2] /\ result[c] = data[L[2]]
    BY DEF Unlink, Threads, Linked, ConsumerAtHead
<1>2. head' = nxt[c] /\ received' = Append(received, result[c]) /\ Goto(c, "free")
    BY <1>1 DEF Unlink, Goto, Sound, TypeOK
<1>3. /\ head' = L[2] /\ received' = Append(received, data[L[2]]) /\ Goto(c, "free")
      /\ UNCHANGED <<cast, tail, next, data, alive, dangling, node, prev_tail, made, first,
                     last, result, nxt, sent, leftBehind>>
    BY <1>2, <1>1 DEF Unlink, enqueueLocals, dequeueLocals
<1>4. /\ pc'[c] = "free"
      /\ \A u \in Threads \ {c} : pc'[u] = pc[u]
      /\ pc' \in [Threads -> Points] /\ CastKnown'
    BY <1>1, <1>3, ThreadMoves DEF Points
<1>5. PICK M \in Seq(Nodes) : M = Tail(L)
    <2>1. Tail(L) \in Seq(Nodes)
        BY <1>1
    <2> QED BY <2>1
<1>6. /\ m \in Nat /\ Len(M) = m - 1
      /\ \A i \in 1 .. m - 1 : M[i] = L[i + 1]
    BY <1>1, <1>5, Shorter
<1>7. /\ L[1] = head /\ next[L[m]] = nullptr
      /\ \A i, j \in 1 .. m : L[i] = L[j] => i = j
      /\ \A i \in 1 .. m : L[i] \in alive /\ L[i] \in Nodes
      /\ \A i \in 1 .. m - 1 : next[L[i]] = L[i + 1]
      /\ InList(L, tail)
    BY EndsOfList DEF Linked, ListIs
<1> HIDE DEF m
<1>8. \A x : InList(M, x) <=> InList(L, x) /\ x # head
    <2>1. ASSUME NEW x, InList(M, x) PROVE InList(L, x) /\ x # head
        <3>1. PICK i \in 1 .. m - 1 : M[i] = x
            BY <1>6, <2>1 DEF InList
        <3>2. i + 1 \in 1 .. m /\ i + 1 # 1 /\ 1 \in 1 .. m /\ L[i + 1] = x
            BY <1>1, <1>6, <3>1
        <3> QED BY <1>7, <3>2 DEF InList, m
    <2>2. ASSUME NEW x, InList(L, x), x # head PROVE InList(M, x)
        <3>1. PICK i \in 1 .. m : L[i] = x
            BY <2>2 DEF InList, m
        <3>2. i - 1 \in 1 .. m - 1 /\ (i - 1) + 1 = i
            BY <1>6, <1>7, <2>2, <3>1
        <3>3. M[i - 1] = x
            BY <1>6, <3>1, <3>2
        <3> QED BY <1>6, <3>2, <3>3 DEF InList
    <2> QED BY <2>1, <2>2
<1>9. M[Len(M)] = L[m] /\ Len(M) >= 1 /\ Len(M) \in Nat /\ M[1] = L[2]
    BY <1>1, <1>6
<1>10. ListIs(M)'
    <2>1. \A i, j \in 1 .. Len(M) : M[i] = M[j] => i = j
        <3>1. ASSUME NEW i \in 1 .. Len(M), NEW j \in 1 .. Len(M), M[i] = M[j] PROVE i = j
            <4>1. i + 1 \in 1 .. m /\ j + 1 \in 1 .. m /\ i \in 1 .. m - 1 /\ j \in 1 .. m - 1
                BY <1>6
            <4>2. L[i + 1] = L[j + 1]
                BY <1>6, <3>1, <4>1
            <4>3. i + 1 = j + 1
                BY <1>7, <4>1, <4>2
            <4> QED BY <4>1, <4>3
        <3> QED BY <3>1
    <2>2. \A i \in 1 .. Len(M) : M[i] \in alive
        <3>1. ASSUME NEW i \in 1 .. Len(M) PROVE M[i] \in alive
            <4>1. i + 1 \in 1 .. m /\ i \in 1 .. m - 1
                BY <1>6
            <4> QED BY <1>6, <1>7, <4>1
        <3> QED BY <3>1
    <2>3. \A i \in 1 .. Len(M) - 1 : next[M[i]] = M[i + 1]
        <3>1. ASSUME NEW i \in 1 .. Len(M) - 1 PROVE next[M[i]] = M[i + 1]
            <4>1. i \in 1 .. m - 1 /\ i + 1 \in 1 .. m - 1 /\ i + 1 \in 1 .. m
                BY <1>6
            <4>2. M[i] = L[i + 1] /\ M[i + 1] = L[(i + 1) + 1]
                BY <1>6, <4>1
            <4> QED BY <1>7, <4>1, <4>2
        <3> QED BY <3>1
    <2>4. next[M[Len(M)]] = nullptr /\ M[1] = L[2]
        BY <1>7, <1>9
    <2>5. InList(M, tail)
        BY <1>1, <1>7, <1>8
    <2> QED BY <1>3, <2>1, <2>2, <2>3, <2>4, <2>5 DEF ListIs, InList
<1>11. /\ sent \in Seq(Items) /\ received \in Seq(Items)
       /\ Len(sent) = Len(received) + m - 1
       /\ \A i \in 1 .. Len(received) : received[i] = sent[i]
       /\ \A i \in 2 .. m : data[L[i]] = sent[Len(received) + i - 1]
    BY DEF Linked, HistoryIs, m
<1>12. Len(received) \in Nat /\ Len(sent) \in Nat
    BY <1>11
<1>13. data[L[2]] = sent[Len(received) + 1] /\ data[L[2]] \in Items
    <2>1. 2 \in 2 .. m /\ Len(received) + 2 - 1 = Len(received) + 1
          /\ Len(received) + 1 \in 1 .. Len(sent)
        BY <1>1, <1>6, <1>11, <1>12
    <2>2. data[L[2]] = sent[Len(received) + 1]
        BY <1>11, <2>1
    <2> QED BY <1>11, <2>1, <2>2
<1>14. /\ received' \in Seq(Items) /\ Len(received') = Len(received) + 1
       /\ received'[Len(received) + 1] = data[L[2]]
       /\ \A i \in 1 .. Len(received) : received'[i] = received[i]
    BY <1>3, <1>11, <1>13
<1>15. HistoryIs(M)'
    <2>1. Len(sent) = Len(received') + Len(M) - 1
        BY <1>6, <1>11, <1>12, <1>14
    <2>2. \A i \in 1 .. Len(received') : received'[i] = sent[i]
        <3>1. ASSUME NEW i \in 1 .. Len(received') PROVE received'[i] = sent[i]
            <4>1. i \in 1 .. Len(received) \/ i = Len(received) + 1
                BY <1>12, <1>14
            <4> QED BY <1>11, <1>13, <1>14, <4>1
        <3> QED BY <3>1
    <2>3. \A i \in 2 .. Len(M) : data[M[i]] = sent[Len(received') + i - 1]
        <3>1. ASSUME NEW i \in 2 .. Len(M) PROVE data[M[i]] = sent[Len(received') + i - 1]
            <4>1. i \in 1 .. m - 1 /\ i + 1 \in 2 .. m
                  /\ Len(received') + i - 1 = Len(received) + (i + 1) - 1
                BY <1>6, <1>12, <1>14
            <4> QED BY <1>6, <1>11, <4>1
        <3> QED BY <3>1
    <2> QED BY <1>3, <1>11, <1>14, <2>1, <2>2, <2>3 DEF HistoryIs
<1>16. Sound'
    BY <1>1, <1>3, <1>4, <1>7 DEF Sound, TypeOK, Paired
<1>17. \A p \in Producers : pc'[p] = pc[p]
    BY <1>4, LockFreeQueueAssumption DEF Threads
<1>18. WithConsumer
    BY DEF WithConsumer
<1>19. /\ \A p \in Producers : AtEnd(L, p)
       /\ tail = L[m] \/ Lags(L)
       /\ (\A p \in Producers : pc[p] # "swing") => tail = L[m] \/ leftBehind
    BY <1>18 DEF Linked, ProducerAtEnd, m
<1>20. ProducerAtEnd(M)'
    <2>1. Lags(L) => Lags(M)
        <3>1. ASSUME tail = L[m - 1] PROVE Len(M) >= 2 /\ tail = M[Len(M) - 1]
            <4>1. m # 2
                BY <1>1, <1>7, <3>1
            <4>2. Len(M) >= 2 /\ Len(M) - 1 \in 1 .. m - 1 /\ (Len(M) - 1) + 1 = m - 1
                BY <1>1, <1>6, <4>1
            <4> QED BY <1>6, <3>1, <4>2
        <3> QED BY <3>1 DEF Lags, m
    <2>2. UNCHANGED Lags(M)
        BY <1>3 DEF Lags
    <2>3. \A p \in Producers : AtEnd(M, p)'
        BY <1>3, <1>8, <1>9, <1>17, <1>19, <2>1, <2>2 DEF AtEnd, InList, m
    <2> QED BY <1>3, <1>9, <1>17, <1>19, <2>1, <2>2, <2>3 DEF ProducerAtEnd
<1>21. FreshNodes(M)'
    BY <1>3, <1>8, <1>17 DEF Linked, FreshNodes, InList
<1>22. ProducersIn(M)'
    <2>1. M[Len(M)] # head /\ InList(M, M[Len(M)])
        BY <1>1, <1>6, <1>7, <1>9 DEF InList
    <2>2. leftBehind => Astray
        BY <1>18 DEF Astray
    <2>3. UNCHANGED Astray
        BY <1>3 DEF Astray, WithConsumer
    <2>4. next[M[Len(M)]] = nullptr /\ InList(L, M[Len(M)])
        BY <1>7, <1>8, <1>9, <2>1
    <2>5. ASSUME NEW p \in Producers
          PROVE  /\ pc[p] \in Linking => prev_tail[p] \in Nodes /\ (InList(M, prev_tail[p]) \/ Astray)
                 /\ pc[p] \in {"check", "help"} => nxt[p] = nullptr \/ Astray
                 /\ pc[p] = "help" => nxt[p] # nullptr
                 /\ pc[p] = "swing" => InList(M, node[p])
        <3>1. pc[p] \in Linking => prev_tail[p] \in Nodes
            BY DEF Linked, ProducersIn
        <3>2. pc[p] = "help" => nxt[p] # nullptr /\ leftBehind
            BY <1>19 DEF Linked, ProducersIn, AtEnd
        <3>3. pc[p] \in Linking => prev_tail[p] = M[Len(M)] \/ leftBehind
            BY <1>9, <1>19 DEF AtEnd, m
        <3>4. pc[p] = "swing" => node[p] = M[Len(M)]
            BY <1>9, <1>19 DEF AtEnd, m
        <3>5. pc[p] = "check" => nxt[p] = next[prev_tail[p]] \/ ~InList(L, prev_tail[p])
            BY <1>19 DEF AtEnd
        <3>6. pc[p] = "check" => nxt[p] = nullptr \/ leftBehind
            BY <2>4, <3>3, <3>5 DEF Linking
        <3> QED BY <2>1, <2>2, <3>1, <3>2, <3>3, <3>4, <3>6
    <2> QED BY <1>3, <1>17, <2>3, <2>5 DEF ProducersIn, InList
<1>23. ConsumerAtHead(M)'
    <2>1. \A d \in Consumers \ {c} : pc'[d] = "idle"
        BY <1>4, OneBesideOne DEF Sound, CastKnown, Threads, WithConsumer
    <2>2. first[c] \in alive /\ ~InList(M, first[c])
        <3>1. 1 \in 1 .. m
            BY <1>1, <1>6
        <3>2. head \in alive
            BY <1>7, <3>1
        <3> QED BY <1>1, <1>8, <3>2
    <2>3. \A p \in Producers : pc[p] \in Linking => node[p] # first[c]
        <3>1. InList(L, head)
            BY <1>7, EndsOfList
        <3> QED BY <1>1, <3>1 DEF Linked, FreshNodes
    <2> QED BY <1>3, <1>4, <1>17, <2>1, <2>2, <2>3 DEF ConsumerAtHead, InList
<1>24. Linked(M)'
    BY <1>5, <1>9, <1>10, <1>15, <1>21, <1>22, <1>23, <1>20 DEF Linked
<1> QED BY <1>16, <1>24

(* A failed exchange of head: the loop starts again. *)
LEMMA UnlinkFails ==
    ASSUME Sound, NEW L \in Seq(Nodes), Linked(L), NEW c \in Consumers, c \in cast, Unlink(c),
           pc'[c] # "free"
    PROVE  Sound' /\ Linked(L)'
<1>1. /\ c \in Threads /\ Goto(c, "idle")
      /\ UNCHANGED <<cast, head, tail, next, data, alive, dangling, node, prev_tail, made, first,
                     last, result, nxt, sent, received, leftBehind>>
    BY DEF Unlink, Goto, Threads, Sound, TypeOK, enqueueLocals, dequeueLocals
<1>2. /\ pc'[c] = "idle"
      /\ \A u \in Threads \ {c} : pc'[u] = pc[u]
      /\ pc' \in [Threads -> Points] /\ CastKnown'
    BY <1>1, ThreadMoves DEF Points
<1>3. \A p \in Producers : pc'[p] = pc[p]
    BY <1>2, LockFreeQueueAssumption DEF Threads
<1>4. Sound'
    BY <1>1, <1>2 DEF Sound, TypeOK, Paired
<1>5. ListIs(L)' /\ HistoryIs(L)'
    BY <1>1 DEF Linked, ListIs, HistoryIs, InList
<1>6. FreshNodes(L)' /\ ProducersIn(L)'
    BY <1>1, <1>2, ProducersStay
<1>7. ProducerAtEnd(L)'
    BY <1>1, <1>3 DEF Linked, ProducerAtEnd, AtEnd, Lags, InList, WithConsumer
<1>8. ConsumerAtHead(L)'
    <2>1. \A d \in Consumers : pc'[d] = "idle"
        BY <1>2, OneBesideOne DEF Sound, CastKnown, Threads, WithConsumer
    <2> QED BY <2>1 DEF ConsumerAtHead
<1> QED BY <1>4, <1>5, <1>6, <1>7, <1>8 DEF Linked

(* Line 80: nobody is left with the node that is deleted.                  *)
LEMMA FreeStep ==
    ASSUME Sound, NEW L \in Seq(Nodes), Linked(L), NEW c \in Consumers, c \in cast, Free(c)
    PROVE  Sound' /\ Linked(L)'
<1>1. /\ c \in Threads /\ pc[c] = "free" /\ Goto(c, "idle")
      /\ alive' = alive \ {first[c]}
      /\ UNCHANGED <<cast, head, tail, next, data, dangling, node, prev_tail, made, first, last,
                     result, nxt, sent, received, leftBehind>>
    BY DEF Free, Threads, dequeueLocals, enqueueLocals, history
<1>2. /\ pc'[c] = "idle"
      /\ \A u \in Threads \ {c} : pc'[u] = pc[u]
      /\ pc' \in [Threads -> Points] /\ CastKnown'
    BY <1>1, ThreadMoves DEF Points
<1>3. /\ ~InList(L, first[c])
      /\ \A p \in Producers : pc[p] \in Linking => node[p] # first[c]
    BY <1>1 DEF Linked, ConsumerAtHead
<1>4. \A p \in Producers : pc'[p] = pc[p]
    BY <1>2, LockFreeQueueAssumption DEF Threads
<1>5. Sound'
    BY <1>1, <1>2 DEF Sound, TypeOK, Paired
<1>6. \A i \in 1 .. Len(L) : L[i] \in alive'
    BY <1>1, <1>3 DEF Linked, ListIs, InList
<1>7. ListIs(L)' /\ HistoryIs(L)'
    BY <1>1, <1>6 DEF Linked, ListIs, HistoryIs, InList
<1>8. FreshNodes(L)'
    BY <1>1, <1>3, <1>4 DEF Linked, FreshNodes, InList
<1>9. ProducersIn(L)'
    BY <1>1, <1>4 DEF Linked, ProducersIn, InList, Astray, WithConsumer
<1>10. ProducerAtEnd(L)'
    BY <1>1, <1>4 DEF Linked, ProducerAtEnd, AtEnd, Lags, InList, WithConsumer
<1>11. ConsumerAtHead(L)'
    <2>1. \A d \in Consumers : pc'[d] = "idle"
        BY <1>2, OneBesideOne DEF Sound, CastKnown, Threads, WithConsumer
    <2> QED BY <2>1 DEF ConsumerAtHead
<1> QED BY <1>5, <1>7, <1>8, <1>9, <1>10, <1>11 DEF Linked
-----------------------------------------------------------------------------
(* The empty queue: the dummy node alone. *)
LEMMA Initially ==
    ASSUME PairsOnly, Init
    PROVE  QueueInv
<1>1. head \in Nodes /\ tail = head /\ alive = {head}
    BY LockFreeQueueAssumption DEF Init
<1>2. Sound
    <2>1. TypeOK
        <3>1. cast \in Casts /\ alive \subseteq Nodes
              /\ dangling \in BOOLEAN /\ leftBehind \in BOOLEAN
              /\ head \in Nodes /\ tail \in Nodes
            BY <1>1 DEF Init
        <3>2. /\ next \in [Nodes -> Pointers] /\ data \in [Nodes -> Items \cup {NoItem}]
              /\ pc \in [Threads -> Points] /\ made \in [Producers -> Nat]
            BY DEF Init, Pointers, Points
        <3>3. /\ node \in [Producers -> Pointers] /\ prev_tail \in [Producers -> Pointers]
              /\ first \in [Consumers -> Pointers] /\ last \in [Consumers -> Pointers]
              /\ result \in [Consumers -> Items \cup {NoItem}]
              /\ nxt \in [Threads -> Pointers]
            BY DEF Init, Pointers
        <3> QED BY <3>1, <3>2, <3>3 DEF TypeOK
    <2> QED BY <2>1 DEF Init, PairsOnly, Sound, CastKnown
<1>3. PICK L \in Seq(Nodes) : L = <<head>>
    <2>1. <<head>> \in Seq(Nodes)
        BY <1>1
    <2> QED BY <2>1
<1>4. Len(L) = 1 /\ L[1] = head
    BY <1>3
<1>5. ListIs(L)
    BY <1>1, <1>4 DEF Init, ListIs, InList
<1>6. HistoryIs(L)
    <2>1. <<>> \in Seq(Items) /\ Len(<<>>) = 0
        OBVIOUS
    <2> QED BY <1>4, <2>1 DEF Init, HistoryIs
<1>7. \A t \in Threads : pc[t] = "idle"
    BY DEF Init
<1>8. FreshNodes(L) /\ ProducersIn(L) /\ ProducerAtEnd(L) /\ ConsumerAtHead(L)
    BY <1>1, <1>4, <1>7
    DEF Threads, FreshNodes, ProducersIn, ProducerAtEnd, AtEnd, ConsumerAtHead, Linking
<1>9. Linked(L)
    BY <1>4, <1>5, <1>6, <1>8 DEF Linked
<1> QED BY <1>2, <1>9 DEF QueueInv

(* Every access of every thread keeps the invariant. *)
LEMMA Preserved == QueueInv /\ [Next]_vars => QueueInv'
<1> SUFFICES ASSUME QueueInv, [Next]_vars PROVE QueueInv'
    OBVIOUS
<1>0. Sound
    BY DEF QueueInv
<1>1. PICK L \in Seq(Nodes) : Linked(L)
    BY DEF QueueInv
<1>2. ASSUME NEW p \in Producers \cap cast, Enqueue(p) PROVE QueueInv'
    <2>1. Sound' /\ \E M \in Seq(Nodes) : Linked(M)'
        BY <1>0, <1>1, <1>2, BeginStep, LookingStep, LinkStep, TriesAgain, SwingStep DEF Enqueue
    <2> QED BY <2>1 DEF QueueInv
<1>3. ASSUME NEW c \in Consumers \cap cast, Dequeue(c) PROVE QueueInv'
    <2>1. Sound' /\ \E M \in Seq(Nodes) : Linked(M)'
        BY <1>0, <1>1, <1>3, ConsumerLooks, HelpTailStep, UnlinkStep, UnlinkFails, FreeStep
           DEF Dequeue
    <2> QED BY <2>1 DEF QueueInv
<1>4. CASE UNCHANGED vars
    <2>1. UNCHANGED <<cast, head, tail, next, data, alive, dangling, pc, made, node, prev_tail,
                      first, last, result, nxt, sent, received, leftBehind>>
        BY <1>4 DEF vars, shared, enqueueLocals, dequeueLocals, history
    <2>2. Sound'
        BY <1>0, <2>1 DEF Sound, TypeOK, Paired, CastKnown
    <2>3. ListIs(L)' /\ HistoryIs(L)'
        BY <1>1, <2>1 DEF Linked, ListIs, HistoryIs, InList
    <2>4. FreshNodes(L)' /\ ProducersIn(L)' /\ ProducerAtEnd(L)' /\ ConsumerAtHead(L)'
        BY <1>1, <2>1
        DEF Linked, FreshNodes, ProducersIn, Astray, ProducerAtEnd, AtEnd, Lags, WithConsumer,
            ConsumerAtHead, InList
    <2> QED BY <1>1, <2>2, <2>3, <2>4 DEF Linked, QueueInv
<1> QED BY <1>2, <1>3, <1>4 DEF Next, Finished, Undefined

LEMMA QueueInvStays ==
    ASSUME PairsOnly
    PROVE  Spec => []QueueInv
<1>1. Init => QueueInv
    BY Initially
<1> QED BY <1>1, Preserved, PTL DEF Spec

(* Producers by themselves, or one producer beside one consumer: until     *)
(* line 60 has failed although tail was prev_tail, nobody accesses a       *)
(* deleted node, though delete follows at once upon the exchange of head,  *)
(* addresses are used again and the exchanges of the loops may fail at any *)
(* time.                                                                   *)
THEOREM NobodyDangles ==
    ASSUME PairsOnly
    PROVE  Spec => []NoDanglingAccess
<1>1. QueueInv => NoDanglingAccess
    BY DEF QueueInv, Sound, NoDanglingAccess
<1> QED BY <1>1, QueueInvStays, PTL
-----------------------------------------------------------------------------
(* The refinement: an item is sent by the exchange of line 49 and received *)
(* by that of line 79; every other step is one the channel does not see.   *)
LEMMA ChannelStep ==
    ASSUME QueueInv, [Next]_vars
    PROVE  [Channel!Next]_(Channel!vars)
<1>0. Sound /\ \E L \in Seq(Nodes) : Linked(L)
    BY DEF QueueInv
<1>1. PICK L \in Seq(Nodes) : Linked(L)
    BY <1>0
<1>2. ASSUME UNCHANGED <<sent, received>> PROVE UNCHANGED Channel!vars
    BY <1>2 DEF Channel!vars
<1>3. ASSUME NEW p \in Producers, Link(p), sent' # sent PROVE Channel!Next
    <2>1. data[node[p]] \in Items
        BY <1>1, <1>3 DEF Link, Linked, FreshNodes, Linking
    <2>2. sent' = Append(sent, data[node[p]]) /\ received' = received
        BY <1>3 DEF Link
    <2>3. Channel!Send(data[node[p]])
        BY <2>2 DEF Channel!Send
    <2> QED BY <2>1, <2>3 DEF Channel!Next
<1>4. ASSUME NEW c \in Consumers, Unlink(c), received' # received PROVE Channel!Next
    <2>1. /\ result[c] = data[L[2]] /\ Len(L) >= 2 /\ Len(L) \in Nat
        BY <1>1, <1>4, EndsOfList DEF Unlink, Linked, ConsumerAtHead
    <2>2. /\ Len(received) \in Nat /\ Len(sent) = Len(received) + Len(L) - 1
          /\ \A i \in 2 .. Len(L) : data[L[i]] = sent[Len(received) + i - 1]
        BY <1>1 DEF Linked, HistoryIs
    <2> DEFINE m == Len(L)
               r == Len(received)
    <2>3. m \in Nat /\ m >= 2 /\ r \in Nat
        BY <2>1, <2>2
    <2>4. Len(sent) = r + m - 1 /\ \A i \in 2 .. m : data[L[i]] = sent[r + i - 1]
        BY <2>2
    <2>5. received' = Append(received, result[c]) /\ sent' = sent
        BY <1>4 DEF Unlink
    <2> HIDE DEF m, r
    <2>6. r < Len(sent) /\ data[L[2]] = sent[r + 1]
        <3>1. r < r + m - 1 /\ 2 \in 2 .. m /\ r + 2 - 1 = r + 1
            BY <2>3
        <3> QED BY <2>4, <3>1
    <2>7. Channel!Receive
        BY <2>1, <2>5, <2>6 DEF Channel!Receive, r
    <2> QED BY <2>7 DEF Channel!Next
<1>5. ASSUME NEW p \in Producers, Enqueue(p) PROVE [Channel!Next]_(Channel!vars)
    <2>1. CASE Link(p) /\ sent' # sent
        BY <1>3, <2>1
    <2>2. CASE ~(Link(p) /\ sent' # sent)
        <3>1. UNCHANGED <<sent, received>>
            BY <1>5, <2>2 DEF Enqueue, Begin, ReadNext, Check, Link, Help, Swing, history
        <3> QED BY <1>2, <3>1
    <2> QED BY <2>1, <2>2
<1>6. ASSUME NEW c \in Consumers, Dequeue(c) PROVE [Channel!Next]_(Channel!vars)
    <2>1. CASE Unlink(c) /\ received' # received
        BY <1>4, <2>1
    <2>2. CASE ~(Unlink(c) /\ received' # received)
        <3>1. UNCHANGED <<sent, received>>
            BY <1>6, <2>2 DEF Dequeue, ReadHead, ReadTail, ReadFirstNext, CheckHead, HelpTail,
                              ReadData, Unlink, Free, history
        <3> QED BY <1>2, <3>1
    <2> QED BY <2>1, <2>2
<1>7. CASE UNCHANGED vars
    BY <1>2, <1>7 DEF vars, history
<1> QED BY <1>5, <1>6, <1>7 DEF Next, Finished, Undefined

(* The queue is a first-in first-out channel: items come out once each, in *)
(* the order in which they were linked.                                    *)
THEOREM LockFreeQueueIsChannel ==
    ASSUME PairsOnly
    PROVE  Spec => ImplementsChannel
<1>1. Init => Channel!Init
    BY DEF Init, Channel!Init
<1> QED BY <1>1, ChannelStep, QueueInvStays, PTL
        DEF Spec, ImplementsChannel, Channel!Spec
-----------------------------------------------------------------------------
(* What the list holds.  Contents is defined by recursion on the number of *)
(* nodes; that the recursion has a solution, and what it computes, are     *)
(* shown by induction over a set of numbers.                               *)

(* A set of numbers that holds 0 and the successor of each of its elements *)
(* below N holds all numbers up to N: adding 1 would otherwise map the     *)
(* finite set of its elements below a missing number into itself, without  *)
(* reaching 0.                                                             *)
LEMMA UpTo ==
    ASSUME NEW N \in Nat, NEW T, 0 \in T,
           \A n \in 0 .. N - 1 : n \in T => n + 1 \in T
    PROVE  \A n \in 0 .. N : n \in T
<1> SUFFICES ASSUME NEW m \in 0 .. N, m \notin T PROVE FALSE
    OBVIOUS
<1> DEFINE A == { n \in 0 .. m : n \in T }
           f == [n \in A |-> n + 1]
<1>1. IsFiniteSet(A)
    <2>1. IsFiniteSet(0 .. m) /\ A \in SUBSET (0 .. m)
        BY FS_Interval
    <2> QED BY <2>1, FS_Subset
<1>2. \A n \in A : n \in Nat /\ n + 1 \in A
    OBVIOUS
<1>3. 0 \in A
    OBVIOUS
<1> HIDE DEF A
<1>4. f \in Injection(A, A)
    BY <1>2 DEF Injection, IsInjective
<1>5. f \in Surjection(A, A)
    BY <1>1, <1>4, FS_Injection
<1>6. PICK n \in A : f[n] = 0
    BY <1>3, <1>5 DEF Surjection
<1> QED BY <1>2, <1>6

(* The recursion of HeldBy, one level of it. *)
Level(below) == [n \in Pointers |-> IF n = nullptr THEN <<>> ELSE <<data[n]>> \o below[next[n]]]
Bottom == [n \in Pointers |-> <<>>]

LEMMA HeldByDefined ==
    \A k \in 0 .. Cardinality(Nodes) :
        HeldBy[k] = IF k = 0 THEN Bottom ELSE Level(HeldBy[k - 1])
<1> DEFINE N == Cardinality(Nodes)
           Solves(g, j) == g = [k \in 0 .. j |-> IF k = 0 THEN Bottom ELSE Level(g[k - 1])]
           T == { j \in 0 .. N : \E g : Solves(g, j) }
<1>1. N \in Nat
    BY LockFreeQueueAssumption, FS_CardinalityType
<1> HIDE DEF N
<1>2. 0 \in T
    <2> DEFINE g == [k \in 0 .. 0 |-> Bottom]
    <2>1. Solves(g, 0)
        OBVIOUS
    <2>2. \E any : Solves(any, 0)
        BY <2>1
    <2>3. 0 \in 0 .. N
        BY <1>1
    <2> HIDE DEF Solves, g
    <2> QED BY <2>2, <2>3
<1>3. ASSUME NEW j \in 0 .. N - 1, j \in T PROVE j + 1 \in T
    <2>1. PICK g : Solves(g, j)
        BY <1>3
    <2> DEFINE h == [k \in 0 .. j + 1 |-> IF k <= j THEN g[k] ELSE Level(g[j])]
    <2>2. ASSUME NEW k \in 0 .. j + 1
          PROVE  h[k] = IF k = 0 THEN Bottom ELSE Level(h[k - 1])
        <3>1. CASE k = 0
            BY <1>1, <2>1, <3>1
        <3>2. CASE k \in 1 .. j
            <4>1. h[k] = g[k] /\ h[k - 1] = g[k - 1]
                BY <1>1, <3>2
            <4>2. g[k] = Level(g[k - 1])
                BY <1>1, <2>1, <3>2
            <4> QED BY <3>2, <4>1, <4>2
        <3>3. CASE k = j + 1
            <4>1. h[k] = Level(g[j]) /\ h[k - 1] = g[j] /\ k # 0
                BY <1>1, <3>3
            <4> QED BY <4>1
        <3> QED BY <3>1, <3>2, <3>3
    <2>3. Solves(h, j + 1)
        <3> HIDE DEF h
        <3>1. h = [k \in 0 .. j + 1 |-> h[k]]
            BY DEF h
        <3> QED BY <2>2, <3>1
    <2>4. j + 1 \in 0 .. N
        BY <1>1
    <2> QED BY <2>3, <2>4
<1>4. N \in T
    <2> HIDE DEF T
    <2> QED BY <1>1, <1>2, <1>3, UpTo
<1>5. PICK g : Solves(g, N)
    BY <1>4
<1> DEFINE Item(f, k, n) == IF k = 0 \/ n = nullptr THEN <<>>
                               ELSE <<data[n]>> \o f[k - 1][next[n]]
<1>6. ASSUME NEW k \in 0 .. N
      PROVE  g[k] = [n \in Pointers |-> Item(g, k, n)]
    <2>1. g[k] = IF k = 0 THEN Bottom ELSE Level(g[k - 1])
        BY <1>5
    <2> QED BY <2>1 DEF Bottom, Level
<1>7. g = [k \in 0 .. N |-> [n \in Pointers |-> Item(g, k, n)]]
    <2>1. g = [k \in 0 .. N |-> g[k]]
        BY <1>5
    <2> HIDE DEF Item, Solves
    <2> QED BY <1>6, <2>1
<1>8. HeldBy = [k \in 0 .. N |-> [n \in Pointers |-> Item(HeldBy, k, n)]]
    BY <1>7 DEF HeldBy, N
<1>9. ASSUME NEW k \in 0 .. N
      PROVE  HeldBy[k] = IF k = 0 THEN Bottom ELSE Level(HeldBy[k - 1])
    <2>1. HeldBy[k] = [n \in Pointers |-> Item(HeldBy, k, n)]
        BY <1>8
    <2> QED BY <2>1 DEF Bottom, Level
<1> QED BY <1>9 DEF N

(* There are no more nodes in the list than there are nodes. *)
LEMMA ListFits ==
    ASSUME NEW L \in Seq(Nodes), Linked(L)
    PROVE  /\ Cardinality(Nodes) \in Nat /\ Len(L) \in Nat
           /\ Len(L) <= Cardinality(Nodes)
<1> DEFINE m == Len(L)
           f == [i \in 1 .. m |-> L[i]]
<1>1. m \in Nat /\ IsFiniteSet(Nodes) /\ Cardinality(Nodes) \in Nat
    BY LockFreeQueueAssumption, FS_CardinalityType
<1>2. \A i, j \in 1 .. m : L[i] = L[j] => i = j
    BY DEF Linked, ListIs
<1>3. \A i \in 1 .. m : L[i] \in Nodes
    OBVIOUS
<1> HIDE DEF m
<1>4. f \in Injection(1 .. m, Nodes)
    BY <1>2, <1>3 DEF Injection, IsInjective
<1>5. Cardinality(1 .. m) <= Cardinality(Nodes)
    BY <1>1, <1>4, FS_Injection
<1>6. Cardinality(1 .. m) = m
    BY <1>1, FS_Interval
<1> QED BY <1>1, <1>5, <1>6 DEF m

(* A sequence is its elements. *)
LEMMA SameSequence ==
    ASSUME NEW S, NEW s \in Seq(S), NEW t \in Seq(S), Len(s) = Len(t),
           \A i \in 1 .. Len(s) : s[i] = t[i]
    PROVE  s = t
    OBVIOUS

LEMMA PutBefore ==
    ASSUME NEW S, NEW x \in S, NEW s \in Seq(S)
    PROVE  /\ <<x>> \o s \in Seq(S)
           /\ Len(<<x>> \o s) = Len(s) + 1
           /\ (<<x>> \o s)[1] = x
           /\ \A i \in 1 .. Len(s) : (<<x>> \o s)[i + 1] = s[i]
    OBVIOUS

LEMMA Joined ==
    ASSUME NEW S, NEW s \in Seq(S), NEW t \in Seq(S)
    PROVE  /\ s \o t \in Seq(S)
           /\ Len(s \o t) = Len(s) + Len(t)
           /\ \A i \in 1 .. Len(s) : (s \o t)[i] = s[i]
           /\ \A i \in 1 .. Len(t) : (s \o t)[Len(s) + i] = t[i]
    OBVIOUS

(* The walk from a node finds the items of those behind it. *)
LEMMA WalkFinds ==
    ASSUME Sound, NEW L \in Seq(Nodes), Linked(L)
    PROVE  /\ Contents \in Seq(Items \cup {NoItem})
           /\ Len(Contents) = Len(L) - 1
           /\ \A i \in 1 .. Len(L) - 1 : Contents[i] = data[L[i + 1]]
<1> DEFINE m == Len(L)
           N == Cardinality(Nodes)
           D == Items \cup {NoItem}
           Found(s, d) == /\ s \in Seq(D) /\ Len(s) = d
                          /\ \A i \in 1 .. d : s[i] = data[L[m - d + i]]
           T == { d \in 0 .. m - 1 : \A k \in d .. N : Found(HeldBy[k][next[L[m - d]]], d) }
<1>1. m \in Nat /\ m >= 1 /\ N \in Nat /\ m <= N
    BY ListFits, EndsOfList
<1>2. /\ \A i \in 1 .. m : L[i] \in Nodes /\ data[L[i]] \in D
      /\ \A i \in 1 .. m - 1 : next[L[i]] = L[i + 1]
      /\ next[L[m]] = nullptr /\ L[1] = head
    BY EndsOfList DEF Linked, ListIs, Sound, TypeOK
<1>3. \A n \in Nodes : n \in Pointers /\ n # nullptr /\ next[n] \in Pointers
    BY LockFreeQueueAssumption DEF Sound, TypeOK, Pointers
<1>4. \A k \in 0 .. N : HeldBy[k] = IF k = 0 THEN Bottom ELSE Level(HeldBy[k - 1])
    BY HeldByDefined
<1> HIDE DEF m, N, D
<1>5. 0 \in T
    <2>1. ASSUME NEW k \in 0 .. N PROVE Found(HeldBy[k][next[L[m - 0]]], 0)
        <3>1. HeldBy[k][nullptr] = <<>>
            BY <1>1, <1>4 DEF Bottom, Level, Pointers
        <3>2. m - 0 = m
            BY <1>1
        <3>3. <<>> \in Seq(D) /\ Len(<<>>) = 0 /\ \A i \in 1 .. 0 : FALSE
            OBVIOUS
        <3>4. HeldBy[k][next[L[m - 0]]] = <<>>
            BY <1>2, <3>1, <3>2
        <3>5. Found(<<>>, 0)
            BY <3>3
        <3> HIDE DEF Found
        <3> QED BY <3>4, <3>5
    <2>2. 0 \in 0 .. m - 1
        BY <1>1
    <2> HIDE DEF Found
    <2> QED BY <2>1, <2>2
<1>6. ASSUME NEW d \in 0 .. (m - 1) - 1, d \in T PROVE d + 1 \in T
    <2>1. /\ d \in Nat /\ d + 1 \in 0 .. m - 1 /\ m - d \in 1 .. m
          /\ m - (d + 1) \in 1 .. m - 1 /\ (m - (d + 1)) + 1 = m - d
        BY <1>1
    <2>2. next[L[m - (d + 1)]] = L[m - d] /\ L[m - d] \in Nodes
        BY <1>2, <2>1
    <2>3. ASSUME NEW k \in d + 1 .. N
          PROVE  Found(HeldBy[k][next[L[m - (d + 1)]]], d + 1)
        <3> DEFINE s == HeldBy[k - 1][next[L[m - d]]]
                   x == data[L[m - d]]
        <3>1. k \in 0 .. N /\ k # 0 /\ k - 1 \in d .. N
            BY <1>1, <2>1
        <3>2. HeldBy[k][L[m - d]] = <<x>> \o s
            <4>1. HeldBy[k] = Level(HeldBy[k - 1])
                BY <1>4, <3>1
            <4>2. L[m - d] \in Pointers /\ L[m - d] # nullptr
                BY <1>3, <2>2
            <4> DEFINE h == HeldBy[k - 1]
                       n == L[m - d]
            <4> HIDE DEF h, n
            <4>3. Level(h)[n] = <<data[n]>> \o h[next[n]]
                BY <4>2 DEF Level, n
            <4> QED BY <4>1, <4>3 DEF h, n
        <3>3. Found(s, d)
            BY <1>6, <3>1
        <3>4. s \in Seq(D) /\ Len(s) = d /\ x \in D
              /\ \A i \in 1 .. d : s[i] = data[L[m - d + i]]
            BY <1>2, <2>1, <3>3
        <3> DEFINE t == <<x>> \o s
        <3>5. /\ t \in Seq(D) /\ Len(t) = d + 1 /\ t[1] = x
              /\ \A i \in 1 .. d : t[i + 1] = s[i]
            BY <3>4, PutBefore
        <3> HIDE DEF t, s
        <3>6. ASSUME NEW i \in 1 .. d + 1 PROVE t[i] = data[L[m - (d + 1) + i]]
            <4>1. CASE i = 1
                <5>1. m - (d + 1) + i = m - d
                    BY <1>1, <2>1, <4>1
                <5>2. t[i] = x
                    BY <3>5, <4>1
                <5> QED BY <5>1, <5>2
            <4>2. CASE i # 1
                <5>1. i - 1 \in 1 .. d /\ (i - 1) + 1 = i /\ m - d + (i - 1) = m - (d + 1) + i
                    BY <1>1, <2>1, <4>2
                <5>2. t[(i - 1) + 1] = s[i - 1]
                    BY <3>5, <5>1
                <5>3. s[i - 1] = data[L[m - d + (i - 1)]]
                    BY <3>4, <5>1
                <5> QED BY <5>1, <5>2, <5>3
            <4> QED BY <4>1, <4>2
        <3>7. Found(t, d + 1)
            BY <3>5, <3>6
        <3> HIDE DEF Found
        <3> QED BY <2>2, <3>2, <3>7 DEF t
    <2> HIDE DEF Found
    <2> QED BY <2>1, <2>3
<1>7. m - 1 \in T
    <2>1. m - 1 \in Nat /\ m - 1 \in 0 .. m - 1
        BY <1>1
    <2> HIDE DEF T
    <2> QED BY <1>5, <1>6, <2>1, UpTo
<1>8. Found(HeldBy[N][next[L[m - (m - 1)]]], m - 1)
    <2>1. N \in m - 1 .. N
        BY <1>1
    <2> HIDE DEF Found
    <2> QED BY <1>7, <2>1
<1>9. m - (m - 1) = 1
    BY <1>1
<1>10. Found(Contents, m - 1)
    <2> HIDE DEF Found
    <2> QED BY <1>2, <1>8, <1>9 DEF Contents, N
<1>11. \A i \in 1 .. m - 1 : m - (m - 1) + i = i + 1
    BY <1>1
<1> QED BY <1>10, <1>11 DEF m, D

(* Whatever producers do between their look at tail and their exchange of  *)
(* next, and though tail lags, the nodes behind head hold what was linked  *)
(* and has not come out, in order.                                         *)
THEOREM NothingIsLost ==
    ASSUME PairsOnly
    PROVE  Spec => []ListHoldsTheRest
<1>1. QueueInv => ListHoldsTheRest
    <2> SUFFICES ASSUME QueueInv PROVE received \o Contents = sent
        BY DEF ListHoldsTheRest
    <2>0. Sound /\ \E L \in Seq(Nodes) : Linked(L)
        BY DEF QueueInv
    <2>1. PICK L \in Seq(Nodes) : Linked(L)
        BY <2>0
    <2> DEFINE m == Len(L)
               D == Items \cup {NoItem}
               r == Len(received)
    <2>2. /\ sent \in Seq(D) /\ received \in Seq(D) /\ r \in Nat
          /\ Len(sent) = r + m - 1
          /\ \A i \in 1 .. r : received[i] = sent[i]
          /\ \A i \in 2 .. m : data[L[i]] = sent[r + i - 1]
        BY <2>1 DEF Linked, HistoryIs
    <2>3. /\ Contents \in Seq(D) /\ Len(Contents) = m - 1
          /\ \A i \in 1 .. m - 1 : Contents[i] = data[L[i + 1]]
        BY <2>0, <2>1, WalkFinds
    <2>4. m \in Nat /\ m >= 1
        BY <2>1, EndsOfList
    <2> DEFINE both == received \o Contents
    <2> HIDE DEF m, D
    <2>5. /\ both \in Seq(D) /\ Len(both) = r + Len(Contents)
          /\ \A i \in 1 .. r : both[i] = received[i]
          /\ \A i \in 1 .. Len(Contents) : both[r + i] = Contents[i]
        <3>1. received \in Seq(D) /\ Contents \in Seq(D)
            BY <2>2, <2>3
        <3> HIDE DEF Contents
        <3> QED BY <3>1, Joined
    <2> HIDE DEF r, both
    <2>6. Len(both) = Len(sent) /\ Len(both) = r + (m - 1)
        BY <2>2, <2>3, <2>4, <2>5
    <2>7. ASSUME NEW i \in 1 .. Len(both) PROVE both[i] = sent[i]
        <3>1. CASE i <= r
            BY <2>2, <2>4, <2>5, <2>6, <3>1
        <3>2. CASE i > r
            <4>1. i - r \in 1 .. m - 1 /\ r + (i - r) = i
                BY <2>2, <2>4, <2>6, <3>2
            <4>2. both[i] = data[L[(i - r) + 1]]
                BY <2>3, <2>5, <4>1
            <4>3. (i - r) + 1 \in 2 .. m /\ r + ((i - r) + 1) - 1 = i
                BY <2>2, <2>4, <4>1
            <4> QED BY <2>2, <4>2, <4>3
        <3> QED BY <2>2, <2>4, <3>1, <3>2
    <2>8. both = sent
        BY <2>2, <2>5, <2>6, <2>7, SameSequence
    <2> QED BY <2>8 DEF both
<1> QED BY <1>1, QueueInvStays, PTL
=============================================================================
