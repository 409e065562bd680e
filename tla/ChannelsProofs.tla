--------------------------- MODULE ChannelsProofs ---------------------------
(***************************************************************************)
(* For every number of producers and consumers and every bound: neither    *)
(* buffer loses a wake-up, the ring keeps the order, and the queue         *)
(* implements BoundedChannel.                                              *)
(***************************************************************************)
EXTENDS Channels, ProofLemmas

(* What was accepted has been delivered or is in the queue, in order. *)
History == accepted = delivered \o queue_

(* The inductive invariant of the queue.  NoLostWakeup, with the types it  *)
(* contains, is inductive by itself; the refinement needs History as well. *)
QueueInv == NoLostWakeup /\ History
-----------------------------------------------------------------------------
(* What the proofs need to know of a function from threads to points. *)
LEMMA ThreadsFinite ==
    ASSUME NEW f \in [Threads -> Points]
    PROVE  /\ IsFiniteSet(DOMAIN f)
           /\ \A p : Cardinality(At(f, p)) \in Nat
<1>1. IsFiniteSet(Threads)
    BY ProducerConsumerQueueAssumption, FS_Union DEF Threads
<1>2. IsFiniteSet(DOMAIN f)
    BY <1>1
<1> QED BY <1>2, AtCounted

(* The types of the invariant, as the steps need them. *)
LEMMA QueueTypes ==
    ASSUME QueueInv
    PROVE  /\ max_size_ \in Nat /\ queue_ \in Seq(Producers) /\ Len(queue_) \in Nat
           /\ pc \in [Threads -> Points] /\ DOMAIN pc = Threads
           /\ IsFiniteSet(DOMAIN pc)
           /\ \A p : Cardinality(At(pc, p)) \in Nat
           /\ accepted \in Seq(Producers) /\ delivered \in Seq(Producers)
<1>1. TypeOK
    BY DEF QueueInv, NoLostWakeup
<1> QED BY <1>1, ThreadsFinite, ProducerConsumerQueueAssumption DEF TypeOK

(* The item that comes in is the last to come out. *)
LEMMA StoredLast ==
    ASSUME QueueInv, NEW p \in Producers
    PROVE  Append(delivered \o queue_, p) = delivered \o Append(queue_, p)
<1>1. delivered \in Seq(Producers) /\ queue_ \in Seq(Producers)
    BY QueueTypes
<1> QED BY <1>1

(* A push that queues its item and tells one of the sleeping consumers. *)
LEMMA PushStores ==
    ASSUME QueueInv, NEW p \in Producers, push(p), HasRoom, ~shutdown_,
           queue_' = Append(queue_, p), accepted' = Append(accepted, p),
           pc' \in NotifyOne(Move(pc, p, "pushed"), "no_item", "maybe_item")
    PROVE  QueueInv' /\ Channel!Send(p)
<1> DEFINE mid == Move(pc, p, "pushed")
<1>1. /\ p \in DOMAIN pc /\ pc[p] \in {"idle", "maybe_room"}
      /\ UNCHANGED <<max_size_, shutdown_, delivered>>
    BY QueueTypes DEF push, Threads
<1>2. /\ DOMAIN mid = DOMAIN pc /\ mid \in [Threads -> Points]
      /\ \A q : q # "pushed" /\ q # pc[p] => At(mid, q) = At(pc, q)
      /\ Cardinality(At(mid, "maybe_room")) >= Cardinality(At(pc, "maybe_room")) - 1
    <2>1. mid \in [Threads -> Points]
        BY QueueTypes DEF Move, Points
    <2>2. \A q : q # "pushed" /\ q # pc[p] => At(mid, q) = At(pc, q)
        BY <1>1, MoveAt
    <2>3. Cardinality(At(mid, "maybe_room")) >= Cardinality(At(pc, "maybe_room")) - 1
        BY <1>1, QueueTypes, MoveLosesOne
    <2> QED BY <2>1, <2>2, <2>3, QueueTypes
<1>3. /\ pc' \in [Threads -> Points]
      /\ \A q : q # "no_item" /\ q # "maybe_item" => At(pc', q) = At(mid, q)
      /\ \/ At(mid, "no_item") = {} /\ pc' = mid
         \/ /\ At(mid, "no_item") # {}
            /\ Cardinality(At(pc', "maybe_item")) = Cardinality(At(mid, "maybe_item")) + 1
    <2>1. pc' \in [Threads -> Points]
        BY <1>2, StepsKeepPoints DEF Points
    <2> QED BY <1>2, <2>1, ThreadsFinite, NotifyOneCounts
<1>4. TypeOK'
    BY <1>1, <1>3, QueueTypes DEF QueueInv, NoLostWakeup, TypeOK, HasRoom
<1>5. NoLostWakeup'
    <2>1. Len(queue_') = Len(queue_) + 1
        BY QueueTypes
    <2>2. /\ At(mid, "no_item") = At(pc, "no_item")
          /\ At(mid, "maybe_item") = At(pc, "maybe_item")
          /\ At(pc', "no_room") = At(pc, "no_room")
          /\ Cardinality(At(pc', "maybe_room")) >= Cardinality(At(pc, "maybe_room")) - 1
        BY <1>1, <1>2, <1>3
    <2>3. Cardinality(At(pc', "maybe_room")) \in Nat
        BY <1>3, ThreadsFinite
    <2>4. At(pc', "no_item") # {} =>
              ~shutdown_' /\ Cardinality(At(pc', "maybe_item")) >= Len(queue_')
        BY <1>1, <1>3, <2>1, <2>2, QueueTypes DEF QueueInv, NoLostWakeup
    <2>5. At(pc', "no_room") # {} =>
              ~shutdown_' /\ Cardinality(At(pc', "maybe_room")) >= max_size_' - Len(queue_')
        BY <1>1, <2>1, <2>2, <2>3, QueueTypes DEF QueueInv, NoLostWakeup
    <2> QED BY <1>4, <2>4, <2>5 DEF NoLostWakeup
<1>6. History'
    BY <1>1, StoredLast DEF QueueInv, History
<1>7. Channel!Send(p)
    <2>1. At(pc', "told") = At(pc, "told")
        BY <1>1, <1>2, <1>3
    <2>2. Len(accepted) - Len(delivered) = Len(queue_)
        BY QueueTypes DEF QueueInv, History
    <2> QED BY <1>1, <2>1, <2>2 DEF Channel!Send, HasRoom
<1> QED BY <1>5, <1>6, <1>7 DEF QueueInv

(* A thread that does no more than go from one control point to another.   *)
LEMMA OnlyMoves ==
    ASSUME QueueInv, NEW t \in Threads, NEW q \in Points, pc' = Move(pc, t, q),
           UNCHANGED <<max_size_, queue_, shutdown_, accepted, delivered>>,
           \/ q = "no_item" /\ pc[t] \in {"idle", "maybe_item"} /\ ~shutdown_ /\ queue_ = <<>>
           \/ q = "no_room" /\ pc[t] \in {"idle", "maybe_room"} /\ ~shutdown_ /\ ~HasRoom
           \/ q = "maybe_item" /\ pc[t] = "no_item"
           \/ q = "maybe_room" /\ pc[t] = "no_room"
           \/ q \in {"told", "thrown"} /\ shutdown_
    PROVE  QueueInv'
<1>1. t \in DOMAIN pc
    BY QueueTypes
<1>2. /\ pc' \in [Threads -> Points]
      /\ \A p : p # q => At(pc', p) \subseteq At(pc, p)
      /\ \A p : p # q /\ p # pc[t] => At(pc', p) = At(pc, p)
      /\ pc[t] # q => Cardinality(At(pc', q)) = Cardinality(At(pc, q)) + 1
    <2>1. pc' \in [Threads -> Points]
        BY QueueTypes, StepsKeepPoints
    <2>2. \A p : p # q => At(pc', p) \subseteq At(pc, p)
        BY <1>1, MoveAt
    <2>3. \A p : p # q /\ p # pc[t] => At(pc', p) = At(pc, p)
        BY <1>1, MoveAt
    <2>4. pc[t] # q => Cardinality(At(pc', q)) = Cardinality(At(pc, q)) + 1
        BY <1>1, QueueTypes, MoveGainsOne
    <2> QED BY <2>1, <2>2, <2>3, <2>4
<1>3. TypeOK' /\ History'
    BY <1>2 DEF QueueInv, NoLostWakeup, TypeOK, History
<1>4. \A p : Cardinality(At(pc', p)) \in Nat
    BY <1>2, ThreadsFinite
<1>5. At(pc', "no_item") # {} =>
          ~shutdown_' /\ Cardinality(At(pc', "maybe_item")) >= Len(queue_')
    <2>1. CASE q = "no_item"
        BY <1>4, <2>1
    <2>2. CASE q # "no_item"
        <3>1. SUFFICES ASSUME At(pc', "no_item") # {}
                       PROVE  ~shutdown_' /\ Cardinality(At(pc', "maybe_item")) >= Len(queue_')
            OBVIOUS
        <3>2. ~shutdown_ /\ Cardinality(At(pc, "maybe_item")) >= Len(queue_)
            BY <1>2, <2>2, <3>1 DEF QueueInv, NoLostWakeup
        <3>3. Cardinality(At(pc', "maybe_item")) >= Cardinality(At(pc, "maybe_item"))
            BY <1>2, <2>2, <3>2, QueueTypes
        <3> QED BY <3>2, <3>3, <1>4, QueueTypes
    <2> QED BY <2>1, <2>2
<1>6. At(pc', "no_room") # {} =>
          ~shutdown_' /\ Cardinality(At(pc', "maybe_room")) >= max_size_' - Len(queue_')
    <2>1. CASE q = "no_room"
        BY <1>4, <2>1, QueueTypes DEF HasRoom
    <2>2. CASE q # "no_room"
        <3>1. SUFFICES ASSUME At(pc', "no_room") # {}
                       PROVE  ~shutdown_' /\ Cardinality(At(pc', "maybe_room")) >= max_size_' - Len(queue_')
            OBVIOUS
        <3>2. ~shutdown_ /\ Cardinality(At(pc, "maybe_room")) >= max_size_ - Len(queue_)
            BY <1>2, <2>2, <3>1 DEF QueueInv, NoLostWakeup
        <3>3. Cardinality(At(pc', "maybe_room")) >= Cardinality(At(pc, "maybe_room"))
            BY <1>2, <2>2, <3>2, QueueTypes
        <3> QED BY <3>2, <3>3, <1>4, QueueTypes
    <2> QED BY <2>1, <2>2
<1> QED BY <1>3, <1>5, <1>6 DEF QueueInv, NoLostWakeup

(* An item goes to a consumer, and a sleeping producer, if any, is told.   *)
LEMMA TakeStep ==
    ASSUME QueueInv, NEW c \in Consumers, pc[c] \in {"idle", "maybe_item"}, Take(c),
           UNCHANGED <<max_size_, shutdown_, accepted>>
    PROVE  QueueInv' /\ Channel!Receive
<1> DEFINE mid == Move(pc, c, "idle")
<1>1. /\ c \in DOMAIN pc /\ queue_ # <<>>
      /\ queue_' = Tail(queue_) /\ delivered' = Append(delivered, Head(queue_))
      /\ IF max_size_ > 0 THEN pc' \in NotifyOne(mid, "no_room", "maybe_room") ELSE pc' = mid
    BY QueueTypes DEF Take, Threads
<1>2. /\ delivered' \o queue_' = delivered \o queue_
      /\ (delivered \o queue_)[Len(delivered) + 1] = Head(queue_)
      /\ Len(delivered) < Len(delivered \o queue_)
      /\ queue_' \in Seq(Producers) /\ delivered' \in Seq(Producers)
      /\ Len(queue_') = Len(queue_) - 1 /\ Len(queue_') \in Nat
    BY <1>1, QueueTypes, QueueShrinks
<1>3. /\ DOMAIN mid = DOMAIN pc /\ mid \in [Threads -> Points]
      /\ \A q : q # "idle" /\ q # pc[c] => At(mid, q) = At(pc, q)
      /\ Cardinality(At(mid, "maybe_item")) >= Cardinality(At(pc, "maybe_item")) - 1
    <2>1. mid \in [Threads -> Points]
        BY QueueTypes DEF Move, Points
    <2>2. \A q : q # "idle" /\ q # pc[c] => At(mid, q) = At(pc, q)
        BY <1>1, MoveAt
    <2>3. Cardinality(At(mid, "maybe_item")) >= Cardinality(At(pc, "maybe_item")) - 1
        BY <1>1, QueueTypes, MoveLosesOne
    <2> QED BY <2>1, <2>2, <2>3, QueueTypes
<1>4. /\ pc' \in [Threads -> Points]
      /\ \A q : q # "no_room" /\ q # "maybe_room" => At(pc', q) = At(mid, q)
      /\ max_size_ > 0 =>
            \/ At(mid, "no_room") = {} /\ pc' = mid
            \/ /\ At(mid, "no_room") # {}
               /\ Cardinality(At(pc', "maybe_room")) = Cardinality(At(mid, "maybe_room")) + 1
    <2>1. CASE max_size_ > 0
        <3>1. pc' \in [Threads -> Points]
            BY <1>1, <1>3, <2>1, StepsKeepPoints DEF Points
        <3>2. pc' \in NotifyOne(mid, "no_room", "maybe_room") /\ IsFiniteSet(DOMAIN mid)
            BY <1>1, <1>3, <2>1, QueueTypes
        <3> QED BY <3>1, <3>2, NotifyOneCounts
    <2>2. CASE ~(max_size_ > 0)
        BY <1>1, <1>3, <2>2
    <2> QED BY <2>1, <2>2
<1>5. TypeOK'
    BY <1>1, <1>2, <1>4, QueueTypes DEF QueueInv, NoLostWakeup, TypeOK
<1>6. NoLostWakeup'
    <2>1. /\ At(mid, "no_room") = At(pc, "no_room")
          /\ At(mid, "maybe_room") = At(pc, "maybe_room")
          /\ At(pc', "no_item") = At(pc, "no_item")
          /\ Cardinality(At(pc', "maybe_item")) >= Cardinality(At(pc, "maybe_item")) - 1
        BY <1>3, <1>4
    <2>2. \A q : Cardinality(At(pc', q)) \in Nat
        BY <1>4, ThreadsFinite
    <2>3. At(pc', "no_item") # {} =>
              ~shutdown_' /\ Cardinality(At(pc', "maybe_item")) >= Len(queue_')
        BY <1>2, <2>1, <2>2, QueueTypes DEF QueueInv, NoLostWakeup
    <2>4. At(pc', "no_room") # {} =>
              ~shutdown_' /\ Cardinality(At(pc', "maybe_room")) >= max_size_' - Len(queue_')
        <3>1. CASE max_size_ > 0
            <4>1. SUFFICES ASSUME At(pc', "no_room") # {}
                  PROVE ~shutdown_' /\ Cardinality(At(pc', "maybe_room")) >= max_size_' - Len(queue_')
                OBVIOUS
            <4>2. At(pc, "no_room") # {}
                BY <1>4, <2>1, <3>1, <4>1
            <4>3. ~shutdown_ /\ Cardinality(At(pc, "maybe_room")) >= max_size_ - Len(queue_)
                BY <4>2 DEF QueueInv, NoLostWakeup
            <4>4. Cardinality(At(pc', "maybe_room")) = Cardinality(At(pc, "maybe_room")) + 1
                BY <1>4, <2>1, <3>1, <4>1
            <4> QED BY <1>2, <4>3, <4>4, QueueTypes
        <3>2. CASE max_size_ = 0
            BY <1>1, <1>2, <2>1, <2>2, <3>2, QueueTypes DEF QueueInv, NoLostWakeup
        <3> QED BY <3>1, <3>2, QueueTypes
    <2> QED BY <1>5, <2>3, <2>4 DEF NoLostWakeup
<1>7. History'
    BY <1>2 DEF QueueInv, History
<1>8. Channel!Receive
    <2>1. At(pc', "told") = At(pc, "told")
        BY <1>3, <1>4
    <2> QED BY <1>1, <1>2, <2>1 DEF Channel!Receive, QueueInv, History
<1> QED BY <1>6, <1>7, <1>8 DEF QueueInv
-----------------------------------------------------------------------------
(* push: the item is queued, or the call throws, or the producer sleeps.   *)
LEMMA PushStep ==
    ASSUME QueueInv, NEW p \in Producers, push(p)
    PROVE  QueueInv' /\ [Channel!Next]_Channel!vars
<1>1. p \in Threads /\ UNCHANGED <<max_size_, shutdown_, delivered>>
      /\ pc[p] \in {"idle", "maybe_room"}
    BY DEF push, Threads
<1>2. CASE /\ HasRoom /\ ~shutdown_
           /\ queue_' = Append(queue_, p) /\ accepted' = Append(accepted, p)
           /\ pc' \in NotifyOne(Move(pc, p, "pushed"), "no_item", "maybe_item")
    BY <1>2, PushStores DEF Channel!Next
<1>3. ASSUME NEW q \in {"thrown", "no_room"}, pc' = Move(pc, p, q),
             UNCHANGED <<queue_, accepted>>,
             \/ q = "thrown" /\ shutdown_
             \/ q = "no_room" /\ ~HasRoom /\ ~shutdown_
      PROVE  QueueInv' /\ UNCHANGED Channel!vars
    <2>1. QueueInv'
        BY <1>1, <1>3, OnlyMoves DEF Points
    <2>2. At(pc', "told") = At(pc, "told")
        BY <1>1, <1>3, QueueTypes, MoveAt
    <2> QED BY <1>1, <1>3, <2>1, <2>2 DEF Channel!vars
<1>4. CASE shutdown_ /\ pc' = Move(pc, p, "thrown") /\ UNCHANGED <<queue_, accepted>>
    BY <1>3, <1>4
<1>5. CASE ~HasRoom /\ ~shutdown_ /\ pc' = Move(pc, p, "no_room")
           /\ UNCHANGED <<queue_, accepted>>
    BY <1>3, <1>5
<1> QED BY <1>2, <1>4, <1>5 DEF push

(* pop: an item, or the news that there will be none, or sleep. *)
LEMMA PopStep ==
    ASSUME QueueInv, NEW c \in Consumers, pop(c)
    PROVE  QueueInv' /\ [Channel!Next]_Channel!vars
<1>1. c \in Threads /\ UNCHANGED <<max_size_, shutdown_, accepted>>
      /\ pc[c] \in {"idle", "maybe_item"}
    BY DEF pop, Threads
<1>2. CASE Take(c)
    BY <1>1, <1>2, TakeStep DEF Channel!Next
<1>3. CASE /\ queue_ = <<>> /\ shutdown_ /\ pc' = Move(pc, c, "told")
           /\ UNCHANGED <<queue_, delivered>>
    <2>1. QueueInv'
        BY <1>1, <1>3, OnlyMoves DEF Points
    <2>2. At(pc', "told") = At(pc, "told") \cup {c}
        BY <1>1, <1>3, QueueTypes, MoveAt
    <2>3. delivered = accepted
        BY <1>3, QueueTypes DEF QueueInv, History
    <2>4. Channel!Tell(c)
        BY <1>1, <1>3, <2>2, <2>3 DEF Channel!Tell
    <2> QED BY <2>1, <2>4 DEF Channel!Next
<1>4. CASE /\ queue_ = <<>> /\ ~shutdown_ /\ pc' = Move(pc, c, "no_item")
           /\ UNCHANGED <<queue_, delivered>>
    <2>1. QueueInv'
        BY <1>1, <1>4, OnlyMoves DEF Points
    <2>2. At(pc', "told") = At(pc, "told")
        BY <1>1, <1>4, QueueTypes, MoveAt
    <2> QED BY <1>1, <1>4, <2>1, <2>2 DEF Channel!vars
<1> QED BY <1>1, <1>2, <1>3, <1>4 DEF pop

(* shutdown: nobody sleeps any more, and nobody will. *)
LEMMA ShutdownStep ==
    ASSUME QueueInv, shutdown
    PROVE  QueueInv' /\ Channel!Close
<1> DEFINE mid == NotifyAll(pc, "no_item", "maybe_item")
<1>1. /\ shutdown_' = TRUE /\ UNCHANGED <<max_size_, queue_, accepted, delivered>>
      /\ pc' = NotifyAll(mid, "no_room", "maybe_room")
    BY DEF shutdown
<1>2. mid \in [Threads -> Points] /\ pc' \in [Threads -> Points]
    BY <1>1, QueueTypes DEF NotifyAll, Points
<1>3. /\ At(pc', "no_room") = {} /\ At(pc', "no_item") = {}
      /\ At(pc', "told") = At(pc, "told")
    BY <1>1, NotifyAllAt
<1>4. QueueInv'
    BY <1>1, <1>2, <1>3 DEF QueueInv, NoLostWakeup, TypeOK, History
<1> QED BY <1>1, <1>3, <1>4 DEF Channel!Close

(* A spurious wake-up adds to those that look at the queue again. *)
LEMMA QueueWakeStep ==
    ASSUME QueueInv, NEW t \in Threads, SpuriousWakeup(t)
    PROVE  QueueInv' /\ UNCHANGED Channel!vars
<1>1. PICK q \in {"maybe_item", "maybe_room"} :
          /\ pc' = Move(pc, t, q)
          /\ q = "maybe_item" => pc[t] = "no_item"
          /\ q = "maybe_room" => pc[t] = "no_room"
    BY DEF SpuriousWakeup
<1>2. UNCHANGED <<max_size_, queue_, shutdown_, accepted, delivered>>
    BY DEF SpuriousWakeup
<1>3. QueueInv'
    BY <1>1, <1>2, OnlyMoves DEF Points
<1>4. At(pc', "told") = At(pc, "told")
    BY <1>1, QueueTypes, MoveAt
<1> QED BY <1>2, <1>3, <1>4 DEF Channel!vars

(* Every step keeps the invariant, and is a step of the channel or none.   *)
LEMMA QueueStep ==
    QueueInv /\ [Next]_vars => QueueInv' /\ [Channel!Next]_Channel!vars
<1> SUFFICES ASSUME QueueInv, [Next]_vars
             PROVE  QueueInv' /\ [Channel!Next]_Channel!vars
    OBVIOUS
<1>1. ASSUME NEW p \in Producers, push(p)
      PROVE  QueueInv' /\ [Channel!Next]_Channel!vars
    BY <1>1, PushStep
<1>2. ASSUME NEW c \in Consumers, pop(c)
      PROVE  QueueInv' /\ [Channel!Next]_Channel!vars
    BY <1>2, PopStep
<1>3. ASSUME NEW c \in Consumers, try_pop(c)
      PROVE  QueueInv' /\ [Channel!Next]_Channel!vars
    BY <1>3, TakeStep DEF try_pop, Channel!Next
<1>4. CASE shutdown
    BY <1>4, ShutdownStep DEF Channel!Next
<1>5. ASSUME NEW t \in Threads, SpuriousWakeup(t)
      PROVE  QueueInv' /\ [Channel!Next]_Channel!vars
    BY <1>5, QueueWakeStep
<1>6. CASE UNCHANGED vars
    BY <1>6 DEF vars, QueueInv, NoLostWakeup, TypeOK, History, Channel!vars
<1> QED BY <1>1, <1>2, <1>3, <1>4, <1>5, <1>6 DEF Next

(* The constructor's state is that of an empty channel. *)
LEMMA QueueStart == Init => QueueInv /\ Channel!Init
<1> SUFFICES ASSUME Init PROVE QueueInv /\ Channel!Init
    OBVIOUS
<1>1. /\ At(pc, "no_item") = {} /\ At(pc, "no_room") = {} /\ At(pc, "told") = {}
      /\ pc \in [Threads -> Points]
    BY DEF Init, At, Points
<1>2. TypeOK
    <2>1. max_size_ \in Nat /\ queue_ = <<>> /\ Len(queue_) = 0
        BY ProducerConsumerQueueAssumption DEF Init
    <2>2. max_size_ > 0 => Len(queue_) <= max_size_
        BY <2>1
    <2>3. <<>> \in Seq(Producers)
        OBVIOUS
    <2>4. queue_ \in Seq(Producers) /\ accepted \in Seq(Producers)
          /\ delivered \in Seq(Producers)
        BY <2>3, Zenon DEF Init
    <2>5. max_size_ \in Bounds /\ shutdown_ \in BOOLEAN
        BY Zenon DEF Init
    <2> QED BY <1>1, <2>2, <2>4, <2>5 DEF TypeOK
<1> QED BY <1>1, <1>2, ProducerConsumerQueueAssumption
        DEF Init, QueueInv, NoLostWakeup, History, Channel!Init

(* No producer and no consumer of the queue sleeps for want of a           *)
(* notification, whoever barges in.                                        *)
THEOREM QueueLosesNoWakeup == Spec => []NoLostWakeup
<1>1. QueueInv => NoLostWakeup
    BY DEF QueueInv
<1> QED BY <1>1, QueueStart, QueueStep, PTL DEF Spec

(* The queue implements the channel: items come out once each, in order,   *)
(* none is accepted beyond the bound or after shutdown, and pop returns    *)
(* false only when all have been handed out.                               *)
THEOREM QueueIsChannel == Spec => ImplementsChannel
<1> QED BY QueueStart, QueueStep, PTL DEF Spec, ImplementsChannel, Channel!Spec
-----------------------------------------------------------------------------
(* CircularBuffer, as Channels uses it.                                    *)
RingThreads == RingPushers \cup Consumers
RingPoints == {"idle", "no_room", "maybe_room", "stored", "pushed",
               "no_item", "maybe_item", "fetched"}

(* How many items a ring of n places holds between head h and tail t.      *)
SizeOf(n, h, t) == IF t >= h THEN t - h ELSE n - h + t
Held == SizeOf(Len(buf_), head_, tail_)
InRing == [i \in 1 .. Held |-> buf_[((head_ + i - 1) % Len(buf_)) + 1]]

(* The threads that are about to look at the ring, or about to notify. *)
Underway(f, a, b) == At(f, a) \cup At(f, b)

(* The inductive invariant of the ring: the types (the ring is never       *)
(* resized, and holds pushed items only), the order, and the two           *)
(* conditions on those that sleep.                                         *)
RingTypes ==
    /\ Len(buf_) \in Nat \ {0}
    /\ buf_ \in Seq(RingPushers \cup {Ring!Nothing})
    /\ head_ \in 0 .. Len(buf_) - 1
    /\ tail_ \in 0 .. Len(buf_) - 1
    /\ ring_pc \in [RingThreads -> RingPoints]
    /\ InRing \in Seq(RingPushers)
    /\ left \in Seq(RingPushers)
    /\ ring_accepted \in Seq(RingPushers)
    /\ cleared \in BOOLEAN
OrderKept == left \o InRing = ring_accepted
ItemsAnnounced ==
    At(ring_pc, "no_item") # {} =>
        Cardinality(Underway(ring_pc, "maybe_item", "stored")) >= Held
PlacesAnnounced ==
    At(ring_pc, "no_room") # {} /\ ~cleared =>
        Cardinality(Underway(ring_pc, "maybe_room", "fetched")) >= Len(buf_) - 1 - Held
RingInv == RingTypes /\ OrderKept /\ ItemsAnnounced /\ PlacesAnnounced
-----------------------------------------------------------------------------
(* The ring's arithmetic, of n places, head h and tail t: the size lies    *)
(* below n, ...                                                            *)
LEMMA RingBounds ==
    ASSUME NEW n \in Nat \ {0}, NEW h \in 0 .. n - 1, NEW t \in 0 .. n - 1
    PROVE  /\ SizeOf(n, h, t) \in 0 .. n - 1
           /\ SizeOf(n, h, t) = 0 <=> h = t
           /\ (t + 1) % n = h <=> SizeOf(n, h, t) = n - 1
           /\ (t + 1) % n \in 0 .. n - 1
           /\ (h + 1) % n \in 0 .. n - 1
<1>1. /\ (t + 1) % n = IF t + 1 < n THEN t + 1 ELSE t + 1 - n
      /\ (h + 1) % n = IF h + 1 < n THEN h + 1 ELSE h + 1 - n
    OBVIOUS
<1> QED BY <1>1 DEF SizeOf

(* ... the items lie from h to before t, so that a new one goes behind     *)
(* them, ...                                                               *)
LEMMA RingGrows ==
    ASSUME NEW n \in Nat \ {0}, NEW h \in 0 .. n - 1, NEW t \in 0 .. n - 1,
           (t + 1) % n # h
    PROVE  /\ SizeOf(n, h, (t + 1) % n) = SizeOf(n, h, t) + 1
           /\ (h + SizeOf(n, h, t)) % n = t
           /\ \A i \in 1 .. SizeOf(n, h, t) :
                 (h + i - 1) % n \in 0 .. n - 1 /\ (h + i - 1) % n # t
<1>1. (t + 1) % n = IF t + 1 < n THEN t + 1 ELSE t + 1 - n
    OBVIOUS
<1>2. SizeOf(n, h, t) \in 0 .. n - 1
    BY DEF SizeOf
<1>3. (h + SizeOf(n, h, t)) % n = t
    BY <1>2 DEF SizeOf
<1>4. ASSUME NEW i \in 1 .. SizeOf(n, h, t)
      PROVE  (h + i - 1) % n \in 0 .. n - 1 /\ (h + i - 1) % n # t
    <2>1. /\ h + i - 1 \in Nat /\ h + i - 1 < 2 * n
        BY <1>2
    <2>2. (h + i - 1) % n = IF h + i - 1 < n THEN h + i - 1 ELSE h + i - 1 - n
        BY <2>1
    <2> QED BY <1>2, <2>1, <2>2 DEF SizeOf
<1> QED BY <1>1, <1>3, <1>4 DEF SizeOf

(* ... and without the first they lie from the next place on.              *)
LEMMA RingShrinks ==
    ASSUME NEW n \in Nat \ {0}, NEW h \in 0 .. n - 1, NEW t \in 0 .. n - 1, h # t
    PROVE  /\ SizeOf(n, (h + 1) % n, t) = SizeOf(n, h, t) - 1
           /\ \A i \in 1 .. SizeOf(n, h, t) - 1 :
                 (((h + 1) % n) + i - 1) % n = (h + (i + 1) - 1) % n
           /\ (h + 1 - 1) % n = h
<1>0. (h + 1 - 1) % n = h
    OBVIOUS
<1>1. (h + 1) % n = IF h + 1 < n THEN h + 1 ELSE h + 1 - n
    OBVIOUS
<1>2. SizeOf(n, h, t) \in 0 .. n - 1
    BY DEF SizeOf
<1>3. ASSUME NEW i \in 1 .. SizeOf(n, h, t) - 1
      PROVE  (((h + 1) % n) + i - 1) % n = (h + (i + 1) - 1) % n
    <2>1. CASE h + 1 < n
        BY <1>1, <1>2, <2>1
    <2>2. CASE h + 1 = n
        <3>1. ((h + 1) % n) + i - 1 = i - 1 /\ h + (i + 1) - 1 = n + (i - 1)
            BY <1>1, <2>2
        <3>2. (i - 1) % n = i - 1 /\ (n + (i - 1)) % n = i - 1
            BY <1>2
        <3> QED BY <3>1, <3>2
    <2> QED BY <2>1, <2>2
<1> QED BY <1>0, <1>1, <1>3 DEF SizeOf
-----------------------------------------------------------------------------
(* The instance brings operators of its own for threads: they are those of *)
(* the lemmas.                                                             *)
LEMMA SameOperators ==
    /\ Ring!Threads = RingThreads
    /\ \A f, p : Ring!At(f, p) = At(f, p)
    /\ \A f, t, q : Ring!Move(f, t, q) = Move(f, t, q)
    /\ \A f, a, w : Ring!NotifyOne(f, a, w) = NotifyOne(f, a, w)
    /\ \A T : Ring!Cardinality(T) = Cardinality(T)
<1>1. \A f, p : Ring!At(f, p) = At(f, p)
    BY DEF Ring!At, At
<1>2. \A f, t, q : Ring!Move(f, t, q) = Move(f, t, q)
    BY DEF Ring!Move, Move
<1>3. \A f, a, w : Ring!NotifyOne(f, a, w) = NotifyOne(f, a, w)
    BY <1>1, <1>2 DEF Ring!NotifyOne, NotifyOne
<1>4. \A T : Ring!Cardinality(T) = Cardinality(T)
    BY DEF Ring!Cardinality, Cardinality
<1> QED BY <1>1, <1>2, <1>3, <1>4 DEF Ring!Threads, RingThreads

(* The names of the ring's quantities in terms of the lemmas' operators.   *)
LEMMA RingTerms ==
    /\ Ring!max_size_ = Len(buf_) /\ Ring!capacity = Len(buf_) - 1
    /\ Ring!size = Held
    /\ Ring!empty <=> head_ = tail_
    /\ Ring!full <=> (tail_ + 1) % Len(buf_) = head_
    /\ Ring!Content = InRing
    BY DEF Ring!max_size_, Ring!capacity, Ring!size, Ring!empty, Ring!full, Ring!Content,
           Ring!Place, SizeOf, Held, InRing

(* What the proofs need to know of the threads. *)
LEMMA RingThreadsFinite ==
    ASSUME NEW f \in [RingThreads -> RingPoints]
    PROVE  /\ IsFiniteSet(DOMAIN f)
           /\ DOMAIN f = RingThreads
<1>1. IsFiniteSet(RingThreads)
    BY ProducerConsumerQueueAssumption, ChannelsAssumption, FS_Union DEF RingThreads
<1> QED BY <1>1

(* Those underway are finitely many. *)
LEMMA UnderwayCounted ==
    ASSUME NEW f, IsFiniteSet(DOMAIN f), NEW a, NEW b
    PROVE  /\ IsFiniteSet(Underway(f, a, b))
           /\ Cardinality(Underway(f, a, b)) \in Nat
<1>1. Underway(f, a, b) \subseteq DOMAIN f
    BY DEF Underway, At
<1> QED BY <1>1, FS_Subset, FS_CardinalityType

(* A thread that goes away takes no more than itself from those underway,  *)
(* and one that comes adds itself to them.                                 *)
LEMMA UnderwayMoves ==
    ASSUME NEW f, IsFiniteSet(DOMAIN f), NEW t \in DOMAIN f, NEW q, NEW a, NEW b
    PROVE  /\ Cardinality(Underway(Move(f, t, q), a, b))
                 >= Cardinality(Underway(f, a, b)) - 1
           /\ q \in {a, b} /\ f[t] \notin {a, b} =>
                 Cardinality(Underway(Move(f, t, q), a, b))
                    = Cardinality(Underway(f, a, b)) + 1
           /\ q \notin {a, b} /\ f[t] \notin {a, b} =>
                 Underway(Move(f, t, q), a, b) = Underway(f, a, b)
<1> DEFINE U == Underway(f, a, b)
           V == Underway(Move(f, t, q), a, b)
<1>1. IsFiniteSet(U) /\ Cardinality(U) \in Nat
    BY UnderwayCounted
<1>2. ASSUME q \in {a, b}, f[t] \notin {a, b}
      PROVE  Cardinality(V) = Cardinality(U) + 1
    <2>1. V = U \cup {t} /\ t \notin U
        BY <1>2 DEF Underway, At, Move
    <2> QED BY <1>1, <2>1, FS_AddElement
<1>3. ASSUME q \notin {a, b}, f[t] \in {a, b}
      PROVE  Cardinality(V) = Cardinality(U) - 1
    <2>1. V = U \ {t} /\ t \in U
        BY <1>3 DEF Underway, At, Move
    <2> QED BY <1>1, <2>1, FS_RemoveElement
<1>4. ASSUME q \notin {a, b}, f[t] \notin {a, b}
      PROVE  V = U
    BY <1>4 DEF Underway, At, Move
<1>5. ASSUME q \in {a, b}, f[t] \in {a, b}
      PROVE  V = U
    BY <1>5 DEF Underway, At, Move
<1>6. \/ Cardinality(V) = Cardinality(U)
      \/ Cardinality(V) = Cardinality(U) - 1
      \/ Cardinality(V) = Cardinality(U) + 1
    BY <1>2, <1>3, <1>4, <1>5, Zenon
<1>7. Cardinality(V) >= Cardinality(U) - 1
    <2> HIDE DEF U, V
    <2> QED BY <1>1, <1>6
<1> QED BY <1>2, <1>4, <1>7, Zenon

(* notify_one adds one to those underway, or nobody sleeps and it is lost. *)
LEMMA UnderwayNotified ==
    ASSUME NEW f, IsFiniteSet(DOMAIN f), NEW s, NEW a, NEW b, s \notin {a, b},
           NEW g \in NotifyOne(f, s, a)
    PROVE  \/ At(f, s) = {} /\ g = f
           \/ Cardinality(Underway(g, a, b)) = Cardinality(Underway(f, a, b)) + 1
<1>1. ASSUME NEW t \in DOMAIN f, f[t] = s, g = Move(f, t, a)
      PROVE  Cardinality(Underway(g, a, b)) = Cardinality(Underway(f, a, b)) + 1
    BY <1>1, UnderwayMoves
<1>2. \/ At(f, s) = {} /\ g = f
      \/ \E t \in DOMAIN f : f[t] = s /\ g = Move(f, t, a)
    BY DEF NotifyOne, At
<1> QED BY <1>1, <1>2
-----------------------------------------------------------------------------
(* A sequence is known by its elements. *)
LEMMA AppendIs ==
    ASSUME NEW S, NEW s \in Seq(S), NEW x \in S, NEW t \in Seq(S),
           Len(t) = Len(s) + 1, \A i \in 1 .. Len(s) : t[i] = s[i], t[Len(s) + 1] = x
    PROVE  t = Append(s, x)
    OBVIOUS

(* So is its tail. *)
LEMMA TailIs ==
    ASSUME NEW S, NEW s \in Seq(S), s # <<>>, NEW t \in Seq(S),
           Len(t) = Len(s) - 1, \A i \in 1 .. Len(t) : t[i] = s[i + 1]
    PROVE  t = Tail(s)
    OBVIOUS

(* What the types say of the quantities the steps compare. *)
LEMMA RingFacts ==
    ASSUME RingTypes
    PROVE  /\ IsFiniteSet(DOMAIN ring_pc) /\ DOMAIN ring_pc = RingThreads
           /\ Held \in 0 .. Len(buf_) - 1
           /\ Len(InRing) = Held
           /\ \A a, b : Cardinality(Underway(ring_pc, a, b)) \in Nat
<1>1. Held \in 0 .. Len(buf_) - 1
    BY RingBounds DEF RingTypes, Held
<1>2. Len(InRing) = Held
    BY <1>1 DEF InRing
<1>3. IsFiniteSet(DOMAIN ring_pc) /\ DOMAIN ring_pc = RingThreads
    BY RingThreadsFinite DEF RingTypes
<1> QED BY <1>1, <1>2, <1>3, UnderwayCounted

(* push on a ring with room. *)
LEMMA RingStores ==
    ASSUME RingInv, NEW p \in RingPushers, ring_pc[p] \in {"idle", "maybe_room"},
           (tail_ + 1) % Len(buf_) # head_,
           buf_' = [buf_ EXCEPT ![tail_ + 1] = p],
           tail_' = (tail_ + 1) % Len(buf_),
           ring_accepted' = Append(ring_accepted, p),
           ring_pc' = Move(ring_pc, p, "stored"),
           UNCHANGED <<head_, left, cleared>>
    PROVE  RingInv'
<1> USE DEF RingInv
<1>0. /\ Len(buf_) \in Nat \ {0} /\ buf_ \in Seq(RingPushers \cup {Ring!Nothing})
      /\ head_ \in 0 .. Len(buf_) - 1 /\ tail_ \in 0 .. Len(buf_) - 1
    BY DEF RingTypes
<1>1. /\ Len(buf_') = Len(buf_)
      /\ buf_' \in Seq(RingPushers \cup {Ring!Nothing})
      /\ tail_' \in 0 .. Len(buf_) - 1
    <2>1. tail_ + 1 \in 1 .. Len(buf_)
        BY <1>0
    <2>2. Len(buf_') = Len(buf_) /\ buf_' \in Seq(RingPushers \cup {Ring!Nothing})
        BY <1>0, <2>1
    <2>3. (tail_ + 1) % Len(buf_) \in 0 .. Len(buf_) - 1
        BY <1>0
    <2> QED BY <2>2, <2>3
<1>2. /\ Held' = Held + 1
      /\ (head_ + Held) % Len(buf_) = tail_
      /\ \A i \in 1 .. Held : /\ (head_ + i - 1) % Len(buf_) \in 0 .. Len(buf_) - 1
                              /\ (head_ + i - 1) % Len(buf_) # tail_
    BY <1>1, RingGrows DEF RingTypes, Held
<1>3. InRing' = Append(InRing, p)
    <2>1. InRing' = [i \in 1 .. Held + 1 |-> buf_'[((head_ + i - 1) % Len(buf_)) + 1]]
        BY <1>1, <1>2 DEF InRing
    <2>0. \A j \in 0 .. Len(buf_) - 1 :
              buf_'[j + 1] = IF j = tail_ THEN p ELSE buf_[j + 1]
        BY <1>0
    <2>2. ASSUME NEW i \in 1 .. Held
          PROVE  buf_'[((head_ + i - 1) % Len(buf_)) + 1] = InRing[i]
        <3>1. InRing[i] = buf_[((head_ + i - 1) % Len(buf_)) + 1]
            BY DEF InRing
        <3>2. /\ (head_ + i - 1) % Len(buf_) \in 0 .. Len(buf_) - 1
              /\ (head_ + i - 1) % Len(buf_) # tail_
            BY <1>2
        <3> QED BY <2>0, <3>1, <3>2
    <2>3. buf_'[((head_ + (Held + 1) - 1) % Len(buf_)) + 1] = p
        <3>1. Held \in Int
            BY RingFacts
        <3>2. head_ + (Held + 1) - 1 = head_ + Held
            BY <1>0, <3>1
        <3> QED BY <1>0, <1>2, <2>0, <3>2
    <2>4. InRing \in Seq(RingPushers) /\ Len(InRing) = Held /\ Held \in Nat
        BY RingFacts DEF RingTypes
    <2>5. /\ \A i \in 1 .. Held : InRing'[i] = InRing[i]
          /\ InRing'[Held + 1] = p
        BY <2>1, <2>2, <2>3, <2>4
    <2>6. \A i \in 1 .. Held : InRing[i] \in RingPushers
        BY <2>4
    <2>7. InRing' \in [1 .. Held + 1 -> RingPushers]
        <3>1. \A i \in 1 .. Held + 1 : i \in 1 .. Held \/ i = Held + 1
            BY <2>4
        <3>2. \A i \in 1 .. Held + 1 : InRing'[i] \in RingPushers
            BY <2>5, <2>6, <3>1, Zenon
        <3>3. InRing' = [i \in 1 .. Held + 1 |-> InRing'[i]]
            BY <2>1
        <3> QED BY <3>2, <3>3
    <2>8. InRing' \in Seq(RingPushers) /\ Len(InRing') = Held + 1
        BY <2>4, <2>7
    <2> QED BY <2>4, <2>5, <2>8, AppendIs
<1>4. p \in DOMAIN ring_pc
    BY RingFacts DEF RingThreads
<1>5. RingTypes'
    <2>1. ring_pc' \in [RingThreads -> RingPoints]
        BY DEF RingTypes, Move, RingPoints
    <2>2. InRing' \in Seq(RingPushers) /\ ring_accepted' \in Seq(RingPushers)
        BY <1>3 DEF RingTypes
    <2>3. /\ Len(buf_') \in Nat \ {0}
          /\ head_' \in 0 .. Len(buf_') - 1 /\ tail_' \in 0 .. Len(buf_') - 1
        BY <1>0, <1>1
    <2> QED BY <1>1, <2>1, <2>2, <2>3 DEF RingTypes
<1>6. OrderKept'
    <2>1. left \in Seq(RingPushers) /\ InRing \in Seq(RingPushers)
        BY DEF RingTypes
    <2>2. left \o Append(InRing, p) = Append(left \o InRing, p)
        BY <2>1
    <2> QED BY <1>3, <2>2 DEF OrderKept
<1>7. ItemsAnnounced'
    <2>1. Cardinality(Underway(ring_pc', "maybe_item", "stored"))
              = Cardinality(Underway(ring_pc, "maybe_item", "stored")) + 1
        BY <1>4, RingFacts, UnderwayMoves
    <2>2. At(ring_pc', "no_item") = At(ring_pc, "no_item")
        BY <1>4, MoveAt
    <2> QED BY <1>2, <2>1, <2>2, RingFacts DEF ItemsAnnounced
<1>8. PlacesAnnounced'
    <2>1. Cardinality(Underway(ring_pc', "maybe_room", "fetched"))
              >= Cardinality(Underway(ring_pc, "maybe_room", "fetched")) - 1
        BY <1>4, RingFacts, UnderwayMoves
    <2>2. At(ring_pc', "no_room") = At(ring_pc, "no_room")
        BY <1>4, MoveAt
    <2>3. Cardinality(Underway(ring_pc', "maybe_room", "fetched")) \in Nat
        BY <1>4, RingFacts, MoveAt, UnderwayCounted
    <2>4. Cardinality(Underway(ring_pc, "maybe_room", "fetched")) \in Nat /\ Held \in Nat
        BY RingFacts
    <2> QED BY <1>0, <1>1, <1>2, <2>1, <2>2, <2>3, <2>4 DEF PlacesAnnounced
<1> QED BY <1>5, <1>6, <1>7, <1>8

(* pop on a ring that is not empty. *)
LEMMA RingTakes ==
    ASSUME RingInv, NEW c \in Consumers, ring_pc[c] \in {"idle", "maybe_item"},
           head_ # tail_,
           left' = Append(left, buf_[head_ + 1]),
           head_' = (head_ + 1) % Len(buf_),
           ring_pc' = Move(ring_pc, c, "fetched"),
           UNCHANGED <<buf_, tail_, ring_accepted, cleared>>
    PROVE  RingInv'
<1> USE DEF RingInv
<1>0. /\ Len(buf_) \in Nat \ {0} /\ InRing \in Seq(RingPushers)
      /\ head_ \in 0 .. Len(buf_) - 1 /\ tail_ \in 0 .. Len(buf_) - 1
      /\ Held \in Nat /\ Len(InRing) = Held
    BY RingFacts DEF RingTypes
<1>1. head_' \in 0 .. Len(buf_) - 1
    BY <1>0
<1>2. /\ Held' = Held - 1 /\ Held > 0
      /\ \A i \in 1 .. Held - 1 :
            (head_' + i - 1) % Len(buf_) = (head_ + (i + 1) - 1) % Len(buf_)
    <2>1. SizeOf(Len(buf_), head_, tail_) # 0
        BY <1>0 DEF SizeOf
    <2>2. SizeOf(Len(buf_), (head_ + 1) % Len(buf_), tail_) = SizeOf(Len(buf_), head_, tail_) - 1
        BY <1>0, RingShrinks
    <2>3. \A i \in 1 .. SizeOf(Len(buf_), head_, tail_) - 1 :
              (((head_ + 1) % Len(buf_)) + i - 1) % Len(buf_) = (head_ + (i + 1) - 1) % Len(buf_)
        BY <1>0, RingShrinks
    <2>4. Held' = SizeOf(Len(buf_), (head_ + 1) % Len(buf_), tail_)
        BY DEF Held
    <2>5. Held = SizeOf(Len(buf_), head_, tail_)
        BY DEF Held
    <2>6. Held' = Held - 1 /\ Held > 0
        BY <1>0, <2>1, <2>2, <2>4, <2>5
    <2> QED BY <2>3, <2>5, <2>6
<1>3. InRing # <<>> /\ Head(InRing) = buf_[head_ + 1]
    <2>1. InRing[1] = buf_[((head_ + 1 - 1) % Len(buf_)) + 1]
        BY <1>0, <1>2 DEF InRing
    <2>2. (head_ + 1 - 1) % Len(buf_) = head_
        BY <1>0, RingShrinks
    <2> QED BY <1>0, <1>2, <2>1, <2>2
<1>4. InRing' = Tail(InRing)
    <2>1. InRing' = [i \in 1 .. Held - 1 |-> buf_[((head_' + i - 1) % Len(buf_)) + 1]]
        BY <1>2 DEF InRing
    <2>2. ASSUME NEW i \in 1 .. Held - 1
          PROVE  InRing'[i] = InRing[i + 1] /\ InRing'[i] \in RingPushers
        <3>1. i + 1 \in 1 .. Held
            BY <1>0, <1>2
        <3>2. InRing[i + 1] = buf_[((head_ + (i + 1) - 1) % Len(buf_)) + 1]
            BY <3>1 DEF InRing
        <3>3. InRing[i + 1] \in RingPushers
            BY <1>0, <3>1
        <3> QED BY <1>2, <2>1, <3>2, <3>3
    <2>3. InRing' \in [1 .. Held - 1 -> RingPushers]
        BY <2>1, <2>2
    <2>4. InRing' \in Seq(RingPushers) /\ Len(InRing') = Held - 1
        BY <1>0, <1>2, <2>3
    <2> QED BY <1>0, <1>3, <2>2, <2>4, TailIs
<1>5. c \in DOMAIN ring_pc
    BY RingFacts DEF RingThreads
<1>6. /\ left' \o InRing' = left \o InRing
      /\ InRing' \in Seq(RingPushers) /\ left' \in Seq(RingPushers)
    <2>1. left \in Seq(RingPushers)
        BY DEF RingTypes
    <2> QED BY <1>0, <1>3, <1>4, <2>1, QueueShrinks
<1>7. RingTypes' /\ OrderKept'
    <2>1. ring_pc' \in [RingThreads -> RingPoints]
        BY DEF RingTypes, Move, RingPoints
    <2> QED BY <1>1, <1>6, <2>1 DEF RingTypes, OrderKept
<1>8. ItemsAnnounced'
    <2>1. Cardinality(Underway(ring_pc', "maybe_item", "stored"))
              >= Cardinality(Underway(ring_pc, "maybe_item", "stored")) - 1
        BY <1>5, RingFacts, UnderwayMoves
    <2>2. At(ring_pc', "no_item") = At(ring_pc, "no_item")
        BY <1>5, MoveAt
    <2>3. Cardinality(Underway(ring_pc', "maybe_item", "stored")) \in Nat
        BY <1>5, RingFacts, MoveAt, UnderwayCounted
    <2>4. Cardinality(Underway(ring_pc, "maybe_item", "stored")) \in Nat
        BY RingFacts
    <2> QED BY <1>0, <1>2, <2>1, <2>2, <2>3, <2>4 DEF ItemsAnnounced
<1>9. PlacesAnnounced'
    <2>1. Cardinality(Underway(ring_pc', "maybe_room", "fetched"))
              = Cardinality(Underway(ring_pc, "maybe_room", "fetched")) + 1
        BY <1>5, RingFacts, UnderwayMoves
    <2>2. At(ring_pc', "no_room") = At(ring_pc, "no_room")
        BY <1>5, MoveAt
    <2>4. Cardinality(Underway(ring_pc, "maybe_room", "fetched")) \in Nat
        BY RingFacts
    <2> QED BY <1>0, <1>2, <2>1, <2>2, <2>4 DEF PlacesAnnounced
<1> QED BY <1>7, <1>8, <1>9

(* A step that leaves the ring alone. *)
LEMMA RingUntouched ==
    ASSUME RingInv, ring_pc' \in [RingThreads -> RingPoints],
           UNCHANGED <<buf_, head_, tail_, ring_accepted, left, cleared>>
    PROVE  RingTypes' /\ OrderKept' /\ Held' = Held
    BY DEF RingInv, RingTypes, OrderKept, InRing, Held

(* A thread that finds no room or no item sleeps, and one that wakes looks *)
(* again.                                                                  *)
LEMMA RingMoves ==
    ASSUME RingInv, NEW t \in RingThreads, NEW q, ring_pc' = Move(ring_pc, t, q),
           UNCHANGED <<buf_, head_, tail_, ring_accepted, left, cleared>>,
           \/ /\ q = "no_room" /\ ring_pc[t] \in {"idle", "maybe_room"}
              /\ (tail_ + 1) % Len(buf_) = head_
           \/ q = "no_item" /\ ring_pc[t] \in {"idle", "maybe_item"} /\ head_ = tail_
           \/ q = "maybe_item" /\ ring_pc[t] = "no_item"
           \/ q = "maybe_room" /\ ring_pc[t] = "no_room"
    PROVE  RingInv'
<1> DEFINE items(f) == Cardinality(Underway(f, "maybe_item", "stored"))
           places(f) == Cardinality(Underway(f, "maybe_room", "fetched"))
<1>1. t \in DOMAIN ring_pc /\ IsFiniteSet(DOMAIN ring_pc)
    BY RingFacts DEF RingInv
<1>2. RingTypes' /\ OrderKept' /\ Held' = Held
    <2>1. q \in RingPoints
        BY DEF RingPoints
    <2>2. ring_pc' \in [RingThreads -> RingPoints]
        BY <2>1 DEF RingInv, RingTypes, Move
    <2> QED BY <2>2, RingUntouched
<1>3. /\ items(ring_pc) \in Nat /\ items(ring_pc') \in Nat
      /\ places(ring_pc) \in Nat /\ places(ring_pc') \in Nat
    BY <1>1, MoveAt, UnderwayCounted
<1>4. /\ q # "no_item" => /\ At(ring_pc', "no_item") \subseteq At(ring_pc, "no_item")
                          /\ items(ring_pc') >= items(ring_pc)
      /\ q # "no_room" => /\ At(ring_pc', "no_room") \subseteq At(ring_pc, "no_room")
                          /\ places(ring_pc') >= places(ring_pc)
    <2>1. /\ q # "no_item" => At(ring_pc', "no_item") \subseteq At(ring_pc, "no_item")
          /\ q # "no_room" => At(ring_pc', "no_room") \subseteq At(ring_pc, "no_room")
        BY <1>1, MoveAt
    <2>2. q # "no_item" => \/ items(ring_pc') = items(ring_pc)
                           \/ items(ring_pc') = items(ring_pc) + 1
        BY <1>1, UnderwayMoves
    <2>3. q # "no_room" => \/ places(ring_pc') = places(ring_pc)
                           \/ places(ring_pc') = places(ring_pc) + 1
        BY <1>1, UnderwayMoves
    <2> HIDE DEF items, places
    <2> QED BY <1>3, <2>1, <2>2, <2>3
<1>5. /\ Held \in Nat /\ Len(buf_) \in Nat \ {0} /\ UNCHANGED <<buf_, cleared>>
      /\ q = "no_item" => Held = 0
      /\ q = "no_room" => Held = Len(buf_) - 1
    <2>1. /\ Held \in Nat /\ Len(buf_) \in Nat \ {0}
          /\ head_ \in 0 .. Len(buf_) - 1 /\ tail_ \in 0 .. Len(buf_) - 1
        BY RingFacts DEF RingInv, RingTypes
    <2>2. q = "no_item" => Held = 0
        BY <2>1 DEF Held, SizeOf
    <2>3. q = "no_room" => Held = Len(buf_) - 1
        BY <2>1, RingBounds DEF Held
    <2> QED BY <2>1, <2>2, <2>3
<1>6. ItemsAnnounced'
    BY <1>2, <1>3, <1>4, <1>5 DEF RingInv, ItemsAnnounced
<1>7. PlacesAnnounced'
    BY <1>2, <1>3, <1>4, <1>5 DEF RingInv, PlacesAnnounced
<1> QED BY <1>2, <1>6, <1>7 DEF RingInv

(* A thread that has changed the ring leaves those underway, and wakes one *)
(* that sleeps in its place, if any: of items, after push, ...             *)
LEMMA RingTellsPoppers ==
    ASSUME RingInv, NEW p \in RingPushers, ring_pc[p] = "stored",
           ring_pc' \in NotifyOne(Move(ring_pc, p, "pushed"), "no_item", "maybe_item"),
           UNCHANGED <<buf_, head_, tail_, ring_accepted, left, cleared>>
    PROVE  RingInv'
<1> DEFINE mid == Move(ring_pc, p, "pushed")
<1>1. p \in DOMAIN ring_pc /\ IsFiniteSet(DOMAIN ring_pc) /\ Held \in Nat
    BY RingFacts DEF RingInv, RingThreads
<1>2. mid \in [RingThreads -> RingPoints] /\ IsFiniteSet(DOMAIN mid)
    BY RingThreadsFinite DEF Move, RingInv, RingTypes, RingPoints
<1>3. ring_pc' \in [RingThreads -> RingPoints]
    BY <1>2, StepsKeepPoints DEF RingPoints
<1>4. RingTypes' /\ OrderKept' /\ Held' = Held
    BY <1>3, RingUntouched
<1>5. /\ At(mid, "no_item") = At(ring_pc, "no_item")
      /\ At(mid, "no_room") = At(ring_pc, "no_room")
      /\ Underway(mid, "maybe_room", "fetched") = Underway(ring_pc, "maybe_room", "fetched")
      /\ Cardinality(Underway(mid, "maybe_item", "stored"))
            >= Cardinality(Underway(ring_pc, "maybe_item", "stored")) - 1
    BY <1>1, MoveAt, UnderwayMoves
<1>6. /\ \A q : q # "no_item" /\ q # "maybe_item" => At(ring_pc', q) = At(mid, q)
      /\ \/ At(mid, "no_item") = {} /\ ring_pc' = mid
         \/ Cardinality(Underway(ring_pc', "maybe_item", "stored"))
                = Cardinality(Underway(mid, "maybe_item", "stored")) + 1
    <2>1. \A q : q # "no_item" /\ q # "maybe_item" => At(ring_pc', q) = At(mid, q)
        BY <1>2, NotifyOneCounts
    <2>2. \/ At(mid, "no_item") = {} /\ ring_pc' = mid
          \/ Cardinality(Underway(ring_pc', "maybe_item", "stored"))
                = Cardinality(Underway(mid, "maybe_item", "stored")) + 1
        BY <1>2, UnderwayNotified
    <2> QED BY <2>1, <2>2, Zenon
<1>7. ItemsAnnounced'
    <2>1. /\ Cardinality(Underway(ring_pc, "maybe_item", "stored")) \in Nat
          /\ Cardinality(Underway(mid, "maybe_item", "stored")) \in Nat
        BY <1>1, <1>2, UnderwayCounted
    <2>2. SUFFICES ASSUME At(ring_pc', "no_item") # {}
                   PROVE  Cardinality(Underway(ring_pc', "maybe_item", "stored"))
                              >= Held
        BY <1>4 DEF ItemsAnnounced
    <2>3. At(mid, "no_item") # {}
        BY <1>1, <1>2, <2>2 DEF NotifyOne, At, Move
    <2>4. Cardinality(Underway(ring_pc, "maybe_item", "stored")) >= Held
        BY <1>5, <2>2, <2>3 DEF RingInv, ItemsAnnounced
    <2> HIDE DEF mid
    <2> QED BY <1>1, <1>5, <1>6, <2>1, <2>3, <2>4
<1>8. PlacesAnnounced'
    <2>1. /\ At(ring_pc', "no_room") = At(ring_pc, "no_room")
          /\ Underway(ring_pc', "maybe_room", "fetched") = Underway(ring_pc, "maybe_room", "fetched")
        BY <1>5, <1>6 DEF Underway
    <2> QED BY <1>4, <2>1 DEF RingInv, PlacesAnnounced
<1> QED BY <1>4, <1>7, <1>8 DEF RingInv

(* ... and of places, after pop. *)
LEMMA RingTellsPushers ==
    ASSUME RingInv, NEW c \in Consumers, ring_pc[c] = "fetched",
           ring_pc' \in NotifyOne(Move(ring_pc, c, "idle"), "no_room", "maybe_room"),
           UNCHANGED <<buf_, head_, tail_, ring_accepted, left, cleared>>
    PROVE  RingInv'
<1> DEFINE mid == Move(ring_pc, c, "idle")
<1>1. /\ c \in DOMAIN ring_pc /\ IsFiniteSet(DOMAIN ring_pc) /\ Held \in Nat
      /\ Len(buf_) \in Nat
    BY RingFacts DEF RingInv, RingTypes, RingThreads
<1>2. mid \in [RingThreads -> RingPoints] /\ IsFiniteSet(DOMAIN mid)
    BY RingThreadsFinite DEF Move, RingInv, RingTypes, RingPoints
<1>3. ring_pc' \in [RingThreads -> RingPoints]
    BY <1>2, StepsKeepPoints DEF RingPoints
<1>4. RingTypes' /\ OrderKept' /\ Held' = Held
    BY <1>3, RingUntouched
<1>5. /\ At(mid, "no_item") = At(ring_pc, "no_item")
      /\ At(mid, "no_room") = At(ring_pc, "no_room")
      /\ Underway(mid, "maybe_item", "stored") = Underway(ring_pc, "maybe_item", "stored")
      /\ Cardinality(Underway(mid, "maybe_room", "fetched"))
            >= Cardinality(Underway(ring_pc, "maybe_room", "fetched")) - 1
    BY <1>1, MoveAt, UnderwayMoves
<1>6. /\ \A q : q # "no_room" /\ q # "maybe_room" => At(ring_pc', q) = At(mid, q)
      /\ \/ At(mid, "no_room") = {} /\ ring_pc' = mid
         \/ Cardinality(Underway(ring_pc', "maybe_room", "fetched"))
                = Cardinality(Underway(mid, "maybe_room", "fetched")) + 1
    <2>1. \A q : q # "no_room" /\ q # "maybe_room" => At(ring_pc', q) = At(mid, q)
        BY <1>2, NotifyOneCounts
    <2>2. \/ At(mid, "no_room") = {} /\ ring_pc' = mid
          \/ Cardinality(Underway(ring_pc', "maybe_room", "fetched"))
                = Cardinality(Underway(mid, "maybe_room", "fetched")) + 1
        BY <1>2, UnderwayNotified
    <2> QED BY <2>1, <2>2, Zenon
<1>7. PlacesAnnounced'
    <2>1. /\ Cardinality(Underway(ring_pc, "maybe_room", "fetched")) \in Nat
          /\ Cardinality(Underway(mid, "maybe_room", "fetched")) \in Nat
        BY <1>1, <1>2, UnderwayCounted
    <2>2. SUFFICES ASSUME At(ring_pc', "no_room") # {}, ~cleared
                   PROVE  Cardinality(Underway(ring_pc', "maybe_room", "fetched"))
                              >= Len(buf_) - 1 - Held
        BY <1>4 DEF PlacesAnnounced
    <2>3. At(mid, "no_room") # {}
        BY <1>1, <1>2, <2>2 DEF NotifyOne, At, Move
    <2>4. Cardinality(Underway(ring_pc, "maybe_room", "fetched")) >= Len(buf_) - 1 - Held
        BY <1>5, <2>2, <2>3 DEF RingInv, PlacesAnnounced
    <2> HIDE DEF mid
    <2> QED BY <1>1, <1>5, <1>6, <2>1, <2>3, <2>4
<1>8. ItemsAnnounced'
    <2>1. /\ At(ring_pc', "no_item") = At(ring_pc, "no_item")
          /\ Underway(ring_pc', "maybe_item", "stored") = Underway(ring_pc, "maybe_item", "stored")
        BY <1>5, <1>6 DEF Underway
    <2> QED BY <1>4, <2>1 DEF RingInv, ItemsAnnounced
<1> QED BY <1>4, <1>7, <1>8 DEF RingInv

(* clear takes everything out, and frees places nobody hears of. *)
LEMMA RingClears ==
    ASSUME RingInv, head_' = tail_, left' = left \o InRing,
           cleared' = (cleared \/ head_ # tail_),
           UNCHANGED <<buf_, tail_, ring_pc, ring_accepted>>
    PROVE  RingInv'
<1>1. /\ tail_ \in 0 .. Len(buf_) - 1 /\ head_ \in 0 .. Len(buf_) - 1
      /\ Len(buf_) \in Nat \ {0}
      /\ left \in Seq(RingPushers) /\ InRing \in Seq(RingPushers)
    BY DEF RingInv, RingTypes
<1>2. Held' = 0
    BY <1>1 DEF Held, SizeOf
<1>3. InRing' = <<>>
    BY <1>2 DEF InRing
<1>4. left' \in Seq(RingPushers) /\ left' \o <<>> = left \o InRing /\ <<>> \in Seq(RingPushers)
    BY <1>1
<1>5. RingTypes' /\ OrderKept'
    BY <1>1, <1>3, <1>4 DEF RingInv, RingTypes, OrderKept
<1>6. ItemsAnnounced'
    <2>1. Cardinality(Underway(ring_pc, "maybe_item", "stored")) \in Nat
        BY RingFacts DEF RingInv
    <2> QED BY <1>2, <2>1 DEF ItemsAnnounced
<1>7. PlacesAnnounced'
    <2>1. CASE head_ = tail_
        <3>1. Held = 0
            BY <1>1, <2>1 DEF Held, SizeOf
        <3> QED BY <1>2, <2>1, <3>1 DEF RingInv, PlacesAnnounced
    <2>2. CASE head_ # tail_
        BY <2>2 DEF PlacesAnnounced
    <2> QED BY <2>1, <2>2
<1> QED BY <1>5, <1>6, <1>7 DEF RingInv
-----------------------------------------------------------------------------
(* Every operation, notification and wake-up keeps the invariant. *)
LEMMA RingStep == RingInv /\ [ChannelsNext]_<<which, vars, ringVars>> => RingInv'
<1> SUFFICES ASSUME RingInv, [ChannelsNext]_<<which, vars, ringVars>> PROVE RingInv'
    OBVIOUS
<1> USE SameOperators, RingTerms
<1>1. ASSUME NEW p \in RingPushers, Ring!push(p) PROVE RingInv'
    <2>1. p \in RingThreads /\ ring_pc[p] \in {"idle", "maybe_room"}
          /\ UNCHANGED <<head_, left, cleared>>
        BY <1>1 DEF Ring!push, RingThreads
    <2>2. CASE Ring!full
        <3>1. ring_pc' = Move(ring_pc, p, "no_room") /\ UNCHANGED <<buf_, tail_, ring_accepted>>
            BY <1>1, <2>2 DEF Ring!push
        <3> QED BY <2>1, <2>2, <3>1, RingMoves
    <2>3. CASE ~Ring!full
        <3>1. /\ buf_' = [buf_ EXCEPT ![tail_ + 1] = p]
              /\ tail_' = (tail_ + 1) % Len(buf_)
              /\ ring_accepted' = Append(ring_accepted, p)
              /\ ring_pc' = Move(ring_pc, p, "stored")
            BY <1>1, <2>3 DEF Ring!push, Ring!Place
        <3> QED BY <2>1, <2>3, <3>1, RingStores
    <2> QED BY <2>2, <2>3
<1>2. ASSUME NEW p \in RingPushers, Ring!NotifyNotEmpty(p) PROVE RingInv'
    BY <1>2, RingTellsPoppers DEF Ring!NotifyNotEmpty
<1>3. ASSUME NEW c \in Consumers, Ring!pop(c) PROVE RingInv'
    <2>1. c \in RingThreads /\ ring_pc[c] \in {"idle", "maybe_item"}
          /\ UNCHANGED <<buf_, tail_, ring_accepted, cleared>>
        BY <1>3 DEF Ring!pop, RingThreads
    <2>2. CASE Ring!empty
        <3>1. ring_pc' = Move(ring_pc, c, "no_item") /\ UNCHANGED <<head_, left>>
            BY <1>3, <2>2 DEF Ring!pop
        <3> QED BY <2>1, <2>2, <3>1, RingMoves
    <2>3. CASE ~Ring!empty
        <3>1. /\ left' = Append(left, buf_[head_ + 1])
              /\ head_' = (head_ + 1) % Len(buf_)
              /\ ring_pc' = Move(ring_pc, c, "fetched")
            BY <1>3, <2>3 DEF Ring!pop, Ring!Place
        <3> QED BY <2>1, <2>3, <3>1, RingTakes
    <2> QED BY <2>2, <2>3
<1>4. ASSUME NEW c \in Consumers, Ring!NotifyNotFull(c) PROVE RingInv'
    BY <1>4, RingTellsPushers DEF Ring!NotifyNotFull
<1>5. CASE Ring!clear
    BY <1>5, RingClears DEF Ring!clear
<1>6. ASSUME NEW t \in RingThreads, Ring!SpuriousWakeup(t) PROVE RingInv'
    <2>1. /\ UNCHANGED <<buf_, head_, tail_, ring_accepted, left, cleared>>
          /\ \/ ring_pc[t] = "no_item" /\ ring_pc' = Move(ring_pc, t, "maybe_item")
             \/ ring_pc[t] = "no_room" /\ ring_pc' = Move(ring_pc, t, "maybe_room")
        BY <1>6 DEF Ring!SpuriousWakeup
    <2> QED BY <2>1, RingMoves
<1>7. CASE UNCHANGED ringVars
    BY <1>7 DEF ringVars, RingInv, RingTypes, OrderKept, ItemsAnnounced, PlacesAnnounced,
                InRing, Held
<1> QED BY <1>1, <1>2, <1>3, <1>4, <1>5, <1>6, <1>7 DEF ChannelsNext, Ring!Next

(* It holds of a ring of any size that was just constructed. *)
LEMMA RingStart == ChannelsInit => RingInv
<1> SUFFICES ASSUME ChannelsInit PROVE RingInv
    OBVIOUS
<1>1. PICK n \in Nat : buf_ = [i \in 1 .. n + 1 |-> Ring!Nothing]
    BY ChannelsAssumption DEF ChannelsInit, Ring!Init
<1>2. Len(buf_) = n + 1 /\ buf_ \in Seq(RingPushers \cup {Ring!Nothing})
    BY <1>1
<1>3. /\ head_ = 0 /\ tail_ = 0 /\ ring_accepted = <<>> /\ left = <<>> /\ cleared = FALSE
      /\ ring_pc = [t \in RingThreads |-> "idle"]
    BY SameOperators DEF ChannelsInit, Ring!Init
<1>4. /\ ring_pc \in [RingThreads -> RingPoints]
      /\ At(ring_pc, "no_item") = {} /\ At(ring_pc, "no_room") = {}
    BY <1>3 DEF RingPoints, At
<1>5. Held = 0 /\ InRing = <<>>
    BY <1>1, <1>2, <1>3 DEF Held, SizeOf, InRing
<1>6. <<>> \in Seq(RingPushers) /\ <<>> \o <<>> = <<>>
    OBVIOUS
<1>7. RingTypes
    <2>1. Len(buf_) \in Nat \ {0} /\ 0 \in 0 .. Len(buf_) - 1
        BY <1>1, <1>2
    <2> QED BY <1>2, <1>3, <1>4, <1>5, <1>6, <2>1, Zenon DEF RingTypes
<1> QED BY <1>3, <1>4, <1>5, <1>6, <1>7, Zenon
        DEF RingInv, OrderKept, ItemsAnnounced, PlacesAnnounced

(* So it holds always. *)
LEMMA RingInvStays == ChannelsSpec => []RingInv
    BY RingStart, RingStep, PTL DEF ChannelsSpec

(* The ring keeps the order of what is pushed, loses nothing and never     *)
(* holds more than its capacity, for every size, through every wrap of     *)
(* head_ and tail_ and every clear.                                        *)
THEOREM RingKeepsOrder == ChannelsSpec => []RingInOrder
<1>1. RingInv => RingInOrder
    <2> SUFFICES ASSUME RingInv PROVE RingInOrder
        OBVIOUS
    <2>1. Held <= Len(buf_) - 1
        BY RingFacts DEF RingInv, RingTypes
    <2> QED BY <2>1, RingTerms DEF RingInv, OrderKept, RingInOrder, Ring!InOrder
<1> QED BY <1>1, RingInvStays, PTL

(* The ring loses no wake-up, though it notifies after it has released the *)
(* mutex, until clear frees places in silence.                             *)
THEOREM RingLosesNoWakeup == ChannelsSpec => []RingNoLostWakeup
<1>1. RingInv => RingNoLostWakeup
    <2>1. \A p, q : Ring!At(ring_pc, p) \cup Ring!At(ring_pc, q) = Underway(ring_pc, p, q)
        BY SameOperators DEF Underway
    <2>2. /\ \A p : Ring!At(ring_pc, p) = At(ring_pc, p)
          /\ \A T : Ring!Cardinality(T) = Cardinality(T)
        BY SameOperators
    <2>3. Ring!size = Held /\ Ring!capacity - Ring!size = Len(buf_) - 1 - Held
        BY RingTerms
    <2> QED BY <2>1, <2>2, <2>3
            DEF RingInv, ItemsAnnounced, PlacesAnnounced, RingNoLostWakeup, Ring!NoLostWakeup
<1> QED BY <1>1, RingInvStays, PTL
=============================================================================
