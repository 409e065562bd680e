----------------------- MODULE ProducerConsumerQueue -----------------------
(***************************************************************************)
(* Concurrent_Control_Component/ProducerConsumerQueue.h: a bounded queue   *)
(* with blocking push and pop, a non-blocking try_pop, and shutdown.       *)
(*                                                                         *)
(* A member of Producers is one call of push (either overload), whose item *)
(* is the member itself.  A member of Consumers calls pop or try_pop until *)
(* pop returns false, like the consumer of the test driver.  shutdown may  *)
(* come at any time, and more than once.                                   *)
(*                                                                         *)
(* All methods run with mtx_ held: each is one action, up to the wait that *)
(* releases mtx_.  The constructor sets max_size_, and nothing changes it; *)
(* 0 is a queue without bound.                                             *)
(***************************************************************************)
EXTENDS Integers, Sequences, FiniteSets, CondVar

CONSTANTS Producers, Consumers,
          Bounds      \* the arguments the constructor is called with

ASSUME ProducerConsumerQueueAssumption ==
    /\ IsFiniteSet(Producers)
    /\ IsFiniteSet(Consumers)
    /\ Producers \cap Consumers = {}
    /\ Bounds \subseteq Nat

VARIABLES max_size_,  \* the bound
          queue_,     \* the items in the queue
          shutdown_,  \* whether the queue was shut down
          pc,         \* where each thread is
          accepted,   \* history: the items push has queued, in order
          delivered   \* history: the items handed to consumers, in order

vars == <<max_size_, queue_, shutdown_, pc, accepted, delivered>>

Threads == Producers \cup Consumers

(* no_room: a producer blocked in not_full_; maybe_room: it left it.       *)
(* no_item: a consumer blocked in not_empty_; maybe_item: it left it.      *)
(* pushed, thrown: how push ended.  told: pop returned false.              *)
Points == {"idle", "no_room", "maybe_room", "no_item", "maybe_item",
           "pushed", "thrown", "told"}

Init == /\ max_size_ \in Bounds
        /\ queue_ = <<>>
        /\ shutdown_ = FALSE
        /\ pc = [t \in Threads |-> "idle"]
        /\ accepted = <<>>
        /\ delivered = <<>>
-----------------------------------------------------------------------------
(* Seeded fault: the bound is off by one. *)
HasRoomForOneMore == max_size_ = 0 \/ Len(queue_) <= max_size_

(* What push waits for, if it waits at all, besides shutdown_. *)
HasRoom == max_size_ = 0 \/ Len(queue_) < max_size_

(* Seeded fault: a producer that shutdown_ woke pushes all the same. *)
pushIgnoringShutdown(p) ==
    /\ pc[p] \in {"idle", "maybe_room"}
    /\ \/ /\ HasRoom \/ shutdown_
          /\ queue_' = Append(queue_, p)
          /\ accepted' = Append(accepted, p)
          /\ pc' \in NotifyOne(Move(pc, p, "pushed"), "no_item", "maybe_item")
       \/ /\ ~HasRoom /\ ~shutdown_
          /\ pc' = Move(pc, p, "no_room")
          /\ UNCHANGED <<queue_, accepted>>
    /\ UNCHANGED <<max_size_, shutdown_, delivered>>

push(p) ==
    /\ pc[p] \in {"idle", "maybe_room"}
    /\ \/ /\ HasRoom /\ ~shutdown_
          /\ queue_' = Append(queue_, p)
          /\ accepted' = Append(accepted, p)
          /\ pc' \in NotifyOne(Move(pc, p, "pushed"), "no_item", "maybe_item")
       \/ /\ shutdown_
          /\ pc' = Move(pc, p, "thrown")
          /\ UNCHANGED <<queue_, accepted>>
       \/ /\ ~HasRoom /\ ~shutdown_
          /\ pc' = Move(pc, p, "no_room")
          /\ UNCHANGED <<queue_, accepted>>
    /\ UNCHANGED <<max_size_, shutdown_, delivered>>

(* Seeded fault: taking an item does not tell the producers. *)
TakeSilently(c) == /\ queue_ # <<>>
                   /\ queue_' = Tail(queue_)
                   /\ delivered' = Append(delivered, Head(queue_))
                   /\ pc' = Move(pc, c, "idle")

(* The item at the front goes to consumer c, whose call returns true. *)
Take(c) == /\ queue_ # <<>>
           /\ queue_' = Tail(queue_)
           /\ delivered' = Append(delivered, Head(queue_))
           /\ LET left == Move(pc, c, "idle")
              IN  IF max_size_ > 0
                    THEN pc' \in NotifyOne(left, "no_room", "maybe_room")
                    ELSE pc' = left

pop(c) ==
    /\ pc[c] \in {"idle", "maybe_item"}
    /\ \/ Take(c)
       \/ /\ queue_ = <<>>
          /\ pc' = Move(pc, c, IF shutdown_ THEN "told" ELSE "no_item")
          /\ UNCHANGED <<queue_, delivered>>
    /\ UNCHANGED <<max_size_, shutdown_, accepted>>

(* On an empty queue try_pop returns false and changes nothing. *)
try_pop(c) == /\ pc[c] = "idle"
              /\ Take(c)
              /\ UNCHANGED <<max_size_, shutdown_, accepted>>

(* Seeded fault: the producers that wait for room are not told. *)
shutdownForConsumers ==
    /\ shutdown_' = TRUE
    /\ pc' = NotifyAll(pc, "no_item", "maybe_item")
    /\ UNCHANGED <<max_size_, queue_, accepted, delivered>>

shutdown ==
    /\ shutdown_' = TRUE
    /\ pc' = NotifyAll(NotifyAll(pc, "no_item", "maybe_item"), "no_room", "maybe_room")
    /\ UNCHANGED <<max_size_, queue_, accepted, delivered>>

SpuriousWakeup(t) ==
    /\ \/ pc[t] = "no_item" /\ pc' = Move(pc, t, "maybe_item")
       \/ pc[t] = "no_room" /\ pc' = Move(pc, t, "maybe_room")
    /\ UNCHANGED <<max_size_, queue_, shutdown_, accepted, delivered>>

Next == \/ \E p \in Producers : push(p)
        \/ \E c \in Consumers : pop(c) \/ try_pop(c)
        \/ shutdown
        \/ \E t \in Threads : SpuriousWakeup(t)

Spec == Init /\ [][Next]_vars

(* Consumers call pop again and again (lines 123-132), and a thread that   *)
(* was woken gets mtx_ eventually.  No producer has to call push, and      *)
(* nobody has to call shutdown.                                            *)
Fairness == /\ \A p \in Producers : WF_vars(pc[p] = "maybe_room" /\ push(p))
            /\ \A c \in Consumers : WF_vars(pop(c))

FairSpec == Spec /\ Fairness
-----------------------------------------------------------------------------
(* Types; the queue never exceeds its bound. *)
TypeOK == /\ max_size_ \in Bounds
          /\ queue_ \in Seq(Producers)
          /\ max_size_ > 0 => Len(queue_) <= max_size_
          /\ shutdown_ \in BOOLEAN
          /\ pc \in [Threads -> Points]
          /\ accepted \in Seq(Producers)
          /\ delivered \in Seq(Producers)

(* No lost wake-up in either direction, though one notify_one is sent per  *)
(* item and per free place and others may barge in: while a consumer       *)
(* sleeps at least as many consumers are on their way out of not_empty_ as *)
(* there are items, while a producer sleeps at least as many producers are *)
(* on their way out of not_full_ as there are places; and nobody sleeps    *)
(* once the queue is shut down, neither those that slept when it was (line *)
(* 97) nor those that come later.                                          *)
NoLostWakeup ==
    /\ TypeOK
    /\ At(pc, "no_item") # {} =>
           /\ ~shutdown_
           /\ Cardinality(At(pc, "maybe_item")) >= Len(queue_)
    /\ At(pc, "no_room") # {} =>
           /\ ~shutdown_
           /\ Cardinality(At(pc, "maybe_room")) >= max_size_ - Len(queue_)

(* To its callers the queue is a channel: items come out once each and in  *)
(* the order they went in, none is accepted beyond the bound or after      *)
(* shutdown, and pop returns false only when closed and empty (line 129).  *)
Channel == INSTANCE BoundedChannel
               WITH Items <- Producers, Receivers <- Consumers,
                    capacity <- max_size_, sent <- accepted, received <- delivered,
                    closed <- shutdown_, told <- At(pc, "told")
ImplementsChannel == Channel!Spec

(* A blocked push ends and every accepted item comes out, whether or not   *)
(* the queue is ever shut down, as long as the consumers keep calling pop. *)
ItemsMove ==
    \A p \in Producers :
        /\ pc[p] = "no_room" ~> pc[p] \in {"pushed", "thrown"}
        /\ pc[p] = "pushed" ~> \E i \in DOMAIN delivered : delivered[i] = p

(* Lines 134-135 join the threads: after shutdown every blocked push ends  *)
(* and every consumer is told, after the last item.                        *)
EverybodyEnds ==
    shutdown_ ~> /\ \A p \in Producers : pc[p] \in {"idle", "pushed", "thrown"}
                 /\ \A c \in Consumers : pc[c] = "told"

(* Nothing in the queue waits for ever, before and after shutdown. *)
NothingStays == ItemsMove /\ EverybodyEnds
=============================================================================
