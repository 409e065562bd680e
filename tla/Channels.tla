------------------------------ MODULE Channels ------------------------------
(* The two bounded buffers of the repository for the same threads: which     *)
(* says which one is used; the other stays as it was constructed.            *)
EXTENDS ProducerConsumerQueue

CONSTANTS Sizes, RingPushers

ASSUME ChannelsAssumption == IsFiniteSet(RingPushers) /\ Sizes \subseteq Nat

VARIABLES which, buf_, head_, tail_, ring_pc, ring_accepted, left, cleared

ringVars == <<buf_, head_, tail_, ring_pc, ring_accepted, left, cleared>>

Ring == INSTANCE CircularBuffer WITH
          Pushers <- RingPushers, Poppers <- Consumers, pc <- ring_pc, accepted <- ring_accepted

ChannelsInit == /\ which \in {"queue", "ring"}
                /\ Init /\ (which = "ring" => max_size_ = 0)
                /\ Ring!Init /\ (which = "queue" => Ring!size = 0 /\ Len(buf_) = 1)

ChannelsNext == \/ which = "queue" /\ Next /\ UNCHANGED <<which, ringVars>>
                \/ which = "ring" /\ Ring!Next /\ UNCHANGED <<which, vars>>

(* The fairness of the queue, where the queue is used. *)
ChannelsSpec == /\ ChannelsInit
                /\ [][ChannelsNext]_<<which, vars, ringVars>>
                /\ which = "queue" => Fairness
-----------------------------------------------------------------------------
(* The ring holds, in order, what was pushed and has not left.               *)
RingInOrder == Ring!InOrder

(* No thread sleeps for want of a notification, though one is sent per item  *)
(* and per place after the mutex is released, until clear frees places.      *)
RingNoLostWakeup == Ring!NoLostWakeup
=============================================================================
