--------------------------- MODULE CircularBuffer ---------------------------
(***************************************************************************)
(* Data_Structure_Component/CircularBuffer.h: a ring with blocking push    *)
(* and pop, and clear.  A member of Pushers is one call of push, whose     *)
(* item is the member itself; a member of Poppers calls pop again and      *)
(* again; clear may come at any time.  mutex_ is released before           *)
(* notify_one, so that the notification is an action of its own.           *)
(***************************************************************************)
EXTENDS Integers, Sequences, FiniteSets, CondVar

CONSTANTS Pushers, Poppers,
          Sizes          \* the arguments the constructor is called with

VARIABLES buf_,       \* the ring, of max_size_ = size + 1 places
          head_, tail_,
          pc,         \* where each thread is
          accepted,   \* history: what push has stored, in order
          left,       \* history: what pop or clear has taken out, in order
          cleared     \* history: whether clear has taken out anything

vars == <<buf_, head_, tail_, pc, accepted, left, cleared>>

Threads == Pushers \cup Poppers
max_size_ == Len(buf_)
Place(i) == i + 1          \* the index in buf_ of the code's index i
Nothing == "T()"

(* no_room, maybe_room: a pusher in and after its wait; stored: before its *)
(* notify_one; no_item, maybe_item, fetched: the same of a popper.         *)
Init == /\ \E size \in Sizes : buf_ = [i \in 1 .. size + 1 |-> Nothing]
        /\ head_ = 0 /\ tail_ = 0
        /\ pc = [t \in Threads |-> "idle"]
        /\ accepted = <<>> /\ left = <<>> /\ cleared = FALSE
-----------------------------------------------------------------------------
empty == head_ = tail_

full == (tail_ + 1) % max_size_ = head_
capacity == max_size_ - 1
size == IF tail_ >= head_ THEN tail_ - head_ ELSE max_size_ - head_ + tail_

(* The items between head_ and tail_. *)
Content == [i \in 1 .. size |-> buf_[Place((head_ + i - 1) % max_size_)]]

(* Seeded fault: a pusher that was woken does not look again. *)
pushWithoutRecheck(p) ==
    /\ pc[p] \in {"idle", "maybe_room"}
    /\ IF full /\ pc[p] = "idle" THEN pc' = Move(pc, p, "no_room") /\ UNCHANGED <<buf_, tail_, accepted>>
       ELSE /\ buf_' = [buf_ EXCEPT ![Place(tail_)] = p]
            /\ tail_' = (tail_ + 1) % max_size_
            /\ accepted' = Append(accepted, p)
            /\ pc' = Move(pc, p, "stored")
    /\ UNCHANGED <<head_, left, cleared>>

push(p) ==
    /\ pc[p] \in {"idle", "maybe_room"}
    /\ IF full THEN pc' = Move(pc, p, "no_room") /\ UNCHANGED <<buf_, tail_, accepted>>
       ELSE /\ buf_' = [buf_ EXCEPT ![Place(tail_)] = p]
            /\ tail_' = (tail_ + 1) % max_size_
            /\ accepted' = Append(accepted, p)
            /\ pc' = Move(pc, p, "stored")
    /\ UNCHANGED <<head_, left, cleared>>

NotifyNotEmpty(p) ==
    /\ pc[p] = "stored"
    /\ pc' \in NotifyOne(Move(pc, p, "pushed"), "no_item", "maybe_item")
    /\ UNCHANGED <<buf_, head_, tail_, accepted, left, cleared>>

pop(c) ==
    /\ pc[c] \in {"idle", "maybe_item"}
    /\ IF empty THEN pc' = Move(pc, c, "no_item") /\ UNCHANGED <<head_, left>>
       ELSE /\ left' = Append(left, buf_[Place(head_)])
            /\ head_' = (head_ + 1) % max_size_
            /\ pc' = Move(pc, c, "fetched")
    /\ UNCHANGED <<buf_, tail_, accepted, cleared>>

(* Seeded fault: only a pop that finds the ring full tells a pusher. *)
NotifyNotFullIfFull(c) ==
    /\ pc[c] = "fetched"
    /\ IF size + 1 = capacity THEN pc' \in NotifyOne(Move(pc, c, "idle"), "no_room", "maybe_room")
       ELSE pc' = Move(pc, c, "idle")
    /\ UNCHANGED <<buf_, head_, tail_, accepted, left, cleared>>

NotifyNotFull(c) ==
    /\ pc[c] = "fetched"
    /\ pc' \in NotifyOne(Move(pc, c, "idle"), "no_room", "maybe_room")
    /\ UNCHANGED <<buf_, head_, tail_, accepted, left, cleared>>

(* Nobody is notified of the places that become free. *)
clear ==
    /\ head_' = tail_
    /\ left' = left \o Content
    /\ cleared' = (cleared \/ ~empty)
    /\ UNCHANGED <<buf_, tail_, pc, accepted>>

SpuriousWakeup(t) ==
    /\ \/ pc[t] = "no_item" /\ pc' = Move(pc, t, "maybe_item")
       \/ pc[t] = "no_room" /\ pc' = Move(pc, t, "maybe_room")
    /\ UNCHANGED <<buf_, head_, tail_, accepted, left, cleared>>

Next == \/ \E p \in Pushers : push(p) \/ NotifyNotEmpty(p)
        \/ \E c \in Poppers : pop(c) \/ NotifyNotFull(c)
        \/ clear
        \/ \E t \in Threads : SpuriousWakeup(t)
-----------------------------------------------------------------------------
(* What was pushed and has not left, popped or cleared, is what lies       *)
(* between head_ and tail_, in the order it was pushed.                    *)
InOrder == left \o Content = accepted /\ size <= capacity

(* While a popper sleeps, as many notifications as there are items are on  *)
(* their way: threads that have left the wait, or pushers about to notify. *)
(* The same of pushers and free places, until clear frees some in silence. *)
NoLostWakeup ==
    /\ At(pc, "no_item") # {} =>
           Cardinality(At(pc, "maybe_item") \cup At(pc, "stored")) >= size
    /\ At(pc, "no_room") # {} /\ ~cleared =>
           Cardinality(At(pc, "maybe_room") \cup At(pc, "fetched")) >= capacity - size
=============================================================================
