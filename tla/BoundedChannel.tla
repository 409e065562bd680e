--------------------------- MODULE BoundedChannel ---------------------------
(***************************************************************************)
(* What a bounded, closable first-in first-out queue promises to those who *)
(* call it: the interface of ProducerConsumerQueue (push, pop, shutdown),  *)
(* with none of its threads, locks and wake-ups.                           *)
(***************************************************************************)
EXTENDS Integers, Sequences

CONSTANTS Items,      \* what is sent, each item once
          Receivers   \* who may be told that nothing more will come

VARIABLES capacity,  \* the most that may be in transit; 0: no limit
          sent,      \* the items accepted, in order
          received,  \* the items handed out, in order
          closed,    \* whether the channel is closed
          told       \* the receivers told so

vars == <<capacity, sent, received, closed, told>>

Init == /\ capacity \in Nat
        /\ sent = <<>>
        /\ received = <<>>
        /\ closed = FALSE
        /\ told = {}

(* Nothing is accepted beyond the capacity or after the end. *)
Send(x) == /\ ~closed
           /\ capacity = 0 \/ Len(sent) - Len(received) < capacity
           /\ sent' = Append(sent, x)
           /\ UNCHANGED <<capacity, received, closed, told>>

(* The oldest item in transit is handed out. *)
Receive == /\ Len(received) < Len(sent)
           /\ received' = Append(received, sent[Len(received) + 1])
           /\ UNCHANGED <<capacity, sent, closed, told>>

Close == /\ closed' = TRUE
         /\ UNCHANGED <<capacity, sent, received, told>>

(* Receivers are told of the end when everything has been handed out. *)
Tell(r) == /\ closed
           /\ received = sent
           /\ told' = told \cup {r}
           /\ UNCHANGED <<capacity, sent, received, closed>>

Next == \/ \E x \in Items : Send(x)
        \/ Receive
        \/ Close
        \/ \E r \in Receivers : Tell(r)

Spec == Init /\ [][Next]_vars
=============================================================================
