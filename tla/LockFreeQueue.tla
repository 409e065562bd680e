--------------------------- MODULE LockFreeQueue ---------------------------
(***************************************************************************)
(* Data_Structure_Component/LockFreeQueue.h: a linked queue whose head,    *)
(* tail and next pointers are atomics, in the manner of Michael and Scott, *)
(* with `delete` for the nodes that are taken off.                         *)
(*                                                                         *)
(* Every access of a shared pointer is an action.  Nodes are addresses: a  *)
(* deleted one may be returned by the next `new`.  An access through a     *)
(* pointer to a deleted node has no defined outcome: it sets `dangling`,   *)
(* after which the model says nothing more.                                *)
(*                                                                         *)
(* Producer p makes Calls[p] calls of enqueue; consumers call dequeue      *)
(* again and again.  `cast` says which of them use the queue in a          *)
(* behaviour: what holds depends on it.                                    *)
(*                                                                         *)
(* Every exchange is a compare_exchange_weak, which may fail although the  *)
(* values are equal.  Those inside the loops are tried again; the one of   *)
(* line 60 is not, and `leftBehind` remembers that it has failed so.       *)
(***************************************************************************)
EXTENDS Integers, Sequences, FiniteSets

CONSTANTS Producers, Consumers,
          Casts,  \* sets of threads that use the queue together
          MayFail, \* whether an exchange may fail although the values are equal
          Calls,  \* bound: the calls each producer makes
          Nodes   \* bound: the addresses `new` can return

nullptr == "nullptr"

ASSUME LockFreeQueueAssumption ==
    /\ Producers \cap Consumers = {}
    /\ Casts \subseteq SUBSET (Producers \cup Consumers)
    /\ MayFail \in BOOLEAN
    /\ Calls \in [Producers -> Nat]
    /\ Nodes # {} /\ IsFiniteSet(Nodes) /\ nullptr \notin Nodes

VARIABLES cast,        \* the threads that use the queue
          head, tail,  \* the shared pointers
          next, data,  \* the fields of the nodes
          alive,       \* the nodes that are allocated
          dangling,    \* whether a deleted node was accessed
          pc,          \* where each thread is
          made,        \* how many calls each producer has finished
          node, prev_tail,      \* the locals of enqueue
          first, last, result,  \* the locals of dequeue
          nxt,                  \* the local of both that holds a next pointer
          sent, received,       \* history: the items linked and unlinked
          leftBehind            \* history: line 60 has failed although tail was prev_tail

shared == <<cast, head, tail, next, data, alive>>
history == <<sent, received, leftBehind>>
enqueueLocals == <<node, prev_tail, made>>
dequeueLocals == <<first, last, result>>
vars == <<shared, dangling, pc, enqueueLocals, dequeueLocals, nxt, history>>

Threads == Producers \cup Consumers
Pointers == Nodes \cup {nullptr}
Items == UNION { {p} \X (1 .. Calls[p]) : p \in Producers }
NoItem == <<>>

(* Of a producer, the next thing it does: idle, or at line 45, 46, 49, 55  *)
(* or 60.  Of a consumer: idle, or at line 66, 67, 69, 75, 78, 79 or 80.   *)
Points == {"idle", "readNext", "check", "link", "help", "swing",
           "readTail", "readFirstNext", "checkHead", "helpTail", "readData",
           "unlink", "free"}

(* Which address the dummy node has makes no difference. *)
Init == LET dummy == CHOOSE n \in Nodes : TRUE IN
           /\ cast \in Casts
           /\ head = dummy /\ tail = dummy
           /\ next = [n \in Nodes |-> nullptr]
           /\ data = [n \in Nodes |-> NoItem]
           /\ alive = {dummy}
           /\ dangling = FALSE
           /\ pc = [t \in Threads |-> "idle"]
           /\ made = [p \in Producers |-> 0]
           /\ node = [p \in Producers |-> nullptr]
           /\ prev_tail = [p \in Producers |-> nullptr]
           /\ first = [c \in Consumers |-> nullptr]
           /\ last = [c \in Consumers |-> nullptr]
           /\ result = [c \in Consumers |-> NoItem]
           /\ nxt = [t \in Threads |-> nullptr]
           /\ sent = <<>> /\ received = <<>> /\ leftBehind = FALSE

Goto(t, p) == pc' = [pc EXCEPT ![t] = p]

(* A field of the node p points at is accessed. *)
Access(p) == dangling' = (p \notin alive)

-----------------------------------------------------------------------------
(* Lines 39-42: a fresh node, and the first look at tail. *)
Begin(p) ==
    /\ pc[p] = "idle" /\ made[p] < Calls[p]
    /\ \E n \in Nodes \ alive :
          /\ alive' = alive \cup {n}
          /\ next' = [next EXCEPT ![n] = nullptr]
          /\ data' = [data EXCEPT ![n] = <<p, made[p] + 1>>]
          /\ node' = [node EXCEPT ![p] = n]
    /\ prev_tail' = [prev_tail EXCEPT ![p] = tail]
    /\ Goto(p, "readNext")
    /\ UNCHANGED <<cast, head, tail, dangling, made, dequeueLocals, nxt, history>>

(* Line 45. *)
ReadNext(p) ==
    /\ pc[p] = "readNext"
    /\ Access(prev_tail[p])
    /\ nxt' = [nxt EXCEPT ![p] = next[prev_tail[p]]]
    /\ Goto(p, "check")
    /\ UNCHANGED <<shared, enqueueLocals, dequeueLocals, history>>

(* Lines 46-48: when tail has moved, prev_tail is not loaded again. *)
Check(p) ==
    /\ pc[p] = "check"
    /\ Goto(p, IF prev_tail[p] # tail THEN "readNext"
               ELSE IF nxt[p] = nullptr THEN "link" ELSE "help")
    /\ UNCHANGED <<shared, dangling, enqueueLocals, dequeueLocals, nxt, history>>

(* Seeded fault: next is stored, not compared and exchanged. *)
LinkBlindly(p) ==
    /\ pc[p] = "link"
    /\ next' = [next EXCEPT ![prev_tail[p]] = node[p]]
    /\ sent' = Append(sent, data[node[p]])
    /\ Goto(p, "swing")
    /\ UNCHANGED <<cast, head, tail, data, alive, dangling, enqueueLocals,
                   dequeueLocals, nxt, received, leftBehind>>

(* Line 49: the enqueue takes effect, or is tried again. *)
Link(p) ==
    /\ pc[p] = "link"
    /\ Access(prev_tail[p])
    /\ \/ /\ next[prev_tail[p]] = nullptr
          /\ next' = [next EXCEPT ![prev_tail[p]] = node[p]]
          /\ sent' = Append(sent, data[node[p]])
          /\ Goto(p, "swing")
          /\ UNCHANGED nxt
       \/ /\ next[prev_tail[p]] # nullptr \/ MayFail
          /\ nxt' = [nxt EXCEPT ![p] = next[prev_tail[p]]]
          /\ Goto(p, "readNext")
          /\ UNCHANGED <<next, sent>>
    /\ UNCHANGED <<cast, head, tail, data, alive, enqueueLocals, dequeueLocals,
                   received, leftBehind>>

(* Line 55: on success prev_tail keeps its value; on failure it is loaded. *)
Help(p) ==
    /\ pc[p] = "help"
    /\ \/ tail = prev_tail[p] /\ tail' = nxt[p] /\ UNCHANGED prev_tail
       \/ /\ tail # prev_tail[p] \/ MayFail
          /\ prev_tail' = [prev_tail EXCEPT ![p] = tail] /\ UNCHANGED tail
    /\ Goto(p, "readNext")
    /\ UNCHANGED <<cast, head, next, data, alive, dangling, node, made,
                   dequeueLocals, nxt, history>>

(* Line 60, and the return.  It is not tried again: when it fails although *)
(* tail was prev_tail, tail stays behind the node that was linked.         *)
Swing(p) ==
    /\ pc[p] = "swing"
    /\ \/ tail = prev_tail[p] /\ tail' = node[p] /\ UNCHANGED leftBehind
       \/ tail # prev_tail[p] /\ UNCHANGED <<tail, leftBehind>>
       \/ /\ tail = prev_tail[p] /\ MayFail
          /\ leftBehind' = TRUE /\ UNCHANGED tail
    /\ made' = [made EXCEPT ![p] = made[p] + 1]
    /\ Goto(p, "idle")
    /\ UNCHANGED <<cast, head, next, data, alive, dangling, node, prev_tail,
                   dequeueLocals, nxt, sent, received>>
-----------------------------------------------------------------------------
(* Lines 65-67. *)
ReadHead(c) == /\ pc[c] = "idle"
               /\ first' = [first EXCEPT ![c] = head]
               /\ Goto(c, "readTail")
               /\ UNCHANGED <<shared, dangling, enqueueLocals, last, result, nxt, history>>

ReadTail(c) == /\ pc[c] = "readTail"
               /\ last' = [last EXCEPT ![c] = tail]
               /\ Goto(c, "readFirstNext")
               /\ UNCHANGED <<shared, dangling, enqueueLocals, first, result, nxt, history>>

ReadFirstNext(c) ==
    /\ pc[c] = "readFirstNext"
    /\ Access(first[c])
    /\ nxt' = [nxt EXCEPT ![c] = next[first[c]]]
    /\ Goto(c, "checkHead")
    /\ UNCHANGED <<shared, enqueueLocals, dequeueLocals, history>>

(* Lines 69-72; "idle" starts the loop again, or is a return of nullptr. *)
CheckHead(c) ==
    /\ pc[c] = "checkHead"
    /\ Goto(c, IF first[c] # head THEN "idle"
               ELSE IF first[c] # last[c] THEN "readData"
               ELSE IF nxt[c] = nullptr THEN "idle" ELSE "helpTail")
    /\ UNCHANGED <<shared, dangling, enqueueLocals, dequeueLocals, nxt, history>>

(* Seeded fault: line 75 is left to the producer, which moves tail on      *)
(* line 60 anyway.  EveryItemComesOut notices that it may not.             *)
HelpTailNot(c) == /\ pc[c] = "helpTail"
                  /\ Goto(c, "idle")
                  /\ UNCHANGED <<shared, dangling, enqueueLocals, dequeueLocals, nxt, history>>

(* Line 75. *)
HelpTail(c) == /\ pc[c] = "helpTail"
               /\ \/ tail = last[c] /\ tail' = nxt[c]
                  \/ (tail # last[c] \/ MayFail) /\ UNCHANGED tail
               /\ Goto(c, "idle")
               /\ UNCHANGED <<cast, head, next, data, alive, dangling, enqueueLocals,
                              dequeueLocals, nxt, history>>

(* Seeded fault: the item of the node that is taken off, not of the next. *)
ReadDataOfFirst(c) ==
    /\ pc[c] = "readData"
    /\ Access(first[c])
    /\ result' = [result EXCEPT ![c] = data[first[c]]]
    /\ Goto(c, "unlink")
    /\ UNCHANGED <<shared, enqueueLocals, first, last, nxt, history>>

(* Line 78. *)
ReadData(c) ==
    /\ pc[c] = "readData"
    /\ Access(nxt[c])
    /\ result' = [result EXCEPT ![c] = data[nxt[c]]]
    /\ Goto(c, "unlink")
    /\ UNCHANGED <<shared, enqueueLocals, first, last, nxt, history>>

(* Line 79: the dequeue takes effect, or starts again. *)
Unlink(c) ==
    /\ pc[c] = "unlink"
    /\ \/ /\ head = first[c]
          /\ head' = nxt[c]
          /\ received' = Append(received, result[c])
          /\ Goto(c, "free")
       \/ /\ head # first[c] \/ MayFail
          /\ Goto(c, "idle")
          /\ UNCHANGED <<head, received>>
    /\ UNCHANGED <<cast, tail, next, data, alive, dangling, enqueueLocals,
                   dequeueLocals, nxt, sent, leftBehind>>

(* Seeded fault: the node that has become the dummy is deleted.            *)
FreeNext(c) == /\ pc[c] = "free"
               /\ alive' = alive \ {nxt[c]}
               /\ Goto(c, "idle")
               /\ UNCHANGED <<cast, head, tail, next, data, dangling, enqueueLocals,
                              dequeueLocals, nxt, history>>

(* Lines 80-81. *)
Free(c) == /\ pc[c] = "free"
           /\ alive' = alive \ {first[c]}
           /\ Goto(c, "idle")
           /\ UNCHANGED <<cast, head, tail, next, data, dangling, enqueueLocals,
                          dequeueLocals, nxt, history>>

Enqueue(p) == Begin(p) \/ ReadNext(p) \/ Check(p) \/ Link(p) \/ Help(p) \/ Swing(p)
Dequeue(c) == \/ ReadHead(c) \/ ReadTail(c) \/ ReadFirstNext(c) \/ CheckHead(c)
              \/ HelpTail(c) \/ ReadData(c) \/ Unlink(c) \/ Free(c)

(* Producers that are by themselves have made all their calls. *)
Finished == /\ cast \cap Consumers = {}
            /\ \A p \in cast : pc[p] = "idle" /\ made[p] = Calls[p]
            /\ UNCHANGED vars

(* After an access of a deleted node the model says nothing more. *)
Undefined == dangling /\ UNCHANGED vars

Next == \/ ~dangling /\ \E p \in Producers \cap cast : Enqueue(p)
        \/ ~dangling /\ \E c \in Consumers \cap cast : Dequeue(c)
        \/ Finished
        \/ Undefined

Spec == Init /\ [][Next]_vars

(* Threads are scheduled: nothing in this queue blocks.  An exchange that  *)
(* is tried again and again does not fail for ever when the values are     *)
(* equal; nothing is assumed of line 60, which is tried once.              *)
FairSpec ==
    /\ Spec
    /\ \A p \in Producers :
          /\ WF_vars(~dangling /\ p \in cast /\ Enqueue(p))
          /\ SF_vars(~dangling /\ p \in cast /\ Link(p) /\ sent' # sent)
          /\ SF_vars(~dangling /\ p \in cast /\ Help(p) /\ tail' # tail)
    /\ \A c \in Consumers :
          /\ WF_vars(~dangling /\ c \in cast /\ Dequeue(c))
          /\ SF_vars(~dangling /\ c \in cast /\ HelpTail(c) /\ tail' # tail)
          /\ SF_vars(~dangling /\ c \in cast /\ Unlink(c) /\ head' # head)
-----------------------------------------------------------------------------
TypeOK == /\ cast \in Casts
          /\ head \in Nodes /\ tail \in Nodes
          /\ next \in [Nodes -> Pointers]
          /\ data \in [Nodes -> Items \cup {NoItem}]
          /\ alive \subseteq Nodes
          /\ dangling \in BOOLEAN /\ leftBehind \in BOOLEAN
          /\ pc \in [Threads -> Points]
          /\ made \in [Producers -> Nat]
          /\ node \in [Producers -> Pointers] /\ prev_tail \in [Producers -> Pointers]
          /\ first \in [Consumers -> Pointers] /\ last \in [Consumers -> Pointers]
          /\ result \in [Consumers -> Items \cup {NoItem}]
          /\ nxt \in [Threads -> Pointers]

(* Producers by themselves, or one producer beside one consumer.  A second *)
(* consumer, or a second producer beside one, may be about to access the   *)
(* node that line 80 deletes.                                              *)
Paired(K) == \/ K \cap Consumers = {}
             \/ \E p \in Producers, c \in Consumers : K \subseteq {p, c}
PairsOnly == \A K \in Casts : Paired(K)

(* One producer and one consumer never touch a node that is deleted: the   *)
(* producer is past its last access of a node before the consumer can take *)
(* it off, even when the consumer has moved tail in its place and however  *)
(* often the exchanges of the loops fail.  Nor do producers by themselves. *)
(* What this rests on is line 60: once that has failed although tail was   *)
(* prev_tail, the next call of enqueue starts from a node the consumer may *)
(* delete.                                                                 *)
NoDanglingAccess == TypeOK /\ (dangling => leftBehind)

(* The items come out once each and in the order they were linked. *)
Channel == INSTANCE BoundedChannel
              WITH Receivers <- Consumers, capacity <- 0, closed <- FALSE, told <- {}
ImplementsChannel == Channel!Spec

(* What the next k nodes hold, from each pointer on. *)
HeldBy[k \in 0 .. Cardinality(Nodes)] ==
    [n \in Pointers |-> IF k = 0 \/ n = nullptr THEN <<>>
                        ELSE <<data[n]>> \o HeldBy[k - 1][next[n]]]

(* What the nodes after head hold, in the order of their next pointers.    *)
Contents == HeldBy[Cardinality(Nodes)][next[head]]

(* However producers interleave between their look at tail and their       *)
(* compare-and-exchange of next, and whether tail lags or not, the list    *)
(* from head on holds what was linked and not yet taken off, in order.     *)
ListHoldsTheRest == received \o Contents = sent

(* A call of enqueue ends, unless tail is moved after the call has loaded  *)
(* it, which line 42 does once: the loop of lines 44-58 then compares a    *)
(* stale pointer for ever.                                                 *)
EnqueueEnds ==
    \A p \in Producers :
        pc[p] = "readNext" ~> pc[p] = "idle" \/ prev_tail[p] # tail

(* With one producer and one consumer everything that was linked comes     *)
(* out, also when line 60 has failed and the producer is stuck, as the     *)
(* consumer moves tail itself; and every call of enqueue ends unless line  *)
(* 60 has failed.  Among producers, see EnqueueEnds.                       *)
EveryItemComesOut ==
    /\ EnqueueEnds
    /\ \A p \in Producers, c \in Consumers :
          /\ cast = {p, c} /\ pc[p] = "readNext" ~> pc[p] = "idle" \/ leftBehind
          /\ cast = {p, c} /\ received # sent ~> received = sent \/ dangling
=============================================================================
