------------------------------ MODULE SkipList ------------------------------
(* SkipList.h.  A node is a number and the heap holds the nodes that are     *)
(* allocated; levels count from 1.                                            *)
EXTENDS Object, Integers, Sequences, SequencesExt

CONSTANTS Values,      \* integers
          max_level,
          MaxNodes     \* bound on the nodes beside the head

head == 0
nullptr == -1

(* head has the smallest value of T, which no step compares *)
Init == /\ this = (head :> [value |-> 0, forward |-> [l \in 1 .. max_level |-> nullptr]])
        /\ call = <<"SkipList">> /\ returned = void

(* Seeded fault: equal values are passed too. *)
NotAfter(a, b) == a <= b

(* the comparison of the three loops *)
Before(a, b) == a < b

RECURSIVE Advance(_, _, _, _), Descend(_, _, _, _)

(* the inner loop: along one level while the next value is smaller *)
Advance(heap, cur, level, v) ==
  LET next == heap[cur].forward[level]
  IN IF next # nullptr /\ Before(heap[next].value, v) THEN Advance(heap, next, level, v) ELSE cur

(* the outer loop, from cur on level down: the predecessors of levels 1 .. level *)
Descend(heap, cur, level, v) ==
  IF level = 0 THEN <<>>
  ELSE LET c == Advance(heap, cur, level, v) IN Append(Descend(heap, c, level - 1, v), c)

update(v) == Descend(this, head, max_level, v)

(* the node behind the predecessor on the lowest level, if it has the value *)
Found(v) ==
  LET cur == this[update(v)[1]].forward[1]
  IN IF cur # nullptr /\ this[cur].value = v THEN cur ELSE nullptr

Find(target) == Called(<<"find", target>>, Found(target) # nullptr) /\ UNCHANGED this

(* random_level: every level can come out *)
Insert(v) ==
  \E new_level \in 1 .. max_level, new_node \in 1 .. MaxNodes :
    /\ new_node \notin DOMAIN this /\ 1 .. new_node - 1 \subseteq DOMAIN this
    /\ this' = [n \in DOMAIN this \cup {new_node} |->
         IF n = new_node
         THEN [value |-> v, forward |-> [l \in 1 .. new_level |-> this[update(v)[l]].forward[l]]]
         ELSE [this[n] EXCEPT !.forward = [l \in DOMAIN @ |->
                 IF l <= new_level /\ n = update(v)[l] THEN new_node ELSE @[l]]]]
    /\ Called(<<"insert", v>>, void)

(* Seeded fault: the node is taken out of the lowest level only. *)
UnlinkedLowest(cur, v) == {1}

(* the levels that lead to the node are the lowest ones: the loop stops at   *)
(* the first that does not                                                    *)
Unlinked(cur, v) ==
  {l \in 1 .. max_level : \A k \in 1 .. l : this[update(v)[k]].forward[k] = cur}

Erase(v) ==
  LET cur == Found(v)
  IN /\ Called(<<"erase", v>>, cur # nullptr)
     /\ IF cur = nullptr THEN UNCHANGED this
        ELSE this' = [n \in DOMAIN this \ {cur} |->
               [this[n] EXCEPT !.forward = [l \in DOMAIN @ |->
                  IF l \in Unlinked(cur, v) /\ n = update(v)[l] THEN this[cur].forward[l] ELSE @[l]]]]

Next == \E v \in Values : Find(v) \/ Insert(v) \/ Erase(v)

-----------------------------------------------------------------------------
Bag == [v \in Values |-> Cardinality({n \in DOMAIN this \ {head} : this[n].value = v})]

(* The nodes along a level, to the null pointer or to a node that is deleted. *)
RECURSIVE Chain(_, _, _)
Chain(cur, level, most) ==
  LET next == this[cur].forward[level]
  IN IF next = nullptr \/ most = 0 THEN <<>>
     ELSE <<next>> \o IF next \in DOMAIN this THEN Chain(next, level, most - 1) ELSE <<>>

Level(l) == Chain(head, l, MaxNodes + 1)

(* Every node is in the lowest level, once and in the order of the values,   *)
(* and each higher level is the lowest without the nodes that are not as     *)
(* tall: no pointer of any level leads to a node that is deleted.             *)
Sound ==
  /\ ToSet(Level(1)) = DOMAIN this \ {head} /\ Len(Level(1)) = Cardinality(DOMAIN this) - 1
  /\ \A i \in 1 .. Len(Level(1)) - 1 : this[Level(1)[i]].value <= this[Level(1)[i + 1]].value
  /\ \A l \in 2 .. max_level : Level(l) = SelectSeq(Level(1), LAMBDA n : Len(this[n].forward) >= l)

(* The list is a bag: insert adds one more of a value it already has, erase  *)
(* removes one, and find sees what is left.                                   *)
Promise ==
  LET v == call'[2]
  IN CASE call'[1] = "insert" -> Bag' = [Bag EXCEPT ![v] = @ + 1]
       [] call'[1] = "find"   -> Bag' = Bag /\ returned' = (Bag[v] > 0)
       [] call'[1] = "erase"  -> /\ returned' = (Bag[v] > 0)
                                 /\ Bag' = IF Bag[v] > 0 THEN [Bag EXCEPT ![v] = @ - 1] ELSE Bag

=============================================================================
