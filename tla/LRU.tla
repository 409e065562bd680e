-------------------------------- MODULE LRU --------------------------------
(* LRU.h: LRUCache, a map from keys to the nodes of a doubly linked list     *)
(* with two sentinels.  A node is a number, and the heap holds exactly the   *)
(* nodes that are allocated: to follow a pointer to any other is an error.   *)
EXTENDS Object, Integers, Sequences, SequencesExt

CONSTANTS Keys, Values,       \* integers other than -1, which get answers for a missing key
          Capacities          \* what the constructor is given

head == 0
tail == 1
nullptr == -1

Init == /\ \E c \in Capacities :
             this = [_capacity |-> c, _cache |-> <<>>,
                     list |-> (head :> [key |-> 0, value |-> 0, prev |-> nullptr, next |-> tail])
                           @@ (tail :> [key |-> 0, value |-> 0, prev |-> head, next |-> nullptr])]
        /\ call = <<"LRUCache">> /\ returned = void

push_front(list, node) ==
  LET first == list[head].next
  IN [list EXCEPT ![node].next = first, ![node].prev = head, ![first].prev = node, ![head].next = node]

(* Seeded fault: the link back from the node behind is left as it is. *)
UnlinkForward(list, node) == [list EXCEPT ![list[node].prev].next = list[node].next]

(* the two assignments erase and move_to_front begin with *)
Unlink(list, node) ==
  [list EXCEPT ![list[node].prev].next = list[node].next, ![list[node].next].prev = list[node].prev]

move_to_front(list, node) == push_front(Unlink(list, node), node)

pop_back(list) ==
  LET node == list[tail].prev
  IN [node |-> IF node = head THEN nullptr ELSE node,
      list |-> IF node = head THEN list
               ELSE [Unlink(list, node) EXCEPT ![node].prev = nullptr, ![node].next = nullptr]]

(* delete node; _cache.erase of its key *)
Without(f, x) == [y \in DOMAIN f \ {x} |-> f[y]]

get(key) ==
  /\ IF key \in DOMAIN this._cache
     THEN /\ this' = [this EXCEPT !.list = move_to_front(@, this._cache[key])]
          /\ Called(<<"get", key>>, this.list[this._cache[key]].value)
     ELSE UNCHANGED this /\ Called(<<"get", key>>, -1)

(* Seeded fault: the node is freed and its entry stays in the map. *)
EvictNodeOnly(t) ==
  LET popped == pop_back(t.list)
  IN IF Cardinality(DOMAIN t._cache) # t._capacity \/ popped.node = nullptr THEN t
     ELSE [t EXCEPT !.list = Without(popped.list, popped.node)]

Evict(t) ==
  LET popped == pop_back(t.list)
  IN IF Cardinality(DOMAIN t._cache) # t._capacity \/ popped.node = nullptr THEN t
     ELSE [t EXCEPT !._cache = Without(@, popped.list[popped.node].key),
                    !.list = Without(popped.list, popped.node)]

put(key, value) ==
  /\ this' = IF key \in DOMAIN this._cache
             THEN LET node == this._cache[key]
                  IN [this EXCEPT !.list = move_to_front([@ EXCEPT ![node].value = value], node)]
             ELSE LET t == Evict(this)
                      newNode == CHOOSE n \in 2 .. 2 + Cardinality(Keys) : n \notin DOMAIN t.list
                      node == [key |-> key, value |-> value, prev |-> nullptr, next |-> nullptr]
                  IN [t EXCEPT !.list = push_front((newNode :> node) @@ @, newNode),
                               !._cache = (key :> newNode) @@ @]
  /\ Called(<<"put", key, value>>, void)

Next == \E key \in Keys : get(key) \/ \E value \in Values : put(key, value)

-----------------------------------------------------------------------------
(* The nodes clear deletes: from head->next along next to the tail. *)
RECURSIVE Walk(_, _, _)
Walk(list, node, link) ==
  IF node \in {head, tail} THEN <<>> ELSE <<node>> \o Walk(list, list[node][link], link)

Forward == Walk(this.list, this.list[head].next, "next")
Recency == [i \in DOMAIN Forward |-> <<this.list[Forward[i]].key, this.list[Forward[i]].value>>]

(* The list is the same read from either end, its nodes are those the map    *)
(* points at and all those that are allocated, so that the destructor frees  *)
(* every node once; and the cache is within its capacity, unless that is 0.  *)
Sound ==
  /\ Walk(this.list, this.list[tail].prev, "prev") = Reverse(Forward)
  /\ ToSet(Forward) = DOMAIN this.list \ {head, tail}
  /\ \A k \in DOMAIN this._cache : this._cache[k] \in ToSet(Forward) /\ this.list[this._cache[k]].key = k
  /\ Len(Forward) = Cardinality(DOMAIN this._cache)
  /\ this._capacity > 0 => Len(Forward) <= this._capacity

(* A call puts its key first and leaves the others in their order; put drops *)
(* the key used least recently when a new key finds the cache full.          *)
Promise ==
  LET k == call'[2]
      others == SelectSeq(Recency, LAMBDA e : e[1] # k)
      kept == IF Len(others) < Len(Recency) \/ Len(others) # this._capacity \/ others = <<>>
              THEN others ELSE Front(others)
      known == SelectSeq(Recency, LAMBDA e : e[1] = k)
  IN CASE call'[1] = "put" -> Recency' = <<<<k, call'[3]>>>> \o kept
       [] call'[1] = "get" -> /\ Recency' = known \o others
                              /\ returned' = IF known = <<>> THEN -1 ELSE known[1][2]

=============================================================================
