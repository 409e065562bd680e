---------------------------- MODULE BloomFilter ----------------------------
(* BloomFilter.h.  Hashes have the width of size_t, cut to 2^Width.          *)
EXTENDS Object, Integers

CONSTANTS Items, Width,
          hash1, hash2,     \* [Items -> 0 .. 2^Width - 1], [0 .. 2^Width - 1 -> 0 .. 2^Width - 1]
          Parameters        \* pairs <<size, num_hashes>> the constructor computes

(* inserted is what insert was called with (history) *)
Init == /\ \E p \in Parameters :
             this = [size |-> p[1], num_hashes |-> p[2], bits |-> {}, inserted |-> {}]
        /\ call = <<"BloomFilter">> /\ returned = void

(* (h1 + i * h2) % size, the sum in size_t *)
idx(item, i) == ((hash1[item] + i * hash2[hash1[item]]) % 2 ^ Width) % this.size

insert(item) ==
  /\ this' = [this EXCEPT !.bits = @ \cup {idx(item, i) : i \in 0 .. this.num_hashes - 1},
                          !.inserted = @ \cup {item}]
  /\ Called(<<"insert", item>>, void)

(* Seeded fault: the loop goes one step further than insert's. *)
ContainsOneMore(item) ==
  Called(<<"contains", item>>, \A i \in 0 .. this.num_hashes : idx(item, i) \in this.bits)
    /\ UNCHANGED this

contains(item) ==
  Called(<<"contains", item>>, \A i \in 0 .. this.num_hashes - 1 : idx(item, i) \in this.bits)
    /\ UNCHANGED this

Next == \E item \in Items : insert(item) \/ contains(item)

-----------------------------------------------------------------------------
(* No item that was inserted is denied.  While nothing is inserted every     *)
(* item is, but by a filter for which num_hashes came out as 0.               *)
Promise ==
  call'[1] = "contains" =>
    /\ call'[2] \in this.inserted => returned'
    /\ this.inserted = {} => returned' = (this.num_hashes = 0)

=============================================================================
