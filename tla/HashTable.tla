------------------------------ MODULE HashTable ------------------------------
(* HashTable.h: separate chaining in a vector of lists that is doubled when  *)
(* an insertion finds the load above LOAD_FACTOR_THRESHOLD.                   *)
EXTENDS Object, Integers, Sequences, SequencesExt

CONSTANTS Keys, Values,
          hasher,          \* [Keys -> Nat], the template parameter Hash
          InitialSizes,    \* sizes given to the constructor, 0 not among them
          MaxBuckets       \* bound: no insertion that would go beyond it

Init == /\ \E n \in InitialSizes : this = [buckets |-> [i \in 1 .. n |-> <<>>], num_elements |-> 0]
        /\ call = <<"HashTable">> /\ returned = void

getBucketIndex(t, key) == (hasher[key] % Len(t.buckets)) + 1

(* find_if over a bucket: 0 is bucket.end() *)
Position(bucket, key) == SelectInSeq(bucket, LAMBDA kv : kv[1] = key)

(* num_elements / buckets.size() > 0.75, without the division *)
Overloaded(t) == 4 * t.num_elements > 3 * Len(t.buckets)

(* Seeded fault: every bucket stays where it was and the new half is empty. *)
RehashInPlace(t) ==
  [t EXCEPT !.buckets = @ \o [i \in 1 .. Len(t.buckets) |-> <<>>]]

RECURSIVE insert(_, _, _)

rehash(t) ==
  FoldLeft(LAMBDA new, kv : insert(new, kv[1], kv[2]),
           [buckets |-> [i \in 1 .. 2 * Len(t.buckets) |-> <<>>], num_elements |-> 0],
           FlattenSeq(t.buckets))

insert(t, key, value) ==
  LET u == IF Overloaded(t) THEN rehash(t) ELSE t
      i == getBucketIndex(u, key)
      p == Position(u.buckets[i], key)
  IN IF p # 0 THEN [u EXCEPT !.buckets[i][p] = <<key, value>>]
     ELSE [u EXCEPT !.buckets[i] = Append(@, <<key, value>>), !.num_elements = @ + 1]

Insert(key, value) ==
  /\ Overloaded(this) => 2 * Len(this.buckets) <= MaxBuckets
  /\ this' = insert(this, key, value)
  /\ Called(<<"insert", key, value>>, void)

Find(key) ==
  LET bucket == this.buckets[getBucketIndex(this, key)]
      p == Position(bucket, key)
  IN /\ Called(<<"find", key>>, IF p = 0 THEN threw ELSE bucket[p][2])
     /\ UNCHANGED this

Erase(key) ==
  LET i == getBucketIndex(this, key)
      p == Position(this.buckets[i], key)
  IN /\ this' = IF p = 0 THEN this
                ELSE [this EXCEPT !.buckets[i] = RemoveAt(@, p), !.num_elements = @ - 1]
     /\ Called(<<"erase", key>>, p # 0)

size == Called(<<"size">>, this.num_elements) /\ UNCHANGED this

Next == \/ \E key \in Keys : (\E value \in Values : Insert(key, value)) \/ Find(key) \/ Erase(key)
        \/ size

-----------------------------------------------------------------------------
Pairs == ToSet(FlattenSeq(this.buckets))
Map == [k \in {kv[1] : kv \in Pairs} |-> (CHOOSE kv \in Pairs : kv[1] = k)[2]]

(* Every pair is in the bucket its key selects among the buckets there are   *)
(* now, no key has two pairs, and num_elements counts the pairs.             *)
Sound ==
  /\ \A i \in DOMAIN this.buckets : \A kv \in ToSet(this.buckets[i]) : getBucketIndex(this, kv[1]) = i
  /\ this.num_elements = Len(FlattenSeq(this.buckets))
  /\ this.num_elements = Cardinality(DOMAIN Map)

(* The table is a map, across any number of rehashes.                        *)
Promise ==
  LET k == call'[2]
  IN CASE call'[1] = "insert" -> Map' = (k :> call'[3]) @@ Map
       [] call'[1] = "find"   -> Map' = Map /\ returned' = IF k \in DOMAIN Map THEN Map[k] ELSE threw
       [] call'[1] = "erase"  -> /\ Map' = [j \in DOMAIN Map \ {k} |-> Map[j]]
                                 /\ returned' = (k \in DOMAIN Map)
       [] call'[1] = "size"   -> Map' = Map /\ returned' = Cardinality(DOMAIN Map)

=============================================================================
