----------------------------- MODULE Sequential -----------------------------
(* The components that one thread uses, each by itself: which says whose     *)
(* object this is.  Every legal sequence of calls is made of it.              *)
EXTENDS Object, Integers, Sequences, TLC

CONSTANTS v1, v2            \* values that are only stored
VARIABLE which

HashTable == INSTANCE HashTable WITH
  Keys <- 1 .. 4, Values <- {v1, v2}, hasher <- <<0, 3, 4, 7>>, InitialSizes <- {1, 2}, MaxBuckets <- 8
LRU == INSTANCE LRU WITH Keys <- 1 .. 3, Values <- {5, 6}, Capacities <- {0, 1, 2}
SkipList == INSTANCE SkipList WITH Values <- 1 .. 2, max_level <- 3, MaxNodes <- 3
Trie == INSTANCE Trie WITH
  Words <- {<<>>, <<"a">>, <<"a", "b">>, <<"a", "b", "c">>, <<"a", "d">>, <<"b">>}
FileSystem == INSTANCE FileSystem WITH Names <- {"docs", "notes", "mail"}
Observer == INSTANCE Observer WITH Observers <- {v1, v2}, MaxAttached <- 3
BloomFilter == INSTANCE BloomFilter WITH
  Items <- 1 .. 4, Width <- 4, hash1 <- <<3, 9, 14, 15>>, hash2 <- [h \in 0 .. 15 |-> (7 * h + 5) % 16],
  Parameters <- {<<1, 0>>, <<4, 2>>, <<5, 1>>, <<9, 3>>}
Json == INSTANCE Json WITH
  Keys <- {<<"a">>, <<"b">>}, Numbers <- {0, 1, 7, 500000}, MaxText <- 24,
  Leaves <- {<<"null">>, <<"bool", TRUE>>, <<"int", -7>>, <<"double", 5000000>>, <<"double", 1>>,
             <<"string", <<"a", " ">>>>, <<"string", <<"/">>>>, <<"string", <<"\"">>>>,
             <<"object", <<>>>>, <<"array", <<>>>>, <<"array", <<<<"int", 1>>, <<"null">>>>>>}
DecisionTree == INSTANCE DecisionTree WITH
  Features <- {"income", "age"}, Labels <- {"A", "B"}, MaxData <- 3,
  Examples <- [income : {"High", "Low"}, age : {29, 50}]
KNNClassifier == INSTANCE KNNClassifier WITH
  Points <- {<<>>, <<0>>, <<1>>, <<2>>, <<0, 2>>}, Labels <- 1 .. 2, Ks <- 1 .. 3, MaxData <- 3

Init == \/ which = "HashTable" /\ HashTable!Init
        \/ which = "LRU" /\ LRU!Init
        \/ which = "SkipList" /\ SkipList!Init
        \/ which = "Trie" /\ Trie!Init
        \/ which = "FileSystem" /\ FileSystem!Init
        \/ which = "Observer" /\ Observer!Init
        \/ which = "BloomFilter" /\ BloomFilter!Init
        \/ which = "Json" /\ Json!Init
        \/ which = "DecisionTree" /\ DecisionTree!Init
        \/ which = "KNNClassifier" /\ KNNClassifier!Init

Next == /\ UNCHANGED which
        /\ \/ which = "HashTable" /\ HashTable!Next
           \/ which = "LRU" /\ LRU!Next
           \/ which = "SkipList" /\ SkipList!Next
           \/ which = "Trie" /\ Trie!Next
           \/ which = "FileSystem" /\ FileSystem!Next
           \/ which = "Observer" /\ Observer!Next
           \/ which = "BloomFilter" /\ BloomFilter!Next
           \/ which = "Json" /\ Json!Next
           \/ which = "DecisionTree" /\ DecisionTree!Next
           \/ which = "KNNClassifier" /\ KNNClassifier!Next

Spec == Init /\ [][Next]_<<which, vars>>

-----------------------------------------------------------------------------
(* After any sequence of calls the pointers, buckets, branches and counters  *)
(* of a container are as each module's Sound says.                            *)
StructuresSound ==
  /\ which = "HashTable" => HashTable!Sound
  /\ which = "LRU" => LRU!Sound
  /\ which = "SkipList" => SkipList!Sound
  /\ which = "Trie" => Trie!Sound

(* Every call does to the abstract content of its object (a map, a list by   *)
(* recency, a bag, a set of words, a directory, a set of items, the members  *)
(* of a value) what the object is for and answers from that content; notify  *)
(* reaches every observer that stays, once per attachment, and no other.     *)
CallsAnswered ==
  [][/\ which = "HashTable" => HashTable!Promise
     /\ which = "LRU" => LRU!Promise
     /\ which = "SkipList" => SkipList!Promise
     /\ which = "Trie" => Trie!Promise
     /\ which = "FileSystem" => FileSystem!Promise
     /\ which = "Observer" => Observer!Promise
     /\ which = "BloomFilter" => BloomFilter!Promise
     /\ which = "Json" => Json!Promise]_<<which, vars>>

(* The parser reads what the serializer writes and nothing that is cut off.  *)
JsonReadBack == which = "Json" => Json!Sound

(* A classifier that is asked about its own training data answers from it.    *)
LearnersConsistent ==
  [][/\ which = "DecisionTree" => DecisionTree!Promise
     /\ which = "KNNClassifier" => KNNClassifier!Promise]_<<which, vars>>

=============================================================================
