--------------------------- MODULE KNNClassifier ---------------------------
(* KNNClassifier.h.  The root of the distance is left out, as it keeps the   *)
(* order.                                                                     *)
EXTENDS Object, Integers, Sequences, SequencesExt

CONSTANTS Points,            \* vectors of features, as sequences
          Labels,            \* numbers
          Ks,                \* arguments of the constructor that it accepts
          MaxData            \* bound on the training data

Init == /\ \E k \in Ks : this = [K |-> k, train_data |-> <<>>]
        /\ call = <<"KNNClassifier">> /\ returned = void

fit(data) == this' = [this EXCEPT !.train_data = data] /\ Called(<<"fit">>, void)

euclideanDistance(a, b) == FoldFunction(+, 0, [i \in DOMAIN a |-> (a[i] - b[i]) * (a[i] - b[i])])

Distances(sample) == [i \in DOMAIN this.train_data |-> euclideanDistance(sample, this.train_data[i].features)]

(* Seeded fault: the comparison is turned round. *)
Farthest(sample) ==
  LET dist == Distances(sample)
  IN {S \in SUBSET DOMAIN dist :
        Cardinality(S) = this.K /\ \A i \in S, j \in DOMAIN dist \ S : dist[i] >= dist[j]}

(* What may stand in the first K places after the sort, which leaves the     *)
(* order of equal distances open.                                             *)
Nearest(sample) ==
  LET dist == Distances(sample)
  IN {S \in SUBSET DOMAIN dist :
        Cardinality(S) = this.K /\ \A i \in S, j \in DOMAIN dist \ S : dist[i] <= dist[j]}

Votes(S, label) == Cardinality({i \in S : this.train_data[i].label = label})

(* the first label in the order of the map that has the most votes *)
best_label(S) ==
  CHOOSE l \in Labels : \A m \in Labels : Votes(S, m) <= Votes(S, l) /\ (Votes(S, m) = Votes(S, l) => l <= m)

(* A K beyond the data reads what stands behind the vector: any label. *)
predict(sample) ==
  /\ IF this.train_data = <<>> \/ sample = <<>>
          \/ \E i \in DOMAIN this.train_data : Len(this.train_data[i].features) # Len(sample)
     THEN Called(<<"predict", sample>>, threw)
     ELSE IF this.K > Len(this.train_data)
     THEN \E garbage \in Labels \cup {-1} : Called(<<"predict", sample>>, garbage)
     ELSE \E S \in Nearest(sample) : Called(<<"predict", sample>>, best_label(S))
  /\ UNCHANGED this

(* Bound: an object is trained once, as fit replaces everything it has. *)
Next == \/ this.train_data = <<>> /\ \E data \in BoundedSeq([features : Points, label : Labels], MaxData) : fit(data)
        \/ \E sample \in Points : predict(sample)

-----------------------------------------------------------------------------
(* By counting, without a sort: the rows of a label that are among the K     *)
(* nearest however equal distances are ordered, and those that can be.        *)
Certain(sample, label) ==
  LET dist == Distances(sample)
  IN {i \in DOMAIN dist : this.train_data[i].label = label
                          /\ Cardinality({j \in DOMAIN dist : dist[j] <= dist[i]}) <= this.K}
Possible(sample, label) ==
  LET dist == Distances(sample)
  IN {i \in DOMAIN dist : this.train_data[i].label = label
                          /\ Cardinality({j \in DOMAIN dist : dist[j] < dist[i]}) < this.K}

(* With at least K rows of as many features, the answer is a label among the *)
(* K nearest that no other label is certain to outvote.                       *)
Promise ==
  LET sample == call'[2]
  IN call'[1] = "predict" /\ returned' # threw /\ this.K <= Len(this.train_data) =>
       /\ Possible(sample, returned') # {}
       /\ \A m \in Labels : Cardinality(Certain(sample, m)) <= Cardinality(Possible(sample, returned'))

=============================================================================
