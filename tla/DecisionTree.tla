---------------------------- MODULE DecisionTree ----------------------------
(* DecisonTree.h.  The gain of a feature is a sum of logarithms and only     *)
(* serves to choose one: here any of the features may come out as the best.  *)
EXTENDS Object, Integers, Sequences, SequencesExt

CONSTANTS Features, Examples,     \* examples without their label
          Labels, MaxData         \* bound on the length of a data set

Leaf(label) == <<"leaf", label>>
untrained == <<"nullptr">>

Init == /\ this = [root_ |-> untrained, data |-> <<>>, features |-> {}]
        /\ call = <<"DecisionTree">> /\ returned = void

get_feature_value(example, feature) ==
  IF feature # "age" THEN example[feature]
  ELSE IF example.age < 30 THEN "young" ELSE IF example.age < 50 THEN "middle" ELSE "old"

(* the examples of the data with a value of the feature *)
Subset(data, feature, value) ==
  SelectSeq(data, LAMBDA row : get_feature_value(row.example, feature) = value)

LabelsOf(data) == {data[i].label : i \in DOMAIN data}
Count(data, label) == Len(SelectSeq(data, LAMBDA row : row.label = label))

(* Seeded fault: any label there is. *)
AnyLabel(data) == LabelsOf(data)

(* max_element over an unordered_map: any of the labels with the most rows *)
MostCommon(data) == {l \in LabelsOf(data) : \A m \in LabelsOf(data) : Count(data, m) <= Count(data, l)}

(* The trees the function can return. *)
RECURSIVE build_tree(_, _)
build_tree(data, features) ==
  IF data = <<>> THEN {untrained}
  ELSE IF Cardinality(LabelsOf(data)) = 1 THEN {Leaf(l) : l \in LabelsOf(data)}
  ELSE IF features = {} THEN {Leaf(l) : l \in MostCommon(data)}
  ELSE UNION {
         LET values == {get_feature_value(data[i].example, best) : i \in DOMAIN data}
             below == [v \in values |-> build_tree(Subset(data, best, v), features \ {best})]
         IN {<<"internal", best, children>> :
               children \in {c \in [values -> UNION {below[v] : v \in values}] :
                               \A v \in values : c[v] \in below[v]}}
         : best \in features}

fit(data, features) ==
  /\ \E tree \in build_tree(data, features) :
       this' = [root_ |-> tree, data |-> data, features |-> features]
  /\ Called(<<"fit">>, void)

RECURSIVE predict_helper(_, _)
predict_helper(node, example) ==
  IF node[1] = "leaf" THEN node[2]
  ELSE LET value == get_feature_value(example, node[2])
       IN IF value \in DOMAIN node[3] THEN predict_helper(node[3][value], example) ELSE threw

predict(example) ==
  /\ Called(<<"predict", example>>,
            IF this.root_ = untrained THEN threw ELSE predict_helper(this.root_, example))
  /\ UNCHANGED this

(* Bound: an object is trained once, as fit replaces everything it has. *)
Next ==
  \/ /\ this.data = <<>>
     /\ \E data \in BoundedSeq([example : Examples, label : Labels], MaxData), fs \in SUBSET Features :
          fit(data, fs)
  \/ \E example \in Examples : predict(example)

-----------------------------------------------------------------------------
Alike(example) ==
  SelectSeq(this.data, LAMBDA row : \A f \in this.features :
    get_feature_value(row.example, f) = get_feature_value(example, f))

(* Whichever features are chosen first, an example that agrees with some of  *)
(* the data in every feature gets a label most common among those; any other *)
(* gets a label of the data or throws.                                        *)
Promise ==
  call'[1] = "predict" =>
    LET alike == Alike(call'[2])
    IN IF alike # <<>> THEN \A l \in LabelsOf(alike) : Count(alike, l) <= Count(alike, returned')
       ELSE returned' \in LabelsOf(this.data) \cup {threw}

=============================================================================
