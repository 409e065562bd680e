---------------------------- MODULE ProofLemmas ----------------------------
(***************************************************************************)
(* The lemmas the proofs share.  First, what waits and notifications do to *)
(* the number of threads at a control point: S is the set of threads, P    *)
(* the set of control points.  Then, of a queue and what came out of it.   *)
(***************************************************************************)
EXTENDS CondVar, Integers, Sequences, FiniteSetTheorems, TLAPS

(* The threads at a control point form a finite set. *)
LEMMA AtIsFinite ==
    ASSUME NEW S, IsFiniteSet(S), NEW P, NEW f \in [S -> P], NEW p
    PROVE  /\ IsFiniteSet(At(f, p))
           /\ Cardinality(At(f, p)) \in Nat
           /\ Cardinality(At(f, p)) = 0 <=> At(f, p) = {}
<1>1. At(f, p) = { t \in S : f[t] = p }
    BY DEF At
<1>2. IsFiniteSet(At(f, p))
    BY <1>1, FS_Subset
<1> QED BY <1>2, FS_CardinalityType, FS_EmptySet

(* A thread that moves to control point q adds itself to those at q, ...  *)
LEMMA Joins ==
    ASSUME NEW S, IsFiniteSet(S), NEW P, NEW f \in [S -> P],
           NEW t \in S, NEW q \in P, f[t] # q
    PROVE  /\ Move(f, t, q) \in [S -> P]
           /\ At(Move(f, t, q), q) = At(f, q) \cup {t}
           /\ Cardinality(At(Move(f, t, q), q)) = Cardinality(At(f, q)) + 1
<1> DEFINE g == Move(f, t, q)
<1>1. g = [f EXCEPT ![t] = q] /\ g \in [S -> P] /\ DOMAIN g = S /\ DOMAIN f = S
    BY DEF Move
<1>2. At(g, q) = At(f, q) \cup {t} /\ t \notin At(f, q)
    BY <1>1 DEF At
<1>3. IsFiniteSet(At(f, q))
    BY AtIsFinite
<1>4. Cardinality(At(f, q) \cup {t}) = Cardinality(At(f, q)) + 1
    BY <1>2, <1>3, FS_AddElement
<1> QED BY <1>1, <1>2, <1>4

(* ... takes itself from those at the point it leaves, ...                 *)
LEMMA Leaves ==
    ASSUME NEW S, IsFiniteSet(S), NEW P, NEW f \in [S -> P],
           NEW t \in S, NEW q \in P, NEW p, f[t] = p, p # q
    PROVE  /\ At(Move(f, t, q), p) = At(f, p) \ {t}
           /\ Cardinality(At(Move(f, t, q), p)) = Cardinality(At(f, p)) - 1
<1> DEFINE g == Move(f, t, q)
<1>1. g = [f EXCEPT ![t] = q] /\ g \in [S -> P] /\ DOMAIN g = S /\ DOMAIN f = S
    BY DEF Move
<1>2. At(g, p) = At(f, p) \ {t} /\ t \in At(f, p)
    BY <1>1 DEF At
<1>3. IsFiniteSet(At(f, p))
    BY AtIsFinite
<1>4. Cardinality(At(f, p) \ {t}) = Cardinality(At(f, p)) - 1
    BY <1>2, <1>3, FS_RemoveElement
<1> QED BY <1>2, <1>4

(* ... and leaves those at the other points where they are.                *)
LEMMA Stays ==
    ASSUME NEW S, NEW P, NEW f \in [S -> P],
           NEW t \in S, NEW q, NEW p, p # q, p # f[t]
    PROVE  At(Move(f, t, q), p) = At(f, p)
    BY DEF At, Move

(* notify_one moves one sleeper, if there is one. *)
LEMMA NotifyOneCases ==
    ASSUME NEW S, NEW P, NEW f \in [S -> P], NEW a, NEW w,
           NEW g \in NotifyOne(f, a, w)
    PROVE  \/ At(f, a) = {} /\ g = f
           \/ \E t \in S : f[t] = a /\ g = Move(f, t, w)
    BY DEF NotifyOne, At, Move
-----------------------------------------------------------------------------
(* The same in numbers, for any function f from threads to control points, *)
(* whatever its range.                                                     *)
LEMMA AtCounted ==
    ASSUME NEW f, IsFiniteSet(DOMAIN f), NEW p
    PROVE  IsFiniteSet(At(f, p)) /\ Cardinality(At(f, p)) \in Nat
<1>1. At(f, p) \subseteq DOMAIN f
    BY DEF At
<1> QED BY <1>1, FS_Subset, FS_CardinalityType

(* A move changes no thread but one. *)
LEMMA MoveAt ==
    ASSUME NEW f, NEW t \in DOMAIN f, NEW q
    PROVE  /\ DOMAIN Move(f, t, q) = DOMAIN f
           /\ \A p : At(Move(f, t, q), p) =
                        IF p = q THEN At(f, p) \cup {t} ELSE At(f, p) \ {t}
           /\ \A p : p # q /\ p # f[t] => At(Move(f, t, q), p) = At(f, p)
    BY DEF Move, At

(* No control point loses more than one thread by a move, ... *)
LEMMA MoveLosesOne ==
    ASSUME NEW f, IsFiniteSet(DOMAIN f), NEW t \in DOMAIN f, NEW q, NEW p
    PROVE  /\ Cardinality(At(Move(f, t, q), p)) \in Nat
           /\ Cardinality(At(Move(f, t, q), p)) >= Cardinality(At(f, p)) - 1
<1>1. /\ IsFiniteSet(At(f, p)) /\ Cardinality(At(f, p)) \in Nat
      /\ Cardinality(At(Move(f, t, q), p)) \in Nat
    BY AtCounted, MoveAt
<1>2. At(Move(f, t, q), p) \in {At(f, p) \cup {t}, At(f, p) \ {t}}
    BY MoveAt
<1>3. /\ Cardinality(At(f, p) \cup {t}) >= Cardinality(At(f, p))
      /\ Cardinality(At(f, p) \ {t}) >= Cardinality(At(f, p)) - 1
    <2>1. CASE t \in At(f, p)
        <3>1. Cardinality(At(f, p) \cup {t}) = Cardinality(At(f, p))
            <4>1. At(f, p) \cup {t} = At(f, p)
                BY <2>1
            <4> QED BY <4>1
        <3>2. Cardinality(At(f, p) \ {t}) = Cardinality(At(f, p)) - 1
            BY <1>1, <2>1, FS_RemoveElement
        <3> QED BY <1>1, <3>1, <3>2
    <2>2. CASE t \notin At(f, p)
        <3>1. Cardinality(At(f, p) \ {t}) = Cardinality(At(f, p))
            <4>1. At(f, p) \ {t} = At(f, p)
                BY <2>2
            <4> QED BY <4>1
        <3>2. Cardinality(At(f, p) \cup {t}) = Cardinality(At(f, p)) + 1
            BY <1>1, <2>2, FS_AddElement
        <3> QED BY <1>1, <3>1, <3>2
    <2> QED BY <2>1, <2>2
<1> QED BY <1>1, <1>2, <1>3

(* ... and the one the thread goes to, if it was not there, gains it.      *)
LEMMA MoveGainsOne ==
    ASSUME NEW f, IsFiniteSet(DOMAIN f), NEW t \in DOMAIN f, NEW q, f[t] # q
    PROVE  Cardinality(At(Move(f, t, q), q)) = Cardinality(At(f, q)) + 1
<1>1. At(Move(f, t, q), q) = At(f, q) \cup {t} /\ t \notin At(f, q)
    BY MoveAt DEF At
<1>2. IsFiniteSet(At(f, q))
    BY AtCounted
<1> QED BY <1>1, <1>2, FS_AddElement

(* notify_one: nobody sleeps and nothing changes, or one more is awake;    *)
(* no third control point is concerned.                                    *)
LEMMA NotifyOneCounts ==
    ASSUME NEW f, IsFiniteSet(DOMAIN f), NEW a, NEW w, a # w,
           NEW g \in NotifyOne(f, a, w)
    PROVE  /\ DOMAIN g = DOMAIN f
           /\ \A p : p # a /\ p # w => At(g, p) = At(f, p)
           /\ \/ At(f, a) = {} /\ g = f
              \/ /\ At(f, a) # {}
                 /\ Cardinality(At(g, w)) = Cardinality(At(f, w)) + 1
<1>1. CASE At(f, a) = {} /\ g = f
    BY <1>1
<1>2. ASSUME NEW t \in DOMAIN f, f[t] = a, g = Move(f, t, w)
      PROVE  /\ DOMAIN g = DOMAIN f
             /\ \A p : p # a /\ p # w => At(g, p) = At(f, p)
             /\ At(f, a) # {}
             /\ Cardinality(At(g, w)) = Cardinality(At(f, w)) + 1
    <2>1. DOMAIN g = DOMAIN f /\ Cardinality(At(g, w)) = Cardinality(At(f, w)) + 1
        BY <1>2, MoveAt, MoveGainsOne
    <2>2. \A p : p # a /\ p # w => At(g, p) = At(f, p)
        BY <1>2 DEF At, Move
    <2>3. At(f, a) # {}
        BY <1>2 DEF At
    <2> QED BY <2>1, <2>2, <2>3
<1>3. \/ At(f, a) = {} /\ g = f
      \/ \E t \in DOMAIN f : f[t] = a /\ g = Move(f, t, w)
    BY DEF NotifyOne, At
<1> QED BY <1>1, <1>2, <1>3

(* notify_all leaves no sleeper, and everybody else where they were. *)
LEMMA NotifyAllAt ==
    ASSUME NEW f, NEW a, NEW w, a # w
    PROVE  /\ DOMAIN NotifyAll(f, a, w) = DOMAIN f
           /\ At(NotifyAll(f, a, w), a) = {}
           /\ At(NotifyAll(f, a, w), w) = At(f, w) \cup At(f, a)
           /\ \A p : p # a /\ p # w => At(NotifyAll(f, a, w), p) = At(f, p)
    BY DEF NotifyAll, At

(* The control points of those that are in a state stay control points. *)
LEMMA StepsKeepPoints ==
    ASSUME NEW S, NEW P, NEW f \in [S -> P], NEW a
    PROVE  /\ \A t, q : q \in P => Move(f, t, q) \in [S -> P]
           /\ \A w, g : w \in P /\ g \in NotifyOne(f, a, w) => g \in [S -> P]
           /\ \A w : w \in P => NotifyAll(f, a, w) \in [S -> P]
    BY DEF Move, NotifyOne, NotifyAll, At
-----------------------------------------------------------------------------
(* The item that leaves queue q is the first that has not left, and adds   *)
(* itself to d, those that have.                                           *)
LEMMA QueueShrinks ==
    ASSUME NEW S, NEW d \in Seq(S), NEW q \in Seq(S), q # <<>>
    PROVE  /\ d \o q = Append(d, Head(q)) \o Tail(q)
           /\ (d \o q)[Len(d) + 1] = Head(q)
           /\ Len(d) < Len(d \o q)
           /\ Head(q) \in S
           /\ Tail(q) \in Seq(S)
           /\ Append(d, Head(q)) \in Seq(S)
           /\ Len(Tail(q)) = Len(q) - 1
           /\ Len(q) \in Nat
    OBVIOUS
=============================================================================
