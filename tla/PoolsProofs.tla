---------------------------- MODULE PoolsProofs -----------------------------
(***************************************************************************)
(* For every number of clients, of connections and of objects: neither     *)
(* pool loses or doubles what it keeps, and neither leaves a sleeper       *)
(* beside something to take that nobody comes for.                         *)
(***************************************************************************)
EXTENDS Pools, ProofLemmas

(* Of the things 1 .. n, those in pool q are each there once, those that   *)
(* the members of S hold are each held by one, none is in both places and  *)
(* only those of X are in neither.  h[s] = 0 says that s holds nothing.    *)
Placed(q, h, n, S, X) ==
    /\ n \in Nat /\ q \in Seq(1 .. n) /\ h \in [S -> 0 .. n] /\ X \subseteq 1 .. n
    /\ \A i \in 1 .. Len(q) : q[i] \notin X
    /\ \A s \in S : h[s] \notin X
    /\ \A i, j \in 1 .. Len(q) : q[i] = q[j] => i = j
    /\ \A s, t \in S : h[s] = h[t] /\ h[s] # 0 => s = t
    /\ \A i \in 1 .. Len(q), s \in S : q[i] # h[s]
    /\ \A k \in (1 .. n) \ X : \/ \E i \in 1 .. Len(q) : q[i] = k
                               \/ \E s \in S : h[s] = k

(* Each thing is then counted once, and those of X are not. *)
LEMMA PlacedOnce ==
    ASSUME NEW q, NEW h, NEW n, NEW S, NEW X, Placed(q, h, n, S, X), NEW k \in 1 .. n
    PROVE  Cardinality({ i \in DOMAIN q : q[i] = k })
               + Cardinality({ s \in S : h[s] = k }) = IF k \in X THEN 0 ELSE 1
<1> DEFINE I == { i \in DOMAIN q : q[i] = k }
           H == { s \in S : h[s] = k }
<1>1. DOMAIN q = 1 .. Len(q) /\ k # 0
    BY DEF Placed
<1>2. CASE \E i \in 1 .. Len(q) : q[i] = k
    <2>1. PICK i \in 1 .. Len(q) : q[i] = k
        BY <1>2
    <2>2. I = {i} /\ H = {} /\ k \notin X
        BY <1>1, <2>1 DEF Placed
    <2>3. Cardinality({i}) = 1 /\ Cardinality({}) = 0
        BY FS_Singleton, FS_EmptySet
    <2>4. Cardinality(I) = 1 /\ Cardinality(H) = 0
        BY <2>2, <2>3, Zenon
    <2> QED BY <2>2, <2>4
<1>3. CASE \E s \in S : h[s] = k
    <2>1. PICK s \in S : h[s] = k
        BY <1>3
    <2>2. H = {s} /\ I = {} /\ k \notin X
        BY <1>1, <2>1 DEF Placed
    <2>3. Cardinality({s}) = 1 /\ Cardinality({}) = 0
        BY FS_Singleton, FS_EmptySet
    <2>4. Cardinality(I) = 0 /\ Cardinality(H) = 1
        BY <2>2, <2>3, Zenon
    <2> QED BY <2>2, <2>4
<1>4. CASE k \in X
    <2>1. I = {} /\ H = {}
        BY <1>1, <1>4 DEF Placed
    <2>2. Cardinality({}) = 0
        BY FS_EmptySet
    <2>3. Cardinality(I) = 0 /\ Cardinality(H) = 0
        BY <2>1, <2>2, Zenon
    <2> QED BY <1>4, <2>3
<1> QED BY <1>2, <1>3, <1>4 DEF Placed

(* What a queue is made of when its first element leaves, ... *)
LEMMA TailIs ==
    ASSUME NEW T, NEW q \in Seq(T), q # <<>>
    PROVE  /\ Len(q) \in Nat /\ Len(q) > 0
           /\ Head(q) = q[1]
           /\ Tail(q) \in Seq(T) /\ Len(Tail(q)) = Len(q) - 1
           /\ \A i \in 1 .. Len(q) - 1 : Tail(q)[i] = q[i + 1]
    OBVIOUS

(* ... when one more comes, ... *)
LEMMA AppendIs ==
    ASSUME NEW T, NEW q \in Seq(T), NEW x \in T
    PROVE  /\ Len(q) \in Nat
           /\ Append(q, x) \in Seq(T) /\ Len(Append(q, x)) = Len(q) + 1
           /\ \A i \in 1 .. Len(q) : Append(q, x)[i] = q[i]
           /\ Append(q, x)[Len(q) + 1] = x
    OBVIOUS

(* ... when a second one follows, ... *)
LEMMA JoinIs ==
    ASSUME NEW T, NEW q \in Seq(T), NEW g \in Seq(T)
    PROVE  /\ q \o g \in Seq(T) /\ Len(q \o g) = Len(q) + Len(g)
           /\ \A i \in 1 .. Len(q) : (q \o g)[i] = q[i]
           /\ \A i \in 1 .. Len(g) : (q \o g)[Len(q) + i] = g[i]
    OBVIOUS

(* ... and when those from n + 1 to m come. *)
LEMMA ConcatIs ==
    ASSUME NEW n \in Nat, NEW k \in Nat, NEW q \in Seq(1 .. n)
    PROVE  LET p == q \o [i \in 1 .. k |-> n + i] IN
           /\ Len(q) \in Nat
           /\ p \in Seq(1 .. n + k) /\ Len(p) = Len(q) + k
           /\ \A i \in 1 .. Len(q) : p[i] = q[i]
           /\ \A i \in 1 .. k : p[Len(q) + i] = n + i
<1> DEFINE T == 1 .. n + k
           g == [i \in 1 .. k |-> n + i]
<1>1. g \in Seq(T) /\ Len(g) = k
    OBVIOUS
<1>2. q \in Seq(T) /\ Len(q) \in Nat
    OBVIOUS
<1>3. \A i \in 1 .. k : g[i] = n + i
    OBVIOUS
<1> HIDE DEF g, T
<1>4. q \o g \in Seq(T) /\ Len(q \o g) = Len(q) + Len(g)
    BY <1>1, <1>2, JoinIs
<1>5. \A i \in 1 .. Len(q) : (q \o g)[i] = q[i]
    BY <1>1, <1>2, JoinIs
<1>6. \A i \in 1 .. Len(g) : (q \o g)[Len(q) + i] = g[i]
    BY <1>1, <1>2, JoinIs
<1> QED BY <1>1, <1>2, <1>3, <1>4, <1>5, <1>6 DEF g, T

(* The first of the pool goes to a member that holds nothing, ... *)
LEMMA PlacedTake ==
    ASSUME NEW q, NEW h, NEW n, NEW S, NEW X, Placed(q, h, n, S, X),
           NEW s \in S, h[s] = 0, q # <<>>
    PROVE  /\ Placed(Tail(q), [h EXCEPT ![s] = Head(q)], n, S, X)
           /\ Head(q) \in 1 .. n
           /\ Len(Tail(q)) = Len(q) - 1
<1> DEFINE g == [h EXCEPT ![s] = Head(q)]
           r == Tail(q)
<1>1. n \in Nat /\ q \in Seq(1 .. n) /\ h \in [S -> 0 .. n]
    BY DEF Placed
<1>2. /\ Len(q) \in Nat /\ Len(q) > 0 /\ Head(q) = q[1] /\ r \in Seq(1 .. n)
      /\ Len(r) = Len(q) - 1 /\ \A i \in 1 .. Len(q) - 1 : r[i] = q[i + 1]
    BY <1>1, TailIs
<1>3. q[1] \in 1 .. n
    BY <1>1, <1>2
<1>4. g \in [S -> 0 .. n] /\ g[s] = q[1] /\ \A t \in S \ {s} : g[t] = h[t]
    BY <1>1, <1>2, <1>3
<1> HIDE DEF g, r
<1>5. ASSUME NEW i \in 1 .. Len(r), NEW j \in 1 .. Len(r), r[i] = r[j] PROVE i = j
    <2>1. i + 1 \in 1 .. Len(q) /\ j + 1 \in 1 .. Len(q) /\ q[i + 1] = q[j + 1]
        BY <1>2, <1>5
    <2>2. i + 1 = j + 1
        BY <2>1 DEF Placed
    <2> QED BY <2>2
<1>6. \A t, u \in S : g[t] = g[u] /\ g[t] # 0 => t = u
    <2>1. \A t, u \in S : h[t] = h[u] /\ h[t] # 0 => t = u
        BY DEF Placed
    <2>2. 1 \in 1 .. Len(q)
        BY <1>2
    <2>3. \A t \in S : q[1] # h[t]
        BY <2>2 DEF Placed
    <2> QED BY <1>4, <2>1, <2>3
<1>7. ASSUME NEW i \in 1 .. Len(r), NEW t \in S PROVE r[i] # g[t]
    <2>1. i + 1 \in 1 .. Len(q) /\ 1 \in 1 .. Len(q) /\ r[i] = q[i + 1] /\ i + 1 # 1
        BY <1>2
    <2>2. q[i + 1] # q[1] /\ q[i + 1] # h[t]
        BY <2>1 DEF Placed
    <2> QED BY <1>4, <2>1, <2>2
<1>8. ASSUME NEW k \in (1 .. n) \ X
      PROVE  (\E i \in 1 .. Len(r) : r[i] = k) \/ (\E t \in S : g[t] = k)
    <2>1. CASE \E i \in 1 .. Len(q) : q[i] = k
        <3>1. PICK i \in 1 .. Len(q) : q[i] = k
            BY <2>1
        <3>2. CASE i = 1
            BY <1>4, <3>1, <3>2
        <3>3. CASE i # 1
            <4>1. i - 1 \in 1 .. Len(r) /\ r[i - 1] = k
                BY <1>2, <3>1, <3>3
            <4> QED BY <4>1
        <3> QED BY <3>2, <3>3
    <2>2. CASE \E t \in S : h[t] = k
        BY <1>1, <1>4, <2>2
    <2> QED BY <2>1, <2>2 DEF Placed
<1>9. /\ X \subseteq 1 .. n
      /\ \A i \in 1 .. Len(r) : r[i] \notin X
      /\ \A t \in S : g[t] \notin X
    <2>1. /\ X \subseteq 1 .. n
          /\ \A i \in 1 .. Len(q) : q[i] \notin X
          /\ \A t \in S : h[t] \notin X
        BY DEF Placed
    <2>2. \A i \in 1 .. Len(r) : i + 1 \in 1 .. Len(q) /\ r[i] = q[i + 1]
        BY <1>2
    <2>3. 1 \in 1 .. Len(q)
        BY <1>2
    <2> QED BY <1>4, <2>1, <2>2, <2>3
<1>10. Placed(r, g, n, S, X)
    BY <1>1, <1>2, <1>4, <1>5, <1>6, <1>7, <1>8, <1>9 DEF Placed
<1> QED BY <1>2, <1>3, <1>10 DEF g, r

(* ... comes back as the last of the pool, ... *)
LEMMA PlacedBack ==
    ASSUME NEW q, NEW h, NEW n, NEW S, NEW X, Placed(q, h, n, S, X), NEW s \in S, h[s] # 0
    PROVE  /\ Placed(Append(q, h[s]), [h EXCEPT ![s] = 0], n, S, X)
           /\ Len(Append(q, h[s])) = Len(q) + 1
<1> DEFINE g == [h EXCEPT ![s] = 0]
           r == Append(q, h[s])
<1>1. n \in Nat /\ q \in Seq(1 .. n) /\ h \in [S -> 0 .. n] /\ h[s] \in 1 .. n
    BY DEF Placed
<1>2. /\ Len(q) \in Nat /\ r \in Seq(1 .. n) /\ Len(r) = Len(q) + 1
      /\ \A i \in 1 .. Len(q) : r[i] = q[i]
      /\ r[Len(q) + 1] = h[s]
    BY <1>1, AppendIs
<1>3. g \in [S -> 0 .. n] /\ g[s] = 0 /\ \A t \in S \ {s} : g[t] = h[t]
    BY <1>1
<1> HIDE DEF g, r
<1>4. \A i \in 1 .. Len(r) : i \in 1 .. Len(q) \/ i = Len(q) + 1
    BY <1>2
<1>5. ASSUME NEW i \in 1 .. Len(r), NEW j \in 1 .. Len(r), r[i] = r[j] PROVE i = j
    <2>1. \A a \in 1 .. Len(q) : q[a] # h[s]
        BY DEF Placed
    <2>2. CASE i \in 1 .. Len(q) /\ j \in 1 .. Len(q)
        <3>1. q[i] = q[j]
            BY <1>2, <1>5, <2>2
        <3> QED BY <2>2, <3>1 DEF Placed
    <2> QED BY <1>2, <1>4, <1>5, <2>1, <2>2
<1>6. \A t, u \in S : g[t] = g[u] /\ g[t] # 0 => t = u
    BY <1>3 DEF Placed
<1>7. \A i \in 1 .. Len(r), t \in S : r[i] # g[t]
    <2>1. \A i \in 1 .. Len(r) : r[i] # 0
        BY <1>1, <1>2
    <2>2. \A i \in 1 .. Len(q), t \in S : q[i] # h[t]
        BY DEF Placed
    <2>3. \A t \in S : h[t] = h[s] => t = s
        BY <1>1 DEF Placed
    <2> QED BY <1>2, <1>3, <1>4, <2>1, <2>2, <2>3
<1>8. ASSUME NEW k \in (1 .. n) \ X
      PROVE  (\E i \in 1 .. Len(r) : r[i] = k) \/ (\E t \in S : g[t] = k)
    <2>1. CASE \E i \in 1 .. Len(q) : q[i] = k
        BY <1>2, <2>1
    <2>2. CASE \E t \in S : h[t] = k
        <3>1. PICK t \in S : h[t] = k
            BY <2>2
        <3>2. CASE t = s
            <4>1. Len(q) + 1 \in 1 .. Len(r)
                BY <1>2
            <4> QED BY <1>2, <3>1, <3>2, <4>1
        <3>3. CASE t # s
            BY <1>3, <3>1, <3>3
        <3> QED BY <3>2, <3>3
    <2> QED BY <2>1, <2>2 DEF Placed
<1>9. /\ X \subseteq 1 .. n
      /\ \A i \in 1 .. Len(r) : r[i] \notin X
      /\ \A t \in S : g[t] \notin X
    <2>1. /\ X \subseteq 1 .. n
          /\ \A i \in 1 .. Len(q) : q[i] \notin X
          /\ \A t \in S : h[t] \notin X
        BY DEF Placed
    <2>2. 0 \notin X
        BY <2>1
    <2> QED BY <1>2, <1>3, <1>4, <2>1, <2>2
<1>10. Placed(r, g, n, S, X)
    BY <1>1, <1>2, <1>3, <1>5, <1>6, <1>7, <1>8, <1>9 DEF Placed
<1> QED BY <1>2, <1>10 DEF g, r

(* ... and k new ones join the pool. *)
LEMMA PlacedMore ==
    ASSUME NEW q, NEW h, NEW n, NEW S, NEW X, Placed(q, h, n, S, X), NEW k \in Nat
    PROVE  /\ Placed(q \o [i \in 1 .. k |-> n + i], h, n + k, S, X)
           /\ Len(q \o [i \in 1 .. k |-> n + i]) = Len(q) + k
<1> DEFINE r == q \o [i \in 1 .. k |-> n + i]
<1>1. n \in Nat /\ q \in Seq(1 .. n) /\ h \in [S -> 0 .. n]
    BY DEF Placed
<1>2. /\ Len(q) \in Nat /\ r \in Seq(1 .. n + k) /\ Len(r) = Len(q) + k
      /\ \A i \in 1 .. Len(q) : r[i] = q[i]
      /\ \A i \in 1 .. k : r[Len(q) + i] = n + i
    BY <1>1, ConcatIs
<1> HIDE DEF r
<1>3. \A i \in 1 .. Len(r) : \/ i \in 1 .. Len(q) /\ r[i] = q[i] /\ r[i] \in 1 .. n
                             \/ i - Len(q) \in 1 .. k /\ r[i] = n + (i - Len(q))
    <2> TAKE i \in 1 .. Len(r)
    <2>1. CASE i <= Len(q)
        <3>1. i \in 1 .. Len(q)
            BY <1>2, <2>1
        <3> QED BY <1>1, <1>2, <3>1
    <2>2. CASE i > Len(q)
        <3>1. i - Len(q) \in 1 .. k /\ Len(q) + (i - Len(q)) = i
            BY <1>2, <2>2
        <3> QED BY <1>2, <3>1
    <2> QED BY <1>2, <2>1, <2>2
<1>4. ASSUME NEW i \in 1 .. Len(r), NEW j \in 1 .. Len(r), r[i] = r[j] PROVE i = j
    <2>1. CASE i \in 1 .. Len(q) /\ j \in 1 .. Len(q) /\ q[i] = q[j]
        BY <2>1 DEF Placed
    <2>2. /\ \/ i \in 1 .. Len(q) /\ r[i] = q[i] /\ r[i] \in 1 .. n
             \/ i - Len(q) \in 1 .. k /\ r[i] = n + (i - Len(q))
          /\ \/ j \in 1 .. Len(q) /\ r[j] = q[j] /\ r[j] \in 1 .. n
             \/ j - Len(q) \in 1 .. k /\ r[j] = n + (j - Len(q))
        BY <1>3
    <2> QED BY <1>1, <1>2, <1>4, <2>1, <2>2
<1>5. ASSUME NEW i \in 1 .. Len(r), NEW t \in S PROVE r[i] # h[t]
    <2>1. h[t] \in 0 .. n
        BY <1>1
    <2>2. \A a \in 1 .. Len(q) : q[a] # h[t]
        BY DEF Placed
    <2>3. \/ i \in 1 .. Len(q) /\ r[i] = q[i] /\ r[i] \in 1 .. n
          \/ i - Len(q) \in 1 .. k /\ r[i] = n + (i - Len(q))
        BY <1>3
    <2> QED BY <1>1, <1>2, <2>1, <2>2, <2>3
<1>6. ASSUME NEW j \in (1 .. n + k) \ X
      PROVE  (\E i \in 1 .. Len(r) : r[i] = j) \/ (\E t \in S : h[t] = j)
    <2>1. CASE j \in 1 .. n
        <3>1. CASE \E i \in 1 .. Len(q) : q[i] = j
            BY <1>2, <3>1
        <3> QED BY <2>1, <3>1 DEF Placed
    <2>2. CASE j \notin 1 .. n
        <3>1. j - n \in 1 .. k /\ Len(q) + (j - n) \in 1 .. Len(r) /\ n + (j - n) = j
            BY <1>1, <1>2, <2>2
        <3> QED BY <1>2, <3>1
    <2> QED BY <2>1, <2>2
<1>7. h \in [S -> 0 .. n + k] /\ n + k \in Nat
    BY <1>1
<1>8. /\ X \subseteq 1 .. n + k
      /\ \A i \in 1 .. Len(r) : r[i] \notin X
      /\ \A t \in S : h[t] \notin X
    <2>1. /\ X \subseteq 1 .. n
          /\ \A i \in 1 .. Len(q) : q[i] \notin X
          /\ \A t \in S : h[t] \notin X
        BY DEF Placed
    <2>2. \A j \in 1 .. k : n + j \notin X
        BY <1>1, <2>1
    <2> QED BY <1>1, <1>3, <2>1, <2>2
<1>9. \A t, u \in S : h[t] = h[u] /\ h[t] # 0 => t = u
    BY DEF Placed
<1>10. Placed(r, h, n + k, S, X)
    BY <1>2, <1>4, <1>5, <1>6, <1>7, <1>8, <1>9 DEF Placed
<1> QED BY <1>2, <1>10 DEF r

(* One that nobody has is one more, and belongs to X.                      *)
LEMMA PlacedNowhere ==
    ASSUME NEW q, NEW h, NEW n, NEW S, NEW X, Placed(q, h, n, S, X)
    PROVE  Placed(q, h, n + 1, S, X \cup {n + 1})
<1>1. n \in Nat /\ q \in Seq(1 .. n) /\ h \in [S -> 0 .. n] /\ X \subseteq 1 .. n
    BY DEF Placed
<1>2. /\ n + 1 \in Nat /\ q \in Seq(1 .. n + 1) /\ h \in [S -> 0 .. n + 1]
      /\ X \cup {n + 1} \subseteq 1 .. n + 1
    BY <1>1
<1>3. \A i \in 1 .. Len(q) : q[i] # n + 1
    <2>1. \A i \in 1 .. Len(q) : q[i] \in 1 .. n
        BY <1>1
    <2> QED BY <1>1, <2>1
<1>4. \A s \in S : h[s] # n + 1
    BY <1>1
<1>5. (1 .. n + 1) \ (X \cup {n + 1}) \subseteq (1 .. n) \ X
    BY <1>1
<1> QED BY <1>2, <1>3, <1>4, <1>5 DEF Placed
-----------------------------------------------------------------------------
(* The inductive invariant of the pool of connections: before initialize   *)
(* has succeeded nobody has called, so that nobody sleeps while it fills   *)
(* the pool without a notification.                                        *)
NobodyWaitsYet == ~initialized_ => At(pc, "asleep") = {}

MysqlInv == /\ TypeOK /\ Placed(pool_, conn, opened, Clients, leaked)
            /\ NoStrandedConnection /\ NobodyWaitsYet

(* What the proofs need to know of a function from clients to points. *)
LEMMA ClientsFinite ==
    ASSUME NEW f \in [Clients -> Points]
    PROVE  /\ DOMAIN f = Clients /\ IsFiniteSet(DOMAIN f)
           /\ \A p : Cardinality(At(f, p)) \in Nat
<1>1. DOMAIN f = Clients /\ IsFiniteSet(DOMAIN f)
    BY MysqlPoolAssumption
<1> QED BY <1>1, AtCounted

(* The types of the invariant, as the steps need them. *)
LEMMA MysqlTypes ==
    ASSUME MysqlInv
    PROVE  /\ pc \in [Clients -> Points] /\ DOMAIN pc = Clients /\ IsFiniteSet(DOMAIN pc)
           /\ \A p : Cardinality(At(pc, p)) \in Nat
           /\ pool_ \in Seq(1 .. opened) /\ Len(pool_) \in Nat
           /\ opened \in Nat /\ opened <= MaxConnections
           /\ conn \in [Clients -> 0 .. opened]
           /\ \A c \in Clients : conn[c] # 0 <=> pc[c] \in {"checking", "using", "unwinding"}
<1>1. pc \in [Clients -> Points] /\ pool_ \in Seq(1 .. opened) /\ opened \in 0 .. MaxConnections
    BY DEF MysqlInv, TypeOK
<1>2. Len(pool_) \in Nat
    BY <1>1
<1> QED BY <1>1, <1>2, ClientsFinite, MysqlPoolAssumption DEF MysqlInv, TypeOK, Nothing

(* initialize opens some of the connections, or all of them; one it opens  *)
(* and does not push joins those that are leaked.                          *)
LEMMA InitializeStep ==
    ASSUME MysqlInv, initialize
    PROVE  MysqlInv'
<1>1. PICK n \in 0 .. poolSize :
          /\ pool_' = pool_ \o [i \in 1 .. n |-> opened + i]
          /\ initialized_' = (n = poolSize)
          /\ \/ opened' = opened + n /\ UNCHANGED leaked
             \/ /\ n < poolSize /\ opened' = opened + n + 1
                /\ leaked' = leaked \cup {opened'}
    BY DEF initialize
<1>2. /\ UNCHANGED <<closed, mtx_, pc, conn>> /\ n \in Nat
      /\ opened' \in 0 .. MaxConnections /\ opened <= opened' /\ opened \in Nat
    BY <1>1, MysqlTypes, MysqlPoolAssumption DEF initialize
<1>3. Placed(pool_, conn, opened, Clients, leaked)'
    <2>1. Placed(pool_', conn, opened + n, Clients, leaked)
        BY <1>1, <1>2, PlacedMore DEF MysqlInv
    <2>2. CASE opened' = opened + n /\ UNCHANGED leaked
        BY <1>2, <2>1, <2>2
    <2>3. CASE opened' = (opened + n) + 1 /\ leaked' = leaked \cup {opened'}
        BY <1>2, <2>1, <2>3, PlacedNowhere
    <2> QED BY <1>1, <1>2, <2>2, <2>3
<1>4. TypeOK'
    <2>1. initialized_' \in BOOLEAN /\ pool_' \in Seq(1 .. opened') /\ leaked' \subseteq 1 .. opened'
        BY <1>1, <1>3 DEF Placed
    <2>2. closed' \subseteq 1 .. opened' /\ conn' \in [Clients -> 0 .. opened']
        BY <1>2 DEF MysqlInv, TypeOK
    <2> QED BY <1>2, <2>1, <2>2 DEF MysqlInv, TypeOK
<1>5. At(pc', "asleep") = {}
    BY <1>2 DEF initialize, MysqlInv, NobodyWaitsYet
<1> QED BY <1>3, <1>4, <1>5 DEF MysqlInv, NoStrandedConnection, NobodyWaitsYet

(* getConnection takes the first connection, or waits. *)
LEMMA GetConnectionStep ==
    ASSUME MysqlInv, NEW c \in Clients, getConnection(c)
    PROVE  MysqlInv'
<1>1. /\ pc[c] \in {"idle", "awake"} /\ c \in DOMAIN pc /\ conn[c] = 0
      /\ initialized_ /\ mtx_ = Nobody
      /\ UNCHANGED <<initialized_, opened, leaked, closed>>
    BY MysqlTypes DEF getConnection
<1>2. CASE pool_ # <<>> /\ conn' = [conn EXCEPT ![c] = Head(pool_)]
           /\ pool_' = Tail(pool_) /\ pc' = Move(pc, c, "checking") /\ mtx_' = c
    <2>1. /\ Placed(pool_, conn, opened, Clients, leaked)'
          /\ Head(pool_) \in 1 .. opened /\ Len(pool_') = Len(pool_) - 1
        BY <1>1, <1>2, PlacedTake DEF MysqlInv
    <2>2. pc' \in [Clients -> Points] /\ pc' = [pc EXCEPT ![c] = "checking"]
        BY <1>2, MysqlTypes DEF Move, Points
    <2>3. TypeOK'
        <3>1. pool_' \in Seq(1 .. opened') /\ conn' \in [Clients -> 0 .. opened']
            BY <2>1 DEF Placed
        <3>2. \A d \in Clients :
                 /\ conn'[d] # Nothing <=> pc'[d] \in {"checking", "using", "unwinding"}
                 /\ mtx_' = d <=> pc'[d] \in {"checking", "unwinding"}
            <4> TAKE d \in Clients
            <4>1. /\ conn[d] # Nothing <=> pc[d] \in {"checking", "using", "unwinding"}
                  /\ ~(pc[d] \in {"checking", "unwinding"})
                BY <1>1, MysqlPoolAssumption DEF MysqlInv, TypeOK
            <4>2. CASE d = c
                BY <1>2, <2>1, <2>2, <4>2, MysqlTypes DEF Nothing
            <4>3. CASE d # c
                BY <1>2, <2>2, <4>1, <4>3, MysqlTypes
            <4> QED BY <4>2, <4>3
        <3> QED BY <1>1, <1>2, <2>2, <3>1, <3>2 DEF MysqlInv, TypeOK
    <2>4. /\ At(pc', "asleep") = At(pc, "asleep")
          /\ Cardinality(At(pc', "awake")) \in Nat
          /\ Cardinality(At(pc', "awake")) >= Cardinality(At(pc, "awake")) - 1
        <3>1. At(pc', "asleep") = At(pc, "asleep")
            BY <1>1, <2>2, MysqlTypes DEF At
        <3> QED BY <1>1, <1>2, <3>1, MysqlTypes, MoveLosesOne
    <2>5. NoStrandedConnection'
        BY <2>1, <2>4, MysqlTypes DEF MysqlInv, NoStrandedConnection
    <2> QED BY <1>1, <2>1, <2>3, <2>5 DEF MysqlInv, NobodyWaitsYet
<1>3. CASE pool_ = <<>> /\ pc' = Move(pc, c, "asleep") /\ UNCHANGED <<conn, pool_, mtx_>>
    <2>1. pc' \in [Clients -> Points] /\ pc' = [pc EXCEPT ![c] = "asleep"]
        BY <1>3, MysqlTypes DEF Move, Points
    <2>2. TypeOK'
        BY <1>1, <1>3, <2>1 DEF MysqlInv, TypeOK, Nothing
    <2>3. NoStrandedConnection'
        BY <1>3, <2>1, ClientsFinite DEF NoStrandedConnection
    <2> QED BY <1>1, <1>3, <2>2, <2>3 DEF MysqlInv, NobodyWaitsYet
<1> QED BY <1>2, <1>3 DEF getConnection

(* A step between getting the connection and giving it back: it moves a    *)
(* client that is neither asleep nor awake, and it may reopen a connection.*)
LEMMA InUseStep ==
    ASSUME MysqlInv, NEW c \in Clients, HandOut(c) \/ ReconnectFails(c)
    PROVE  MysqlInv'
<1>1. /\ pc[c] = "checking" /\ c \in DOMAIN pc /\ closed' \subseteq closed
      /\ \/ pc' = Move(pc, c, "using") /\ mtx_' = Nobody
         \/ pc' = Move(pc, c, "unwinding") /\ mtx_' = mtx_
      /\ UNCHANGED <<initialized_, pool_, opened, leaked, conn>>
    BY MysqlTypes DEF HandOut, ReconnectFails
<1>2. pc' \in [Clients -> Points]
    BY <1>1, MysqlTypes DEF Move, Points
<1>3. At(pc', "asleep") = At(pc, "asleep") /\ At(pc', "awake") = At(pc, "awake")
    BY <1>1, MysqlTypes DEF At, Move
<1>4. TypeOK'
    <2>1. /\ mtx_ = c
          /\ \A d \in Clients : conn[d] # Nothing <=> pc[d] \in {"checking", "using", "unwinding"}
          /\ \A d \in Clients : mtx_ = d <=> pc[d] \in {"checking", "unwinding"}
        BY <1>1 DEF MysqlInv, TypeOK
    <2>2. \A d \in Clients \ {c} : pc'[d] = pc[d] /\ ~(mtx_ = d)
        BY <1>1, <2>1, MysqlTypes DEF Move
    <2>3. CASE pc' = Move(pc, c, "using") /\ mtx_' = Nobody
        <3>1. pc'[c] = "using" /\ Nobody \notin Clients
            BY <2>3, MysqlTypes, MysqlPoolAssumption DEF Move
        <3> QED BY <1>1, <1>2, <2>1, <2>2, <2>3, <3>1 DEF MysqlInv, TypeOK
    <2>4. CASE pc' = Move(pc, c, "unwinding") /\ mtx_' = mtx_
        <3>1. pc'[c] = "unwinding"
            BY <2>4, MysqlTypes DEF Move
        <3> QED BY <1>1, <1>2, <2>1, <2>2, <2>4, <3>1 DEF MysqlInv, TypeOK
    <2> QED BY <1>1, <2>3, <2>4
<1>5. Placed(pool_, conn, opened, Clients, leaked)'
    BY <1>1 DEF MysqlInv
<1> QED BY <1>1, <1>3, <1>4, <1>5 DEF MysqlInv, NoStrandedConnection, NobodyWaitsYet

(* The deleter: the connection is the last of the pool again, and one of   *)
(* those that sleep is woken, if there is one.                             *)
LEMMA DeleterStep ==
    ASSUME MysqlInv, NEW c \in Clients, Deleter(c)
    PROVE  MysqlInv'
<1> DEFINE after == IF pc[c] = "using" THEN "done" ELSE "thrown"
           mid == Move(pc, c, after)
<1>1. /\ pc[c] \in {"using", "unwinding"} /\ c \in DOMAIN pc /\ conn[c] # 0 /\ mtx_ = Nobody
      /\ pool_' = Append(pool_, conn[c]) /\ conn' = [conn EXCEPT ![c] = 0]
      /\ pc' \in NotifyOne(mid, "asleep", "awake")
      /\ UNCHANGED <<initialized_, opened, leaked, closed, mtx_>>
    BY MysqlTypes DEF Deleter, Nothing
<1>2. after \in {"done", "thrown"} /\ after \in Points
    BY DEF Points
<1> HIDE DEF after
<1>3. /\ mid \in [Clients -> Points] /\ mid[c] = after
      /\ \A d \in Clients \ {c} : mid[d] = pc[d]
      /\ At(mid, "asleep") = At(pc, "asleep") /\ At(mid, "awake") = At(pc, "awake")
    BY <1>1, <1>2, MysqlTypes DEF Move, At
<1>4. Placed(pool_, conn, opened, Clients, leaked)' /\ Len(pool_') = Len(pool_) + 1
    BY <1>1, PlacedBack DEF MysqlInv
<1>5. pc' \in [Clients -> Points]
    BY <1>1, <1>3, StepsKeepPoints DEF Points
<1>6. /\ \/ At(mid, "asleep") = {} /\ pc' = mid
         \/ /\ At(mid, "asleep") # {}
            /\ Cardinality(At(pc', "awake")) = Cardinality(At(mid, "awake")) + 1
      /\ Cardinality(At(pc', "awake")) \in Nat
    <2>1. IsFiniteSet(DOMAIN mid)
        BY <1>3, ClientsFinite
    <2> QED BY <1>1, <1>5, <2>1, NotifyOneCounts, ClientsFinite
<1>7. \A d \in Clients : pc'[d] = mid[d] \/ (mid[d] = "asleep" /\ pc'[d] = "awake")
    BY <1>1, <1>3 DEF NotifyOne, At, Move
<1> HIDE DEF mid
<1>8. TypeOK'
    <2>1. pool_' \in Seq(1 .. opened') /\ conn' \in [Clients -> 0 .. opened']
        BY <1>4 DEF Placed
    <2>2. \A d \in Clients :
             /\ conn'[d] # Nothing <=> pc'[d] \in {"checking", "using", "unwinding"}
             /\ mtx_' = d <=> pc'[d] \in {"checking", "unwinding"}
        <3> TAKE d \in Clients
        <3>1. /\ conn[d] # Nothing <=> pc[d] \in {"checking", "using", "unwinding"}
              /\ ~(pc[d] \in {"checking", "unwinding"}) /\ mtx_ # d
            BY <1>1, MysqlPoolAssumption DEF MysqlInv, TypeOK
        <3>2. CASE d = c
            BY <1>1, <1>2, <1>3, <1>7, <3>1, <3>2, MysqlTypes DEF Nothing
        <3>3. CASE d # c
            BY <1>1, <1>3, <1>7, <3>1, <3>3, MysqlTypes
        <3> QED BY <3>2, <3>3
    <2> QED BY <1>1, <1>5, <2>1, <2>2 DEF MysqlInv, TypeOK
<1>9. At(pc', "asleep") # {} => At(mid, "asleep") # {}
    BY <1>3, <1>5, <1>7 DEF At
<1>10. NoStrandedConnection'
    <2> SUFFICES ASSUME At(pc', "asleep") # {}
                 PROVE  Cardinality(At(pc', "awake")) >= Len(pool_')
        BY DEF NoStrandedConnection
    <2>1. At(pc, "asleep") # {} /\ Cardinality(At(pc', "awake")) = Cardinality(At(pc, "awake")) + 1
        BY <1>3, <1>6, <1>9
    <2>2. Cardinality(At(pc, "awake")) >= Len(pool_)
        BY <2>1 DEF MysqlInv, NoStrandedConnection
    <2> QED BY <1>4, <1>6, <2>1, <2>2, MysqlTypes
<1>11. NobodyWaitsYet'
    BY <1>1, <1>3, <1>9 DEF MysqlInv, NobodyWaitsYet
<1> QED BY <1>4, <1>8, <1>10, <1>11 DEF MysqlInv

(* A client that wakes up by itself. *)
LEMMA MysqlSpuriousStep ==
    ASSUME MysqlInv, NEW c \in Clients, SpuriousWakeup(c)
    PROVE  MysqlInv'
<1>1. /\ pc[c] = "asleep" /\ c \in DOMAIN pc /\ pc' = Move(pc, c, "awake")
      /\ UNCHANGED <<initialized_, pool_, opened, leaked, closed, mtx_, conn>>
    BY MysqlTypes DEF SpuriousWakeup
<1>2. pc' \in [Clients -> Points] /\ pc' = [pc EXCEPT ![c] = "awake"]
    BY <1>1, MysqlTypes DEF Move, Points
<1>3. TypeOK'
    BY <1>1, <1>2 DEF MysqlInv, TypeOK
<1>4. c \in At(pc, "asleep") /\ Cardinality(At(pc', "awake")) = Cardinality(At(pc, "awake")) + 1
    BY <1>1, MysqlTypes, MoveGainsOne DEF At
<1>5. NoStrandedConnection' /\ NobodyWaitsYet'
    BY <1>1, <1>4, MysqlTypes DEF MysqlInv, NoStrandedConnection, NobodyWaitsYet
<1>6. Placed(pool_, conn, opened, Clients, leaked)'
    BY <1>1 DEF MysqlInv
<1> QED BY <1>3, <1>5, <1>6 DEF MysqlInv

(* Every step of the pool of connections keeps its invariant. *)
LEMMA MysqlStep == MysqlInv /\ [Next]_vars => MysqlInv'
<1> SUFFICES ASSUME MysqlInv, [Next]_vars PROVE MysqlInv'
    OBVIOUS
<1>1. ASSUME NEW k \in 1 .. MaxConnections, ServerCloses(k) PROVE MysqlInv'
    <2>1. /\ closed' \subseteq 1 .. opened
          /\ UNCHANGED <<initialized_, pool_, opened, leaked, mtx_, pc, conn>>
        BY <1>1 DEF ServerCloses, MysqlInv, TypeOK
    <2>2. TypeOK'
        BY <2>1 DEF MysqlInv, TypeOK
    <2>3. Placed(pool_, conn, opened, Clients, leaked)'
        BY <2>1 DEF MysqlInv
    <2> QED BY <2>1, <2>2, <2>3 DEF MysqlInv, NoStrandedConnection, NobodyWaitsYet
<1>2. CASE UNCHANGED vars
    <2>1. Placed(pool_, conn, opened, Clients, leaked)'
        BY <1>2 DEF MysqlInv, vars
    <2> QED BY <1>2, <2>1 DEF vars, MysqlInv, TypeOK, NoStrandedConnection, NobodyWaitsYet
<1> QED BY <1>1, <1>2, InitializeStep, GetConnectionStep, InUseStep, DeleterStep,
           MysqlSpuriousStep DEF Next, Client

(* The pool starts empty. *)
LEMMA MysqlStart == Init => MysqlInv
<1> SUFFICES ASSUME Init PROVE MysqlInv
    OBVIOUS
<1>1. <<>> \in Seq(1 .. 0) /\ Len(<<>>) = 0
    OBVIOUS
<1>2. /\ initialized_ = FALSE /\ pool_ = <<>> /\ opened = 0 /\ leaked = {} /\ closed = {} /\ mtx_ = Nobody
      /\ pc \in [Clients -> Points] /\ conn \in [Clients -> 0 .. 0]
      /\ \A c \in Clients : pc[c] = "idle" /\ conn[c] = 0
    BY DEF Init, Points, Nothing
<1>3. Placed(pool_, conn, opened, Clients, leaked)
    BY <1>1, <1>2 DEF Placed
<1>4. At(pc, "asleep") = {}
    BY <1>2 DEF At
<1>5. TypeOK
    <2>1. \A c \in Clients : /\ conn[c] # Nothing <=> pc[c] \in {"checking", "using", "unwinding"}
                             /\ mtx_ = c <=> pc[c] \in {"checking", "unwinding"}
        BY <1>2, MysqlPoolAssumption DEF Nothing
    <2>2. opened \in 0 .. MaxConnections
        BY <1>2, MysqlPoolAssumption
    <2>3. initialized_ \in BOOLEAN
        BY <1>2
    <2> QED BY <1>1, <1>2, <2>1, <2>2, <2>3 DEF TypeOK
<1> QED BY <1>3, <1>4, <1>5 DEF MysqlInv, NoStrandedConnection, NobodyWaitsYet
-----------------------------------------------------------------------------
(* The operators the pool of objects is built from are those of the lemmas.*)
LEMMA SameOperators ==
    /\ \A f, p : Object!At(f, p) = At(f, p)
    /\ \A f, u, q : Object!Move(f, u, q) = Move(f, u, q)
    /\ \A f, a, w : Object!NotifyOne(f, a, w) = NotifyOne(f, a, w)
    /\ \A f, a, w : Object!NotifyAll(f, a, w) = NotifyAll(f, a, w)
    /\ \A T : Object!Cardinality(T) = Cardinality(T)
    /\ Object!Nothing = 0
<1>1. \A f, p : Object!At(f, p) = At(f, p)
    BY DEF Object!At, At
<1>2. \A f, u, q : Object!Move(f, u, q) = Move(f, u, q)
    BY DEF Object!Move, Move
<1>3. \A f, a, w : Object!NotifyOne(f, a, w) = NotifyOne(f, a, w)
    BY <1>1, <1>2 DEF Object!NotifyOne, NotifyOne
<1>4. \A f, a, w : Object!NotifyAll(f, a, w) = NotifyAll(f, a, w)
    BY DEF Object!NotifyAll, NotifyAll
<1>5. \A T : Object!Cardinality(T) = Cardinality(T)
    BY DEF Object!Cardinality, Cardinality
<1> QED BY <1>1, <1>2, <1>3, <1>4, <1>5 DEF Object!Nothing

UserPoints == Object!Points

(* The users on their way to an object, or about to send one there. *)
Coming(f) == Cardinality(At(f, "awake")) + Cardinality(At(f, "notifying"))

(* While a user sleeps they are as many as the objects, except for those   *)
(* a resize that threw told nobody of.                                     *)
ObjectsAnnounced == At(user_pc, "asleep") # {} => Coming(user_pc) + untold >= Len(object_pool_)

(* The inductive invariant of the pool of objects. *)
ObjectInv == Object!TypeOK /\ Placed(object_pool_, object, count_, Users, {}) /\ ObjectsAnnounced

(* What the proofs need to know of a function from users to points. *)
LEMMA UsersFinite ==
    ASSUME NEW f \in [Users -> UserPoints]
    PROVE  /\ DOMAIN f = Users /\ IsFiniteSet(DOMAIN f)
           /\ \A p : Cardinality(At(f, p)) \in Nat
           /\ Coming(f) \in Nat
<1>1. DOMAIN f = Users /\ IsFiniteSet(DOMAIN f)
    BY PoolsAssumption
<1>2. \A p : Cardinality(At(f, p)) \in Nat
    BY <1>1, AtCounted
<1> QED BY <1>1, <1>2 DEF Coming

(* The types of the invariant, as the steps need them. *)
LEMMA ObjectTypes ==
    ASSUME ObjectInv
    PROVE  /\ user_pc \in [Users -> UserPoints] /\ DOMAIN user_pc = Users
           /\ IsFiniteSet(DOMAIN user_pc)
           /\ \A p : Cardinality(At(user_pc, p)) \in Nat
           /\ Coming(user_pc) \in Nat
           /\ maxSize_ \in Nat /\ count_ \in Nat /\ count_ <= MaxObjects /\ untold \in Nat
           /\ object_pool_ \in Seq(1 .. count_) /\ Len(object_pool_) \in Nat
           /\ object \in [Users -> 0 .. count_]
           /\ \A u \in Users : user_pc[u] = "holding" <=> object[u] # 0
<1>1. /\ user_pc \in [Users -> UserPoints] /\ object_pool_ \in Seq(1 .. count_)
      /\ count_ \in 0 .. MaxObjects
    BY DEF ObjectInv, Object!TypeOK, UserPoints
<1>2. Len(object_pool_) \in Nat
    BY <1>1
<1>3. /\ maxSize_ \in Nat /\ untold \in Nat /\ object \in [Users -> 0 .. count_]
      /\ \A u \in Users : user_pc[u] = "holding" <=> object[u] # 0
    BY SameOperators DEF ObjectInv, Object!TypeOK
<1> QED BY <1>1, <1>2, <1>3, UsersFinite, PoolsAssumption

(* The types again, from what a step has to show of them. *)
LEMMA ObjectTypesAgain ==
    ASSUME maxSize_' \in Nat, count_' \in 0 .. MaxObjects, untold' \in Nat,
           user_pc' \in [Users -> UserPoints], Placed(object_pool_, object, count_, Users, {})',
           \A u \in Users : user_pc'[u] = "holding" <=> object'[u] # 0
    PROVE  Object!TypeOK'
    BY SameOperators DEF Object!TypeOK, Placed, UserPoints

(* resize, whether all objects are created or one constructor throws: the  *)
(* new ones join the pool.                                                 *)
LEMMA ResizeStep ==
    ASSUME ObjectInv, NEW n \in Sizes, Object!resize(n) \/ Object!resizeThrows(n)
    PROVE  ObjectInv'
<1>1. n \in Nat /\ object' = object
    BY PoolsAssumption DEF Object!resize, Object!resizeThrows
<1>2. ASSUME NEW k \in Nat, count_' = count_ + k, count_' <= MaxObjects,
             object_pool_' = object_pool_ \o Object!Created(count_, count_')
      PROVE  /\ Placed(object_pool_, object, count_, Users, {})'
             /\ count_' \in 0 .. MaxObjects
             /\ Len(object_pool_') = Len(object_pool_) + k
    <2>1. count_' - count_ = k /\ count_' \in 0 .. MaxObjects
        BY <1>2, ObjectTypes, PoolsAssumption
    <2>2. object_pool_' = object_pool_ \o [i \in 1 .. k |-> count_ + i]
        BY <1>2, <2>1 DEF Object!Created
    <2>3. Placed(object_pool_, object, count_, Users, {})
        BY DEF ObjectInv
    <2>4. /\ Placed(object_pool_ \o [i \in 1 .. k |-> count_ + i], object, count_ + k, Users, {})
          /\ Len(object_pool_ \o [i \in 1 .. k |-> count_ + i]) = Len(object_pool_) + k
        BY <2>3, PlacedMore
    <2> QED BY <1>1, <1>2, <2>1, <2>2, <2>4
<1>3. CASE Object!resize(n)
    <2>1. /\ n - maxSize_ \in Nat /\ count_' = count_ + (n - maxSize_) /\ count_' <= MaxObjects
          /\ object_pool_' = object_pool_ \o Object!Created(count_, count_')
          /\ maxSize_' = n /\ untold' = 0
          /\ user_pc' = NotifyAll(user_pc, "asleep", "awake")
        BY <1>1, <1>3, ObjectTypes, SameOperators DEF Object!resize
    <2>2. Placed(object_pool_, object, count_, Users, {})' /\ count_' \in 0 .. MaxObjects
        BY <1>2, <2>1
    <2>3. user_pc' \in [Users -> UserPoints]
        BY <2>1, ObjectTypes, StepsKeepPoints DEF UserPoints, Object!Points
    <2>4. \A u \in Users : user_pc'[u] = "holding" <=> object'[u] # 0
        BY <1>1, <2>1, ObjectTypes DEF NotifyAll
    <2>5. Object!TypeOK'
        BY <1>1, <2>1, <2>2, <2>3, <2>4, ObjectTypesAgain
    <2>6. At(user_pc', "asleep") = {}
        BY <2>1, NotifyAllAt
    <2> QED BY <2>2, <2>5, <2>6 DEF ObjectInv, ObjectsAnnounced
<1>4. CASE Object!resizeThrows(n)
    <2>1. PICK k \in 0 .. n - maxSize_ - 1 :
             /\ count_ + k <= MaxObjects /\ count_' = count_ + k
             /\ object_pool_' = object_pool_ \o Object!Created(count_, count_')
             /\ untold' = untold + k
        BY <1>4 DEF Object!resizeThrows
    <2>2. UNCHANGED <<maxSize_, user_pc, object>> /\ k \in Nat
        BY <1>1, <1>4, ObjectTypes DEF Object!resizeThrows
    <2>3. /\ Placed(object_pool_, object, count_, Users, {})' /\ count_' \in 0 .. MaxObjects
          /\ Len(object_pool_') = Len(object_pool_) + k
        BY <1>2, <2>1, <2>2
    <2>4. Object!TypeOK'
        <3>1. untold' \in Nat
            BY <2>1, <2>2, ObjectTypes
        <3> QED BY <2>2, <2>3, <3>1, ObjectTypes, ObjectTypesAgain
    <2>5. ObjectsAnnounced'
        BY <2>1, <2>2, <2>3, ObjectTypes DEF ObjectInv, ObjectsAnnounced
    <2> QED BY <2>3, <2>4, <2>5 DEF ObjectInv
<1> QED BY <1>3, <1>4

(* acquire takes the first object, or waits. *)
LEMMA AcquireStep ==
    ASSUME ObjectInv, NEW u \in Users, Object!acquire(u)
    PROVE  ObjectInv'
<1>1. /\ user_pc[u] \in {"idle", "awake"} /\ u \in DOMAIN user_pc /\ object[u] = 0
      /\ UNCHANGED <<maxSize_, count_, untold>>
    BY ObjectTypes DEF Object!acquire
<1>2. CASE object_pool_ # <<>>
    <2>1. /\ object_pool_' = Tail(object_pool_) /\ object' = [object EXCEPT ![u] = Head(object_pool_)]
          /\ user_pc' = Move(user_pc, u, "holding")
        BY <1>2, SameOperators DEF Object!acquire
    <2>2. /\ Placed(object_pool_, object, count_, Users, {})'
          /\ Head(object_pool_) \in 1 .. count_ /\ Len(object_pool_') = Len(object_pool_) - 1
        BY <1>1, <1>2, <2>1, PlacedTake DEF ObjectInv
    <2>3. user_pc' \in [Users -> UserPoints] /\ user_pc' = [user_pc EXCEPT ![u] = "holding"]
        BY <2>1, ObjectTypes DEF Move, UserPoints, Object!Points
    <2>4. Object!TypeOK'
        <3>1. \A v \in Users : user_pc'[v] = "holding" <=> object'[v] # 0
            BY <2>1, <2>2, <2>3, ObjectTypes
        <3> QED BY <1>1, <2>2, <2>3, <3>1, ObjectTypes, ObjectTypesAgain
    <2>5. At(user_pc', "asleep") = At(user_pc, "asleep") /\ Coming(user_pc') >= Coming(user_pc) - 1
        <3>1. /\ At(user_pc', "asleep") = At(user_pc, "asleep")
              /\ At(user_pc', "notifying") = At(user_pc, "notifying")
            BY <1>1, <2>3, ObjectTypes DEF At
        <3>2. /\ Cardinality(At(user_pc', "awake")) \in Nat
              /\ Cardinality(At(user_pc', "awake")) >= Cardinality(At(user_pc, "awake")) - 1
            BY <1>1, <2>1, ObjectTypes, MoveLosesOne
        <3> QED BY <3>1, <3>2, ObjectTypes DEF Coming
    <2>6. Coming(user_pc') \in Nat
        BY <2>3, UsersFinite
    <2>7. ObjectsAnnounced'
        BY <1>1, <2>2, <2>5, <2>6, ObjectTypes DEF ObjectInv, ObjectsAnnounced
    <2> QED BY <2>2, <2>4, <2>7 DEF ObjectInv
<1>3. CASE object_pool_ = <<>>
    <2>1. user_pc' = Move(user_pc, u, "asleep") /\ UNCHANGED <<object_pool_, object>>
        BY <1>3, SameOperators DEF Object!acquire
    <2>2. user_pc' \in [Users -> UserPoints] /\ user_pc' = [user_pc EXCEPT ![u] = "asleep"]
        BY <2>1, ObjectTypes DEF Move, UserPoints, Object!Points
    <2>3. Placed(object_pool_, object, count_, Users, {})'
        BY <1>1, <2>1 DEF ObjectInv
    <2>4. Object!TypeOK'
        <3>1. \A v \in Users : user_pc'[v] = "holding" <=> object'[v] # 0
            BY <1>1, <2>1, <2>2, ObjectTypes
        <3>2. count_' \in 0 .. MaxObjects
            BY <1>1, ObjectTypes, PoolsAssumption
        <3> QED BY <1>1, <2>2, <2>3, <3>1, <3>2, ObjectTypes, ObjectTypesAgain
    <2>5. ObjectsAnnounced'
        BY <1>1, <1>3, <2>1, <2>2, UsersFinite, ObjectTypes DEF ObjectsAnnounced
    <2> QED BY <2>3, <2>4, <2>5 DEF ObjectInv
<1> QED BY <1>2, <1>3

(* The deleter gives the object back, ... *)
LEMMA PutBackStep ==
    ASSUME ObjectInv, NEW u \in Users, Object!PutBack(u)
    PROVE  ObjectInv'
<1>1. /\ user_pc[u] = "holding" /\ u \in DOMAIN user_pc /\ object[u] # 0
      /\ object_pool_' = Append(object_pool_, object[u]) /\ object' = [object EXCEPT ![u] = 0]
      /\ user_pc' = Move(user_pc, u, "notifying")
      /\ UNCHANGED <<maxSize_, count_, untold>>
    BY ObjectTypes, SameOperators DEF Object!PutBack
<1>2. Placed(object_pool_, object, count_, Users, {})' /\ Len(object_pool_') = Len(object_pool_) + 1
    BY <1>1, PlacedBack DEF ObjectInv
<1>3. user_pc' \in [Users -> UserPoints] /\ user_pc' = [user_pc EXCEPT ![u] = "notifying"]
    BY <1>1, ObjectTypes DEF Move, UserPoints, Object!Points
<1>4. Object!TypeOK'
    <2>1. \A v \in Users : user_pc'[v] = "holding" <=> object'[v] # 0
        BY <1>1, <1>3, ObjectTypes
    <2>2. count_' \in 0 .. MaxObjects
        BY <1>1, ObjectTypes, PoolsAssumption
    <2> QED BY <1>1, <1>2, <1>3, <2>1, <2>2, ObjectTypes, ObjectTypesAgain
<1>5. At(user_pc', "asleep") = At(user_pc, "asleep") /\ Coming(user_pc') = Coming(user_pc) + 1
    <2>1. /\ At(user_pc', "asleep") = At(user_pc, "asleep")
          /\ At(user_pc', "awake") = At(user_pc, "awake")
        BY <1>1, <1>3, ObjectTypes DEF At
    <2>2. Cardinality(At(user_pc', "notifying")) = Cardinality(At(user_pc, "notifying")) + 1
        BY <1>1, ObjectTypes, MoveGainsOne
    <2> QED BY <2>1, <2>2, ObjectTypes DEF Coming
<1>6. ObjectsAnnounced'
    BY <1>1, <1>2, <1>5, ObjectTypes DEF ObjectInv, ObjectsAnnounced
<1> QED BY <1>2, <1>4, <1>6 DEF ObjectInv

(* ... and wakes one of those that sleep, if there is one. *)
LEMMA NotifyStep ==
    ASSUME ObjectInv, NEW u \in Users, Object!Notify(u)
    PROVE  ObjectInv'
<1> DEFINE mid == Move(user_pc, u, "done")
<1>1. /\ user_pc[u] = "notifying" /\ u \in DOMAIN user_pc
      /\ user_pc' \in NotifyOne(mid, "asleep", "awake")
      /\ UNCHANGED <<maxSize_, count_, object_pool_, object, untold>>
    BY ObjectTypes, SameOperators DEF Object!Notify
<1>2. /\ mid \in [Users -> UserPoints] /\ mid[u] = "done"
      /\ \A v \in Users \ {u} : mid[v] = user_pc[v]
      /\ At(mid, "asleep") = At(user_pc, "asleep") /\ At(mid, "awake") = At(user_pc, "awake")
    BY <1>1, ObjectTypes DEF Move, At, UserPoints, Object!Points
<1>3. Cardinality(At(mid, "notifying")) >= Cardinality(At(user_pc, "notifying")) - 1
    BY <1>1, ObjectTypes, MoveLosesOne
<1>4. user_pc' \in [Users -> UserPoints]
    BY <1>1, <1>2, StepsKeepPoints DEF UserPoints, Object!Points
<1>5. /\ \/ At(mid, "asleep") = {} /\ user_pc' = mid
         \/ /\ At(mid, "asleep") # {}
            /\ Cardinality(At(user_pc', "awake")) = Cardinality(At(mid, "awake")) + 1
      /\ At(user_pc', "notifying") = At(mid, "notifying")
    <2>1. IsFiniteSet(DOMAIN mid)
        BY <1>2, UsersFinite
    <2> QED BY <1>1, <2>1, NotifyOneCounts
<1>6. \A v \in Users : user_pc'[v] = mid[v] \/ (mid[v] = "asleep" /\ user_pc'[v] = "awake")
    BY <1>1, <1>2 DEF NotifyOne, At, Move
<1>7. \A p : Cardinality(At(user_pc', p)) \in Nat /\ Cardinality(At(mid, p)) \in Nat
    BY <1>2, <1>4, UsersFinite
<1> HIDE DEF mid
<1>8. Placed(object_pool_, object, count_, Users, {})'
    BY <1>1 DEF ObjectInv
<1>9. Object!TypeOK'
    <2>1. \A v \in Users : user_pc'[v] = "holding" <=> object'[v] # 0
        BY <1>1, <1>2, <1>6, ObjectTypes
    <2>2. count_' \in 0 .. MaxObjects
        BY <1>1, ObjectTypes, PoolsAssumption
    <2> QED BY <1>1, <1>4, <1>8, <2>1, <2>2, ObjectTypes, ObjectTypesAgain
<1>10. At(user_pc', "asleep") # {} => At(mid, "asleep") # {}
    BY <1>2, <1>4, <1>6 DEF At
<1>11. ObjectsAnnounced'
    <2> SUFFICES ASSUME At(user_pc', "asleep") # {}
                 PROVE  Coming(user_pc') + untold' >= Len(object_pool_')
        BY DEF ObjectsAnnounced
    <2>1. /\ At(user_pc, "asleep") # {}
          /\ Cardinality(At(user_pc', "awake")) = Cardinality(At(user_pc, "awake")) + 1
          /\ Cardinality(At(user_pc', "notifying")) >= Cardinality(At(user_pc, "notifying")) - 1
        BY <1>2, <1>3, <1>5, <1>10
    <2>2. Coming(user_pc') >= Coming(user_pc)
        BY <1>7, <2>1, ObjectTypes DEF Coming
    <2>3. Coming(user_pc) + untold >= Len(object_pool_)
        BY <2>1 DEF ObjectInv, ObjectsAnnounced
    <2>4. Coming(user_pc') \in Nat
        BY <1>4, UsersFinite
    <2> QED BY <1>1, <2>2, <2>3, <2>4, ObjectTypes
<1> QED BY <1>8, <1>9, <1>11 DEF ObjectInv

(* A user that wakes up by itself. *)
LEMMA ObjectSpuriousStep ==
    ASSUME ObjectInv, NEW u \in Users, Object!SpuriousWakeup(u)
    PROVE  ObjectInv'
<1>1. /\ user_pc[u] = "asleep" /\ u \in DOMAIN user_pc
      /\ user_pc' = Move(user_pc, u, "awake")
      /\ UNCHANGED <<maxSize_, count_, object_pool_, object, untold>>
    BY ObjectTypes, SameOperators DEF Object!SpuriousWakeup
<1>2. user_pc' \in [Users -> UserPoints] /\ user_pc' = [user_pc EXCEPT ![u] = "awake"]
    BY <1>1, ObjectTypes DEF Move, UserPoints, Object!Points
<1>3. Placed(object_pool_, object, count_, Users, {})'
    BY <1>1 DEF ObjectInv
<1>4. Object!TypeOK'
    <2>1. \A v \in Users : user_pc'[v] = "holding" <=> object'[v] # 0
        BY <1>1, <1>2, ObjectTypes
    <2>2. count_' \in 0 .. MaxObjects
        BY <1>1, ObjectTypes, PoolsAssumption
    <2> QED BY <1>1, <1>2, <1>3, <2>1, <2>2, ObjectTypes, ObjectTypesAgain
<1>5. /\ At(user_pc, "asleep") # {}
      /\ At(user_pc', "notifying") = At(user_pc, "notifying")
    BY <1>1, <1>2, ObjectTypes DEF At
<1>6. Cardinality(At(user_pc', "awake")) = Cardinality(At(user_pc, "awake")) + 1
    BY <1>1, ObjectTypes, MoveGainsOne
<1>7. Coming(user_pc') = Coming(user_pc) + 1
    BY <1>5, <1>6, ObjectTypes DEF Coming
<1>8. ObjectsAnnounced'
    BY <1>1, <1>5, <1>7, ObjectTypes DEF ObjectInv, ObjectsAnnounced
<1> QED BY <1>3, <1>4, <1>8 DEF ObjectInv

(* Every step of the pool of objects keeps its invariant. *)
LEMMA ObjectStep == ObjectInv /\ (Object!Next \/ UNCHANGED objectVars) => ObjectInv'
<1> SUFFICES ASSUME ObjectInv, Object!Next \/ UNCHANGED objectVars PROVE ObjectInv'
    OBVIOUS
<1>1. CASE UNCHANGED objectVars
    <2>1. UNCHANGED <<maxSize_, count_, object_pool_, user_pc, object, untold>>
        BY <1>1 DEF objectVars
    <2>2. Placed(object_pool_, object, count_, Users, {})'
        BY <2>1 DEF ObjectInv
    <2> QED BY <2>1, <2>2 DEF ObjectInv, Object!TypeOK, ObjectsAnnounced
<1>2. CASE Object!Finished
    BY <1>1, <1>2 DEF Object!Finished, Object!vars, objectVars
<1> QED BY <1>1, <1>2, ResizeStep, AcquireStep, PutBackStep, NotifyStep, ObjectSpuriousStep
        DEF Object!Next

(* The constructor creates the first objects. *)
LEMMA ObjectStart == Object!Init => ObjectInv
<1> SUFFICES ASSUME Object!Init PROVE ObjectInv
    OBVIOUS
<1>1. /\ maxSize_ = initialSize /\ count_ = initialSize /\ untold = 0
      /\ object_pool_ = Object!Created(0, initialSize)
      /\ user_pc \in [Users -> UserPoints] /\ object \in [Users -> 0 .. 0]
      /\ \A u \in Users : user_pc[u] = "idle" /\ object[u] = 0
    BY SameOperators DEF Object!Init, UserPoints, Object!Points
<1>2. Placed(<<>>, object, 0, Users, {})
    <2>1. <<>> \in Seq(1 .. 0) /\ Len(<<>>) = 0
        OBVIOUS
    <2> QED BY <1>1, <2>1 DEF Placed
<1>3. Placed(object_pool_, object, count_, Users, {})
    <2> DEFINE new == [i \in 1 .. initialSize |-> 0 + i]
    <2>1. initialSize \in Nat /\ initialSize - 0 = initialSize /\ 0 + initialSize = initialSize
        BY PoolsAssumption
    <2>2. object_pool_ = new
        BY <1>1, <2>1 DEF Object!Created
    <2>3. new \in Seq(Int) /\ <<>> \o new = new
        BY <2>1
    <2>4. Placed(<<>> \o new, object, 0 + initialSize, Users, {})
        BY <1>2, <2>1, PlacedMore
    <2> QED BY <1>1, <2>1, <2>2, <2>3, <2>4
<1>4. Object!TypeOK
    BY <1>1, <1>3, SameOperators, PoolsAssumption DEF Object!TypeOK, Placed, UserPoints
<1>5. At(user_pc, "asleep") = {}
    BY <1>1 DEF At
<1> QED BY <1>3, <1>4, <1>5 DEF ObjectInv, ObjectsAnnounced
-----------------------------------------------------------------------------
(* Both invariants hold in every state of the two pools. *)
LEMMA PoolsInvariant == PoolsSpec => [](MysqlInv /\ ObjectInv)
<1>1. PoolsInit => MysqlInv /\ ObjectInv
    BY MysqlStart, ObjectStart DEF PoolsInit
<1>2. MysqlInv /\ ObjectInv /\ [PoolsNext]_<<which, vars, objectVars>>
         => (MysqlInv /\ ObjectInv)'
    <2> SUFFICES ASSUME MysqlInv, ObjectInv, [PoolsNext]_<<which, vars, objectVars>>
                 PROVE  MysqlInv' /\ ObjectInv'
        OBVIOUS
    <2>1. [Next]_vars /\ (Object!Next \/ UNCHANGED objectVars)
        BY DEF PoolsNext
    <2> QED BY <2>1, MysqlStep, ObjectStep
<1> QED BY <1>1, <1>2, PTL DEF PoolsSpec

(* No connection is given to two clients, and none is out of everybody's   *)
(* hands but those whose setSchema threw, whichever attempt of initialize  *)
(* opened it and whatever the server closes.                               *)
THEOREM ConnectionsKept == PoolsSpec => []EveryConnectionInOnePlace
<1>1. MysqlInv => EveryConnectionInOnePlace
    BY PlacedOnce DEF MysqlInv, EveryConnectionInOnePlace
<1> QED BY <1>1, PoolsInvariant, PTL

(* No client sleeps beside a connection in the pool that no other client   *)
(* is on its way to: each deleter notifies, also when nobody waits.        *)
THEOREM ConnectionsAnnounced == PoolsSpec => []NoStrandedConnection
<1>1. MysqlInv => NoStrandedConnection
    BY DEF MysqlInv
<1> QED BY <1>1, PoolsInvariant, PTL

(* No object is lost and none is handed to two users, also when the        *)
(* constructor of one of them throws half-way through resize.              *)
THEOREM ObjectsKept == PoolsSpec => []EveryObjectInOnePlace
<1>1. ObjectInv => EveryObjectInOnePlace
    BY PlacedOnce, SameOperators DEF ObjectInv, EveryObjectInOnePlace, Object!EveryObjectInOnePlace
<1> QED BY <1>1, PoolsInvariant, PTL

(* No user sleeps beside an object that nobody is on the way to, although  *)
(* the deleter notifies only after it has released the mutex; what a       *)
(* resize that threw has pushed is the exception.                          *)
THEOREM NoObjectStranded == PoolsSpec => []NoStrandedObject
<1>1. ObjectInv => NoStrandedObject
    BY SameOperators
    DEF ObjectInv, ObjectsAnnounced, Coming, NoStrandedObject, Object!NoStrandedObject
<1> QED BY <1>1, PoolsInvariant, PTL
=============================================================================
