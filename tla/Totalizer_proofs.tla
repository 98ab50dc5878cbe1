------------------------- MODULE Totalizer_proofs --------------------------
(***************************************************************************)
(* The lazy totalizer, for any number of inputs, any bound given to the    *)
(* constructor and any sequence of calls of atMost: the proofs of TypeOK,  *)
(* OutputsExact and ImpliquantsInSolver.                                   *)
(***************************************************************************)
EXTENDS Totalizer, SumTheorems

(***************************************************************************)
(* Sums up the tree: g is w at the leaves, and the sum of the children at  *)
(* the other nodes.                                                        *)
(***************************************************************************)
Summed(k, w, g) ==
    g = [m \in Nodes(k) |-> IF m <= k THEN w[m] ELSE g[2 * (m - k) - 1] + g[2 * (m - k)]]

\* What every input counts, and how many of the inputs X are below a node.
Inputs(X) == [m \in Nat |-> IF m \in X THEN 1 ELSE 0]

CountOf(k, X) == CHOOSE g : Summed(k, Inputs(X), g)

(***************************************************************************)
(* The invariant.                                                          *)
(***************************************************************************)
\* a true on the left and b on the right.
Implicant(l, r, a, b) == {<<l, j - 1>> : j \in {a} \ {0}} \cup {<<r, j - 1>> : j \in {b} \ {0}}

\* What makes more than i true below a node: all the ways to split i + 1.
Implicants(l, r, nl, nr, i) ==
    {Implicant(l, r, q[1], q[2]) : q \in {z \in (0..nl) \X (0..nr) : z[1] + z[2] = i + 1}}

\* A node has no more outputs than inputs, and its children have enough.
SizesOK(sz) ==
    /\ sz \in [Nodes(n) -> Nat]
    /\ \A m \in Nodes(n) : 1 <= sz[m] /\ sz[m] <= NofInput(n)[m]
    /\ \A m \in Nodes(n) : ~IsLeaf(m) =>
         /\ Min2(sz[m], NofInput(n)[LeftOf(m)]) <= sz[LeftOf(m)]
         /\ Min2(sz[m], NofInput(n)[RightOf(m)]) <= sz[RightOf(m)]

\* The impliquants of x, whatever the bounds were that made it.
ImplOf(x) ==
    IF IsLeaf(x[1]) THEN {}
    ELSE Implicants(LeftOf(x[1]), RightOf(x[1]),
                    NofInput(n)[LeftOf(x[1])], NofInput(n)[RightOf(x[1])], x[2])

ImplOK(im, sz) == im = [x \in LazyVars(n, sz) |-> ImplOf(x)]

\* Every variable was made with its clauses, and those it depends on.
VarsOK(im, v, cl) ==
    /\ v = [x \in DOMAIN v |-> x]
    /\ Leaves(n) \subseteq DOMAIN v /\ DOMAIN v \subseteq DOMAIN im
    /\ \A x \in DOMAIN v : \A q \in im[x] :
         q \subseteq DOMAIN v /\ [body |-> q, head |-> x] \in cl
    /\ \A c \in cl : \E x \in DOMAIN v : \E q \in im[x] : c = [body |-> q, head |-> x]

TotalizerInv ==
    /\ n \in 1..MaxLits
    /\ SizesOK(size)
    /\ ImplOK(impl, size)
    /\ VarsOK(impl, var, clauses)

-----------------------------------------------------------------------------
\* The children of a node come before it.
LEMMA KidsFacts ==
  ASSUME NEW k \in Nat, NEW m \in Nodes(k), ~(m <= k)
  PROVE  /\ 2 * (m - k) - 1 \in Nodes(k) /\ 2 * (m - k) \in Nodes(k)
         /\ 2 * (m - k) < m /\ 2 * (m - k) - 1 < m /\ m \in Nat
  BY DEF Nodes

\* There is such a function for any values of the leaves.
LEMMA SummedExists ==
  ASSUME NEW k \in Nat, NEW w
  PROVE  \E g : Summed(k, w, g)
<1> DEFINE Upto(j) == {m \in Nodes(k) : m <= j}
           At(g, m) == IF m <= k THEN w[m] ELSE g[2 * (m - k) - 1] + g[2 * (m - k)]
           F == {j \in Nat : \E g : \A m \in Upto(j) : g[m] = At(g, m)}
<1>1. 0 \in F
  <2>1. \A m \in Upto(0) : FALSE
        BY DEF Nodes
  <2> QED BY <2>1
<1>2. ASSUME NEW j \in Nat, j \in F
      PROVE  j + 1 \in F
  <2>1. PICK g : \A m \in Upto(j) : g[m] = At(g, m)
        BY <1>2
  <2> DEFINE h == [m \in Nodes(k) |-> IF m <= j THEN g[m] ELSE At(g, m)]
  <2>2. ASSUME NEW m \in Upto(j + 1)
        PROVE  h[m] = At(h, m)
    <3>1. m \in Nodes(k) /\ m <= j + 1 /\ m \in Nat
          BY <2>2 DEF Nodes
    <3>2. At(h, m) = At(g, m)
      <4>1. CASE m <= k
            BY <4>1
      <4>2. CASE ~(m <= k)
        <5>1. PICK a, b : a = 2 * (m - k) - 1 /\ b = 2 * (m - k)
              OBVIOUS
        <5>2. a \in Nodes(k) /\ b \in Nodes(k) /\ a <= j /\ b <= j
              BY <3>1, <4>2, <5>1, KidsFacts DEF Nodes
        <5>3. h[a] = g[a] /\ h[b] = g[b]
              BY <5>2
        <5> HIDE DEF h
        <5> QED BY <4>2, <5>1, <5>3
      <4> HIDE DEF At
      <4> QED BY <4>1, <4>2
    <3>3. h[m] = At(g, m)
      <4>1. CASE m <= j
        <5>1. m \in Upto(j)
              BY <3>1, <4>1
        <5>2. h[m] = g[m]
              BY <3>1, <4>1
        <5> HIDE DEF h, At, Upto
        <5> QED BY <2>1, <5>1, <5>2
      <4>2. CASE ~(m <= j)
            BY <3>1, <4>2
      <4> QED BY <4>1, <4>2
    <3> HIDE DEF h, At
    <3> QED BY <3>2, <3>3
  <2> HIDE DEF h, At
  <2> QED BY <2>2
<1>3. 2 * k \in F
  <2> HIDE DEF F
  <2> QED BY <1>1, <1>2, NatClosure
<1>4. PICK g : \A m \in Upto(2 * k) : g[m] = At(g, m)
      BY <1>3
<1>5. Upto(2 * k) = Nodes(k)
      BY DEF Nodes
<1> DEFINE h == [m \in Nodes(k) |-> g[m]]
<1>6. ASSUME NEW m \in Nodes(k)
      PROVE  h[m] = At(h, m)
  <2>1. h[m] = At(g, m)
        BY <1>4, <1>5
  <2>2. CASE m <= k
        BY <2>1, <2>2
  <2>3. CASE ~(m <= k)
    <3>1. PICK a, b : a = 2 * (m - k) - 1 /\ b = 2 * (m - k)
          OBVIOUS
    <3>2. a \in Nodes(k) /\ b \in Nodes(k)
          BY <2>3, <3>1, KidsFacts
    <3>3. h[a] = g[a] /\ h[b] = g[b]
          BY <3>2
    <3> HIDE DEF h
    <3> QED BY <2>1, <2>3, <3>1, <3>3
  <2> QED BY <2>2, <2>3
<1>7. h = [m \in Nodes(k) |-> h[m]]
      OBVIOUS
<1> HIDE DEF h
<1>8. Summed(k, w, h)
      BY <1>6, <1>7 DEF Summed
<1> QED BY <1>8

\* nof_input of a node is the number of inputs below it.
LEMMA NofCounts ==
  ASSUME NEW k \in Nat
  PROVE  NofInput(k) = CountOf(k, 1..k)
<1>1. PICK w : w = Inputs(1..k)
      OBVIOUS
<1>2. \A m \in Nodes(k) : m <= k => w[m] = 1
      BY <1>1 DEF Inputs, Nodes
<1>3. \A g : Summed(k, w, g) <=> g = [m \in Nodes(k) |-> IF m <= k THEN 1 ELSE g[2 * (m - k) - 1] + g[2 * (m - k)]]
  <2> TAKE g
  <2>1. [m \in Nodes(k) |-> IF m <= k THEN w[m] ELSE g[2 * (m - k) - 1] + g[2 * (m - k)]]
         = [m \in Nodes(k) |-> IF m <= k THEN 1 ELSE g[2 * (m - k) - 1] + g[2 * (m - k)]]
        BY <1>2
  <2> QED BY <2>1 DEF Summed
<1>4. (CHOOSE g : Summed(k, w, g)) = CHOOSE g : g = [m \in Nodes(k) |-> IF m <= k THEN 1 ELSE g[2 * (m - k) - 1] + g[2 * (m - k)]]
      BY <1>3
<1> QED BY <1>1, <1>4 DEF NofInput, CountOf

\* The sums exist, and are numbers.
LEMMA CountFacts ==
  ASSUME NEW k \in Nat, NEW X, NEW g, g = CountOf(k, X)
  PROVE  /\ Summed(k, Inputs(X), g)
         /\ g \in [Nodes(k) -> Nat]
         /\ \A m \in Nodes(k) : m <= k => g[m] = IF m \in X THEN 1 ELSE 0
         /\ \A m \in Nodes(k) : ~(m <= k) => g[m] = g[2 * (m - k) - 1] + g[2 * (m - k)]
<1>1. Summed(k, Inputs(X), g)
      BY SummedExists DEF CountOf
<1>2. \A m \in Nodes(k) : m <= k => g[m] = IF m \in X THEN 1 ELSE 0
  <2> TAKE m \in Nodes(k)
  <2>1. m \in Nat
        BY DEF Nodes
  <2> QED BY <1>1, <2>1 DEF Summed, Inputs
<1>3. \A m \in Nodes(k) : ~(m <= k) => g[m] = g[2 * (m - k) - 1] + g[2 * (m - k)]
      BY <1>1 DEF Summed
<1> DEFINE F == {j \in Nat : \A m \in Nodes(k) : m <= j => g[m] \in Nat}
<1>4. 0 \in F
      BY DEF Nodes
<1>5. ASSUME NEW j \in Nat, j \in F
      PROVE  j + 1 \in F
  <2> SUFFICES ASSUME NEW m \in Nodes(k), m <= j + 1 PROVE g[m] \in Nat
      OBVIOUS
  <2>1. CASE m <= k
        BY <1>2, <2>1
  <2>2. CASE ~(m <= k)
    <3>1. PICK a, b : a = 2 * (m - k) - 1 /\ b = 2 * (m - k)
          OBVIOUS
    <3>2. a \in Nodes(k) /\ b \in Nodes(k) /\ a <= j /\ b <= j
          BY <2>2, <3>1, KidsFacts DEF Nodes
    <3>3. g[a] \in Nat /\ g[b] \in Nat
          BY <1>5, <3>2
    <3> QED BY <1>3, <2>2, <3>1, <3>3
  <2> QED BY <2>1, <2>2
<1>6. 2 * k \in F
  <2> HIDE DEF F
  <2> QED BY <1>4, <1>5, NatClosure
<1>7. \A m \in Nodes(k) : g[m] \in Nat
      BY <1>6 DEF Nodes
<1>8. g \in [Nodes(k) -> Nat]
      BY <1>1, <1>7 DEF Summed
<1> QED BY <1>1, <1>2, <1>3, <1>8

(***************************************************************************)
(* The constructor pairs the nodes of a queue: after j pairs the queue is  *)
(* the nodes 2j+1 to k+j, and whatever the leaves count stays in it.       *)
(***************************************************************************)
Queue(k, j) == (2 * j + 1) .. (k + j)

\* The queue after one more pair.
LEMMA QueueNext ==
  ASSUME NEW k \in Nat, NEW j \in Nat, j + 2 <= k
  PROVE  /\ 2 * j + 1 \in Queue(k, j) /\ 2 * j + 2 \in Queue(k, j) \ {2 * j + 1}
         /\ k + j + 1 \notin Queue(k, j)
         /\ Queue(k, j + 1) = ((Queue(k, j) \ {2 * j + 1}) \ {2 * j + 2}) \cup {k + j + 1}
         /\ Queue(k, j) \subseteq Nodes(k) /\ k + j + 1 \in Nodes(k)
<1>1. Queue(k, j + 1) = ((Queue(k, j) \ {2 * j + 1}) \ {2 * j + 2}) \cup {k + j + 1}
  <2>1. \A x \in Int : x \in Queue(k, j + 1) <=> (x \in Queue(k, j) /\ x # 2 * j + 1 /\ x # 2 * j + 2) \/ x = k + j + 1
        BY DEF Queue
  <2>2. Queue(k, j) \subseteq Int /\ Queue(k, j + 1) \subseteq Int /\ k + j + 1 \in Int
        BY DEF Queue
  <2> QED BY <2>1, <2>2
<1> QED BY <1>1 DEF Queue, Nodes

\* A pair leaves the sum as it is.
LEMMA QueueSum ==
  ASSUME NEW k \in Nat, k # 0, NEW X \in SUBSET (1..k), NEW g, g = CountOf(k, X)
  PROVE  \A j \in Nat : j + 1 <= k => SumFunctionOnSet(g, Queue(k, j)) = Cardinality(X)
<1> DEFINE F == {j \in Nat : j + 1 <= k => SumFunctionOnSet(g, Queue(k, j)) = Cardinality(X)}
<1>1. /\ g \in [Nodes(k) -> Nat]
      /\ \A m \in Nodes(k) : m <= k => g[m] = IF m \in X THEN 1 ELSE 0
      /\ \A m \in Nodes(k) : ~(m <= k) => g[m] = g[2 * (m - k) - 1] + g[2 * (m - k)]
      BY CountFacts
<1>2. 0 \in F
  <2>1. PICK D : D = 1..k
        OBVIOUS
  <2>2. Queue(k, 0) = D /\ IsFiniteSet(D) /\ D \cap X = X
    <3>1. Queue(k, 0) = D
          BY <2>1 DEF Queue
    <3>2. IsFiniteSet(D)
          BY <2>1, FS_Interval
    <3>3. D \cap X = X
          BY <2>1
    <3> QED BY <3>1, <3>2, <3>3
  <2>3. \A m \in D : g[m] = IF m \in X THEN 1 ELSE 0
        BY <1>1, <2>1 DEF Nodes
  <2>4. PICK c \in Int : c = 1
        OBVIOUS
  <2>5. \A m \in D : g[m] = IF m \in X THEN c ELSE 0
        BY <2>3, <2>4
  <2>6. SumFunctionOnSet(g, D) = c * Cardinality(D \cap X)
        BY ONLY <2>2, <2>4, <2>5, SumConstant
  <2>7. Cardinality(X) \in Nat
        BY <2>1, <2>2, FS_Subset, FS_CardinalityType
  <2>8. SumFunctionOnSet(g, Queue(k, 0)) = Cardinality(X)
        BY <2>2, <2>4, <2>6, <2>7
  <2> QED BY <2>8
<1>3. ASSUME NEW j \in Nat, j \in F
      PROVE  j + 1 \in F
  <2> SUFFICES ASSUME (j + 1) + 1 <= k
               PROVE  SumFunctionOnSet(g, Queue(k, j + 1)) = Cardinality(X)
      OBVIOUS
  <2>1. PICK a, b, c : a = 2 * j + 1 /\ b = 2 * j + 2 /\ c = k + j + 1
        OBVIOUS
  <2>2. PICK D : D = Queue(k, j)
        OBVIOUS
  <2>3. /\ a \in D /\ b \in D \ {a} /\ c \notin D /\ Queue(k, j + 1) = ((D \ {a}) \ {b}) \cup {c}
        /\ D \subseteq Nodes(k) /\ c \in Nodes(k)
    <3>1. j + 2 <= k
          OBVIOUS
    <3>2. /\ 2 * j + 1 \in Queue(k, j) /\ 2 * j + 2 \in Queue(k, j) \ {2 * j + 1}
          /\ k + j + 1 \notin Queue(k, j)
          /\ Queue(k, j + 1) = ((Queue(k, j) \ {2 * j + 1}) \ {2 * j + 2}) \cup {k + j + 1}
          /\ Queue(k, j) \subseteq Nodes(k) /\ k + j + 1 \in Nodes(k)
          BY ONLY <3>1, QueueNext, k \in Nat, j \in Nat
    <3> QED BY ONLY <2>1, <2>2, <3>2
  <2>4. IsFiniteSet(D)
        BY <2>2, FS_Interval DEF Queue
  <2>5. \A x \in D \cup {c} : g[x] \in Int
        BY <1>1, <2>3
  <2>6. SumFunctionOnSet(g, D) = g[a] + SumFunctionOnSet(g, D \ {a})
        BY ONLY <2>3, <2>4, <2>5, SumTake
  <2>7. PICK D1 : D1 = D \ {a}
        OBVIOUS
  <2>8. IsFiniteSet(D1) /\ b \in D1 /\ \A x \in D1 : g[x] \in Int
        BY <2>3, <2>4, <2>5, <2>7, FS_Subset
  <2>9. SumFunctionOnSet(g, D1) = g[b] + SumFunctionOnSet(g, D1 \ {b})
        BY ONLY <2>8, SumTake
  <2>10. PICK D2 : D2 = D1 \ {b}
         OBVIOUS
  <2>11. IsFiniteSet(D2) /\ c \notin D2 /\ \A x \in D2 \cup {c} : g[x] \in Int
         BY <2>3, <2>4, <2>5, <2>7, <2>10, FS_Subset
  <2>12. SumFunctionOnSet(g, D2 \cup {c}) = g[c] + SumFunctionOnSet(g, D2)
         BY ONLY <2>11, SumAdd
  <2>13. SumFunctionOnSet(g, D2) \in Int
    <3>1. \A x \in D2 : g[x] \in Int
          BY <2>11
    <3> QED BY ONLY <2>11, <3>1, SumInt
  <2>14. g[c] = g[a] + g[b]
    <3>1. ~(c <= k) /\ 2 * (c - k) - 1 = a /\ 2 * (c - k) = b
          BY <2>1
    <3> QED BY <1>1, <2>3, <3>1
  <2>15. g[a] \in Int /\ g[b] \in Int
         BY <2>3, <2>5
  <2>16. SumFunctionOnSet(g, D) = Cardinality(X)
         BY <1>3, <2>2
  <2>17. SumFunctionOnSet(g, Queue(k, j + 1)) = SumFunctionOnSet(g, D2 \cup {c})
         BY <2>3, <2>7, <2>10
  <2> QED BY <2>6, <2>7, <2>9, <2>10, <2>12, <2>13, <2>14, <2>15, <2>16, <2>17
<1> HIDE DEF F
<1>4. \A j \in Nat : j \in F
      BY <1>2, <1>3, NatClosure
<1> QED BY <1>4 DEF F

\* So the root counts all of them, and no node counts more.
LEMMA CountBounds ==
  ASSUME NEW k \in Nat, k # 0, NEW X \in SUBSET (1..k), NEW g, g = CountOf(k, X)
  PROVE  /\ g[2 * k - 1] = Cardinality(X)
         /\ \A m \in Nodes(k) : g[m] <= Cardinality(X)
<1>1. g \in [Nodes(k) -> Nat]
      BY CountFacts
<1>2. g[2 * k - 1] = Cardinality(X)
  <2>1. PICK r : r = 2 * k - 1
        OBVIOUS
  <2>2. Queue(k, k - 1) = {} \cup {r} /\ r \in Nodes(k) /\ k - 1 \in Nat /\ (k - 1) + 1 <= k
        BY <2>1 DEF Queue, Nodes
  <2>3. SumFunctionOnSet(g, Queue(k, k - 1)) = Cardinality(X)
        BY <2>2, QueueSum
  <2>4. SumFunctionOnSet(g, {} \cup {r}) = g[r] + SumFunctionOnSet(g, {})
    <3>1. IsFiniteSet({}) /\ r \notin {} /\ \A x \in {} \cup {r} : g[x] \in Int
          BY <1>1, <2>2, FS_EmptySet
    <3> QED BY ONLY <3>1, SumAdd
  <2>5. SumFunctionOnSet(g, {}) = 0
        BY SumEmpty
  <2>6. g[r] \in Nat
        BY <1>1, <2>2
  <2>7. SumFunctionOnSet(g, Queue(k, k - 1)) = SumFunctionOnSet(g, {} \cup {r})
        BY <2>2
  <2>8. g[r] = Cardinality(X)
        BY <2>3, <2>4, <2>5, <2>6, <2>7
  <2> QED BY <2>1, <2>8
<1>3. ASSUME NEW m \in Nodes(k)
      PROVE  g[m] <= Cardinality(X)
  <2>1. PICK j \in Nat : j = IF m <= k THEN 0 ELSE m - k
        BY DEF Nodes
  <2>2. m \in Queue(k, j) /\ j + 1 <= k /\ Queue(k, j) \subseteq Nodes(k)
        BY <2>1 DEF Queue, Nodes
  <2>3. PICK D : D = Queue(k, j)
        OBVIOUS
  <2>4. IsFiniteSet(D) /\ m \in D /\ \A x \in D : g[x] \in Nat
        BY <1>1, <2>2, <2>3, FS_Interval DEF Queue
  <2>5. g[m] <= SumFunctionOnSet(g, D)
        BY ONLY <2>4, SumTerm
  <2>6. SumFunctionOnSet(g, D) = Cardinality(X)
        BY <2>2, <2>3, QueueSum
  <2> QED BY <2>5, <2>6
<1> QED BY <1>2, <1>3

\* A node counts no more than it has inputs.
LEMMA CountBelow ==
  ASSUME NEW k \in Nat, k # 0, NEW X \in SUBSET (1..k), NEW g, g = CountOf(k, X), NEW h, h = NofInput(k)
  PROVE  \A m \in Nodes(k) : g[m] <= h[m]
<1>1. /\ g \in [Nodes(k) -> Nat]
      /\ \A m \in Nodes(k) : m <= k => g[m] = IF m \in X THEN 1 ELSE 0
      /\ \A m \in Nodes(k) : ~(m <= k) => g[m] = g[2 * (m - k) - 1] + g[2 * (m - k)]
      BY CountFacts
<1>2. h = CountOf(k, 1..k)
      BY NofCounts
<1>3. /\ h \in [Nodes(k) -> Nat]
      /\ \A m \in Nodes(k) : m <= k => h[m] = IF m \in 1..k THEN 1 ELSE 0
      /\ \A m \in Nodes(k) : ~(m <= k) => h[m] = h[2 * (m - k) - 1] + h[2 * (m - k)]
      BY <1>2, CountFacts
<1> DEFINE F == {j \in Nat : \A m \in Nodes(k) : m <= j => g[m] <= h[m]}
<1>4. 0 \in F
      BY DEF Nodes
<1>5. ASSUME NEW j \in Nat, j \in F
      PROVE  j + 1 \in F
  <2> SUFFICES ASSUME NEW m \in Nodes(k), m <= j + 1 PROVE g[m] <= h[m]
      OBVIOUS
  <2>1. CASE m <= k
    <3>1. m \in 1..k
          BY <2>1 DEF Nodes
    <3>2. h[m] = 1 /\ (g[m] = 1 \/ g[m] = 0)
          BY <1>1, <1>3, <2>1, <3>1
    <3> QED BY <3>2
  <2>2. CASE ~(m <= k)
    <3>1. PICK a, b : a = 2 * (m - k) - 1 /\ b = 2 * (m - k)
          OBVIOUS
    <3>2. a \in Nodes(k) /\ b \in Nodes(k) /\ a <= j /\ b <= j
          BY <2>2, <3>1, KidsFacts DEF Nodes
    <3>3. g[a] <= h[a] /\ g[b] <= h[b]
          BY <1>5, <3>2
    <3>4. g[a] \in Nat /\ g[b] \in Nat /\ h[a] \in Nat /\ h[b] \in Nat
          BY <1>1, <1>3, <3>2
    <3>5. g[m] = g[a] + g[b] /\ h[m] = h[a] + h[b]
          BY <1>1, <1>3, <2>2, <3>1
    <3> QED BY <3>3, <3>4, <3>5
  <2> QED BY <2>1, <2>2
<1>6. 2 * k \in F
  <2> HIDE DEF F
  <2> QED BY <1>4, <1>5, NatClosure
<1> QED BY <1>6 DEF Nodes

\* What the proofs about states need to know of nof_input.
NofOK(k, h) ==
    /\ h \in [Nodes(k) -> Nat]
    /\ \A m \in Nodes(k) : 1 <= h[m] /\ h[m] <= k
    /\ \A m \in Nodes(k) : m <= k => h[m] = 1
    /\ \A m \in Nodes(k) : ~(m <= k) => h[m] = h[2 * (m - k) - 1] + h[2 * (m - k)]

\* nof_input is defined, at least 1, and at most the number of inputs.
LEMMA NofFacts ==
  ASSUME NEW k \in Nat, k # 0, NEW h, h = NofInput(k)
  PROVE  NofOK(k, h)
<1>1. h = CountOf(k, 1..k)
      BY NofCounts
<1>2. /\ h \in [Nodes(k) -> Nat]
      /\ \A m \in Nodes(k) : m <= k => h[m] = IF m \in 1..k THEN 1 ELSE 0
      /\ \A m \in Nodes(k) : ~(m <= k) => h[m] = h[2 * (m - k) - 1] + h[2 * (m - k)]
      BY <1>1, CountFacts
<1>3. \A m \in Nodes(k) : h[m] <= k
  <2>1. PICK D : D = 1..k
        OBVIOUS
  <2>2. D \in SUBSET (1..k) /\ h = CountOf(k, D) /\ Cardinality(D) = k
        BY <1>1, <2>1, FS_Interval
  <2>3. \A m \in Nodes(k) : h[m] <= Cardinality(D)
        BY ONLY <2>2, CountBounds, k \in Nat, k # 0
  <2> QED BY <2>2, <2>3
<1> DEFINE F == {j \in Nat : \A m \in Nodes(k) : m <= j => 1 <= h[m]}
<1>4. 0 \in F
      BY DEF Nodes
<1>5. ASSUME NEW j \in Nat, j \in F
      PROVE  j + 1 \in F
  <2> SUFFICES ASSUME NEW m \in Nodes(k), m <= j + 1 PROVE 1 <= h[m]
      OBVIOUS
  <2>1. CASE m <= k
        BY <1>2, <2>1 DEF Nodes
  <2>2. CASE ~(m <= k)
    <3>1. PICK a, b : a = 2 * (m - k) - 1 /\ b = 2 * (m - k)
          OBVIOUS
    <3>2. a \in Nodes(k) /\ b \in Nodes(k) /\ a <= j /\ b <= j
          BY <2>2, <3>1, KidsFacts DEF Nodes
    <3>3. 1 <= h[a] /\ 1 <= h[b] /\ h[a] \in Nat /\ h[b] \in Nat
          BY <1>2, <1>5, <3>2
    <3>4. h[m] = h[a] + h[b]
          BY <1>2, <2>2, <3>1
    <3> QED BY <3>3, <3>4
  <2> QED BY <2>1, <2>2
<1>6. 2 * k \in F
  <2> HIDE DEF F
  <2> QED BY <1>4, <1>5, NatClosure
<1>7. \A m \in Nodes(k) : 1 <= h[m]
      BY <1>6 DEF Nodes
<1>8. \A m \in Nodes(k) : m <= k => h[m] = 1
      BY <1>2 DEF Nodes
<1> QED BY <1>2, <1>3, <1>7, <1>8 DEF NofOK

-----------------------------------------------------------------------------
(***************************************************************************)
(* The numbers of outputs.                                                 *)
(***************************************************************************)
Growing(nb, g) ==
    g = [m \in Nodes(n) |-> size[m] < Kmin(m, nb) /\ (m = Root \/ g[ParentOf(m)])]

\* The parent of a node comes after it.
LEMMA ParentFacts ==
  ASSUME n \in Nat, NEW m \in Nodes(n), m # Root
  PROVE  ParentOf(m) \in Nodes(n) /\ m < ParentOf(m)
<1>1. PICK a \in Nat : m = 2 * a \/ m = 2 * a - 1
  <2>1. m \in Nat
        BY DEF Nodes
  <2>2. (m + 1) \div 2 \in Nat /\ (m = 2 * ((m + 1) \div 2) \/ m = 2 * ((m + 1) \div 2) - 1)
        BY <2>1
  <2> QED BY <2>2
<1>2. (m + 1) \div 2 = a
      BY <1>1
<1> QED BY <1>1, <1>2 DEF Nodes, Root, ParentOf

\* Both children have their parent.
LEMMA KidsParent ==
  ASSUME n \in Nat, NEW m \in Nodes(n), ~IsLeaf(m)
  PROVE  /\ LeftOf(m) \in Nodes(n) /\ RightOf(m) \in Nodes(n)
         /\ ParentOf(LeftOf(m)) = m /\ ParentOf(RightOf(m)) = m
         /\ LeftOf(m) # Root /\ RightOf(m) # Root /\ LeftOf(m) # RightOf(m)
         /\ LeftOf(m) < m /\ RightOf(m) < m /\ LeftOf(m) <= 2 * (m - n) /\ RightOf(m) <= 2 * (m - n)
<1>1. PICK a \in Nat : a = m - n
      BY DEF Nodes, IsLeaf
<1>2. m = n + a /\ m \in Nat
      BY <1>1 DEF Nodes
<1>3. (2 * a - 1 + 1) \div 2 = a /\ (2 * a + 1) \div 2 = a
      BY <1>1
<1>4. LeftOf(m) = 2 * a - 1 /\ RightOf(m) = 2 * a
      BY <1>1 DEF LeftOf, RightOf
<1>5. ParentOf(LeftOf(m)) = m /\ ParentOf(RightOf(m)) = m
      BY <1>2, <1>3, <1>4 DEF ParentOf
<1>6. 1 <= a /\ a <= n - 1
      BY <1>1 DEF Nodes, IsLeaf
<1> QED BY <1>2, <1>4, <1>5, <1>6 DEF Nodes, Root

\* The recursion of increase is defined.
LEMMA GrowingExists ==
  ASSUME n \in Nat, NEW nb
  PROVE  \E g : Growing(nb, g)
<1> DEFINE At(g, m) == size[m] < Kmin(m, nb) /\ (m = Root \/ g[ParentOf(m)])
           From(j) == {m \in Nodes(n) : 2 * n <= m + j}
           F == {j \in Nat : \E g : \A m \in From(j) : g[m] = At(g, m)}
<1>1. 0 \in F
  <2>1. \A m \in From(0) : FALSE
        BY DEF Nodes
  <2> QED BY <2>1
<1>2. ASSUME NEW j \in Nat, j \in F
      PROVE  j + 1 \in F
  <2>1. PICK g : \A m \in From(j) : g[m] = At(g, m)
        BY <1>2
  <2> DEFINE h == [m \in Nodes(n) |-> IF m \in From(j) THEN g[m] ELSE At(g, m)]
  <2>2. ASSUME NEW m \in From(j + 1)
        PROVE  h[m] = At(h, m)
    <3>1. m \in Nodes(n)
          BY <2>2
    <3>2. CASE m = Root
      <4>1. At(g, m) = (size[m] < Kmin(m, nb)) /\ At(h, m) = (size[m] < Kmin(m, nb))
            BY <3>2
      <4>2. h[m] = At(g, m)
            BY <2>1, <3>1
      <4> HIDE DEF h, At
      <4> QED BY <4>1, <4>2
    <3>3. CASE m # Root
      <4>1. PICK p : p = ParentOf(m)
            OBVIOUS
      <4>2. p \in From(j)
        <5>1. p \in Nodes(n) /\ m < p
              BY <3>1, <3>3, <4>1, ParentFacts
        <5> QED BY <2>2, <5>1 DEF Nodes
      <4>3. h[p] = g[p]
            BY <4>2
      <4>4. At(h, m) = At(g, m)
        <5> HIDE DEF h, From
        <5> QED BY <4>1, <4>3
      <4>5. h[m] = At(g, m)
            BY <2>1, <3>1
      <4> HIDE DEF h, At
      <4> QED BY <4>4, <4>5
    <3> QED BY <3>2, <3>3
  <2> HIDE DEF h, At
  <2> QED BY <2>2
<1>3. 2 * n \in F
  <2>1. 2 * n \in Nat
        OBVIOUS
  <2> HIDE DEF F
  <2> QED BY <1>1, <1>2, <2>1, NatClosure
<1>4. PICK g : \A m \in From(2 * n) : g[m] = At(g, m)
      BY <1>3
<1>5. From(2 * n) = Nodes(n)
      BY DEF Nodes
<1> DEFINE h == [m \in Nodes(n) |-> g[m]]
<1>6. ASSUME NEW m \in Nodes(n)
      PROVE  h[m] = At(h, m)
  <2>1. h[m] = At(g, m)
        BY <1>4, <1>5
  <2>2. CASE m = Root
    <3>1. At(g, m) = (size[m] < Kmin(m, nb)) /\ At(h, m) = (size[m] < Kmin(m, nb))
          BY <2>2
    <3> HIDE DEF h, At
    <3> QED BY <2>1, <3>1
  <2>3. CASE m # Root
    <3>1. PICK p : p = ParentOf(m)
          OBVIOUS
    <3>2. h[p] = g[p]
          BY <2>3, <3>1, ParentFacts
    <3>3. At(h, m) = At(g, m)
      <4> HIDE DEF h
      <4> QED BY <3>1, <3>2
    <3> HIDE DEF h, At
    <3> QED BY <2>1, <3>3
  <2> QED BY <2>2, <2>3
<1>7. h = [m \in Nodes(n) |-> At(h, m)]
  <2>1. h = [m \in Nodes(n) |-> h[m]]
        OBVIOUS
  <2> HIDE DEF h, At
  <2> QED BY <1>6, <2>1
<1>8. Growing(nb, h)
  <2> HIDE DEF h
  <2> QED BY <1>7 DEF Growing
<1> QED BY <1>8

\* The nodes that grow lack outputs, and pass the request on to the children
\* that do.
LEMMA IncreasedFacts ==
  ASSUME n \in Nat, n # 0, NEW nb, NEW inc, inc = Increased(nb)
  PROVE  /\ inc \subseteq Nodes(n)
         /\ \A m \in inc : size[m] < Kmin(m, nb)
         /\ size[Root] < Kmin(Root, nb) => Root \in inc
         /\ \A m \in Nodes(n) : m # Root /\ ParentOf(m) \in inc /\ size[m] < Kmin(m, nb) => m \in inc
<1>1. PICK g : g = CHOOSE h : Growing(nb, h)
      OBVIOUS
<1>2. Growing(nb, g)
      BY <1>1, GrowingExists
<1>3. inc = {m \in Nodes(n) : g[m]}
      BY <1>1 DEF Increased, Growing
<1>4. \A m \in Nodes(n) : g[m] = (size[m] < Kmin(m, nb) /\ (m = Root \/ g[ParentOf(m)]))
      BY <1>2 DEF Growing
<1>5. \A m \in inc : size[m] < Kmin(m, nb)
      BY <1>3, <1>4
<1>6. Root \in Nodes(n)
      BY DEF Root, Nodes
<1>7. size[Root] < Kmin(Root, nb) => Root \in inc
      BY <1>3, <1>4, <1>6
<1>8. ASSUME NEW m \in Nodes(n), m # Root, ParentOf(m) \in inc, size[m] < Kmin(m, nb)
      PROVE  m \in inc
      BY <1>3, <1>4, <1>8
<1> QED BY <1>3, <1>5, <1>7, <1>8

\* The constructor gives every node as many outputs as its parent can use.
LEMMA InitSizes ==
  ASSUME n \in Nat, n # 0, NEW b \in Nat, NEW sz,
         sz = [m \in Nodes(n) |-> Min2(b + 1, NofInput(n)[m])]
  PROVE  SizesOK(sz)
<1>1. PICK h : h = NofInput(n)
      OBVIOUS
<1>2. NofOK(n, h)
      BY <1>1, NofFacts
<1>3. \A m \in Nodes(n) : h[m] \in Nat /\ 1 <= h[m] /\ sz[m] = Min2(b + 1, h[m])
      BY <1>1, <1>2 DEF NofOK
<1>4. sz \in [Nodes(n) -> Nat] /\ \A m \in Nodes(n) : 1 <= sz[m] /\ sz[m] <= h[m]
      BY <1>3 DEF Min2
<1>5. ASSUME NEW m \in Nodes(n), ~IsLeaf(m)
      PROVE  /\ Min2(sz[m], h[LeftOf(m)]) <= sz[LeftOf(m)]
             /\ Min2(sz[m], h[RightOf(m)]) <= sz[RightOf(m)]
  <2>1. PICK l, r : l = LeftOf(m) /\ r = RightOf(m)
        OBVIOUS
  <2>2. l \in Nodes(n) /\ r \in Nodes(n)
        BY <1>5, <2>1, KidsParent
  <2>3. Min2(sz[m], h[l]) <= sz[l] /\ Min2(sz[m], h[r]) <= sz[r]
        BY <1>3, <2>2 DEF Min2
  <2> QED BY <2>1, <2>3
<1> QED BY <1>1, <1>4, <1>5 DEF SizesOK

\* increase() keeps it so, shrinks no node, and makes the output asked for.
LEMMA GrownSizes ==
  ASSUME n \in Nat, n # 0, SizesOK(size), NEW k \in Nat, NEW sz, sz = NewSize(k)
  PROVE  /\ SizesOK(sz)
         /\ \A m \in Nodes(n) : size[m] <= sz[m]
         /\ k < n => k < sz[Root]
<1>1. PICK h : h = NofInput(n)
      OBVIOUS
<1>2. NofOK(n, h)
      BY <1>1, NofFacts
<1>3. PICK inc : inc = Increased(k)
      OBVIOUS
<1>4. /\ inc \subseteq Nodes(n)
      /\ \A m \in inc : size[m] < Kmin(m, k)
      /\ size[Root] < Kmin(Root, k) => Root \in inc
      /\ \A m \in Nodes(n) : m # Root /\ ParentOf(m) \in inc /\ size[m] < Kmin(m, k) => m \in inc
      BY <1>3, IncreasedFacts
<1>5. sz = [m \in Nodes(n) |-> IF m \in inc THEN Kmin(m, k) ELSE size[m]]
      BY <1>3 DEF NewSize
<1>6. \A m \in Nodes(n) : h[m] \in Nat /\ 1 <= h[m] /\ Kmin(m, k) = Min2(k + 1, h[m])
      BY <1>1, <1>2 DEF NofOK, Kmin
<1>7. \A m \in Nodes(n) : size[m] \in Nat /\ 1 <= size[m] /\ size[m] <= h[m]
      BY <1>1 DEF SizesOK
<1>8. \A m \in Nodes(n) : sz[m] \in Nat /\ 1 <= sz[m] /\ sz[m] <= h[m] /\ size[m] <= sz[m]
  <2> TAKE m \in Nodes(n)
  <2>1. CASE m \in inc
    <3>1. sz[m] = Min2(k + 1, h[m]) /\ size[m] < sz[m]
          BY <1>4, <1>5, <1>6, <2>1
    <3> QED BY <1>6, <1>7, <3>1 DEF Min2
  <2>2. CASE m \notin inc
        BY <1>5, <1>7, <2>2
  <2> QED BY <2>1, <2>2
<1>9. sz \in [Nodes(n) -> Nat]
      BY <1>5, <1>8
<1>10. ASSUME NEW m \in Nodes(n), NEW c \in Nodes(n), c # Root, ParentOf(c) = m,
              Min2(size[m], h[c]) <= size[c]
       PROVE  Min2(sz[m], h[c]) <= sz[c]
  <2>1. CASE m \notin inc
    <3>1. sz[m] = size[m]
          BY <1>5, <2>1
    <3> QED BY <1>6, <1>7, <1>8, <1>10, <3>1 DEF Min2
  <2>2. CASE m \in inc
    <3>1. sz[m] = Min2(k + 1, h[m])
          BY <1>5, <1>6, <2>2
    <3>2. Min2(k + 1, h[c]) <= sz[c]
      <4>1. CASE size[c] < Kmin(c, k)
        <5>1. c \in inc
              BY <1>4, <1>10, <2>2, <4>1
        <5>2. sz[c] = Min2(k + 1, h[c])
              BY <1>5, <1>6, <5>1
        <5> QED BY <1>6, <5>2 DEF Min2
      <4>2. CASE ~(size[c] < Kmin(c, k))
            BY <1>6, <1>7, <1>8, <4>2 DEF Min2
      <4> QED BY <4>1, <4>2
    <3> QED BY <1>6, <1>8, <3>1, <3>2 DEF Min2
  <2> QED BY <2>1, <2>2
<1>11. ASSUME NEW m \in Nodes(n), ~IsLeaf(m)
       PROVE  /\ Min2(sz[m], h[LeftOf(m)]) <= sz[LeftOf(m)]
              /\ Min2(sz[m], h[RightOf(m)]) <= sz[RightOf(m)]
  <2>1. PICK l, r : l = LeftOf(m) /\ r = RightOf(m)
        OBVIOUS
  <2>2. l \in Nodes(n) /\ r \in Nodes(n) /\ l # Root /\ r # Root /\ ParentOf(l) = m /\ ParentOf(r) = m
        BY <1>11, <2>1, KidsParent
  <2>3. Min2(size[m], h[l]) <= size[l] /\ Min2(size[m], h[r]) <= size[r]
        BY <1>1, <1>11, <2>1 DEF SizesOK
  <2>4. Min2(sz[m], h[l]) <= sz[l] /\ Min2(sz[m], h[r]) <= sz[r]
        BY <1>10, <2>2, <2>3
  <2> QED BY <2>1, <2>4
<1>12. SizesOK(sz)
       BY <1>1, <1>8, <1>9, <1>11 DEF SizesOK
<1>13. k < n => k < sz[Root]
  <2> SUFFICES ASSUME k < n PROVE k < sz[Root]
      OBVIOUS
  <2>1. Root \in Nodes(n)
        BY DEF Root, Nodes
  <2>2. h[Root] = n
    <3>1. PICK D : D = 1..n
          OBVIOUS
    <3>2. D \in SUBSET (1..n) /\ h = CountOf(n, D) /\ Cardinality(D) = n
          BY <1>1, <3>1, NofCounts, FS_Interval
    <3>3. h[2 * n - 1] = Cardinality(D)
          BY <3>2, CountBounds
    <3> QED BY <3>2, <3>3 DEF Root
  <2>3. Kmin(Root, k) = k + 1
        BY <1>6, <2>1, <2>2 DEF Min2
  <2>4. CASE size[Root] < k + 1
    <3>1. sz[Root] = k + 1
          BY <1>4, <1>5, <2>1, <2>3, <2>4
    <3> QED BY <3>1
  <2>5. CASE ~(size[Root] < k + 1)
        BY <1>7, <1>8, <2>1, <2>5
  <2> QED BY <2>4, <2>5
<1> QED BY <1>8, <1>12, <1>13

-----------------------------------------------------------------------------
(***************************************************************************)
(* The impliquants.                                                        *)
(***************************************************************************)
\* The three forms of an impliquant.
LEMMA ImplicantForms ==
  ASSUME NEW l, NEW r, NEW a \in Nat, NEW b \in Nat
  PROVE  /\ a = 0 => Implicant(l, r, a, b) = IF b = 0 THEN {} ELSE {<<r, b - 1>>}
         /\ b = 0 => Implicant(l, r, a, b) = IF a = 0 THEN {} ELSE {<<l, a - 1>>}
         /\ a # 0 /\ b # 0 => Implicant(l, r, a, b) = {<<l, a - 1>>, <<r, b - 1>>}
<1>1. a = 0 => {<<l, j - 1>> : j \in {a} \ {0}} = {}
      OBVIOUS
<1>2. b = 0 => {<<r, j - 1>> : j \in {b} \ {0}} = {}
      OBVIOUS
<1>3. a # 0 => {<<l, j - 1>> : j \in {a} \ {0}} = {<<l, a - 1>>}
      OBVIOUS
<1>4. b # 0 => {<<r, j - 1>> : j \in {b} \ {0}} = {<<r, b - 1>>}
      OBVIOUS
<1> QED BY <1>1, <1>2, <1>3, <1>4 DEF Implicant

\* q is the impliquant of a way to split i + 1 with at most nl on the left.
IsSplit(l, r, nl, nr, i, q) ==
    \E a \in 0..nl, b \in 0..nr : a + b = i + 1 /\ q = Implicant(l, r, a, b)

\* A set is an impliquant if it is that of some split.
LEMMA ImplicantsAre ==
  ASSUME NEW l, NEW r, NEW nl \in Nat, NEW nr \in Nat, NEW i \in Nat, NEW q
  PROVE  q \in Implicants(l, r, nl, nr, i) <=> IsSplit(l, r, nl, nr, i, q)
<1>1. ASSUME q \in Implicants(l, r, nl, nr, i)
      PROVE  \E a \in 0..nl, b \in 0..nr : a + b = i + 1 /\ q = Implicant(l, r, a, b)
  <2>1. PICK z \in (0..nl) \X (0..nr) : z[1] + z[2] = i + 1 /\ q = Implicant(l, r, z[1], z[2])
        BY <1>1 DEF Implicants
  <2>2. z[1] \in 0..nl /\ z[2] \in 0..nr
        BY <2>1
  <2>3. z[1] + z[2] = i + 1 /\ q = Implicant(l, r, z[1], z[2])
        BY <2>1
  <2> QED BY <2>2, <2>3
<1>2. ASSUME NEW a \in 0..nl, NEW b \in 0..nr, a + b = i + 1, q = Implicant(l, r, a, b)
      PROVE  q \in Implicants(l, r, nl, nr, i)
  <2>1. PICK z : z = <<a, b>>
        OBVIOUS
  <2>2. z \in (0..nl) \X (0..nr) /\ z[1] = a /\ z[2] = b
        BY <2>1
  <2> QED BY <1>2, <2>2 DEF Implicants
<1> QED BY <1>1, <1>2 DEF IsSplit

\* A set is what new_ua and increase_ua give for index i if it is that of a
\* split among the outputs there are.
LEMMA UAAre ==
  ASSUME NEW l, NEW r, NEW a \in Nat, NEW b \in Nat, NEW last \in Nat, NEW rhs \in Nat,
         NEW i \in Nat, i < rhs, NEW q
  PROVE  q \in UA(l, r, a, b, last, rhs, i) <=>
           last <= i /\ IsSplit(l, r, a, b, i, q)
<1> DEFINE R1 == {{<<r, j>>} : j \in {x \in last .. (Min2(rhs, b) - 1) : x = i}}
           R2 == {{<<l, j>>} : j \in {x \in last .. (Min2(rhs, a) - 1) : x = i}}
           R3 == {{<<l, z[1] - 1>>, <<r, z[2] - 1>>} :
                    z \in {z \in (1 .. Min2(rhs, a)) \X (1 .. b) :
                             /\ z[2] <= rhs - z[1]
                             /\ z[2] >= last - z[1] + 1
                             /\ z[1] + z[2] - 1 = i}}
<1>1. q \in UA(l, r, a, b, last, rhs, i) <=> q \in R1 \/ q \in R2 \/ q \in R3
      BY DEF UA
<1>2. ASSUME q \in R1
      PROVE  last <= i /\ \E x \in 0..a, y \in 0..b : x + y = i + 1 /\ q = Implicant(l, r, x, y)
  <2>1. last <= i /\ i < b /\ q = {<<r, i>>}
        BY <1>2 DEF Min2
  <2>2. PICK x, y : x = 0 /\ y = i + 1
        OBVIOUS
  <2>3. x \in 0..a /\ y \in 0..b /\ x + y = i + 1 /\ x \in Nat /\ y \in Nat
        BY <2>1, <2>2
  <2>4. Implicant(l, r, x, y) = {<<r, y - 1>>}
        BY <2>2, <2>3, ImplicantForms
  <2>5. y - 1 = i
        BY <2>2
  <2> QED BY <2>1, <2>3, <2>4, <2>5
<1>3. ASSUME q \in R2
      PROVE  last <= i /\ \E x \in 0..a, y \in 0..b : x + y = i + 1 /\ q = Implicant(l, r, x, y)
  <2>1. last <= i /\ i < a /\ q = {<<l, i>>}
        BY <1>3 DEF Min2
  <2>2. PICK x, y : x = i + 1 /\ y = 0
        OBVIOUS
  <2>3. x \in 0..a /\ y \in 0..b /\ x + y = i + 1 /\ x \in Nat /\ y \in Nat
        BY <2>1, <2>2
  <2>4. Implicant(l, r, x, y) = {<<l, x - 1>>}
        BY <2>2, <2>3, ImplicantForms
  <2>5. x - 1 = i
        BY <2>2
  <2> QED BY <2>1, <2>3, <2>4, <2>5
<1>4. ASSUME q \in R3
      PROVE  last <= i /\ \E x \in 0..a, y \in 0..b : x + y = i + 1 /\ q = Implicant(l, r, x, y)
  <2>1. PICK z \in (1 .. Min2(rhs, a)) \X (1 .. b) :
          /\ z[2] <= rhs - z[1]
          /\ z[2] >= last - z[1] + 1
          /\ z[1] + z[2] - 1 = i
          /\ q = {<<l, z[1] - 1>>, <<r, z[2] - 1>>}
        BY <1>4
  <2>2. PICK x, y : x = z[1] /\ y = z[2]
        OBVIOUS
  <2>3. x \in 1 .. Min2(rhs, a) /\ y \in 1..b
        BY <2>1, <2>2
  <2>4. x \in 0..a /\ y \in 0..b /\ x + y = i + 1 /\ x \in Nat /\ y \in Nat /\ x # 0 /\ y # 0 /\ last <= i
        BY <2>1, <2>2, <2>3 DEF Min2
  <2>5. Implicant(l, r, x, y) = {<<l, x - 1>>, <<r, y - 1>>}
        BY <2>4, ImplicantForms
  <2> QED BY <2>1, <2>2, <2>4, <2>5
<1>5. ASSUME last <= i, NEW x \in 0..a, NEW y \in 0..b, x + y = i + 1, q = Implicant(l, r, x, y)
      PROVE  q \in R1 \/ q \in R2 \/ q \in R3
  <2>1. CASE x = 0
    <3>1. y = i + 1 /\ y # 0 /\ y \in Nat /\ y - 1 = i
          BY <1>5, <2>1
    <3>2. q = {<<r, i>>}
          BY <1>5, <2>1, <3>1, ImplicantForms
    <3>3. i \in last .. (Min2(rhs, b) - 1)
          BY <1>5, <3>1 DEF Min2
    <3> QED BY <3>2, <3>3
  <2>2. CASE x # 0 /\ y = 0
    <3>1. x = i + 1 /\ x # 0 /\ x \in Nat /\ x - 1 = i
          BY <1>5, <2>2
    <3>2. q = {<<l, i>>}
          BY <1>5, <2>2, <3>1, ImplicantForms
    <3>3. i \in last .. (Min2(rhs, a) - 1)
          BY <1>5, <3>1 DEF Min2
    <3> QED BY <3>2, <3>3
  <2>3. CASE x # 0 /\ y # 0
    <3>1. q = {<<l, x - 1>>, <<r, y - 1>>}
          BY <1>5, <2>3, ImplicantForms
    <3>2. x \in 1 .. Min2(rhs, a) /\ y \in 1..b
          BY <1>5, <2>3 DEF Min2
    <3>3. PICK z : z = <<x, y>>
          OBVIOUS
    <3>4. z \in (1 .. Min2(rhs, a)) \X (1 .. b) /\ z[1] = x /\ z[2] = y
          BY <3>2, <3>3
    <3>5. z[2] <= rhs - z[1] /\ z[2] >= last - z[1] + 1 /\ z[1] + z[2] - 1 = i
          BY <1>5, <3>2, <3>4
    <3> QED BY <3>1, <3>4, <3>5
  <2> QED BY <2>1, <2>2, <2>3
<1> HIDE DEF R1, R2, R3
<1> QED BY <1>1, <1>2, <1>3, <1>4, <1>5 DEF IsSplit

\* With enough outputs below, those are all the splits among the inputs.
LEMMA UAComplete ==
  ASSUME NEW l, NEW r, NEW a \in Nat, NEW b \in Nat, NEW nl \in Nat, NEW nr \in Nat,
         NEW last \in Nat, NEW rhs \in Nat, NEW i \in Nat, i < rhs,
         a <= nl, b <= nr, Min2(rhs, nl) <= a, Min2(rhs, nr) <= b
  PROVE  UA(l, r, a, b, last, rhs, i) = IF last <= i THEN Implicants(l, r, nl, nr, i) ELSE {}
<1>1. \A x, y \in Nat : x + y = i + 1 => (x <= a <=> x <= nl) /\ (y <= b <=> y <= nr)
      BY DEF Min2
<1>2. ASSUME NEW q
      PROVE  IsSplit(l, r, a, b, i, q) <=> IsSplit(l, r, nl, nr, i, q)
  <2>1. ASSUME NEW x \in 0..a, NEW y \in 0..b, x + y = i + 1, q = Implicant(l, r, x, y)
        PROVE  IsSplit(l, r, nl, nr, i, q)
    <3>1. x \in 0..nl /\ y \in 0..nr
          OBVIOUS
    <3> QED BY <2>1, <3>1 DEF IsSplit
  <2>2. ASSUME NEW x \in 0..nl, NEW y \in 0..nr, x + y = i + 1, q = Implicant(l, r, x, y)
        PROVE  IsSplit(l, r, a, b, i, q)
    <3>1. x \in Nat /\ y \in Nat /\ x <= nl /\ y <= nr
          OBVIOUS
    <3>2. x <= a /\ y <= b
          BY <1>1, <2>2, <3>1
    <3>3. x \in 0..a /\ y \in 0..b
          BY <3>1, <3>2
    <3> QED BY <2>2, <3>3 DEF IsSplit
  <2> QED BY <2>1, <2>2 DEF IsSplit
<1>3. ASSUME NEW q
      PROVE  q \in UA(l, r, a, b, last, rhs, i) <=> last <= i /\ q \in Implicants(l, r, nl, nr, i)
  <2>1. q \in UA(l, r, a, b, last, rhs, i) <=> last <= i /\ IsSplit(l, r, a, b, i, q)
        BY UAAre
  <2>2. q \in Implicants(l, r, nl, nr, i) <=> IsSplit(l, r, nl, nr, i, q)
        BY ImplicantsAre
  <2> QED BY <1>2, <2>1, <2>2
<1> QED BY <1>3

\* A lazy variable: a node, and an index below its number of outputs.
LEMMA LazyVarFacts ==
  ASSUME n \in Nat, NEW sz, NEW x \in LazyVars(n, sz)
  PROVE  /\ x = <<x[1], x[2]>> /\ x[1] \in Nodes(n) /\ x[2] \in 0 .. (n - 1) /\ x[2] \in Nat
         /\ x[2] < sz[x[1]]
  BY DEF LazyVars

\* The children of a node, their inputs and their outputs.
Kids(sz, m, l, r, nl, nr) ==
    /\ l = LeftOf(m) /\ r = RightOf(m) /\ nl = NofInput(n)[l] /\ nr = NofInput(n)[r]
    /\ l \in Nodes(n) /\ r \in Nodes(n) /\ l # r /\ l <= 2 * (m - n) /\ r <= 2 * (m - n)
    /\ nl \in 1..n /\ nr \in 1..n
    /\ sz[m] \in Nat /\ sz[l] \in Nat /\ sz[r] \in Nat /\ 1 <= sz[m] /\ sz[m] <= nl + nr
    /\ sz[l] <= nl /\ sz[r] <= nr /\ Min2(sz[m], nl) <= sz[l] /\ Min2(sz[m], nr) <= sz[r]

\* A node that is no leaf has them.
LEMMA KidsExist ==
  ASSUME n \in Nat, n # 0, NEW sz, SizesOK(sz), NEW m \in Nodes(n), ~IsLeaf(m)
  PROVE  \E l, r, nl, nr : Kids(sz, m, l, r, nl, nr)
<1>1. PICK h : h = NofInput(n)
      OBVIOUS
<1>2. NofOK(n, h)
      BY <1>1, NofFacts
<1>3. PICK l, r : l = LeftOf(m) /\ r = RightOf(m)
      OBVIOUS
<1>4. l \in Nodes(n) /\ r \in Nodes(n) /\ l # r /\ l <= 2 * (m - n) /\ r <= 2 * (m - n)
      BY <1>3, KidsParent
<1>5. h[l] \in 1..n /\ h[r] \in 1..n
      BY <1>2, <1>4 DEF NofOK
<1>6. h[m] = h[l] + h[r]
      BY <1>2, <1>3 DEF NofOK, IsLeaf, LeftOf, RightOf
<1>7. /\ sz[m] \in Nat /\ sz[l] \in Nat /\ sz[r] \in Nat /\ 1 <= sz[m] /\ sz[m] <= h[m]
      /\ sz[l] <= h[l] /\ sz[r] <= h[r] /\ Min2(sz[m], h[l]) <= sz[l] /\ Min2(sz[m], h[r]) <= sz[r]
      BY <1>1, <1>3, <1>4 DEF SizesOK
<1>8. Kids(sz, m, l, r, h[l], h[r])
      BY <1>1, <1>3, <1>4, <1>5, <1>6, <1>7 DEF Kids
<1> QED BY <1>8

\* The impliquants of a variable are made of variables of its children.
LEMMA ImplTyped ==
  ASSUME n \in Nat, n # 0, NEW sz, SizesOK(sz), NEW x \in LazyVars(n, sz), NEW q \in ImplOf(x), NEW y \in q
  PROVE  y \in LazyVars(n, sz) /\ y[1] \in Nat /\ y[1] <= 2 * (x[1] - n) /\ ~IsLeaf(x[1])
<1>1. x[1] \in Nodes(n) /\ x[2] \in Nat /\ x[2] < sz[x[1]]
      BY LazyVarFacts
<1>2. PICK m, i : m = x[1] /\ i = x[2]
      OBVIOUS
<1>3. ~IsLeaf(m) /\ m \in Nodes(n) /\ i \in Nat /\ i < sz[m]
      BY <1>1, <1>2 DEF ImplOf
<1>4. PICK l, r, nl, nr : Kids(sz, m, l, r, nl, nr)
      BY <1>3, KidsExist
<1>5. q \in Implicants(l, r, nl, nr, i) /\ nl \in Nat /\ nr \in Nat
      BY <1>2, <1>3, <1>4 DEF ImplOf, Kids
<1>6. PICK a \in 0..nl, b \in 0..nr : a + b = i + 1 /\ q = Implicant(l, r, a, b)
  <2>1. IsSplit(l, r, nl, nr, i, q)
        BY ONLY <1>3, <1>5, ImplicantsAre
  <2> QED BY <2>1 DEF IsSplit
<1>7. (a # 0 /\ y = <<l, a - 1>>) \/ (b # 0 /\ y = <<r, b - 1>>)
  <2>1. y \in Implicant(l, r, a, b)
        BY <1>6
  <2> QED BY <2>1 DEF Implicant
<1>8. CASE a # 0 /\ y = <<l, a - 1>>
  <2>1. a - 1 \in 0 .. (n - 1) /\ a - 1 < sz[l] /\ l \in Nodes(n) /\ l <= 2 * (m - n)
        BY <1>3, <1>4, <1>6, <1>8 DEF Kids, Min2
  <2>2. y \in LazyVars(n, sz) /\ y[1] = l
        BY <1>8, <2>1 DEF LazyVars
  <2> QED BY <1>2, <1>3, <2>1, <2>2 DEF Nodes
<1>9. CASE b # 0 /\ y = <<r, b - 1>>
  <2>1. b - 1 \in 0 .. (n - 1) /\ b - 1 < sz[r] /\ r \in Nodes(n) /\ r <= 2 * (m - n)
        BY <1>3, <1>4, <1>6, <1>9 DEF Kids, Min2
  <2>2. y \in LazyVars(n, sz) /\ y[1] = r
        BY <1>9, <2>1 DEF LazyVars
  <2> QED BY <1>2, <1>3, <2>1, <2>2 DEF Nodes
<1> QED BY <1>7, <1>8, <1>9

\* No variable has one impliquant of one variable: where one child can make it
\* true alone, both together can too.
LEMMA NeverLinked ==
  ASSUME n \in Nat, n # 0, NEW sz, SizesOK(sz), NEW x \in LazyVars(n, sz), NEW y
  PROVE  ImplOf(x) # {{y}}
<1> SUFFICES ASSUME ImplOf(x) = {{y}} PROVE FALSE
    OBVIOUS
<1>1. x[1] \in Nodes(n) /\ x[2] \in Nat /\ x[2] < sz[x[1]]
      BY LazyVarFacts
<1>2. PICK m, i : m = x[1] /\ i = x[2]
      OBVIOUS
<1>3. ~IsLeaf(m) /\ m \in Nodes(n) /\ i \in Nat /\ i < sz[m]
      BY <1>1, <1>2 DEF ImplOf
<1>4. PICK l, r, nl, nr : Kids(sz, m, l, r, nl, nr)
      BY <1>3, KidsExist
<1>5. Implicants(l, r, nl, nr, i) = {{y}} /\ nl \in Nat /\ nr \in Nat /\ 1 <= nl /\ 1 <= nr /\ l # r
      BY <1>2, <1>3, <1>4 DEF ImplOf, Kids
<1>6. ASSUME NEW a \in 0..nl, NEW b \in 0..nr, a + b = i + 1
      PROVE  Implicant(l, r, a, b) = {y}
  <2>1. PICK q : q = Implicant(l, r, a, b)
        OBVIOUS
  <2>2. IsSplit(l, r, nl, nr, i, q)
        BY <1>6, <2>1 DEF IsSplit
  <2>3. q \in Implicants(l, r, nl, nr, i)
        BY ONLY <1>3, <1>5, <2>2, ImplicantsAre
  <2> QED BY <1>5, <2>1, <2>3
<1>7. i + 1 <= nl + nr
      BY <1>3, <1>4 DEF Kids
<1>8. CASE i + 1 <= nl
  <2>1. Implicant(l, r, i + 1, 0) = {y}
        BY <1>3, <1>5, <1>6, <1>8
  <2>2. Implicant(l, r, i, 1) = {y}
        BY <1>3, <1>5, <1>6, <1>8
  <2>3. Implicant(l, r, i + 1, 0) = {<<l, i>>}
    <3>1. PICK c \in Nat : c = i + 1
          BY <1>3
    <3>2. Implicant(l, r, c, 0) = {<<l, c - 1>>} /\ c - 1 = i
          BY <1>3, <3>1, ImplicantForms
    <3> QED BY <3>1, <3>2
  <2>4. <<r, 0>> \in Implicant(l, r, i, 1)
        BY DEF Implicant
  <2>5. <<l, i>> # <<r, 0>>
        BY <1>5
  <2> QED BY <2>1, <2>2, <2>3, <2>4, <2>5
<1>9. CASE ~(i + 1 <= nl)
  <2>1. PICK b : b = i + 1 - nl
        OBVIOUS
  <2>2. b \in 0..nr /\ b # 0 /\ nl + b = i + 1
        BY <1>3, <1>5, <1>7, <1>9, <2>1
  <2>3. Implicant(l, r, nl, b) = {y}
        BY <1>5, <1>6, <2>2
  <2>4. Implicant(l, r, nl, b) = {<<l, nl - 1>>, <<r, b - 1>>}
    <3>1. b \in Nat /\ nl # 0
          BY <1>5, <2>2
    <3> QED BY <1>5, <2>2, <3>1, ImplicantForms
  <2>5. PICK u, v : u = <<l, nl - 1>> /\ v = <<r, b - 1>>
        OBVIOUS
  <2>6. u # v
        BY <1>5, <2>5
  <2>7. {u, v} = {y}
        BY <2>3, <2>4, <2>5
  <2>8. u \in {y} /\ v \in {y}
        BY ONLY <2>7
  <2> QED BY ONLY <2>6, <2>8
<1> QED BY <1>8, <1>9

\* The constructor gives every variable its impliquants.
LEMMA InitImpl ==
  ASSUME n \in Nat, n # 0, SizesOK(size),
         impl = [x \in LazyVars(n, size) |->
                   IF IsLeaf(x[1]) THEN {}
                   ELSE NewUA(LeftOf(x[1]), RightOf(x[1]), size[LeftOf(x[1])],
                              size[RightOf(x[1])], size[x[1]], x[2])]
  PROVE  ImplOK(impl, size)
<1>1. ASSUME NEW x \in LazyVars(n, size)
      PROVE  impl[x] = ImplOf(x)
  <2>1. CASE IsLeaf(x[1])
        BY <2>1 DEF ImplOf
  <2>2. CASE ~IsLeaf(x[1])
    <3>1. PICK m, i : m = x[1] /\ i = x[2]
          OBVIOUS
    <3>2. m \in Nodes(n) /\ i \in Nat /\ i < size[m]
          BY <3>1, LazyVarFacts
    <3>3. PICK l, r, nl, nr : Kids(size, m, l, r, nl, nr)
          BY <2>2, <3>1, <3>2, KidsExist
    <3>4. impl[x] = UA(l, r, size[l], size[r], 0, size[m], i)
          BY <2>2, <3>1, <3>3 DEF NewUA, Kids
    <3>5. ImplOf(x) = Implicants(l, r, nl, nr, i)
          BY <2>2, <3>1, <3>3 DEF ImplOf, Kids
    <3>6. PICK a, b, s, last : a = size[l] /\ b = size[r] /\ s = size[m] /\ last = 0
          OBVIOUS
    <3>7. /\ a \in Nat /\ b \in Nat /\ nl \in Nat /\ nr \in Nat /\ last \in Nat /\ s \in Nat /\ i \in Nat /\ i < s
          /\ a <= nl /\ b <= nr /\ Min2(s, nl) <= a /\ Min2(s, nr) <= b
          BY <3>2, <3>3, <3>6 DEF Kids
    <3>8. UA(l, r, a, b, last, s, i) = IF last <= i THEN Implicants(l, r, nl, nr, i) ELSE {}
          BY ONLY <3>7, UAComplete, SMTT(30)
    <3>9. last <= i
          BY <3>2, <3>6
    <3> QED BY <3>4, <3>5, <3>6, <3>8, <3>9
  <2> QED BY <2>1, <2>2
<1> QED BY <1>1 DEF ImplOK

\* increase() gives the new variables theirs, and the old ones nothing.
LEMMA GrownImpl ==
  ASSUME n \in Nat, n # 0, SizesOK(size), ImplOK(impl, size),
         NEW sz, SizesOK(sz), \A m \in Nodes(n) : size[m] <= sz[m],
         NEW im, im = NewImpl(sz)
  PROVE  ImplOK(im, sz) /\ DOMAIN impl \subseteq DOMAIN im /\ \A x \in DOMAIN impl : im[x] = impl[x]
<1>1. ASSUME NEW x \in LazyVars(n, sz)
      PROVE  im[x] = ImplOf(x)
  <2>1. PICK m, i : m = x[1] /\ i = x[2]
        OBVIOUS
  <2>2. m \in Nodes(n) /\ i \in Nat /\ i < sz[m] /\ x = <<m, i>> /\ i \in 0 .. (n - 1)
        BY <2>1, LazyVarFacts
  <2>3. size[m] \in Nat /\ sz[m] \in Nat /\ size[m] <= sz[m]
        BY <2>2 DEF SizesOK
  <2>4. x \in DOMAIN impl <=> i < size[m]
        BY <2>2 DEF ImplOK, LazyVars
  <2>5. x \in DOMAIN impl => impl[x] = ImplOf(x)
        BY DEF ImplOK
  <2>6. im[x] = (IF x \in DOMAIN impl THEN impl[x] ELSE {})
                \cup IF sz[m] > size[m]
                     THEN UA(LeftOf(m), RightOf(m), sz[LeftOf(m)], sz[RightOf(m)], size[m], sz[m], i)
                     ELSE {}
        BY <2>1, <2>2 DEF NewImpl
  <2>7. CASE IsLeaf(m)
    <3>1. size[m] = 1 /\ sz[m] = 1
      <4>1. PICK h : h = NofInput(n)
            OBVIOUS
      <4>2. NofOK(n, h)
            BY <4>1, NofFacts
      <4>3. h[m] = 1
            BY <2>2, <2>7, <4>2 DEF NofOK, IsLeaf
      <4> QED BY <2>2, <2>3, <4>1, <4>3 DEF SizesOK
    <3> QED BY <2>2, <2>4, <2>5, <2>6, <3>1
  <2>8. CASE ~IsLeaf(m)
    <3>1. PICK l, r, nl, nr : Kids(sz, m, l, r, nl, nr)
          BY <2>2, <2>8, KidsExist
    <3>2. PICK a, b, s, last : a = sz[l] /\ b = sz[r] /\ s = sz[m] /\ last = size[m]
          OBVIOUS
    <3>3. /\ a \in Nat /\ b \in Nat /\ nl \in Nat /\ nr \in Nat /\ last \in Nat /\ s \in Nat /\ i \in Nat /\ i < s
          /\ a <= nl /\ b <= nr /\ Min2(s, nl) <= a /\ Min2(s, nr) <= b
          BY <2>2, <2>3, <3>1, <3>2 DEF Kids
    <3>4. UA(l, r, a, b, last, s, i) = IF last <= i THEN Implicants(l, r, nl, nr, i) ELSE {}
          BY ONLY <3>3, UAComplete, SMTT(30)
    <3>5. ImplOf(x) = Implicants(l, r, nl, nr, i)
          BY <2>1, <2>8, <3>1 DEF ImplOf, Kids
    <3>6. im[x] = (IF x \in DOMAIN impl THEN impl[x] ELSE {})
                  \cup IF s > last THEN UA(l, r, a, b, last, s, i) ELSE {}
          BY <2>6, <3>1, <3>2 DEF Kids
    <3>7. CASE i < last
          BY <2>4, <2>5, <3>2, <3>3, <3>4, <3>6, <3>7
    <3>8. CASE ~(i < last)
          BY <2>4, <3>2, <3>3, <3>4, <3>5, <3>6, <3>8
    <3> QED BY <3>7, <3>8
  <2> QED BY <2>7, <2>8
<1>2. im = [x \in LazyVars(n, sz) |-> ImplOf(x)]
  <2>1. im = [x \in LazyVars(n, sz) |-> im[x]]
        BY DEF NewImpl
  <2> QED BY <1>1, <2>1
<1>3. LazyVars(n, size) \subseteq LazyVars(n, sz)
  <2> SUFFICES ASSUME NEW x \in LazyVars(n, size) PROVE x \in LazyVars(n, sz)
      OBVIOUS
  <2>1. x \in Nodes(n) \X (0 .. (n - 1)) /\ x[1] \in Nodes(n) /\ x[2] \in 0 .. (n - 1) /\ x[2] < size[x[1]]
        BY DEF LazyVars
  <2>2. size[x[1]] \in Nat /\ sz[x[1]] \in Nat /\ size[x[1]] <= sz[x[1]]
        BY <2>1 DEF SizesOK
  <2>3. x[2] < sz[x[1]]
        BY <2>1, <2>2
  <2> QED BY <2>1, <2>3 DEF LazyVars
<1>4. DOMAIN impl = LazyVars(n, size) /\ \A x \in LazyVars(n, size) : impl[x] = ImplOf(x)
      BY DEF ImplOK
<1> QED BY <1>1, <1>2, <1>3, <1>4 DEF ImplOK

-----------------------------------------------------------------------------
(***************************************************************************)
(* get().                                                                  *)
(***************************************************************************)
\* A set of lazy variables and those they depend on, without the ones known.
Deeper(im, S) == S \cup ((UNION UNION {im[x] : x \in S}) \ DOMAIN var)

GotBy(im, k, g) ==
    g = [d \in 0..n |-> IF d = 0 THEN {<<Root, k>>} \ DOMAIN var ELSE Deeper(im, g[d - 1])]

\* The levels are defined.
LEMMA GotExists ==
  ASSUME n \in Nat, NEW im, NEW k
  PROVE  \E g : GotBy(im, k, g)
<1> DEFINE S0 == {<<Root, k>>} \ DOMAIN var
           F == {j \in Nat : \E g : g[0] = S0 /\ \A d \in 1..j : g[d] = Deeper(im, g[d - 1])}
<1>1. 0 \in F
  <2>1. PICK g : g = [d \in {0} |-> S0]
        OBVIOUS
  <2>2. g[0] = S0 /\ \A d \in 1..0 : g[d] = Deeper(im, g[d - 1])
        BY <2>1
  <2> HIDE DEF S0
  <2> QED BY <2>2
<1>2. ASSUME NEW j \in Nat, j \in F
      PROVE  j + 1 \in F
  <2>1. PICK g : g[0] = S0 /\ \A d \in 1..j : g[d] = Deeper(im, g[d - 1])
        BY <1>2
  <2> DEFINE h == [d \in 0..(j + 1) |-> IF d <= j THEN g[d] ELSE Deeper(im, g[d - 1])]
  <2>2. h[0] = S0
        BY <2>1
  <2>3. ASSUME NEW d \in 1..(j + 1)
        PROVE  h[d] = Deeper(im, h[d - 1])
    <3>1. h[d - 1] = g[d - 1]
          OBVIOUS
    <3>2. h[d] = Deeper(im, g[d - 1])
          BY <2>1
    <3> HIDE DEF h
    <3> QED BY <3>1, <3>2
  <2> HIDE DEF h, S0
  <2> QED BY <2>2, <2>3
<1>3. n \in F
  <2> HIDE DEF F
  <2> QED BY <1>1, <1>2, NatClosure
<1>4. PICK g : g[0] = S0 /\ \A d \in 1..n : g[d] = Deeper(im, g[d - 1])
      BY <1>3
<1> DEFINE h == [d \in 0..n |-> g[d]]
<1>5. ASSUME NEW d \in 0..n
      PROVE  h[d] = IF d = 0 THEN S0 ELSE Deeper(im, h[d - 1])
  <2>1. CASE d = 0
        BY <1>4, <2>1
  <2>2. CASE d # 0
    <3>1. d \in 1..n /\ d - 1 \in 0..n
          BY <2>2
    <3>2. h[d - 1] = g[d - 1] /\ h[d] = g[d]
          BY <3>1
    <3> HIDE DEF h, S0
    <3> QED BY <1>4, <2>2, <3>1, <3>2
  <2> QED BY <2>1, <2>2
<1>6. h = [d \in 0..n |-> h[d]]
      OBVIOUS
<1> HIDE DEF h
<1>7. GotBy(im, k, h)
      BY <1>5, <1>6 DEF GotBy
<1> QED BY <1>7

\* S is what get() made down to depth d: what is missing is below it.
Partly(im, k, S, d) ==
    /\ S \subseteq DOMAIN im /\ S \cap DOMAIN var = {} /\ <<Root, k>> \in S \cup DOMAIN var
    /\ \A x \in S : x[1] + d < 2 * n \/ \A q \in im[x] : q \subseteq S \cup DOMAIN var

\* One level more.
LEMMA PartlyNext ==
  ASSUME n \in Nat, n # 0, NEW sz, SizesOK(sz), NEW im, ImplOK(im, sz), NEW k, NEW d \in Nat,
         NEW S, Partly(im, k, S, d), NEW T, T = Deeper(im, S)
  PROVE  Partly(im, k, T, d + 1)
<1>1. \A y : y \in T <=> y \in S \/ (y \notin DOMAIN var /\ \E x \in S : \E q \in im[x] : y \in q)
      BY DEF Deeper
<1>2. DOMAIN im = LazyVars(n, sz) /\ \A x \in DOMAIN im : im[x] = ImplOf(x)
      BY DEF ImplOK
<1>3. ASSUME NEW x \in S, NEW q \in im[x]
      PROVE  q \subseteq T \cup DOMAIN var
      BY <1>1
<1>4. ASSUME NEW y \in T, y \notin S
      PROVE  y \in DOMAIN im /\ y[1] + (d + 1) < 2 * n
  <2>1. PICK x \in S : \E q \in im[x] : y \in q
        BY <1>1, <1>4
  <2>2. PICK q \in im[x] : y \in q
        BY <2>1
  <2>3. ~(q \subseteq S \cup DOMAIN var)
        BY <1>1, <1>4, <2>2
  <2>4. x[1] + d < 2 * n /\ x \in DOMAIN im
        BY <2>1, <2>3 DEF Partly
  <2>5. x \in LazyVars(n, sz) /\ q \in ImplOf(x)
        BY <1>2, <2>2, <2>4
  <2>6. y \in LazyVars(n, sz) /\ y[1] \in Nat /\ y[1] <= 2 * (x[1] - n)
        BY <2>2, <2>5, ImplTyped
  <2>7. x[1] \in Nat
        BY <2>5, LazyVarFacts DEF Nodes
  <2>8. y[1] + (d + 1) < 2 * n
        BY <2>4, <2>6, <2>7
  <2> QED BY <1>2, <2>6, <2>8
<1>5. S \subseteq T
      BY <1>1
<1>6. T \subseteq DOMAIN im /\ T \cap DOMAIN var = {} /\ <<Root, k>> \in T \cup DOMAIN var
      BY <1>1, <1>4, <1>5 DEF Partly
<1>7. ASSUME NEW x \in T
      PROVE  x[1] + (d + 1) < 2 * n \/ \A q \in im[x] : q \subseteq T \cup DOMAIN var
      BY <1>3, <1>4
<1> QED BY <1>6, <1>7 DEF Partly

\* After n levels nothing is missing.
LEMMA GotFacts ==
  ASSUME n \in Nat, n # 0, NEW sz, SizesOK(sz), NEW im, ImplOK(im, sz),
         NEW k \in 0 .. (n - 1), k < sz[Root], NEW new, new = Got(im, k)
  PROVE  /\ new \subseteq DOMAIN im /\ new \cap DOMAIN var = {} /\ <<Root, k>> \in new \cup DOMAIN var
         /\ \A x \in new : \A q \in im[x] : q \subseteq new \cup DOMAIN var
<1>1. PICK g : g = CHOOSE h : GotBy(im, k, h)
      OBVIOUS
<1>2. GotBy(im, k, g)
      BY <1>1, GotExists
<1>3. new = g[n]
      BY <1>1 DEF Got, GotBy, Deeper
<1>4. g[0] = {<<Root, k>>} \ DOMAIN var /\ \A d \in 0..n : d # 0 => g[d] = Deeper(im, g[d - 1])
  <2>1. 0 \in 0..n
        OBVIOUS
  <2>2. \A d \in 0..n : g[d] = IF d = 0 THEN {<<Root, k>>} \ DOMAIN var ELSE Deeper(im, g[d - 1])
        BY <1>2 DEF GotBy
  <2> QED BY <2>1, <2>2
<1>5. Partly(im, k, g[0], 0)
  <2>1. Root \in Nodes(n) /\ Root < 2 * n
        BY DEF Root, Nodes
  <2>2. PICK x : x = <<Root, k>>
        OBVIOUS
  <2>3. x \in LazyVars(n, sz) /\ x[1] = Root
        BY <2>1, <2>2 DEF LazyVars
  <2>4. g[0] = {x} \ DOMAIN var
        BY <1>4, <2>2
  <2>5. \A y \in g[0] : y[1] + 0 < 2 * n
    <3>1. \A y \in g[0] : y = x
          BY <2>4
    <3>2. x[1] + 0 < 2 * n
          BY <2>1, <2>3 DEF Root
    <3> QED BY <3>1, <3>2
  <2> QED BY <2>2, <2>3, <2>4, <2>5 DEF Partly, ImplOK
<1> DEFINE F == {d \in Nat : d <= n => Partly(im, k, g[d], d)}
<1>6. 0 \in F
      BY <1>5
<1>7. ASSUME NEW d \in Nat, d \in F
      PROVE  d + 1 \in F
  <2> SUFFICES ASSUME d + 1 <= n PROVE Partly(im, k, g[d + 1], d + 1)
      OBVIOUS
  <2>1. PICK S : S = g[d]
        OBVIOUS
  <2>2. PICK T : T = g[d + 1]
        OBVIOUS
  <2>3. Partly(im, k, S, d)
        BY <1>7, <2>1
  <2>4. T = Deeper(im, S)
    <3>1. d + 1 \in 0..n /\ d + 1 # 0 /\ (d + 1) - 1 = d
          OBVIOUS
    <3> QED BY <1>4, <2>1, <2>2, <3>1
  <2>5. Partly(im, k, T, d + 1)
        BY <2>3, <2>4, PartlyNext
  <2> QED BY <2>2, <2>5
<1>8. n \in F
  <2> HIDE DEF F
  <2> QED BY <1>6, <1>7, NatClosure
<1>9. Partly(im, k, new, n)
      BY <1>3, <1>8
<1>10. ASSUME NEW x \in new, NEW q \in im[x]
       PROVE  q \subseteq new \cup DOMAIN var
  <2>1. x \in LazyVars(n, sz) /\ q \in ImplOf(x)
        BY <1>9, <1>10 DEF Partly, ImplOK
  <2>2. CASE x[1] + n < 2 * n
    <3>1. x[1] \in Nat
          BY <2>1, LazyVarFacts DEF Nodes
    <3>2. IsLeaf(x[1])
          BY <2>2, <3>1 DEF IsLeaf
    <3> QED BY <2>1, <3>2 DEF ImplOf
  <2>3. CASE ~(x[1] + n < 2 * n)
        BY <1>9, <1>10, <2>3 DEF Partly
  <2> QED BY <2>2, <2>3
<1> QED BY <1>9, <1>10 DEF Partly

\* The variable of a lazy variable is its own: it never takes that of its only
\* impliquant.
LEMMA SolverVarFacts ==
  ASSUME NEW im, NEW new, var = [x \in DOMAIN var |-> x], \A x \in new : ~Linked(im, x)
  PROVE  SolverVar(im, new) = [x \in DOMAIN var \cup new |-> x]
<1> DEFINE I == [x \in DOMAIN var \cup new |-> x]
           Q(v) == [x \in DOMAIN var \cup new |->
                     IF x \in DOMAIN var THEN var[x]
                     ELSE IF Linked(im, x) THEN v[CHOOSE y \in DOMAIN im : im[x] = {{y}}]
                     ELSE x]
<1>1. ASSUME NEW v
      PROVE  Q(v) = I
  <2>1. ASSUME NEW x \in DOMAIN var \cup new
        PROVE  (IF x \in DOMAIN var THEN var[x]
                ELSE IF Linked(im, x) THEN v[CHOOSE y \in DOMAIN im : im[x] = {{y}}]
                ELSE x) = x
    <3>1. CASE x \in DOMAIN var
      <4>1. var[x] = x
            BY <3>1
      <4> QED BY <3>1, <4>1
    <3>2. CASE x \notin DOMAIN var
      <4>1. ~Linked(im, x)
            BY <2>1, <3>2
      <4> QED BY <3>2, <4>1
    <3> QED BY <3>1, <3>2
  <2> QED BY <2>1
<1>2. SolverVar(im, new) = CHOOSE v : v = Q(v)
      BY DEF SolverVar
<1>3. \A v : v = Q(v) <=> v = I
      BY <1>1
<1> HIDE DEF Q, I
<1>4. (CHOOSE v : v = Q(v)) = I
      BY <1>3
<1> QED BY <1>2, <1>4 DEF I

\* A call of get() makes the variables it needs, with their clauses.
LEMMA GetKeeps ==
  ASSUME n \in Nat, n # 0, NEW sz, SizesOK(sz), NEW im, ImplOK(im, sz), VarsOK(im, var, clauses),
         NEW k \in 0 .. (n - 1), k < sz[Root],
         NEW v, NEW cl, NEW new, new = Got(im, k), v = SolverVar(im, new),
         cl = clauses \cup UNION {ClausesOf(im, v, x) : x \in new}
  PROVE  VarsOK(im, v, cl)
<1>1. /\ new \subseteq DOMAIN im /\ new \cap DOMAIN var = {} /\ <<Root, k>> \in new \cup DOMAIN var
      /\ \A x \in new : \A q \in im[x] : q \subseteq new \cup DOMAIN var
      BY GotFacts
<1>2. ASSUME NEW x \in new
      PROVE  ~Linked(im, x)
  <2>1. x \in LazyVars(n, sz) /\ im[x] = ImplOf(x)
        BY <1>1, <1>2 DEF ImplOK
  <2>2. \A y : ImplOf(x) # {{y}}
        BY <2>1, NeverLinked
  <2> QED BY <2>1, <2>2 DEF Linked
<1>3. PICK V : V = DOMAIN var \cup new
      OBVIOUS
<1>4. v = [x \in V |-> x] /\ DOMAIN v = V /\ \A x \in V : v[x] = x
  <2>1. var = [x \in DOMAIN var |-> x]
        BY DEF VarsOK
  <2>2. v = [x \in V |-> x]
        BY <1>2, <1>3, <2>1, SolverVarFacts
  <2> QED BY <2>2
<1>5. ASSUME NEW x \in new
      PROVE  ClausesOf(im, v, x) = {[body |-> q, head |-> x] : q \in im[x]}
  <2>1. ~Linked(im, x)
        BY <1>2
  <2>2. ASSUME NEW q \in im[x]
        PROVE  {v[y] : y \in q} = q
    <3>1. q \subseteq V
          BY <1>1, <1>3
    <3>2. \A y \in q : v[y] = y
          BY <1>4, <3>1
    <3> QED BY <3>2
  <2>3. ClausesOf(im, v, x) = {[body |-> {v[y] : y \in q}, head |-> x] : q \in im[x]}
        BY <2>1 DEF ClausesOf
  <2> QED BY <2>2, <2>3
<1>6. \A c : c \in cl <=> c \in clauses \/ \E x \in new : \E q \in im[x] : c = [body |-> q, head |-> x]
  <2>1. \A c : c \in cl <=> c \in clauses \/ \E x \in new : c \in ClausesOf(im, v, x)
        OBVIOUS
  <2>2. ASSUME NEW c, NEW x \in new
        PROVE  c \in ClausesOf(im, v, x) <=> \E q \in im[x] : c = [body |-> q, head |-> x]
        BY <1>5
  <2> QED BY <2>1, <2>2
<1>7. /\ Leaves(n) \subseteq DOMAIN var /\ DOMAIN var \subseteq DOMAIN im
      /\ \A x \in DOMAIN var : \A q \in im[x] : q \subseteq DOMAIN var /\ [body |-> q, head |-> x] \in clauses
      /\ \A c \in clauses : \E x \in DOMAIN var : \E q \in im[x] : c = [body |-> q, head |-> x]
      BY DEF VarsOK
<1>8. ASSUME NEW x \in V, NEW q \in im[x]
      PROVE  q \subseteq V /\ [body |-> q, head |-> x] \in cl
  <2>1. CASE x \in DOMAIN var
    <3>1. q \subseteq DOMAIN var /\ [body |-> q, head |-> x] \in clauses
          BY <1>7, <2>1
    <3> QED BY <1>3, <1>6, <3>1
  <2>2. CASE x \in new
    <3>1. q \subseteq V
          BY <1>1, <1>3, <2>2
    <3>2. [body |-> q, head |-> x] \in cl
          BY <1>6, <2>2
    <3> QED BY <3>1, <3>2
  <2> QED BY <1>3, <2>1, <2>2
<1>9. ASSUME NEW c \in cl
      PROVE  \E x \in V : \E q \in im[x] : c = [body |-> q, head |-> x]
      BY <1>3, <1>6, <1>7
<1>10. v = [x \in DOMAIN v |-> x]
       BY <1>4
<1>11. Leaves(n) \subseteq V /\ V \subseteq DOMAIN im
       BY <1>1, <1>3, <1>7
<1> QED BY <1>4, <1>8, <1>9, <1>10, <1>11 DEF VarsOK

\* The constructor.
LEMMA TotalizerInit == Init => TotalizerInv
<1> SUFFICES ASSUME Init PROVE TotalizerInv
    OBVIOUS
<1>1. n \in 1..MaxLits /\ n \in Nat /\ n # 0
      BY TotalizerAssumption DEF Init
<1>2. SizesOK(size)
  <2>1. Bound \in Nat
        BY TotalizerAssumption
  <2> QED BY <1>1, <2>1, InitSizes DEF Init
<1>3. ImplOK(impl, size)
      BY <1>1, <1>2, InitImpl DEF Init
<1>4. VarsOK(impl, var, clauses)
  <2>1. var = [x \in Leaves(n) |-> x] /\ clauses = {}
        BY DEF Init
  <2>2. DOMAIN var = Leaves(n) /\ var = [x \in DOMAIN var |-> x]
        BY <2>1
  <2>3. ASSUME NEW x \in Leaves(n)
        PROVE  x \in LazyVars(n, size) /\ IsLeaf(x[1])
    <3>1. PICK m \in 1..n : x = <<m, 0>>
          BY DEF Leaves
    <3>2. m \in Nodes(n) /\ IsLeaf(m)
          BY <1>1 DEF Nodes, IsLeaf
    <3>3. 0 < size[m] /\ 0 \in 0 .. (n - 1)
          BY <1>1, <1>2, <3>2 DEF SizesOK
    <3> QED BY <3>1, <3>2, <3>3 DEF LazyVars
  <2>4. DOMAIN impl = LazyVars(n, size) /\ \A x \in DOMAIN impl : impl[x] = ImplOf(x)
        BY <1>3 DEF ImplOK
  <2>5. ASSUME NEW x \in DOMAIN var
        PROVE  x \in DOMAIN impl /\ impl[x] = {}
        BY <2>2, <2>3, <2>4 DEF ImplOf
  <2> QED BY <2>1, <2>2, <2>5 DEF VarsOK
<1> QED BY <1>1, <1>2, <1>3, <1>4 DEF TotalizerInv

\* atMost, with or without new outputs.
LEMMA TotalizerNext == TotalizerInv /\ [Next]_totVars => TotalizerInv'
<1> SUFFICES ASSUME TotalizerInv, [Next]_totVars PROVE TotalizerInv'
    OBVIOUS
<1>1. /\ n \in 1..MaxLits /\ n \in Nat /\ n # 0 /\ SizesOK(size) /\ ImplOK(impl, size)
      /\ VarsOK(impl, var, clauses)
      BY TotalizerAssumption DEF TotalizerInv
<1>2. ASSUME NEW k \in 0..(MaxLits - 1), AtMostGrow(k)
      PROVE  TotalizerInv'
  <2>1. /\ k \in size[Root] .. (n - 1) /\ size' = NewSize(k) /\ impl' = NewImpl(size') /\ n' = n
        /\ Get(impl', k)
        BY <1>2 DEF AtMostGrow
  <2>2. k \in Nat /\ k \in 0 .. (n - 1) /\ k < n
        BY <1>1, <1>2, <2>1, TotalizerAssumption
  <2>3. PICK sz, im : sz = size' /\ im = impl'
        OBVIOUS
  <2>4. SizesOK(sz) /\ (\A m \in Nodes(n) : size[m] <= sz[m]) /\ k < sz[Root]
        BY <1>1, <2>1, <2>2, <2>3, GrownSizes
  <2>5. ImplOK(im, sz) /\ DOMAIN impl \subseteq DOMAIN im /\ \A x \in DOMAIN impl : im[x] = impl[x]
        BY <1>1, <2>1, <2>3, <2>4, GrownImpl
  <2>6. VarsOK(im, var, clauses)
    <3>1. DOMAIN var \subseteq DOMAIN impl
          BY <1>1 DEF VarsOK
    <3>2. \A x \in DOMAIN var : im[x] = impl[x]
          BY <2>5, <3>1
    <3> QED BY <1>1, <2>5, <3>1, <3>2 DEF VarsOK
  <2>7. PICK new : /\ new = Got(im, k) /\ var' = SolverVar(im, new)
                   /\ clauses' = clauses \cup UNION {ClausesOf(im, var', x) : x \in new}
        BY <2>1, <2>3 DEF Get
  <2>8. PICK v, cl : v = var' /\ cl = clauses'
        OBVIOUS
  <2>9. v = SolverVar(im, new) /\ cl = clauses \cup UNION {ClausesOf(im, v, x) : x \in new}
        BY <2>7, <2>8
  <2>10. VarsOK(im, v, cl)
         BY ONLY <1>1, <2>2, <2>4, <2>5, <2>6, <2>7, <2>9, GetKeeps
  <2>11. (SizesOK(size))' /\ (ImplOK(impl, size))' /\ (VarsOK(impl, var, clauses))'
    <3>1. n' = n
          BY <2>1
    <3>2. (SizesOK(size))'
          BY <2>3, <2>4, <3>1 DEF SizesOK, IsLeaf, LeftOf, RightOf
    <3>3. (ImplOK(impl, size))'
          BY <2>3, <2>5, <3>1 DEF ImplOK, ImplOf, IsLeaf, LeftOf, RightOf
    <3>4. (VarsOK(impl, var, clauses))'
          BY <2>3, <2>8, <2>10, <3>1 DEF VarsOK
    <3> QED BY <3>2, <3>3, <3>4
  <2> QED BY <1>1, <2>1, <2>11 DEF TotalizerInv
<1>3. ASSUME NEW k \in 0..(MaxLits - 1), AtMostGet(k)
      PROVE  TotalizerInv'
  <2>1. k \in 0 .. (size[Root] - 1) /\ Get(impl, k) /\ n' = n /\ size' = size /\ impl' = impl
        BY <1>3 DEF AtMostGet
  <2>2. k \in 0 .. (n - 1) /\ k < size[Root]
    <3>1. Root \in Nodes(n)
          BY <1>1 DEF Root, Nodes
    <3>2. PICK h : h = NofInput(n)
          OBVIOUS
    <3>3. NofOK(n, h)
          BY <1>1, <3>2, NofFacts
    <3>4. size[Root] \in Nat /\ size[Root] <= h[Root] /\ h[Root] \in Nat /\ h[Root] <= n
          BY <1>1, <3>1, <3>2, <3>3 DEF SizesOK, NofOK
    <3> QED BY <1>1, <2>1, <3>4
  <2>3. PICK new : /\ new = Got(impl, k) /\ var' = SolverVar(impl, new)
                   /\ clauses' = clauses \cup UNION {ClausesOf(impl, var', x) : x \in new}
        BY <2>1 DEF Get
  <2>4. PICK v, cl : v = var' /\ cl = clauses'
        OBVIOUS
  <2>5. v = SolverVar(impl, new) /\ cl = clauses \cup UNION {ClausesOf(impl, v, x) : x \in new}
        BY <2>3, <2>4
  <2>6. VarsOK(impl, v, cl)
        BY ONLY <1>1, <2>2, <2>3, <2>5, GetKeeps
  <2>7. (SizesOK(size))' /\ (ImplOK(impl, size))' /\ (VarsOK(impl, var, clauses))'
    <3>1. (SizesOK(size))'
          BY <1>1, <2>1 DEF SizesOK, IsLeaf, LeftOf, RightOf
    <3>2. (ImplOK(impl, size))'
          BY <1>1, <2>1 DEF ImplOK, ImplOf, IsLeaf, LeftOf, RightOf
    <3>3. (VarsOK(impl, var, clauses))'
          BY <2>1, <2>4, <2>6 DEF VarsOK
    <3> QED BY <3>1, <3>2, <3>3
  <2> QED BY <1>1, <2>1, <2>7 DEF TotalizerInv
<1>4. CASE UNCHANGED totVars
  <2>1. n' = n /\ size' = size /\ impl' = impl /\ var' = var /\ clauses' = clauses
        BY <1>4 DEF totVars
  <2> QED BY <1>1, <2>1 DEF TotalizerInv, SizesOK, ImplOK, ImplOf, VarsOK, IsLeaf, LeftOf, RightOf
<1> QED BY <1>2, <1>3, <1>4 DEF Next

-----------------------------------------------------------------------------
(***************************************************************************)
(* What the clauses force.                                                 *)
(***************************************************************************)
\* What the clauses of node m add to what is forced below it.
Heads(m, S) == S \cup {c.head : c \in {e \in clauses : e.head[1] = m /\ e.body \subseteq S}}

ForcedBy(X, t) ==
    t = [m \in Nodes(n) |-> IF IsLeaf(m) THEN {<<x, 0>> : x \in X \cap {m}}
                            ELSE Heads(m, t[LeftOf(m)] \cup t[RightOf(m)])]

\* The recursion up the tree is defined.
LEMMA ForcedExists ==
  ASSUME n \in Nat, NEW X
  PROVE  \E t : ForcedBy(X, t)
<1> DEFINE At(t, m) == IF IsLeaf(m) THEN {<<x, 0>> : x \in X \cap {m}}
                       ELSE Heads(m, t[LeftOf(m)] \cup t[RightOf(m)])
           Upto(j) == {m \in Nodes(n) : m <= j}
           F == {j \in Nat : \E t : \A m \in Upto(j) : t[m] = At(t, m)}
<1>1. 0 \in F
  <2>1. \A m \in Upto(0) : FALSE
        BY DEF Nodes
  <2> QED BY <2>1
<1>2. ASSUME NEW j \in Nat, j \in F
      PROVE  j + 1 \in F
  <2>1. PICK t : \A m \in Upto(j) : t[m] = At(t, m)
        BY <1>2
  <2> DEFINE h == [m \in Nodes(n) |-> IF m \in Upto(j) THEN t[m] ELSE At(t, m)]
  <2>2. ASSUME NEW m \in Upto(j + 1)
        PROVE  h[m] = At(h, m)
    <3>1. m \in Nodes(n)
          BY <2>2
    <3>2. h[m] = At(t, m)
      <4> HIDE DEF At
      <4> QED BY <2>1, <3>1
    <3>3. CASE IsLeaf(m)
      <4>1. At(h, m) = At(t, m)
            BY <3>3
      <4> HIDE DEF h, At
      <4> QED BY <3>2, <4>1
    <3>4. CASE ~IsLeaf(m)
      <4>1. PICK l, r : l = LeftOf(m) /\ r = RightOf(m)
            OBVIOUS
      <4>2. l \in Upto(j) /\ r \in Upto(j)
        <5>1. l \in Nodes(n) /\ r \in Nodes(n) /\ l < m /\ r < m
              BY <3>1, <3>4, <4>1, KidsParent
        <5> QED BY <2>2, <5>1 DEF Nodes
      <4>3. h[l] = t[l] /\ h[r] = t[r]
        <5> HIDE DEF At
        <5> QED BY <4>2
      <4>4. At(h, m) = At(t, m)
        <5> HIDE DEF h, Upto
        <5> QED BY <4>1, <4>3
      <4> HIDE DEF h, At
      <4> QED BY <3>2, <4>4
    <3> QED BY <3>3, <3>4
  <2> HIDE DEF h, At
  <2> QED BY <2>2
<1>3. 2 * n \in F
  <2>1. 2 * n \in Nat
        OBVIOUS
  <2> HIDE DEF F
  <2> QED BY <1>1, <1>2, <2>1, NatClosure
<1>4. PICK t : \A m \in Upto(2 * n) : t[m] = At(t, m)
      BY <1>3
<1>5. Upto(2 * n) = Nodes(n)
      BY DEF Nodes
<1> DEFINE h == [m \in Nodes(n) |-> t[m]]
<1>6. ASSUME NEW m \in Nodes(n)
      PROVE  h[m] = At(h, m)
  <2>1. h[m] = At(t, m)
    <3> HIDE DEF At
    <3> QED BY <1>4, <1>5
  <2>2. CASE IsLeaf(m)
    <3>1. At(h, m) = At(t, m)
          BY <2>2
    <3> HIDE DEF h, At
    <3> QED BY <2>1, <3>1
  <2>3. CASE ~IsLeaf(m)
    <3>1. PICK l, r : l = LeftOf(m) /\ r = RightOf(m)
          OBVIOUS
    <3>2. h[l] = t[l] /\ h[r] = t[r]
          BY <2>3, <3>1, KidsParent
    <3>3. At(h, m) = At(t, m)
      <4> HIDE DEF h
      <4> QED BY <3>1, <3>2
    <3> HIDE DEF h, At
    <3> QED BY <2>1, <3>3
  <2> QED BY <2>2, <2>3
<1>7. h = [m \in Nodes(n) |-> At(h, m)]
  <2>1. h = [m \in Nodes(n) |-> h[m]]
        OBVIOUS
  <2> HIDE DEF h, At
  <2> QED BY <1>6, <2>1
<1>8. ForcedBy(X, h)
  <2> HIDE DEF h
  <2> QED BY <1>7 DEF ForcedBy
<1> QED BY <1>8

\* At a node, a variable is forced if and only if it exists and more inputs
\* than its index are true below it; nothing else is ever forced.
Exact(t, g, m) ==
    /\ \A x \in t[m] : x[1] \in Nodes(n) /\ x[2] \in Nat /\ g[x[1]] > x[2]
    /\ \A i \in Nat : <<m, i>> \in DOMAIN var /\ g[m] > i => <<m, i>> \in t[m]

\* A leaf is forced by its input.
LEMMA ExactLeaf ==
  ASSUME TotalizerInv, NEW X \in SUBSET (1..n), NEW g, g = CountOf(n, X), NEW t, ForcedBy(X, t),
         NEW m \in Nodes(n), IsLeaf(m)
  PROVE  Exact(t, g, m)
<1>1. n \in Nat /\ n # 0
      BY TotalizerAssumption DEF TotalizerInv
<1>2. t[m] = {<<x, 0>> : x \in X \cap {m}}
      BY DEF ForcedBy
<1>3. g[m] = IF m \in X THEN 1 ELSE 0
  <2>1. \A j \in Nodes(n) : j <= n => g[j] = IF j \in X THEN 1 ELSE 0
        BY <1>1, CountFacts
  <2> QED BY <2>1 DEF IsLeaf
<1>4. ASSUME NEW x \in t[m]
      PROVE  x[1] \in Nodes(n) /\ x[2] \in Nat /\ g[x[1]] > x[2]
  <2>1. m \in X /\ x = <<m, 0>>
        BY <1>2
  <2> QED BY <1>3, <2>1
<1>5. ASSUME NEW i \in Nat, <<m, i>> \in DOMAIN var, g[m] > i
      PROVE  <<m, i>> \in t[m]
  <2>1. m \in X /\ i = 0
        BY <1>3, <1>5
  <2> QED BY <1>2, <2>1
<1> QED BY <1>4, <1>5 DEF Exact

\* A clause of a node passes on what holds of its children, and every split of
\* the inputs that are true is a clause.
LEMMA ExactNode ==
  ASSUME TotalizerInv, NEW X \in SUBSET (1..n), NEW g, g = CountOf(n, X), NEW t, ForcedBy(X, t),
         NEW m \in Nodes(n), ~IsLeaf(m), Exact(t, g, LeftOf(m)), Exact(t, g, RightOf(m))
  PROVE  Exact(t, g, m)
<1>1. n \in Nat /\ n # 0 /\ SizesOK(size) /\ ImplOK(impl, size) /\ VarsOK(impl, var, clauses)
      BY TotalizerAssumption DEF TotalizerInv
<1>2. PICK l, r, nl, nr : Kids(size, m, l, r, nl, nr)
      BY <1>1, KidsExist
<1>3. /\ l = LeftOf(m) /\ r = RightOf(m) /\ nl = NofInput(n)[l] /\ nr = NofInput(n)[r]
      /\ l \in Nodes(n) /\ r \in Nodes(n) /\ l # r /\ nl \in Nat /\ nr \in Nat
      BY <1>1, <1>2 DEF Kids
<1>4. g[l] \in Nat /\ g[r] \in Nat /\ g[m] = g[l] + g[r] /\ g[l] <= nl /\ g[r] <= nr
  <2>1. /\ g \in [Nodes(n) -> Nat]
        /\ \A j \in Nodes(n) : ~(j <= n) => g[j] = g[2 * (j - n) - 1] + g[2 * (j - n)]
        BY <1>1, CountFacts
  <2>2. PICK h : h = NofInput(n)
        OBVIOUS
  <2>3. \A j \in Nodes(n) : g[j] <= h[j]
        BY <1>1, <2>2, CountBelow
  <2>4. g[m] = g[l] + g[r]
        BY <1>3, <2>1 DEF IsLeaf, LeftOf, RightOf
  <2> QED BY <1>3, <2>1, <2>2, <2>3, <2>4
<1>5. PICK S : S = t[l] \cup t[r]
      OBVIOUS
<1>6. t[m] = Heads(m, S)
      BY <1>3, <1>5 DEF ForcedBy
<1>7. Exact(t, g, l) /\ Exact(t, g, r)
      BY <1>3
<1>8. \A x \in S : x[1] \in Nodes(n) /\ x[2] \in Nat /\ g[x[1]] > x[2]
      BY <1>5, <1>7 DEF Exact
<1>9. ASSUME NEW i, <<m, i>> \in DOMAIN var
      PROVE  /\ i \in Nat
             /\ \A q : q \in impl[<<m, i>>] <=> IsSplit(l, r, nl, nr, i, q)
  <2>1. PICK x : x = <<m, i>>
        OBVIOUS
  <2>2. x \in DOMAIN impl /\ x[1] = m /\ x[2] = i
        BY <1>1, <1>9, <2>1 DEF VarsOK
  <2>3. x \in LazyVars(n, size) /\ impl[x] = ImplOf(x)
        BY <1>1, <2>2 DEF ImplOK
  <2>4. i \in Nat
        BY <1>1, <2>2, <2>3, LazyVarFacts
  <2>5. impl[x] = Implicants(l, r, nl, nr, i)
        BY <1>3, <2>2, <2>3 DEF ImplOf
  <2>6. ASSUME NEW q
        PROVE  q \in Implicants(l, r, nl, nr, i) <=> IsSplit(l, r, nl, nr, i, q)
        BY ONLY <1>3, <2>4, ImplicantsAre
  <2> QED BY <2>1, <2>4, <2>5, <2>6
<1>10. ASSUME NEW x \in t[m]
       PROVE  x[1] \in Nodes(n) /\ x[2] \in Nat /\ g[x[1]] > x[2]
  <2>1. CASE x \in S
        BY <1>8, <2>1
  <2>2. CASE x \notin S
    <3>1. PICK c \in clauses : c.head[1] = m /\ c.body \subseteq S /\ x = c.head
          BY <1>6, <1>10, <2>2 DEF Heads
    <3>2. PICK z \in DOMAIN var : \E q \in impl[z] : c = [body |-> q, head |-> z]
          BY <1>1 DEF VarsOK
    <3>3. PICK q \in impl[z] : c = [body |-> q, head |-> z]
          BY <3>2
    <3>4. x = z /\ z[1] = m /\ q \subseteq S
          BY <3>1, <3>3
    <3>5. PICK i : i = x[2]
          OBVIOUS
    <3>6. x = <<m, i>> /\ x[1] = m
      <4>1. x \in LazyVars(n, size)
            BY <1>1, <3>2, <3>4 DEF VarsOK, ImplOK
      <4> QED BY <1>1, <3>4, <3>5, <4>1, LazyVarFacts
    <3>7. i \in Nat /\ IsSplit(l, r, nl, nr, i, q)
          BY <1>9, <3>2, <3>3, <3>4, <3>6
    <3>8. PICK a \in 0..nl, b \in 0..nr : a + b = i + 1 /\ q = Implicant(l, r, a, b)
          BY <3>7 DEF IsSplit
    <3>9. a <= g[l]
      <4>1. CASE a = 0
            BY <1>4, <4>1
      <4>2. CASE a # 0
        <5>1. <<l, a - 1>> \in q
              BY <3>8, <4>2 DEF Implicant
        <5>2. g[l] > a - 1
              BY <1>8, <3>4, <5>1
        <5> QED BY <1>3, <1>4, <5>2
      <4> QED BY <4>1, <4>2
    <3>10. b <= g[r]
      <4>1. CASE b = 0
            BY <1>4, <4>1
      <4>2. CASE b # 0
        <5>1. <<r, b - 1>> \in q
              BY <3>8, <4>2 DEF Implicant
        <5>2. g[r] > b - 1
              BY <1>8, <3>4, <5>1
        <5> QED BY <1>3, <1>4, <5>2
      <4> QED BY <4>1, <4>2
    <3>11. g[m] > i
           BY <1>3, <1>4, <3>7, <3>8, <3>9, <3>10
    <3> QED BY <3>5, <3>6, <3>7, <3>11
  <2> QED BY <2>1, <2>2
<1>11. ASSUME NEW i \in Nat, <<m, i>> \in DOMAIN var, g[m] > i
       PROVE  <<m, i>> \in t[m]
  <2>1. PICK a, b : a = (IF g[l] <= i THEN g[l] ELSE i + 1) /\ b = i + 1 - a
        OBVIOUS
  <2>2. /\ a \in 0..nl /\ b \in 0..nr /\ a + b = i + 1 /\ a <= g[l] /\ b <= g[r]
        /\ a \in Nat /\ b \in Nat
        BY <1>3, <1>4, <1>11, <2>1
  <2>3. PICK q : q = Implicant(l, r, a, b)
        OBVIOUS
  <2>4. PICK x : x = <<m, i>>
        OBVIOUS
  <2>5. q \in impl[x]
    <3>1. IsSplit(l, r, nl, nr, i, q)
          BY <2>2, <2>3 DEF IsSplit
    <3> QED BY <1>9, <1>11, <2>4, <3>1
  <2>6. q \subseteq DOMAIN var /\ [body |-> q, head |-> x] \in clauses
        BY <1>1, <1>11, <2>4, <2>5 DEF VarsOK
  <2>7. ASSUME NEW y \in q
        PROVE  y \in S
    <3>1. (a # 0 /\ y = <<l, a - 1>>) \/ (b # 0 /\ y = <<r, b - 1>>)
          BY <2>3 DEF Implicant
    <3>2. CASE a # 0 /\ y = <<l, a - 1>>
      <4>1. a - 1 \in Nat /\ g[l] > a - 1
            BY <1>4, <2>2, <3>2
      <4>2. <<l, a - 1>> \in t[l]
            BY <1>7, <2>6, <2>7, <3>2, <4>1 DEF Exact
      <4> QED BY <1>5, <3>2, <4>2
    <3>3. CASE b # 0 /\ y = <<r, b - 1>>
      <4>1. b - 1 \in Nat /\ g[r] > b - 1
            BY <1>4, <2>2, <3>3
      <4>2. <<r, b - 1>> \in t[r]
            BY <1>7, <2>6, <2>7, <3>3, <4>1 DEF Exact
      <4> QED BY <1>5, <3>3, <4>2
    <3> QED BY <3>1, <3>2, <3>3
  <2>8. PICK c : c = [body |-> q, head |-> x]
        OBVIOUS
  <2>9. c \in clauses /\ c.head = x /\ c.body = q /\ x[1] = m /\ q \subseteq S
        BY <2>4, <2>6, <2>7, <2>8
  <2>10. c \in {e \in clauses : e.head[1] = m /\ e.body \subseteq S}
         BY <2>9
  <2>11. x \in Heads(m, S)
         BY <2>9, <2>10 DEF Heads
  <2> QED BY <1>6, <2>4, <2>11
<1> QED BY <1>10, <1>11 DEF Exact

\* So at every node.
LEMMA ExactEverywhere ==
  ASSUME TotalizerInv, NEW X \in SUBSET (1..n), NEW g, g = CountOf(n, X), NEW t, ForcedBy(X, t)
  PROVE  \A m \in Nodes(n) : Exact(t, g, m)
<1>1. n \in Nat
      BY TotalizerAssumption DEF TotalizerInv
<1> DEFINE F == {j \in Nat : \A m \in Nodes(n) : m <= j => Exact(t, g, m)}
<1>2. 0 \in F
      BY <1>1 DEF Nodes
<1>3. ASSUME NEW j \in Nat, j \in F
      PROVE  j + 1 \in F
  <2> SUFFICES ASSUME NEW m \in Nodes(n), m <= j + 1 PROVE Exact(t, g, m)
      OBVIOUS
  <2>1. CASE IsLeaf(m)
        BY <2>1, ExactLeaf
  <2>2. CASE ~IsLeaf(m)
    <3>1. /\ LeftOf(m) \in Nodes(n) /\ RightOf(m) \in Nodes(n) /\ LeftOf(m) < m /\ RightOf(m) < m
          BY <1>1, <2>2, KidsParent
    <3>2. LeftOf(m) <= j /\ RightOf(m) <= j
          BY <1>1, <3>1 DEF Nodes
    <3>3. Exact(t, g, LeftOf(m)) /\ Exact(t, g, RightOf(m))
          BY <1>3, <3>1, <3>2
    <3> QED BY <2>2, <3>3, ExactNode
  <2> QED BY <2>1, <2>2
<1>4. 2 * n \in F
  <2>1. 2 * n \in Nat
        BY <1>1
  <2> HIDE DEF F
  <2> QED BY <1>2, <1>3, <2>1, NatClosure
<1> QED BY <1>1, <1>4 DEF Nodes

-----------------------------------------------------------------------------
(***************************************************************************)
(* The theorems.                                                           *)
(***************************************************************************)
\* Every call of atMost keeps the tree, its impliquants and its clauses in step.
THEOREM TotalizerInvariant == Spec => []TotalizerInv
  BY TotalizerInit, TotalizerNext, PTL DEF Spec

\* The types, and that an output index of a node is one of its inputs'.
THEOREM TotalizerTypeOK == Spec => []TypeOK
<1>1. ASSUME TotalizerInv
      PROVE  TypeOK
  <2>1. /\ n \in 1..MaxLits /\ n \in Nat /\ n # 0 /\ SizesOK(size) /\ ImplOK(impl, size)
        /\ VarsOK(impl, var, clauses)
        BY <1>1, TotalizerAssumption DEF TotalizerInv
  <2>2. \A m \in Nodes(n) : size[m] \in 1..n /\ size[m] <= NofInput(n)[m]
    <3>1. PICK h : h = NofInput(n)
          OBVIOUS
    <3>2. NofOK(n, h)
          BY <2>1, <3>1, NofFacts
    <3>3. \A m \in Nodes(n) : size[m] \in Nat /\ 1 <= size[m] /\ size[m] <= h[m] /\ h[m] \in Nat /\ h[m] <= n
          BY <2>1, <3>1, <3>2 DEF NofOK, SizesOK
    <3> QED BY <2>1, <3>1, <3>3
  <2>3. size \in [Nodes(n) -> 1..n]
        BY <2>1, <2>2 DEF SizesOK
  <2>4. DOMAIN impl = LazyVars(n, size)
        BY <2>1 DEF ImplOK
  <2>5. ASSUME NEW x \in DOMAIN impl
        PROVE  impl[x] \subseteq SUBSET DOMAIN impl
    <3>1. x \in LazyVars(n, size) /\ impl[x] = ImplOf(x)
          BY <2>1, <2>5 DEF ImplOK
    <3>2. ASSUME NEW q \in ImplOf(x), NEW y \in q
          PROVE  y \in LazyVars(n, size)
          BY <2>1, <3>1, ImplTyped
    <3> QED BY <2>4, <3>1, <3>2
  <2>6. ASSUME NEW c \in clauses
        PROVE  c.head \in DOMAIN var /\ c.body \subseteq DOMAIN var
    <3>1. PICK x \in DOMAIN var : \E q \in impl[x] : c = [body |-> q, head |-> x]
          BY <2>1 DEF VarsOK
    <3>2. PICK q \in impl[x] : c = [body |-> q, head |-> x]
          BY <3>1
    <3>3. q \subseteq DOMAIN var
          BY <2>1 DEF VarsOK
    <3> QED BY <3>2, <3>3
  <2>7. DOMAIN var \subseteq DOMAIN impl
        BY <2>1 DEF VarsOK
  <2> QED BY <2>1, <2>2, <2>3, <2>4, <2>5, <2>6, <2>7 DEF TypeOK
<1> QED BY <1>1, TotalizerInvariant, PTL

\* Whatever bounds were asked for and in whatever order, the output for k is
\* forced exactly when more than k inputs are true.
THEOREM TotalizerOutputsExact == Spec => []OutputsExact
<1>1. ASSUME TotalizerInv
      PROVE  OutputsExact
  <2>1. n \in Nat /\ n # 0 /\ VarsOK(impl, var, clauses) /\ SizesOK(size)
        BY <1>1, TotalizerAssumption DEF TotalizerInv
  <2>2. ASSUME NEW X \in SUBSET (1..n), NEW k \in 0..(size[Root] - 1), <<Root, k>> \in DOMAIN var
        PROVE  var[<<Root, k>>] \in Forced(X) <=> Cardinality(X) > k
    <3>1. PICK t : t = CHOOSE u : ForcedBy(X, u)
          OBVIOUS
    <3>2. ForcedBy(X, t)
          BY <2>1, <3>1, ForcedExists
    <3>3. Forced(X) = t[Root]
          BY <3>1 DEF Forced, ForcedBy, Heads
    <3>4. PICK g : g = CountOf(n, X)
          OBVIOUS
    <3>5. Root \in Nodes(n) /\ Root = 2 * n - 1
          BY <2>1 DEF Root, Nodes
    <3>6. Exact(t, g, Root)
          BY <1>1, <3>2, <3>4, <3>5, ExactEverywhere
    <3>7. g[Root] = Cardinality(X)
          BY <2>1, <3>4, <3>5, CountBounds
    <3>8. PICK x : x = <<Root, k>>
          OBVIOUS
    <3>9. var[x] = x /\ x[1] = Root /\ x[2] = k
          BY <2>1, <2>2, <3>8 DEF VarsOK
    <3>10. x \in t[Root] => Cardinality(X) > k
           BY <3>6, <3>7, <3>9 DEF Exact
    <3>11. k \in Nat
           BY <2>2
    <3>12. Cardinality(X) > k => x \in t[Root]
           BY <2>2, <3>6, <3>7, <3>8, <3>11 DEF Exact
    <3> QED BY <3>3, <3>8, <3>9, <3>10, <3>12
  <2> QED BY <2>2 DEF OutputsExact
<1> QED BY <1>1, TotalizerInvariant, PTL

\* No impliquant of a variable that get() has made is missing from the solver.
THEOREM TotalizerImpliquantsInSolver == Spec => []ImpliquantsInSolver
<1>1. ASSUME TotalizerInv
      PROVE  ImpliquantsInSolver
  <2>1. VarsOK(impl, var, clauses)
        BY <1>1 DEF TotalizerInv
  <2>2. ASSUME NEW x \in DOMAIN var, NEW q \in impl[x]
        PROVE  [body |-> {var[y] : y \in q}, head |-> x] \in clauses
    <3>1. q \subseteq DOMAIN var /\ [body |-> q, head |-> x] \in clauses
          BY <2>1 DEF VarsOK
    <3>2. \A y \in q : var[y] = y
          BY <2>1, <3>1 DEF VarsOK
    <3>3. {var[y] : y \in q} = q
          BY <3>2
    <3> QED BY <3>1, <3>3
  <2> QED BY <2>2 DEF ImpliquantsInSolver
<1> QED BY <1>1, TotalizerInvariant, PTL
=============================================================================
