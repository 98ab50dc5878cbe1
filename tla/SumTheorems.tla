---------------------------- MODULE SumTheorems ----------------------------
(***************************************************************************)
(* Induction over numbers and finite sets, and what the other proofs need  *)
(* to know of sums over finite sets.                                       *)
(*                                                                         *)
(* The induction principles are about sets (a set that contains 0 and is   *)
(* closed under successor contains every number), which the provers can    *)
(* use where they cannot use a principle with a predicate as parameter.    *)
(***************************************************************************)
EXTENDS Integers, FiniteSetsExt, FiniteSetTheorems, WellFoundedInduction, TLAPS

NatLess == {r \in Nat \X Nat : r[1] < r[2]}

\* Every set of natural numbers has a least element.
LEMMA LeastNat ==
    ASSUME NEW T, T \subseteq Nat, T # {}
    PROVE  \E n \in T : \A m \in T : n <= m
<1>1. IsWellFoundedOn(NatLess, Nat)
  BY NatLessThanWellFounded DEF OpToRel, NatLess
<1>2. PICK n \in T : \A m \in T : <<m, n>> \notin NatLess
  BY <1>1, WFMin
<1>3. ASSUME NEW m \in T PROVE n <= m
  <2>1. n \in Nat /\ m \in Nat
    OBVIOUS
  <2>2. ~(m < n)
    BY <1>2, <2>1 DEF NatLess
  <2> QED
    BY <2>1, <2>2
<1> QED
  BY <1>3

\* A set that contains 0 and is closed under successor contains Nat.
LEMMA NatClosure ==
    ASSUME NEW F, 0 \in F, \A n \in Nat : n \in F => n + 1 \in F
    PROVE  \A n \in Nat : n \in F
<1>1. SUFFICES ASSUME Nat \ F # {} PROVE FALSE
  OBVIOUS
<1>2. PICK n \in Nat \ F : \A m \in Nat \ F : n <= m
  BY <1>1, LeastNat
<1>3. n # 0 /\ n - 1 \in Nat
  OBVIOUS
<1>4. n - 1 \in F
  BY <1>2, <1>3
<1>5. (n - 1) + 1 \in F
  BY <1>3, <1>4
<1> QED
  BY <1>5

\* A family that contains the empty set and is closed under adding an element
\* of the finite set X contains X.
LEMMA FiniteClosure ==
    ASSUME NEW X, IsFiniteSet(X), NEW F, {} \in F,
           \A S \in F : S \subseteq X => \A x \in X \ S : S \cup {x} \in F
    PROVE  X \in F
<1> DEFINE Sizes == {n \in Nat : \A S \in SUBSET X : Cardinality(S) = n => S \in F}
<1>1. 0 \in Sizes
  <2>1. ASSUME NEW S \in SUBSET X, Cardinality(S) = 0 PROVE S \in F
    <3>1. IsFiniteSet(S)
      BY FS_Subset
    <3>2. S = {}
      BY <2>1, <3>1, FS_EmptySet
    <3> QED
      BY <3>2
  <2> QED
    BY <2>1
<1>2. ASSUME NEW n \in Nat, n \in Sizes PROVE n + 1 \in Sizes
  <2>1. ASSUME NEW S \in SUBSET X, Cardinality(S) = n + 1 PROVE S \in F
    <3>1. IsFiniteSet(S)
      BY FS_Subset
    <3>2. S # {}
      BY <2>1, <3>1, FS_EmptySet
    <3>3. PICK x : x \in S
      BY <3>2
    <3>4. Cardinality(S \ {x}) = n
      <4>1. Cardinality(S \ {x}) = Cardinality(S) - 1
        BY <3>1, <3>3, FS_RemoveElement
      <4> QED
        BY <2>1, <4>1
    <3>5. S \ {x} \in F
      BY <1>2, <3>4
    <3>6. (S \ {x}) \cup {x} \in F
      BY <3>3, <3>5
    <3>7. (S \ {x}) \cup {x} = S
      BY <3>3
    <3> QED
      BY <3>6, <3>7
  <2> QED
    BY <2>1
<1>3. \A n \in Nat : n \in Sizes
  <2> HIDE DEF Sizes
  <2> QED
    BY <1>1, <1>2, NatClosure
<1>4. Cardinality(X) \in Nat
  BY FS_CardinalityType
<1> QED
  BY <1>3, <1>4

-----------------------------------------------------------------------------
(***************************************************************************)
(* SumFunctionOnSet is a recursive function of the subsets of the set it   *)
(* sums over.  It exists, and does not depend on that set.                 *)
(***************************************************************************)
Pick(s) == CHOOSE x \in s : TRUE

IsSum(g, w, D) ==
    g = [s \in D |-> IF s = {} THEN 0 ELSE w[Pick(s)] + g[s \ {Pick(s)}]]

SumOn(g, w, S) == IsSum(g, w, SUBSET S)

\* What the definition of the library says, without its operators.
LEMMA SumUnfold ==
    ASSUME NEW w, NEW S
    PROVE  SumFunctionOnSet(w, S) = (CHOOSE g : SumOn(g, w, S))[S]
  BY DEF SumFunctionOnSet, FoldFunctionOnSet, MapThenFoldSet, SumOn, IsSum, Pick

\* Two such functions agree where both are defined.
LEMMA SumUnique ==
    ASSUME NEW w, NEW T, NEW S \in SUBSET T, IsFiniteSet(S),
           NEW g, SumOn(g, w, S), NEW h, SumOn(h, w, T)
    PROVE  g[S] = h[S]
<1> DEFINE Sizes == {n \in Nat : \A s \in SUBSET S : Cardinality(s) = n => g[s] = h[s]}
<1>1. \A s \in SUBSET S : g[s] = IF s = {} THEN 0 ELSE w[Pick(s)] + g[s \ {Pick(s)}]
  BY DEF SumOn, IsSum
<1>2. \A s \in SUBSET S : h[s] = IF s = {} THEN 0 ELSE w[Pick(s)] + h[s \ {Pick(s)}]
  BY DEF SumOn, IsSum
<1>3. 0 \in Sizes
  <2>1. ASSUME NEW s \in SUBSET S, Cardinality(s) = 0 PROVE g[s] = h[s]
    <3>1. s = {}
      BY <2>1, FS_Subset, FS_EmptySet
    <3> QED
      BY <1>1, <1>2, <3>1
  <2> QED
    BY <2>1
<1>4. ASSUME NEW n \in Nat, n \in Sizes PROVE n + 1 \in Sizes
  <2>1. ASSUME NEW s \in SUBSET S, Cardinality(s) = n + 1 PROVE g[s] = h[s]
    <3>1. IsFiniteSet(s)
      BY FS_Subset
    <3>2. s # {}
      BY <2>1, <3>1, FS_EmptySet
    <3>3. Pick(s) \in s
      BY <3>2 DEF Pick
    <3>4. Cardinality(s \ {Pick(s)}) = n
      <4>1. Cardinality(s \ {Pick(s)}) = Cardinality(s) - 1
        BY <3>1, <3>3, FS_RemoveElement
      <4> QED
        BY <2>1, <4>1
    <3>5. g[s \ {Pick(s)}] = h[s \ {Pick(s)}]
      BY <1>4, <3>4
    <3> QED
      BY <1>1, <1>2, <3>2, <3>5
  <2> QED
    BY <2>1
<1>5. \A n \in Nat : n \in Sizes
  <2> HIDE DEF Sizes
  <2> QED
    BY <1>3, <1>4, NatClosure
<1>6. Cardinality(S) \in Nat
  BY FS_CardinalityType
<1> QED
  BY <1>5, <1>6

\* There is one on every finite set.
LEMMA SumExists ==
    ASSUME NEW w, NEW X, IsFiniteSet(X)
    PROVE  \E g : SumOn(g, w, X)
<1> DEFINE Small(n) == {s \in SUBSET X : Cardinality(s) <= n}
           F == {n \in Nat : \E g : IsSum(g, w, Small(n))}
<1>0. \A s \in SUBSET X : IsFiniteSet(s) /\ Cardinality(s) \in Nat
  BY FS_Subset, FS_CardinalityType
<1>1. 0 \in F
  <2> DEFINE g == [s \in Small(0) |-> 0]
  <2>1. \A s \in Small(0) : s = {}
    BY <1>0, FS_EmptySet
  <2>2. g = [s \in Small(0) |-> IF s = {} THEN 0 ELSE w[Pick(s)] + g[s \ {Pick(s)}]]
    BY <2>1
  <2>3. IsSum(g, w, Small(0))
    BY <2>2 DEF IsSum
  <2> QED
    BY <2>3
<1>2. ASSUME NEW n \in Nat, n \in F PROVE n + 1 \in F
  <2>1. PICK g : IsSum(g, w, Small(n))
    BY <1>2
  <2> DEFINE h == [s \in Small(n + 1) |->
                     IF s = {} THEN 0 ELSE w[Pick(s)] + g[s \ {Pick(s)}]]
  <2>2. \A s \in Small(n) : s \in Small(n + 1) /\ h[s] = g[s]
    <3>1. ASSUME NEW s \in Small(n) PROVE s \in Small(n + 1) /\ h[s] = g[s]
      <4>1. s \in Small(n + 1)
        BY <1>0
      <4>2. g[s] = IF s = {} THEN 0 ELSE w[Pick(s)] + g[s \ {Pick(s)}]
        BY <2>1 DEF IsSum
      <4> QED
        BY <4>1, <4>2
    <3> QED
      BY <3>1
  <2>3. ASSUME NEW s \in Small(n + 1), s # {} PROVE s \ {Pick(s)} \in Small(n)
    <3>1. Pick(s) \in s
      BY <2>3 DEF Pick
    <3>2. Cardinality(s \ {Pick(s)}) = Cardinality(s) - 1
      BY <1>0, <3>1, FS_RemoveElement
    <3> QED
      BY <1>0, <3>2
  <2>4. h = [s \in Small(n + 1) |-> IF s = {} THEN 0 ELSE w[Pick(s)] + h[s \ {Pick(s)}]]
    <3> HIDE DEF Small
    <3> QED
      BY <2>2, <2>3
  <2>5. IsSum(h, w, Small(n + 1))
    BY <2>4 DEF IsSum
  <2>6. \E k : IsSum(k, w, Small(n + 1))
    <3> HIDE DEF h, Small
    <3> QED
      BY <2>5
  <2> QED
    <3> HIDE DEF Small
    <3> QED
      BY <2>6
<1>3. \A n \in Nat : n \in F
  <2> HIDE DEF F
  <2> QED
    BY <1>1, <1>2, NatClosure
<1>4. Cardinality(X) \in F
  BY <1>3, FS_CardinalityType
<1>5. Small(Cardinality(X)) = SUBSET X
  BY <1>0, FS_Subset
<1> QED
  BY <1>4, <1>5 DEF SumOn

-----------------------------------------------------------------------------
\* The function the definition chooses on S gives the sums over subsets of S.
LEMMA SumRestrict ==
    ASSUME NEW w, NEW S, IsFiniteSet(S), NEW R \in SUBSET S
    PROVE  SumFunctionOnSet(w, R) = (CHOOSE g : SumOn(g, w, S))[R]
<1>1. IsFiniteSet(R)
  BY FS_Subset
<1>2. PICK g : g = CHOOSE k : SumOn(k, w, R)
  OBVIOUS
<1>3. PICK h : h = CHOOSE k : SumOn(k, w, S)
  OBVIOUS
<1>4. SumOn(g, w, R)
  BY <1>1, <1>2, SumExists
<1>5. SumOn(h, w, S)
  BY <1>3, SumExists
<1>6. g[R] = h[R]
  BY <1>1, <1>4, <1>5, SumUnique
<1> QED
  BY <1>2, <1>3, <1>6, SumUnfold

\* The equation of a sum.
LEMMA SumEquation ==
    ASSUME NEW w, NEW S, IsFiniteSet(S)
    PROVE  SumFunctionOnSet(w, S) =
             IF S = {} THEN 0 ELSE w[Pick(S)] + SumFunctionOnSet(w, S \ {Pick(S)})
<1>1. PICK g : g = CHOOSE k : SumOn(k, w, S)
  OBVIOUS
<1>2. SumOn(g, w, S)
  BY <1>1, SumExists
<1>3. g[S] = IF S = {} THEN 0 ELSE w[Pick(S)] + g[S \ {Pick(S)}]
  BY <1>2 DEF SumOn, IsSum
<1>4. SumFunctionOnSet(w, S) = g[S]
  BY <1>1, SumRestrict
<1>5. SumFunctionOnSet(w, S \ {Pick(S)}) = g[S \ {Pick(S)}]
  BY <1>1, SumRestrict
<1> QED
  BY <1>3, <1>4, <1>5

\* The sum over no elements.
LEMMA SumEmpty == ASSUME NEW w PROVE SumFunctionOnSet(w, {}) = 0
  BY SumEquation, FS_EmptySet

\* A sum of integers is one.
LEMMA SumInt ==
    ASSUME NEW w, NEW X, IsFiniteSet(X), \A x \in X : w[x] \in Int
    PROVE  SumFunctionOnSet(w, X) \in Int
<1> DEFINE Sizes == {n \in Nat : \A S \in SUBSET X :
                       Cardinality(S) = n => SumFunctionOnSet(w, S) \in Int}
<1>0. \A S \in SUBSET X : IsFiniteSet(S) /\ Cardinality(S) \in Nat
  BY FS_Subset, FS_CardinalityType
<1>1. 0 \in Sizes
  BY <1>0, SumEmpty, FS_EmptySet
<1>2. ASSUME NEW n \in Nat, n \in Sizes PROVE n + 1 \in Sizes
  <2>1. ASSUME NEW S \in SUBSET X, Cardinality(S) = n + 1
        PROVE  SumFunctionOnSet(w, S) \in Int
    <3>1. S # {}
      BY <2>1, FS_EmptySet
    <3>2. Pick(S) \in S
      BY <3>1 DEF Pick
    <3>3. Cardinality(S \ {Pick(S)}) = Cardinality(S) - 1
      BY <1>0, <3>2, FS_RemoveElement
    <3>4. SumFunctionOnSet(w, S \ {Pick(S)}) \in Int
      BY <1>2, <2>1, <3>3
    <3>5. w[Pick(S)] \in Int
      BY <3>2
    <3>6. SumFunctionOnSet(w, S) = w[Pick(S)] + SumFunctionOnSet(w, S \ {Pick(S)})
      BY <1>0, <3>1, SumEquation
    <3> QED
      BY <3>4, <3>5, <3>6
  <2> QED
    BY <2>1
<1>3. \A n \in Nat : n \in Sizes
  <2> HIDE DEF Sizes
  <2> QED
    BY <1>1, <1>2, NatClosure
<1> QED
  BY <1>0, <1>3

\* Any element may be taken out first: addition commutes.
LEMMA SumTake ==
    ASSUME NEW w, NEW X, IsFiniteSet(X), \A x \in X : w[x] \in Int, NEW y \in X
    PROVE  SumFunctionOnSet(w, X) = w[y] + SumFunctionOnSet(w, X \ {y})
<1> DEFINE Sum(S) == SumFunctionOnSet(w, S)
           Sizes == {n \in Nat : \A S \in SUBSET X : Cardinality(S) = n =>
                        \A x \in S : Sum(S) = w[x] + Sum(S \ {x})}
<1>0. \A S \in SUBSET X : IsFiniteSet(S) /\ Cardinality(S) \in Nat
  BY FS_Subset, FS_CardinalityType
<1>1. 0 \in Sizes
  BY <1>0, FS_EmptySet
<1>2. ASSUME NEW n \in Nat, n \in Sizes PROVE n + 1 \in Sizes
  <2>1. ASSUME NEW S \in SUBSET X, Cardinality(S) = n + 1, NEW x \in S
        PROVE  Sum(S) = w[x] + Sum(S \ {x})
    <3> DEFINE z == Pick(S)
    <3>1. z \in S
      BY DEF Pick
    <3>2. Sum(S) = w[z] + Sum(S \ {z})
      BY <1>0, <3>1, SumEquation
    <3>3. CASE x = z
      BY <3>2, <3>3
    <3>4. CASE x # z
      <4> HIDE DEF z
      <4>1. Cardinality(S \ {z}) = n /\ Cardinality(S \ {x}) = n
        <5>1. Cardinality(S \ {z}) = Cardinality(S) - 1
          BY <1>0, <3>1, FS_RemoveElement
        <5>2. Cardinality(S \ {x}) = Cardinality(S) - 1
          BY <1>0, FS_RemoveElement
        <5> QED
          BY <2>1, <5>1, <5>2
      <4>2. Sum(S \ {z}) = w[x] + Sum((S \ {z}) \ {x})
        BY <1>2, <3>4, <4>1
      <4>3. Sum(S \ {x}) = w[z] + Sum((S \ {x}) \ {z})
        BY <1>2, <3>1, <3>4, <4>1
      <4>4. Sum((S \ {x}) \ {z}) = Sum((S \ {z}) \ {x})
        <5>1. (S \ {x}) \ {z} = (S \ {z}) \ {x}
          OBVIOUS
        <5> QED
          BY <5>1
      <4>5. Sum((S \ {z}) \ {x}) \in Int
        BY <1>0, SumInt
      <4>6. w[x] \in Int /\ w[z] \in Int
        BY <3>1
      <4> HIDE DEF Sum
      <4> QED
        BY <3>2, <4>2, <4>3, <4>4, <4>5, <4>6
    <3> QED
      BY <3>3, <3>4
  <2> QED
    BY <2>1
<1>3. \A n \in Nat : n \in Sizes
  <2> HIDE DEF Sizes
  <2> QED
    BY <1>1, <1>2, NatClosure
<1> QED
  BY <1>0, <1>3

\* An element more.
LEMMA SumAdd ==
    ASSUME NEW w, NEW X, IsFiniteSet(X), NEW y, y \notin X,
           \A x \in X \cup {y} : w[x] \in Int
    PROVE  SumFunctionOnSet(w, X \cup {y}) = w[y] + SumFunctionOnSet(w, X)
<1>1. IsFiniteSet(X \cup {y})
  BY FS_AddElement
<1>2. (X \cup {y}) \ {y} = X
  OBVIOUS
<1>3. SumFunctionOnSet(w, X \cup {y}) = w[y] + SumFunctionOnSet(w, (X \cup {y}) \ {y})
  BY <1>1, SumTake
<1> QED
  BY <1>2, <1>3

\* A sum only depends on what it sums.
LEMMA SumSame ==
    ASSUME NEW u, NEW v, NEW X, IsFiniteSet(X), \A x \in X : u[x] \in Int /\ u[x] = v[x]
    PROVE  SumFunctionOnSet(u, X) = SumFunctionOnSet(v, X)
<1> DEFINE F == {S \in SUBSET X : SumFunctionOnSet(u, S) = SumFunctionOnSet(v, S)}
<1>1. {} \in F
  BY SumEmpty
<1>2. ASSUME NEW S \in F, S \subseteq X, NEW x \in X \ S PROVE S \cup {x} \in F
  <2>1. IsFiniteSet(S)
    BY FS_Subset
  <2>2. SumFunctionOnSet(u, S \cup {x}) = u[x] + SumFunctionOnSet(u, S)
    BY <2>1, SumAdd
  <2>3. SumFunctionOnSet(v, S \cup {x}) = v[x] + SumFunctionOnSet(v, S)
    BY <2>1, SumAdd
  <2>4. u[x] = v[x]
    OBVIOUS
  <2> QED
    BY <2>2, <2>3, <2>4
<1> HIDE DEF F
<1>3. X \in F
  BY <1>1, <1>2, FiniteClosure
<1> QED
  BY <1>3 DEF F

\* Sums add up.
LEMMA SumPlus ==
    ASSUME NEW u, NEW v, NEW w, NEW X, IsFiniteSet(X),
           \A x \in X : u[x] \in Int /\ v[x] \in Int /\ w[x] = u[x] + v[x]
    PROVE  SumFunctionOnSet(w, X) = SumFunctionOnSet(u, X) + SumFunctionOnSet(v, X)
<1> DEFINE F == {S \in SUBSET X :
                   SumFunctionOnSet(w, S) = SumFunctionOnSet(u, S) + SumFunctionOnSet(v, S)}
<1>1. {} \in F
  BY SumEmpty
<1>2. ASSUME NEW S \in F, S \subseteq X, NEW x \in X \ S PROVE S \cup {x} \in F
  <2>1. IsFiniteSet(S)
    BY FS_Subset
  <2>2. SumFunctionOnSet(u, S \cup {x}) = u[x] + SumFunctionOnSet(u, S)
    BY <2>1, SumAdd
  <2>3. SumFunctionOnSet(v, S \cup {x}) = v[x] + SumFunctionOnSet(v, S)
    BY <2>1, SumAdd
  <2>4. \A y \in X : w[y] \in Int
    OBVIOUS
  <2>5. SumFunctionOnSet(w, S \cup {x}) = w[x] + SumFunctionOnSet(w, S)
    BY <2>1, <2>4, SumAdd
  <2>6. w[x] = u[x] + v[x] /\ u[x] \in Int /\ v[x] \in Int
    OBVIOUS
  <2>7. SumFunctionOnSet(u, S) \in Int /\ SumFunctionOnSet(v, S) \in Int
    BY <2>1, SumInt
  <2>8. SumFunctionOnSet(w, S) = SumFunctionOnSet(u, S) + SumFunctionOnSet(v, S)
    OBVIOUS
  <2>9. SumFunctionOnSet(w, S \cup {x})
          = SumFunctionOnSet(u, S \cup {x}) + SumFunctionOnSet(v, S \cup {x})
    BY <2>2, <2>3, <2>5, <2>6, <2>7, <2>8
  <2> QED
    BY <2>9
<1> HIDE DEF F
<1>3. X \in F
  BY <1>1, <1>2, FiniteClosure
<1> QED
  BY <1>3 DEF F

\* A constant, summed on a part Y of X and 0 elsewhere.
LEMMA SumConstant ==
    ASSUME NEW w, NEW X, IsFiniteSet(X), NEW Y, NEW c \in Int,
           \A x \in X : w[x] = IF x \in Y THEN c ELSE 0
    PROVE  SumFunctionOnSet(w, X) = c * Cardinality(X \cap Y)
<1> DEFINE F == {S \in SUBSET X : SumFunctionOnSet(w, S) = c * Cardinality(S \cap Y)}
<1>1. {} \in F
  <2>1. {} \cap Y = {}
    OBVIOUS
  <2> QED
    BY <2>1, SumEmpty, FS_EmptySet
<1>2. ASSUME NEW S \in F, S \subseteq X, NEW x \in X \ S PROVE S \cup {x} \in F
  <2>1. IsFiniteSet(S) /\ IsFiniteSet(S \cap Y) /\ Cardinality(S \cap Y) \in Nat
    BY FS_Subset, FS_CardinalityType
  <2>2. SumFunctionOnSet(w, S \cup {x}) = w[x] + SumFunctionOnSet(w, S)
    BY <2>1, SumAdd
  <2>3. CASE x \in Y
    <3>1. (S \cup {x}) \cap Y = (S \cap Y) \cup {x} /\ x \notin S \cap Y
      BY <2>3
    <3>2. Cardinality((S \cup {x}) \cap Y) = Cardinality(S \cap Y) + 1
      BY <2>1, <3>1, FS_AddElement
    <3>3. c * (Cardinality(S \cap Y) + 1) = c + c * Cardinality(S \cap Y)
      BY <2>1
    <3> QED
      BY <2>2, <2>3, <3>2, <3>3
  <2>4. CASE x \notin Y
    <3>1. (S \cup {x}) \cap Y = S \cap Y
      BY <2>4
    <3>2. c * Cardinality(S \cap Y) \in Int
      BY <2>1
    <3>3. w[x] = 0 /\ SumFunctionOnSet(w, S) = c * Cardinality(S \cap Y)
      BY <2>4
    <3>4. SumFunctionOnSet(w, S \cup {x}) = c * Cardinality(S \cap Y)
      BY <2>2, <3>2, <3>3
    <3> QED
      BY <3>1, <3>4
  <2> QED
    BY <2>3, <2>4
<1> HIDE DEF F
<1>3. X \in F
  BY <1>1, <1>2, FiniteClosure
<1>4. SumFunctionOnSet(w, X) = c * Cardinality(X \cap Y)
  BY <1>3 DEF F
<1> QED
  BY <1>4

\* What is summed may only grow.
LEMMA SumMonotone ==
    ASSUME NEW u, NEW v, NEW X, IsFiniteSet(X),
           \A x \in X : u[x] \in Int /\ v[x] \in Int /\ u[x] <= v[x]
    PROVE  SumFunctionOnSet(u, X) <= SumFunctionOnSet(v, X)
<1> DEFINE F == {S \in SUBSET X : SumFunctionOnSet(u, S) <= SumFunctionOnSet(v, S)}
<1>1. {} \in F
  BY SumEmpty
<1>2. ASSUME NEW S \in F, S \subseteq X, NEW x \in X \ S PROVE S \cup {x} \in F
  <2>1. IsFiniteSet(S)
    BY FS_Subset
  <2>2. SumFunctionOnSet(u, S \cup {x}) = u[x] + SumFunctionOnSet(u, S)
    BY <2>1, SumAdd
  <2>3. SumFunctionOnSet(v, S \cup {x}) = v[x] + SumFunctionOnSet(v, S)
    BY <2>1, SumAdd
  <2>4. SumFunctionOnSet(u, S) \in Int /\ SumFunctionOnSet(v, S) \in Int
    BY <2>1, SumInt
  <2>5. u[x] \in Int /\ v[x] \in Int /\ u[x] <= v[x]
    OBVIOUS
  <2>6. SumFunctionOnSet(u, S) <= SumFunctionOnSet(v, S)
    OBVIOUS
  <2>7. SumFunctionOnSet(u, S \cup {x}) <= SumFunctionOnSet(v, S \cup {x})
    BY <2>2, <2>3, <2>4, <2>5, <2>6
  <2> QED
    BY <2>7
<1> HIDE DEF F
<1>3. X \in F
  BY <1>1, <1>2, FiniteClosure
<1> QED
  BY <1>3 DEF F

\* A sum of natural numbers is one.
LEMMA SumNat ==
    ASSUME NEW w, NEW X, IsFiniteSet(X), \A x \in X : w[x] \in Nat
    PROVE  SumFunctionOnSet(w, X) \in Nat
<1> DEFINE F == {S \in SUBSET X : SumFunctionOnSet(w, S) \in Nat}
<1>1. {} \in F
  BY SumEmpty
<1>2. ASSUME NEW S \in F, S \subseteq X, NEW x \in X \ S PROVE S \cup {x} \in F
  <2>1. IsFiniteSet(S)
    BY FS_Subset
  <2>2. SumFunctionOnSet(w, S \cup {x}) = w[x] + SumFunctionOnSet(w, S)
    BY <2>1, SumAdd
  <2>3. w[x] \in Nat /\ SumFunctionOnSet(w, S) \in Nat
    OBVIOUS
  <2>4. SumFunctionOnSet(w, S \cup {x}) \in Nat
    BY <2>2, <2>3
  <2> QED
    BY <2>4
<1> HIDE DEF F
<1>3. X \in F
  BY <1>1, <1>2, FiniteClosure
<1> QED
  BY <1>3 DEF F

\* A sum of zeros.
LEMMA SumZero ==
    ASSUME NEW w, NEW X, IsFiniteSet(X), \A x \in X : w[x] = 0
    PROVE  SumFunctionOnSet(w, X) = 0
<1> DEFINE F == {S \in SUBSET X : SumFunctionOnSet(w, S) = 0}
<1>1. {} \in F
  BY SumEmpty
<1>2. ASSUME NEW S \in F, S \subseteq X, NEW x \in X \ S PROVE S \cup {x} \in F
  <2>1. IsFiniteSet(S)
    BY FS_Subset
  <2>2. SumFunctionOnSet(w, S \cup {x}) = w[x] + SumFunctionOnSet(w, S)
    BY <2>1, SumAdd
  <2>3. w[x] = 0 /\ SumFunctionOnSet(w, S) = 0
    OBVIOUS
  <2> QED
    BY <2>2, <2>3
<1> HIDE DEF F
<1>3. X \in F
  BY <1>1, <1>2, FiniteClosure
<1> QED
  BY <1>3 DEF F

\* One summand is not more than a sum of natural numbers.
LEMMA SumTerm ==
    ASSUME NEW w, NEW X, IsFiniteSet(X), \A x \in X : w[x] \in Nat, NEW y \in X
    PROVE  w[y] <= SumFunctionOnSet(w, X)
<1>1. SumFunctionOnSet(w, X) = w[y] + SumFunctionOnSet(w, X \ {y})
  BY SumTake
<1>2. SumFunctionOnSet(w, X \ {y}) \in Nat
  BY FS_RemoveElement, SumNat
<1> QED
  BY <1>1, <1>2

\* Two functions that differ at y only.
LEMMA SumChange ==
    ASSUME NEW u, NEW v, NEW X, IsFiniteSet(X), NEW y \in X,
           \A x \in X : u[x] \in Int /\ v[x] \in Int /\ (x # y => u[x] = v[x])
    PROVE  SumFunctionOnSet(v, X) = SumFunctionOnSet(u, X) + (v[y] - u[y])
<1>1. IsFiniteSet(X \ {y})
  BY FS_RemoveElement
<1>2. SumFunctionOnSet(u, X) = u[y] + SumFunctionOnSet(u, X \ {y})
  BY SumTake
<1>3. SumFunctionOnSet(v, X) = v[y] + SumFunctionOnSet(v, X \ {y})
  BY SumTake
<1>4. SumFunctionOnSet(u, X \ {y}) = SumFunctionOnSet(v, X \ {y})
  BY <1>1, SumSame
<1>5. SumFunctionOnSet(u, X \ {y}) \in Int
  BY <1>1, SumInt
<1>6. u[y] \in Int /\ v[y] \in Int
  OBVIOUS
<1> QED
  BY <1>2, <1>3, <1>4, <1>5, <1>6

\* A part of a sum of natural numbers.
LEMMA SumSubset ==
    ASSUME NEW w, NEW X, IsFiniteSet(X), \A x \in X : w[x] \in Nat, NEW Y \in SUBSET X
    PROVE  SumFunctionOnSet(w, Y) <= SumFunctionOnSet(w, X)
<1> DEFINE F == {S \in SUBSET (X \ Y) :
                   SumFunctionOnSet(w, Y) <= SumFunctionOnSet(w, Y \cup S)}
<1>0. IsFiniteSet(Y) /\ IsFiniteSet(X \ Y) /\ SumFunctionOnSet(w, Y) \in Nat
  <2>1. IsFiniteSet(Y) /\ IsFiniteSet(X \ Y)
    BY FS_Subset
  <2> QED
    BY <2>1, SumNat
<1>1. {} \in F
  <2>1. Y \cup {} = Y
    OBVIOUS
  <2> QED
    BY <1>0, <2>1
<1>2. ASSUME NEW S \in F, S \subseteq X \ Y, NEW x \in (X \ Y) \ S PROVE S \cup {x} \in F
  <2>1. IsFiniteSet(Y \cup S) /\ SumFunctionOnSet(w, Y \cup S) \in Nat
    <3>1. IsFiniteSet(Y \cup S)
      BY <1>2, FS_Subset
    <3> QED
      BY <3>1, SumNat
  <2>2. SumFunctionOnSet(w, (Y \cup S) \cup {x}) = w[x] + SumFunctionOnSet(w, Y \cup S)
    <3>1. x \notin Y \cup S /\ \A y \in (Y \cup S) \cup {x} : w[y] \in Int
      BY <1>2
    <3> QED
      BY <2>1, <3>1, SumAdd
  <2>3. (Y \cup S) \cup {x} = Y \cup (S \cup {x})
    OBVIOUS
  <2>4. w[x] \in Nat /\ SumFunctionOnSet(w, Y) <= SumFunctionOnSet(w, Y \cup S)
    OBVIOUS
  <2>5. SumFunctionOnSet(w, Y) <= SumFunctionOnSet(w, (Y \cup S) \cup {x})
    BY <1>0, <2>1, <2>2, <2>4
  <2> QED
    BY <2>3, <2>5
<1> HIDE DEF F
<1>3. X \ Y \in F
  BY <1>0, <1>1, <1>2, FiniteClosure
<1>4. Y \cup (X \ Y) = X
  OBVIOUS
<1> QED
  BY <1>3, <1>4 DEF F

\* A sum over a sequence, its first term apart.
LEMMA SumShift ==
    ASSUME NEW n \in Nat, NEW a, NEW b, \A i \in 1..(n + 1) : a[i] \in Int,
           \A i \in 1..n : b[i] = a[i + 1]
    PROVE  SumFunctionOnSet(a, 1..(n + 1)) = a[1] + SumFunctionOnSet(b, 1..n)
<1> DEFINE F == {m \in Nat : m <= n =>
                   SumFunctionOnSet(a, 1..(m + 1)) = a[1] + SumFunctionOnSet(b, 1..m)}
<1>1. 0 \in F
  <2>1. 1..(0 + 1) = {} \cup {1} /\ 1..0 = {} /\ 1 \in 1..(n + 1)
    OBVIOUS
  <2>2. SumFunctionOnSet(a, {} \cup {1}) = a[1] + SumFunctionOnSet(a, {})
    <3>1. \A x \in {} \cup {1} : a[x] \in Int
      BY <2>1
    <3> QED
      BY <3>1, FS_EmptySet, SumAdd
  <2>3. SumFunctionOnSet(a, {}) = 0 /\ SumFunctionOnSet(b, {}) = 0
    BY SumEmpty
  <2> QED
    BY <2>1, <2>2, <2>3
<1>2. ASSUME NEW m \in Nat, m \in F PROVE m + 1 \in F
  <2>1. SUFFICES ASSUME m + 1 <= n
                 PROVE  SumFunctionOnSet(a, 1..((m + 1) + 1)) = a[1] + SumFunctionOnSet(b, 1..(m + 1))
    OBVIOUS
  <2>2. SumFunctionOnSet(a, 1..(m + 1)) = a[1] + SumFunctionOnSet(b, 1..m)
    <3>1. m <= n
      BY <2>1
    <3> QED
      BY <1>2, <3>1
  <2>3. /\ 1..((m + 1) + 1) = 1..(m + 1) \cup {m + 2} /\ m + 2 \notin 1..(m + 1)
        /\ 1..(m + 1) = 1..m \cup {m + 1} /\ m + 1 \notin 1..m
    OBVIOUS
  <2>4. IsFiniteSet(1..(m + 1)) /\ IsFiniteSet(1..m)
    BY FS_Interval
  <2>5. \A x \in 1..(m + 1) \cup {m + 2} : a[x] \in Int
    BY <2>1
  <2>6. \A x \in 1..m \cup {m + 1} : b[x] \in Int
    BY <2>1
  <2>7. SumFunctionOnSet(a, 1..(m + 1) \cup {m + 2}) = a[m + 2] + SumFunctionOnSet(a, 1..(m + 1))
    BY <2>3, <2>4, <2>5, SumAdd
  <2>8. SumFunctionOnSet(b, 1..m \cup {m + 1}) = b[m + 1] + SumFunctionOnSet(b, 1..m)
    BY <2>3, <2>4, <2>6, SumAdd
  <2>9. b[m + 1] = a[m + 2] /\ a[m + 2] \in Int /\ a[1] \in Int
    <3>1. m + 1 \in 1..n /\ (m + 1) + 1 = m + 2 /\ m + 2 \in 1..(n + 1) /\ 1 \in 1..(n + 1)
      BY <2>1
    <3> QED
      BY <3>1
  <2>10. SumFunctionOnSet(b, 1..m) \in Int
    BY <2>4, <2>6, SumInt
  <2>11. SumFunctionOnSet(a, 1..((m + 1) + 1)) = a[m + 2] + SumFunctionOnSet(a, 1..(m + 1))
    BY <2>3, <2>7
  <2>12. SumFunctionOnSet(b, 1..(m + 1)) = b[m + 1] + SumFunctionOnSet(b, 1..m)
    BY <2>3, <2>8
  <2> QED
    BY <2>2, <2>9, <2>10, <2>11, <2>12
<1> HIDE DEF F
<1>3. n \in F
  BY <1>1, <1>2, NatClosure
<1> QED
  BY <1>3 DEF F
=============================================================================
