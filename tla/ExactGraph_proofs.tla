------------------------- MODULE ExactGraph_proofs -------------------------
(***************************************************************************)
(* adapt_am1_exact and its clique search: the proofs of AlwaysClique,      *)
(* MaximumIfFinished, MemorySafe, EdgesAreConflicts and PlacesSuffice for  *)
(* any formula, any graph and any step bound.                              *)
(***************************************************************************)
EXTENDS ExactGraph, Formula_proofs

(***************************************************************************)
(* The clique search.  Its state is passed as arguments: the edges c of    *)
(* the graph, its number of vertices n, the current clique q, the best one *)
(* best, and the frames st.                                                *)
(***************************************************************************)
Vertices(n) == [i : 1..n, d : Int]

Frames(n) == Seq(Vertices(n))

\* The vertices up to position r of a frame.
Upto(F, r) == {F[s].i : s \in 1..r}

CliqueOf(c, S) == \A v, w \in S : v # w => {v, w} \in c

Distinct(F) == \A r, s \in DOMAIN F : r # s => F[r].i # F[s].i

\* The degree at r bounds the cliques up to r, or b vertices more do not beat L.
Bounds(c, F, b, L) ==
    \A r \in DOMAIN F : \A S \in SUBSET Upto(F, r) :
        CliqueOf(c, S) => Cardinality(S) <= F[r].d \/ b + Cardinality(S) <= L

\* Before a vertex without a degree the loop meets the mark, and stops there.
Marked(F, b, L) ==
    /\ \A r \in DOMAIN F : F[r].d = Uninitialized => \E s \in DOMAIN F : s > r /\ F[s].d = 0
    /\ \A r \in DOMAIN F : F[r].d = 0 => b <= L

\* A frame, with the clique of length b it extends.
FrameOK(c, n, F, b, L) ==
    /\ F \in Seq(Vertices(n)) /\ Distinct(F) /\ Bounds(c, F, b, L) /\ Marked(F, b, L)
    /\ F = <<>> => b <= L
    /\ b > 0 => \A r \in DOMAIN F : F[r].d + 1 <= n

\* Every vertex of a frame is a neighbour of the clique the frame extends.
Extends(c, q, F, b) ==
    \A j \in 1..b : \A r \in DOMAIN F : {q[j], F[r].i} \in c /\ q[j] # F[r].i

\* A frame that waits for its callee.
Waits(q, F, k) == Len(F) > 1 /\ q[k] = F[Len(F)].i /\ F[Len(F)].d # 0

Stacked(c, n, q, L, st) ==
    /\ st \in Seq(Frames(n)) /\ q \in Seq(1..n)
    /\ Len(q) = IF st = <<>> THEN 0 ELSE Len(st) - 1
    /\ \A k \in DOMAIN st : FrameOK(c, n, st[k], k - 1, L) /\ Extends(c, q, st[k], k - 1)
    /\ \A k \in 1..(Len(st) - 1) : Waits(q, st[k], k)

Path(q, b) == {q[j] : j \in 1..b}

\* What the frame k has still to try.
Rest(st, k) == Upto(st[k], IF k = Len(st) THEN Len(st[k]) ELSE Len(st[k]) - 1)

Covers(q, st, k, S) == Path(q, k - 1) \subseteq S /\ S \subseteq Path(q, k - 1) \cup Rest(st, k)

\* Every clique that would beat the best one is still to come.
Coverage(c, n, q, L, st) ==
    \A S \in SUBSET (1..n) : CliqueOf(c, S) =>
        Cardinality(S) <= L \/ \E k \in DOMAIN st : Covers(q, st, k, S)

Places(n, q) == q \in Seq(1..n) /\ \A j, k \in DOMAIN q : j # k => q[j] # q[k]

SeqClique(c, n, q) == Places(n, q) /\ CliqueOf(c, Range(q))

SearchOK ==
    /\ pc = "expand" => /\ Stacked(conn, size, Q, Len(QMAX), stack)
                        /\ pk <= maxStep => Coverage(conn, size, Q, Len(QMAX), stack)
    /\ pc \in {"expand", "found"} => SeqClique(conn, size, Q)
    /\ pc \in {"expand", "found"} => SeqClique(conn, size, QMAX)
    /\ pc \in {"reduce", "place"} => Places(size, QMAX)
    /\ pc = "found" => stack = <<>> /\ Q = <<>> /\ MaximumIfFinished
    /\ pc # "expand" => stack = <<>>
    /\ size \in Nat

-----------------------------------------------------------------------------
(***************************************************************************)
(* Sorting by rank.                                                        *)
(***************************************************************************)
\* rank numbers the elements of D.
Ranks(D, rank) ==
    /\ \A x \in D : rank[x] \in 1..Cardinality(D)
    /\ \A x, y \in D : rank[x] = rank[y] => x = y

\* P is a strict total order on D.
StrictOrder(P, D) ==
    /\ \A x \in D : <<x, x>> \notin P
    /\ \A x, y, z \in D : <<x, y>> \in P /\ <<y, z>> \in P => <<x, z>> \in P
    /\ \A x, y \in D : x = y \/ <<x, y>> \in P \/ <<y, x>> \in P

Preceding(P, D, x) == {y \in D : <<y, x>> \in P}

\* Counting what comes before numbers the elements, in that order.
LEMMA OrderRanks ==
  ASSUME NEW D, IsFiniteSet(D), NEW P, StrictOrder(P, D), NEW rank,
         \A x \in D : rank[x] = 1 + Cardinality(Preceding(P, D, x))
  PROVE  Ranks(D, rank) /\ \A x, y \in D : <<x, y>> \in P <=> rank[x] < rank[y]
<1>1. ASSUME NEW x \in D
      PROVE  /\ IsFiniteSet(Preceding(P, D, x)) /\ Cardinality(Preceding(P, D, x)) \in Nat
             /\ rank[x] \in 1..Cardinality(D)
  <2> DEFINE B == Preceding(P, D, x)
  <2>1. B \subseteq D \ {x}
        BY DEF Preceding, StrictOrder
  <2>2. IsFiniteSet(D \ {x}) /\ Cardinality(D \ {x}) = Cardinality(D) - 1
        BY FS_RemoveElement
  <2>3. IsFiniteSet(B) /\ Cardinality(B) <= Cardinality(D) - 1
        BY <2>1, <2>2, FS_Subset
  <2>4. Cardinality(B) \in Nat /\ Cardinality(D) \in Nat
        BY <2>3, FS_CardinalityType
  <2> HIDE DEF B
  <2>5. rank[x] = 1 + Cardinality(B)
        BY DEF B
  <2> QED BY <2>3, <2>4, <2>5 DEF B
<1>2. ASSUME NEW x \in D, NEW y \in D, <<x, y>> \in P
      PROVE  rank[x] < rank[y]
  <2> DEFINE B == Preceding(P, D, x)
             C == Preceding(P, D, y)
  <2>1. B \subseteq C \ {x} /\ x \in C
        BY <1>2 DEF Preceding, StrictOrder
  <2>2. IsFiniteSet(C) /\ Cardinality(C) \in Nat /\ Cardinality(B) \in Nat
        BY <1>1
  <2>3. IsFiniteSet(C \ {x}) /\ Cardinality(C \ {x}) = Cardinality(C) - 1
        BY <2>1, <2>2, FS_RemoveElement
  <2>4. Cardinality(B) <= Cardinality(C) - 1
        BY <2>1, <2>3, FS_Subset
  <2>5. rank[x] = 1 + Cardinality(B) /\ rank[y] = 1 + Cardinality(C)
        OBVIOUS
  <2> HIDE DEF B, C
  <2> QED BY <2>2, <2>4, <2>5
<1>3. \A x \in D : rank[x] \in Int
      BY <1>1
<1>4. ASSUME NEW x \in D, NEW y \in D
      PROVE  /\ rank[x] = rank[y] => x = y
             /\ <<x, y>> \in P <=> rank[x] < rank[y]
  <2>1. x = y \/ <<x, y>> \in P \/ <<y, x>> \in P
        BY DEF StrictOrder
  <2> QED BY <1>2, <1>3, <2>1
<1> QED BY <1>1, <1>4 DEF Ranks

\* ByRank lists D, each element once, at its rank.
LEMMA ByRankFacts ==
  ASSUME NEW D, IsFiniteSet(D), NEW rank, Ranks(D, rank), NEW at, at = ByRank(D, rank), NEW n, n = Cardinality(D)
  PROVE  /\ n \in Nat /\ at \in [1..n -> D] /\ DOMAIN at = 1..n
         /\ \A r \in 1..n : rank[at[r]] = r
         /\ \A x \in D : rank[x] \in 1..n /\ at[rank[x]] = x
<1>1. n \in Nat
      BY FS_CardinalityType
<1>2. \A r \in 1..n : \E x \in D : rank[x] = r
  <2> DEFINE g == [x \in D |-> rank[x]]
  <2>1. g \in [D -> 1..n]
        BY DEF Ranks
  <2>2. g \in Injection(D, 1..n)
        BY <2>1 DEF Ranks, Injection, IsInjective
  <2>3. IsFiniteSet(1..n) /\ Cardinality(1..n) = n
        BY <1>1, FS_Interval
  <2>4. g \in Surjection(D, 1..n)
        BY <2>2, <2>3, FS_Injection
  <2> QED BY <2>1, <2>4 DEF Surjection
<1>3. at = [r \in 1..n |-> CHOOSE x \in D : rank[x] = r]
      BY DEF ByRank
<1>4. \A r \in 1..n : at[r] \in D /\ rank[at[r]] = r
      BY <1>2, <1>3
<1>5. at \in [1..n -> D]
      BY <1>3, <1>4
<1>6. \A x \in D : rank[x] \in 1..n /\ at[rank[x]] = x
      BY <1>4 DEF Ranks
<1> QED BY <1>1, <1>4, <1>5, <1>6

-----------------------------------------------------------------------------
(***************************************************************************)
(* The colours.                                                            *)
(***************************************************************************)
\* The classes the vertex at k may go into, the colours before it being g.
FreeColors(o, g, k) == {c \in 1..k : \A j \in 1..(k - 1) : g[j] = c => ~Connection(o[j], o[k])}

Colored(o, g, n) == g = [k \in 1..n |-> Min(FreeColors(o, g, k))]

\* The colours are defined for a sequence of any length.
LEMMA ColorsDefined ==
  ASSUME NEW o, NEW n \in Nat
  PROVE  \E g : Colored(o, g, n)
<1> DEFINE T == {m \in Nat : \E g : Colored(o, g, m)}
<1>1. 0 \in T
  <2>1. Colored(o, <<>>, 0)
        BY DEF Colored
  <2> QED BY <2>1
<1>2. ASSUME NEW m \in Nat, m \in T
      PROVE  m + 1 \in T
  <2>1. PICK g : Colored(o, g, m)
        BY <1>2
  <2> DEFINE h == [k \in 1..(m + 1) |-> IF k <= m THEN g[k] ELSE Min(FreeColors(o, g, k))]
  <2>2. ASSUME NEW k \in 1..(m + 1)
        PROVE  FreeColors(o, h, k) = FreeColors(o, g, k)
    <3>1. \A j \in 1..(k - 1) : h[j] = g[j]
          OBVIOUS
    <3> HIDE DEF h
    <3> QED BY <3>1 DEF FreeColors
  <2>3. ASSUME NEW k \in 1..(m + 1)
        PROVE  h[k] = Min(FreeColors(o, h, k))
    <3>1. CASE k <= m
      <4>1. g[k] = Min(FreeColors(o, g, k))
            BY <2>1, <3>1 DEF Colored
      <4> QED BY <2>2, <3>1, <4>1
    <3>2. CASE ~(k <= m)
          BY <2>2, <3>2
    <3> QED BY <3>1, <3>2
  <2>4. h = [k \in 1..(m + 1) |-> h[k]]
        OBVIOUS
  <2> HIDE DEF h
  <2>5. Colored(o, h, m + 1)
        BY <2>3, <2>4 DEF Colored
  <2> QED BY <2>5
<1> HIDE DEF T
<1>3. n \in T
      BY <1>1, <1>2, NatClosure
<1> QED BY <1>3 DEF T

\* There is a class for every vertex: fewer vertices than classes come before.
LEMMA OpenClass ==
  ASSUME NEW o, NEW g, NEW k \in Nat \ {0}
  PROVE  FreeColors(o, g, k) # {}
<1> SUFFICES ASSUME FreeColors(o, g, k) = {} PROVE FALSE
    OBVIOUS
<1>1. \A c \in 1..k : \E j \in 1..(k - 1) : g[j] = c
      BY DEF FreeColors
<1> DEFINE h == [c \in 1..k |-> CHOOSE j \in 1..(k - 1) : g[j] = c]
<1>2. \A c \in 1..k : h[c] \in 1..(k - 1) /\ g[h[c]] = c
      BY <1>1
<1>3. h \in [1..k -> 1..(k - 1)]
      BY <1>2
<1>4. IsFiniteSet(1..k) /\ Cardinality(1..k) = k /\ IsFiniteSet(1..(k - 1)) /\ Cardinality(1..(k - 1)) = k - 1
      BY FS_Interval
<1> HIDE DEF h
<1>5. \E x, y \in 1..k : x # y /\ h[x] = h[y]
  <2>1. PICK A : A = 1..k
        OBVIOUS
  <2>2. PICK B : B = 1..(k - 1)
        OBVIOUS
  <2>3. IsFiniteSet(A) /\ IsFiniteSet(B) /\ Cardinality(B) < Cardinality(A) /\ h \in [A -> B]
        BY <1>3, <1>4, <2>1, <2>2
  <2>4. \E x, y \in A : x # y /\ h[x] = h[y]
        BY ONLY <2>3, FS_PigeonHole
  <2> QED BY <2>1, <2>4
<1> QED BY <1>2, <1>5

\* Neighbours have different colours, and a colour is at most the position.
LEMMA ColorsFacts ==
  ASSUME NEW n \in Nat, NEW o, DOMAIN o = 1..n, NEW color, color = Colors(o)
  PROVE  /\ DOMAIN color = 1..n /\ \A k \in 1..n : color[k] \in 1..k
         /\ \A j, k \in 1..n : j # k /\ color[j] = color[k] => {o[j], o[k]} \notin conn
<1>1. Colored(o, color, n)
  <2>1. \E g : g = [k \in 1..n |-> Min(FreeColors(o, g, k))]
        BY ColorsDefined DEF Colored
  <2>2. color = CHOOSE g : g = [k \in 1..n |-> Min(FreeColors(o, g, k))]
        BY DEF Colors, FreeColors
  <2> QED BY <2>1, <2>2 DEF Colored
<1>2. ASSUME NEW k \in 1..n
      PROVE  color[k] \in FreeColors(o, color, k)
  <2>1. FreeColors(o, color, k) # {}
        BY OpenClass, k \in Nat \ {0}
  <2>2. FreeColors(o, color, k) \in SUBSET Nat
        BY DEF FreeColors
  <2>3. color[k] = Min(FreeColors(o, color, k))
        BY <1>1 DEF Colored
  <2> QED BY <2>1, <2>2, <2>3, MinFacts
<1>3. \A k \in 1..n : color[k] \in 1..k /\ \A j \in 1..(k - 1) : color[j] = color[k] => {o[j], o[k]} \notin conn
      BY <1>2 DEF FreeColors, Connection
<1>4. ASSUME NEW j \in 1..n, NEW k \in 1..n, j # k, color[j] = color[k]
      PROVE  {o[j], o[k]} \notin conn
  <2>1. CASE j < k
        BY <1>3, <1>4, <2>1
  <2>2. CASE k < j
    <3>1. {o[k], o[j]} \notin conn
          BY <1>3, <1>4, <2>2
    <3>2. {o[k], o[j]} = {o[j], o[k]}
          OBVIOUS
    <3> QED BY <3>1, <3>2
  <2> QED BY <1>4, <2>1, <2>2
<1>5. DOMAIN color = 1..n
      BY <1>1 DEF Colored
<1> QED BY <1>3, <1>4, <1>5

\* A clique has no more vertices than colours.
LEMMA CliqueColors ==
  ASSUME NEW c, NEW S, CliqueOf(c, S), NEW h, NEW m \in Nat, \A v \in S : h[v] \in 1..m,
         \A v, w \in S : v # w /\ h[v] = h[w] => {v, w} \notin c
  PROVE  IsFiniteSet(S) /\ Cardinality(S) <= m
<1> DEFINE g == [v \in S |-> h[v]]
<1>1. g \in [S -> 1..m]
      OBVIOUS
<1>2. \A v, w \in S : h[v] = h[w] => v = w
      BY DEF CliqueOf
<1>3. g \in Injection(S, 1..m)
      BY <1>1, <1>2 DEF Injection, IsInjective
<1>4. IsFiniteSet(1..m) /\ Cardinality(1..m) = m
      BY FS_Interval
<1> QED BY <1>3, <1>4, FS_Injection

-----------------------------------------------------------------------------
(***************************************************************************)
(* color_sort and init_colors.                                             *)
(***************************************************************************)
\* F lists the vertices of o at the places `at`: low colours first, in front of
\* the others by colour.
Arranged(o, color, m, low, at, F) ==
    /\ at \in [1..m -> 1..m] /\ (\A k \in 1..m : \E r \in 1..m : at[r] = k)
    /\ \A r, s \in 1..m : at[r] = at[s] => r = s
    /\ F = [r \in 1..m |->
              Vertex(o[at[r]], IF at[r] \notin low THEN color[at[r]]
                               ELSE IF r = Cardinality(low) THEN 0 ELSE Uninitialized)]
    /\ Cardinality(low) \in 0..m /\ \A r \in 1..m : at[r] \in low <=> r <= Cardinality(low)
    /\ \A r, s \in 1..m : s <= r /\ at[r] \notin low => at[s] \in low \/ color[at[s]] <= color[at[r]]

\* The order of color_sort.
Before(color, m, low) ==
    {e \in (1..m) \X (1..m) :
        IF e[2] \in low THEN e[1] \in low /\ e[1] < e[2]
        ELSE \/ e[1] \in low
             \/ color[e[1]] < color[e[2]]
             \/ color[e[1]] = color[e[2]] /\ e[1] < e[2]}

\* It is one.
LEMMA BeforeOrder ==
  ASSUME NEW m \in Nat, NEW color, \A k \in 1..m : color[k] \in Int, NEW low, NEW P, P = Before(color, m, low)
  PROVE  /\ StrictOrder(P, 1..m)
         /\ \A j, k \in 1..m : <<j, k>> \in P <=> IF k \in low THEN j \in low /\ j < k
                                                  ELSE \/ j \in low
                                                       \/ color[j] < color[k]
                                                       \/ color[j] = color[k] /\ j < k
<1>1. \A j, k \in 1..m : <<j, k>> \in P <=> IF k \in low THEN j \in low /\ j < k
                                            ELSE \/ j \in low
                                                 \/ color[j] < color[k]
                                                 \/ color[j] = color[k] /\ j < k
      BY DEF Before
<1>2. \A x \in 1..m : <<x, x>> \notin P
      BY <1>1
<1>3. \A x, y \in 1..m : x = y \/ <<x, y>> \in P \/ <<y, x>> \in P
  <2> TAKE x, y \in 1..m
  <2>1. color[x] \in Int /\ color[y] \in Int /\ x \in Int /\ y \in Int
        OBVIOUS
  <2>2. CASE x \in low
    <3>1. CASE y \in low
          BY <1>1, <2>1, <2>2, <3>1
    <3>2. CASE y \notin low
          BY <1>1, <2>2, <3>2
    <3> QED BY <3>1, <3>2
  <2>3. CASE x \notin low
    <3>1. CASE y \in low
          BY <1>1, <2>3, <3>1
    <3>2. CASE y \notin low
      <4>1. color[x] < color[y] \/ color[y] < color[x] \/ color[x] = color[y]
            BY <2>1
      <4>2. x < y \/ y < x \/ x = y
            BY <2>1
      <4> QED BY <1>1, <2>3, <3>2, <4>1, <4>2
    <3> QED BY <3>1, <3>2
  <2> QED BY <2>2, <2>3
<1>4. \A x, y, z \in 1..m : <<x, y>> \in P /\ <<y, z>> \in P => <<x, z>> \in P
  <2> TAKE x, y, z \in 1..m
  <2>1. CASE z \in low
        BY <1>1, <2>1
  <2>2. CASE z \notin low
        BY <1>1, <2>2
  <2> QED BY <2>1, <2>2
<1> QED BY <1>1, <1>2, <1>3, <1>4 DEF StrictOrder

\* What color_sort returns.
LEMMA ColorSortArranges ==
  ASSUME NEW m \in Nat, NEW o, DOMAIN o = 1..m, NEW color, \A k \in 1..m : color[k] \in Int, NEW minK \in Int,
         NEW low, low = {k \in 1..m : color[k] < minK}, NEW F, F = ColorSortBy(o, color, minK, 0)
  PROVE  \E at : Arranged(o, color, m, low, at, F)
<1>1. PICK P : P = Before(color, m, low)
      OBVIOUS
<1>2. /\ StrictOrder(P, 1..m)
      /\ \A j, k \in 1..m : <<j, k>> \in P <=> IF k \in low THEN j \in low /\ j < k
                                               ELSE \/ j \in low
                                                    \/ color[j] < color[k]
                                                    \/ color[j] = color[k] /\ j < k
      BY <1>1, BeforeOrder
<1> DEFINE B(k) == {j \in 1..m : IF k \in low THEN j \in low /\ j < k
                                 ELSE \/ j \in low
                                      \/ color[j] < color[k]
                                      \/ color[j] = color[k] /\ j < k}
           rank == [k \in 1..m |-> 1 + Cardinality(B(k))]
           at == ByRank(1..m, rank)
<1>3. IsFiniteSet(1..m) /\ Cardinality(1..m) = m
      BY FS_Interval
<1>4. \A k \in 1..m : rank[k] = 1 + Cardinality(Preceding(P, 1..m, k)) /\ B(k) = Preceding(P, 1..m, k)
  <2> TAKE k \in 1..m
  <2>1. B(k) = Preceding(P, 1..m, k)
        BY <1>2 DEF Preceding
  <2> QED BY <2>1
<1>5. F = [r \in DOMAIN at |->
             Vertex(o[at[r]], IF at[r] \notin low THEN color[at[r]]
                              ELSE IF r = Cardinality(low) THEN 0 ELSE Uninitialized)]
      BY DEF ColorSortBy
<1> HIDE DEF B, rank
<1>6. Ranks(1..m, rank) /\ \A x, y \in 1..m : <<x, y>> \in P <=> rank[x] < rank[y]
      BY ONLY <1>2, <1>3, <1>4, OrderRanks
<1>7. /\ at \in [1..m -> 1..m] /\ DOMAIN at = 1..m
      /\ \A r \in 1..m : rank[at[r]] = r
      /\ \A x \in 1..m : rank[x] \in 1..m /\ at[rank[x]] = x
  <2>1. Ranks(1..m, rank)
        BY <1>6
  <2>2. at = ByRank(1..m, rank)
        OBVIOUS
  <2>3. m = Cardinality(1..m) /\ IsFiniteSet(1..m)
        BY <1>3
  <2> HIDE DEF at
  <2>4. PICK D : D = 1..m
        OBVIOUS
  <2>5. Ranks(D, rank) /\ IsFiniteSet(D) /\ at = ByRank(D, rank) /\ m = Cardinality(D)
        BY <2>1, <2>2, <2>3, <2>4
  <2>6. /\ at \in [1..m -> D] /\ DOMAIN at = 1..m
        /\ \A r \in 1..m : rank[at[r]] = r
        /\ \A x \in D : rank[x] \in 1..m /\ at[rank[x]] = x
        BY ONLY <2>5, ByRankFacts
  <2> QED BY <2>4, <2>6
<1> HIDE DEF at
<1>8. low \subseteq 1..m /\ IsFiniteSet(low) /\ Cardinality(low) \in 0..m
  <2>1. IsFiniteSet(low) /\ Cardinality(low) <= m
        BY <1>3, FS_Subset
  <2> QED BY <2>1, FS_CardinalityType
<1>9. ASSUME NEW k \in low
      PROVE  rank[k] <= Cardinality(low)
  <2>1. B(k) \subseteq low \ {k}
        BY DEF B
  <2>2. IsFiniteSet(low \ {k}) /\ Cardinality(low \ {k}) = Cardinality(low) - 1
        BY <1>8, FS_RemoveElement
  <2>3. IsFiniteSet(B(k)) /\ Cardinality(B(k)) <= Cardinality(low) - 1
        BY <2>1, <2>2, FS_Subset
  <2>4. Cardinality(B(k)) \in Nat
        BY <2>3, FS_CardinalityType
  <2>5. rank[k] = 1 + Cardinality(B(k))
        BY <1>4, <1>8
  <2> QED BY <1>8, <2>3, <2>4, <2>5
<1>10. ASSUME NEW k \in (1..m) \ low
       PROVE  rank[k] > Cardinality(low)
  <2>1. low \subseteq B(k) /\ B(k) \subseteq 1..m
        BY <1>8 DEF B
  <2>2. IsFiniteSet(B(k))
        BY <1>3, <2>1, FS_Subset
  <2>3. Cardinality(low) <= Cardinality(B(k)) /\ Cardinality(B(k)) \in Nat
        BY <2>1, <2>2, FS_Subset, FS_CardinalityType
  <2>4. rank[k] = 1 + Cardinality(B(k))
        BY <1>4
  <2> QED BY <1>8, <2>3, <2>4
<1>11. \A r \in 1..m : at[r] \in low <=> r <= Cardinality(low)
  <2> TAKE r \in 1..m
  <2>1. at[r] \in 1..m /\ rank[at[r]] = r
        BY <1>7
  <2> QED BY <1>8, <1>9, <1>10, <2>1
<1>12. ASSUME NEW r \in 1..m, NEW s \in 1..m, s <= r, at[r] \notin low
       PROVE  at[s] \in low \/ color[at[s]] <= color[at[r]]
  <2>1. at[r] \in 1..m /\ at[s] \in 1..m /\ rank[at[r]] = r /\ rank[at[s]] = s
        BY <1>7
  <2>2. CASE s = r
        BY <2>1, <2>2
  <2>3. CASE s < r
    <3>1. <<at[s], at[r]>> \in P
          BY <1>6, <2>1, <2>3
    <3>2. \/ at[s] \in low
          \/ color[at[s]] < color[at[r]]
          \/ color[at[s]] = color[at[r]] /\ at[s] < at[r]
          BY <1>2, <1>12, <2>1, <3>1
    <3>3. color[at[s]] \in Int /\ color[at[r]] \in Int
          BY <2>1
    <3> QED BY <3>2, <3>3
  <2> QED BY <1>12, <2>2, <2>3
<1>13. /\ \A k \in 1..m : \E r \in 1..m : at[r] = k
       /\ \A r, s \in 1..m : at[r] = at[s] => r = s
       BY <1>7
<1>14. F = [r \in 1..m |->
             Vertex(o[at[r]], IF at[r] \notin low THEN color[at[r]]
                              ELSE IF r = Cardinality(low) THEN 0 ELSE Uninitialized)]
       BY <1>5, <1>7
<1>15. Arranged(o, color, m, low, at, F)
       BY ONLY <1>7, <1>8, <1>11, <1>12, <1>13, <1>14 DEF Arranged
<1> QED BY <1>15

\* The vertices of it, one by one.
LEMMA ArrangedFacts ==
  ASSUME NEW m \in Nat, NEW o, NEW color, NEW low, NEW at, NEW F, Arranged(o, color, m, low, at, F)
  PROVE  /\ DOMAIN F = 1..m /\ F = [r \in 1..m |-> F[r]]
         /\ \A r \in 1..m : at[r] \in 1..m /\ F[r].i = o[at[r]] /\ F[r] = [i |-> F[r].i, d |-> F[r].d]
         /\ \A r \in 1..m : at[r] \notin low => F[r].d = color[at[r]]
         /\ \A r \in 1..m : at[r] \in low => F[r].d = IF r = Cardinality(low) THEN 0 ELSE -1
<1>1. F = [r \in 1..m |->
              Vertex(o[at[r]], IF at[r] \notin low THEN color[at[r]]
                               ELSE IF r = Cardinality(low) THEN 0 ELSE Uninitialized)]
      BY DEF Arranged
<1>2. DOMAIN F = 1..m
      BY <1>1
<1>3. F = [r \in 1..m |-> F[r]]
      BY <1>1
<1>4. ASSUME NEW r \in 1..m
      PROVE  /\ at[r] \in 1..m /\ F[r].i = o[at[r]] /\ F[r] = [i |-> F[r].i, d |-> F[r].d]
             /\ at[r] \notin low => F[r].d = color[at[r]]
             /\ at[r] \in low => F[r].d = IF r = Cardinality(low) THEN 0 ELSE -1
  <2>1. at[r] \in 1..m
        BY DEF Arranged
  <2>2. F[r] = [i |-> o[at[r]], d |-> IF at[r] \notin low THEN color[at[r]]
                                      ELSE IF r = Cardinality(low) THEN 0 ELSE -1]
        BY <1>1 DEF Vertex, Uninitialized
  <2>3. PICK e : e = IF at[r] \notin low THEN color[at[r]] ELSE IF r = Cardinality(low) THEN 0 ELSE -1
        OBVIOUS
  <2>4. F[r] = [i |-> o[at[r]], d |-> e]
        BY <2>2, <2>3
  <2>5. F[r].i = o[at[r]] /\ F[r].d = e
        BY <2>4
  <2>6. F[r] = [i |-> F[r].i, d |-> F[r].d]
        BY <2>4, <2>5
  <2> QED BY <2>1, <2>3, <2>5, <2>6
<1> QED BY <1>2, <1>3, <1>4

\* The colours of the vertices o.
ProperColors(o, color, m) ==
    /\ \A k \in 1..m : color[k] \in 1..k
    /\ \A j, k \in 1..m : j # k /\ color[j] = color[k] => {o[j], o[k]} \notin conn

OneToOne(o, m) == \A j, k \in 1..m : o[j] = o[k] => j = k

\* Its degrees bound the cliques of the vertices up to each.
LEMMA ArrangedBounds ==
  ASSUME NEW m \in Nat, NEW o, NEW color, NEW minK \in Int, NEW low, NEW at, NEW F, Arranged(o, color, m, low, at, F),
         low = {k \in 1..m : color[k] < minK}, OneToOne(o, m), ProperColors(o, color, m),
         NEW b \in Int, NEW L \in Int, minK = L - b + 1
  PROVE  Bounds(conn, F, b, L)
<1>1. /\ DOMAIN F = 1..m /\ F = [r \in 1..m |-> F[r]]
      /\ \A r \in 1..m : at[r] \in 1..m /\ F[r].i = o[at[r]] /\ F[r] = [i |-> F[r].i, d |-> F[r].d]
      /\ \A r \in 1..m : at[r] \notin low => F[r].d = color[at[r]]
      /\ \A r \in 1..m : at[r] \in low => F[r].d = IF r = Cardinality(low) THEN 0 ELSE -1
      BY ONLY m \in Nat, Arranged(o, color, m, low, at, F), ArrangedFacts
<1>2. /\ DOMAIN F = 1..m /\ \A r \in 1..m : at[r] \in 1..m /\ F[r].i = o[at[r]]
      /\ \A r \in 1..m : at[r] \notin low => F[r].d = color[at[r]]
      BY <1>1
<1> USE DEF OneToOne, ProperColors
<1> SUFFICES ASSUME NEW r \in 1..m, NEW S \in SUBSET Upto(F, r), CliqueOf(conn, S)
             PROVE  Cardinality(S) <= F[r].d \/ b + Cardinality(S) <= L
    BY <1>2 DEF Bounds
<1>3. PICK h : h = [v \in S |-> color[CHOOSE k \in 1..m : o[k] = v]]
      OBVIOUS
<1>4. ASSUME NEW v \in S
      PROVE  \E s \in 1..r : at[s] \in 1..m /\ o[at[s]] = v /\ h[v] = color[at[s]]
  <2>1. PICK s \in 1..r : v = F[s].i
        BY DEF Upto
  <2>2. s \in 1..m
        OBVIOUS
  <2>3. at[s] \in 1..m /\ o[at[s]] = v
        BY <1>2, <2>1, <2>2
  <2>4. (CHOOSE k \in 1..m : o[k] = v) = at[s]
        BY <2>3
  <2> QED BY <1>3, <2>3, <2>4
<1>5. \A v, w \in S : v # w /\ h[v] = h[w] => {v, w} \notin conn
  <2> TAKE v, w \in S
  <2>1. PICK j \in 1..m : o[j] = v /\ h[v] = color[j]
        BY <1>4
  <2>2. PICK k \in 1..m : o[k] = w /\ h[w] = color[k]
        BY <1>4
  <2> QED BY <2>1, <2>2
<1>6. CASE at[r] \notin low
  <2>1. PICK d \in Nat : d = color[at[r]] /\ d >= minK /\ F[r].d = d
        BY <1>2, <1>6
  <2>2. ASSUME NEW v \in S
        PROVE  h[v] \in 1..d
    <3>1. PICK s \in 1..r : at[s] \in 1..m /\ o[at[s]] = v /\ h[v] = color[at[s]]
          BY <1>4
    <3>2. at[s] \in low \/ color[at[s]] <= color[at[r]]
      <4>1. s \in 1..m /\ s <= r
            OBVIOUS
      <4>2. \A t, u \in 1..m : u <= t /\ at[t] \notin low => at[u] \in low \/ color[at[u]] <= color[at[t]]
            BY DEF Arranged
      <4> QED BY <1>6, <4>1, <4>2
    <3>3. color[at[s]] \in 1..at[s]
          BY <3>1
    <3> QED BY <2>1, <3>1, <3>2, <3>3
  <2>3. Cardinality(S) <= d
        BY ONLY <1>5, <2>2, CliqueColors, CliqueOf(conn, S), d \in Nat
  <2> QED BY <2>1, <2>3
<1>7. CASE at[r] \in low
  <2>1. PICK d \in Nat : d = minK - 1
        BY <1>2, <1>7
  <2>2. ASSUME NEW v \in S
        PROVE  h[v] \in 1..d
    <3>1. PICK s \in 1..r : at[s] \in 1..m /\ o[at[s]] = v /\ h[v] = color[at[s]]
          BY <1>4
    <3>2. at[s] \in low
      <4>1. s \in 1..m /\ s <= r
            OBVIOUS
      <4>2. \A t \in 1..m : at[t] \in low <=> t <= Cardinality(low)
            BY DEF Arranged
      <4>3. Cardinality(low) \in Int
            BY DEF Arranged
      <4> QED BY <1>7, <4>1, <4>2, <4>3
    <3>3. color[at[s]] \in 1..at[s]
          BY <3>1
    <3> QED BY <2>1, <3>1, <3>2, <3>3
  <2>3. IsFiniteSet(S) /\ Cardinality(S) <= d
        BY ONLY <1>5, <2>2, CliqueColors, CliqueOf(conn, S), d \in Nat
  <2>4. Cardinality(S) \in Nat
        BY <2>3, FS_CardinalityType
  <2> QED BY <2>1, <2>3, <2>4
<1> QED BY <1>6, <1>7

\* The p vertices of the frame F are those of o.
Lists(F, o, p) == \A v : v \in Upto(F, p) <=> \E k \in 1..p : o[k] = v

\* The frame color_sort makes for the neighbours o of a vertex.
LEMMA ColorSortFacts ==
  ASSUME NEW n \in Nat, NEW m \in Nat, m # 0, m + 1 <= n, NEW o, o \in [1..m -> 1..n],
         OneToOne(o, m), NEW b \in Nat, NEW q, Len(q) = b, NEW L \in Nat, Len(QMAX) = L, NEW F, F = ColorSort(o, q)
  PROVE  /\ FrameOK(conn, n, F, b, L)
         /\ F \in Seq(Vertices(n)) /\ Len(F) = m
         /\ Lists(F, o, m)
<1>1. PICK color : color = Colors(o)
      OBVIOUS
<1>2. PICK minK \in Int : minK = L - b + 1
      OBVIOUS
<1>3. PICK low : low = {k \in 1..m : color[k] < minK}
      OBVIOUS
<1>4. ProperColors(o, color, m)
  <2>1. DOMAIN o = 1..m
        OBVIOUS
  <2> QED BY ONLY <1>1, <2>1, m \in Nat, ColorsFacts DEF ProperColors
<1>5. PICK at : Arranged(o, color, m, low, at, F)
  <2>1. F = ColorSortBy(o, color, minK, 0)
        BY <1>1, <1>2 DEF ColorSort
  <2>2. \A k \in 1..m : color[k] \in Int
        BY <1>4 DEF ProperColors
  <2>3. DOMAIN o = 1..m
        OBVIOUS
  <2> QED BY ONLY <1>3, <2>1, <2>2, <2>3, minK \in Int, m \in Nat, ColorSortArranges
<1>6. /\ DOMAIN F = 1..m /\ F = [r \in 1..m |-> F[r]]
      /\ \A r \in 1..m : at[r] \in 1..m /\ F[r].i = o[at[r]] /\ F[r] = [i |-> F[r].i, d |-> F[r].d]
      /\ \A r \in 1..m : at[r] \notin low => F[r].d = color[at[r]]
      /\ \A r \in 1..m : at[r] \in low => F[r].d = IF r = Cardinality(low) THEN 0 ELSE -1
      BY ONLY <1>5, m \in Nat, ArrangedFacts, SMTT(30)
<1>7. \A k \in 1..m : color[k] \in 1..m /\ (k \in low => minK > 1)
      BY <1>3, <1>4 DEF ProperColors
<1>8. ASSUME NEW r \in 1..m
      PROVE  /\ F[r].d \in Int /\ F[r].i \in 1..n /\ F[r].d + 1 <= n
             /\ F[r].d = -1 => at[r] \in low /\ r # Cardinality(low)
             /\ F[r].d = 0 => at[r] \in low /\ minK > 1
  <2>1. at[r] \in 1..m /\ F[r].i = o[at[r]] /\ F[r].i \in 1..n
    <3>1. at[r] \in 1..m /\ F[r].i = o[at[r]]
          BY <1>6
    <3> QED BY <3>1
  <2>2. CASE at[r] \in low
    <3>1. F[r].d = IF r = Cardinality(low) THEN 0 ELSE -1
          BY <1>6, <2>2
    <3> QED BY <1>7, <2>1, <2>2, <3>1
  <2>3. CASE at[r] \notin low
    <3>1. F[r].d = color[at[r]] /\ color[at[r]] \in 1..m
          BY <1>6, <1>7, <2>1, <2>3
    <3> QED BY <2>1, <3>1, SMTT(30)
  <2> QED BY <2>2, <2>3
<1>9. F \in Seq(Vertices(n)) /\ Len(F) = m
  <2>1. \A r \in 1..m : F[r] \in Vertices(n)
    <3> TAKE r \in 1..m
    <3>1. F[r] = [i |-> F[r].i, d |-> F[r].d]
          BY <1>6
    <3>2. F[r].i \in 1..n /\ F[r].d \in Int
          BY <1>8
    <3> QED BY ONLY <3>1, <3>2 DEF Vertices
  <2>2. F = [r \in 1..m |-> F[r]]
        BY <1>6
  <2>3. F \in [1..m -> Vertices(n)]
        BY <2>1, <2>2
  <2> QED BY <2>3
<1>10. Distinct(F)
  <2>1. \A r, s \in 1..m : at[r] = at[s] => r = s
        BY <1>5 DEF Arranged
  <2>2. \A r, s \in 1..m : r # s => F[r].i # F[s].i
    <3> TAKE r, s \in 1..m
    <3>1. at[r] \in 1..m /\ at[s] \in 1..m /\ F[r].i = o[at[r]] /\ F[s].i = o[at[s]]
          BY <1>6
    <3> QED BY <2>1, <3>1 DEF OneToOne
  <2>3. DOMAIN F = 1..m
        BY <1>6
  <2> QED BY <2>2, <2>3 DEF Distinct
<1>11. Bounds(conn, F, b, L)
  <2>1. b \in Int /\ L \in Int
        OBVIOUS
  <2>2. OneToOne(o, m)
        OBVIOUS
  <2>3. minK \in Int /\ m \in Nat
        OBVIOUS
  <2> QED BY ONLY <1>2, <1>3, <1>4, <1>5, <2>1, <2>2, <2>3, ArrangedBounds
<1>12. Marked(F, b, L)
  <2>1. ASSUME NEW r \in 1..m, F[r].d = -1
        PROVE  \E s \in 1..m : s > r /\ F[s].d = 0
    <3>1. at[r] \in low /\ r # Cardinality(low)
          BY <1>8, <2>1
    <3>2. PICK s \in 1..m : s = Cardinality(low) /\ s > r
          BY <1>5, <3>1, SMTT(30) DEF Arranged
    <3>3. at[s] \in low
          BY <1>5, <3>2 DEF Arranged
    <3> QED BY <1>6, <3>2, <3>3
  <2>2. ASSUME NEW r \in 1..m, F[r].d = 0
        PROVE  b <= L
    <3>1. minK > 1
          BY <1>8, <2>2
    <3> QED BY <1>2, <3>1
  <2> QED BY <1>6, <2>1, <2>2 DEF Marked, Uninitialized
<1>13. \A v : v \in Upto(F, m) <=> \E k \in 1..m : o[k] = v
  <2>1. \A k \in 1..m : \E r \in 1..m : at[r] = k
        BY <1>5 DEF Arranged
  <2>2. \A r \in 1..m : at[r] \in 1..m /\ F[r].i = o[at[r]]
        BY <1>6
  <2>3. ASSUME NEW v, v \in Upto(F, m)
        PROVE  \E k \in 1..m : o[k] = v
    <3>1. PICK r \in 1..m : v = F[r].i
          BY <2>3 DEF Upto
    <3> QED BY <2>2, <3>1
  <2>4. ASSUME NEW k \in 1..m
        PROVE  o[k] \in Upto(F, m)
    <3>1. PICK r \in 1..m : at[r] = k
          BY <2>1
    <3>2. F[r].i = o[k]
          BY <2>2, <3>1
    <3> QED BY <3>2 DEF Upto
  <2> QED BY <2>3, <2>4
<1>14. F # <<>>
       BY <1>6
<1> QED BY <1>6, <1>8, <1>9, <1>10, <1>11, <1>12, <1>13, <1>14 DEF FrameOK, Lists

\* The order of set_degrees and sort: every vertex once, the highest degree first.
LEMMA DegreeSortedFacts ==
  ASSUME NEW S, IsFiniteSet(S), NEW m, m = Cardinality(S), NEW o, o \in DegreeSorted(S)
  PROVE  /\ m \in Nat /\ o \in [1..m -> S] /\ OneToOne(o, m) /\ \A v \in S : \E k \in 1..m : o[k] = v
         /\ \A k \in 1..m : Degree(S, o[1]) >= Degree(S, o[k])
<1>1. m \in Nat
      BY FS_CardinalityType
<1>2. /\ o \in [1..m -> S] /\ \A j, k \in 1..m : j # k => o[j] # o[k]
      /\ \A k \in 1..(Len(o) - 1) : Degree(S, o[k]) >= Degree(S, o[k + 1])
  <2>1. o \in [1..m -> S] /\ \A j, k \in 1..m : j # k => o[j] # o[k]
        BY DEF DegreeSorted, SetToSeqs
  <2>2. Len(o) = m
        BY <1>1, <2>1
  <2>3. ASSUME NEW k \in 1..(m - 1)
        PROVE  Degree(S, o[k]) >= Degree(S, o[k + 1])
    <3>1. o[k] \in S /\ o[k + 1] \in S
          BY <1>1, <2>1
    <3> QED BY <2>2, <3>1 DEF DegreeSorted
  <2> QED BY <2>1, <2>2, <2>3
<1>3. OneToOne(o, m)
      BY <1>2 DEF OneToOne
<1>4. \A v \in S : \E k \in 1..m : o[k] = v
  <2>1. o \in Injection(1..m, S)
        BY <1>2 DEF Injection, IsInjective
  <2>2. Cardinality(1..m) = m
        BY <1>1, FS_Interval
  <2>3. o \in Surjection(1..m, S)
        BY <2>1, <2>2, FS_Injection
  <2> QED BY <2>3 DEF Surjection
<1>5. \A v : Degree(S, v) \in Nat
  <2> TAKE v
  <2>1. IsFiniteSet({w \in S : Connection(v, w)})
        BY FS_Subset
  <2> QED BY <2>1, FS_CardinalityType DEF Degree
<1>6. ASSUME NEW k \in Nat
      PROVE  k \in 1..m => Degree(S, o[1]) >= Degree(S, o[k])
  <2> DEFINE T == {j \in Nat : j \in 1..m => Degree(S, o[1]) >= Degree(S, o[j])}
  <2>1. 0 \in T
        OBVIOUS
  <2>2. ASSUME NEW j \in Nat, j \in T
        PROVE  j + 1 \in T
    <3>1. CASE j = 0
          BY <1>5, <3>1
    <3>2. CASE j # 0 /\ j + 1 \in 1..m
      <4>1. j \in 1..m /\ j \in 1..(Len(o) - 1)
            BY <1>1, <1>2, <3>2
      <4>2. Degree(S, o[1]) >= Degree(S, o[j]) /\ Degree(S, o[j]) >= Degree(S, o[j + 1])
            BY <1>2, <2>2, <4>1
      <4>3. Degree(S, o[1]) >= Degree(S, o[j + 1])
            BY <1>5, <4>2
      <4> QED BY <4>3
    <3>3. CASE j + 1 \notin 1..m
          BY <3>3
    <3> QED BY <3>1, <3>2, <3>3
  <2> HIDE DEF T
  <2>3. k \in T
        BY <2>1, <2>2, NatClosure
  <2> QED BY <2>3 DEF T
<1> QED BY <1>1, <1>2, <1>3, <1>4, <1>6

\* init_colors: the first frame holds all vertices.
LEMMA InitColorsFacts ==
  ASSUME NEW n \in Nat, n = size, NEW o, o \in DegreeSorted(1..n), NEW F, F = InitColors(o), NEW L \in Nat
  PROVE  /\ FrameOK(conn, n, F, 0, L)
         /\ F \in Seq(Vertices(n)) /\ Len(F) = n /\ \A v \in 1..n : v \in Upto(F, n)
<1>1. IsFiniteSet(1..n) /\ Cardinality(1..n) = n
      BY FS_Interval
<1>2. /\ o \in [1..n -> 1..n] /\ OneToOne(o, n) /\ \A v \in 1..n : \E k \in 1..n : o[k] = v
      /\ \A k \in 1..n : Degree(1..n, o[1]) >= Degree(1..n, o[k])
  <2>1. PICK S : S = 1..n
        OBVIOUS
  <2>2. IsFiniteSet(S) /\ n = Cardinality(S) /\ o \in DegreeSorted(S)
        BY <1>1, <2>1
  <2>3. /\ o \in [1..n -> S] /\ OneToOne(o, n) /\ \A v \in S : \E k \in 1..n : o[k] = v
        /\ \A k \in 1..n : Degree(S, o[1]) >= Degree(S, o[k])
        BY ONLY <2>2, DegreeSortedFacts
  <2> QED BY <2>1, <2>3
<1>3. PICK max : max = Degree(1..n, o[1])
      OBVIOUS
<1>4. ASSUME NEW v
      PROVE  IsFiniteSet({w \in 1..n : Connection(v, w)}) /\ Degree(1..n, v) \in Nat
  <2>1. IsFiniteSet({w \in 1..n : Connection(v, w)})
        BY <1>1, FS_Subset
  <2> QED BY <2>1, FS_CardinalityType DEF Degree
<1>5. max \in Nat /\ \A v \in 1..n : Degree(1..n, v) <= max
      BY <1>2, <1>3, <1>4
<1>6. F = [k \in 1..n |-> Vertex(o[k], IF k <= max THEN k ELSE max + 1)]
      BY <1>2, <1>3 DEF InitColors
<1>7. /\ DOMAIN F = 1..n
      /\ \A r \in 1..n : F[r].i = o[r] /\ F[r].d = (IF r <= max THEN r ELSE max + 1) /\ F[r] \in Vertices(n)
  <2>1. ASSUME NEW r \in 1..n
        PROVE  F[r].i = o[r] /\ F[r].d = (IF r <= max THEN r ELSE max + 1) /\ F[r] \in Vertices(n)
    <3>1. PICK d \in Int : d = IF r <= max THEN r ELSE max + 1
          BY <1>5
    <3>2. F[r] = [i |-> o[r], d |-> d]
          BY <1>6, <3>1 DEF Vertex
    <3>3. o[r] \in 1..n
          BY <1>2
    <3> QED BY <3>1, <3>2, <3>3 DEF Vertices
  <2> QED BY <1>6, <2>1
<1>8. F \in Seq(Vertices(n)) /\ Len(F) = n
  <2>1. F \in [1..n -> Vertices(n)]
        BY <1>6, <1>7
  <2> QED BY <2>1
<1>9. Distinct(F)
  <2>1. \A r, s \in 1..n : r # s => o[r] # o[s]
        BY <1>2 DEF OneToOne
  <2> QED BY <1>7, <2>1 DEF Distinct
<1>10. ASSUME NEW r \in 1..n, NEW S \in SUBSET Upto(F, r), CliqueOf(conn, S)
       PROVE  Cardinality(S) <= F[r].d
  <2>1. S \subseteq 1..n
    <3>1. ASSUME NEW v \in S PROVE v \in 1..n
      <4>1. PICK s \in 1..r : v = F[s].i
            BY DEF Upto
      <4>2. s \in 1..n
            OBVIOUS
      <4> QED BY <1>2, <1>7, <4>1, <4>2
    <3> QED BY <3>1
  <2>2. IsFiniteSet(S) /\ Cardinality(S) \in Nat
        BY <1>1, <2>1, FS_Subset, FS_CardinalityType
  <2>3. Cardinality(S) <= r
    <3> DEFINE g == [s \in 1..r |-> F[s].i]
    <3>1. g \in Surjection(1..r, Upto(F, r))
          BY DEF Surjection, Upto
    <3>2. IsFiniteSet(1..r) /\ Cardinality(1..r) = r
          BY FS_Interval
    <3> HIDE DEF g
    <3>3. IsFiniteSet(Upto(F, r)) /\ Cardinality(Upto(F, r)) <= r
          BY <3>1, <3>2, FS_Surjection
    <3>4. Cardinality(S) <= Cardinality(Upto(F, r)) /\ Cardinality(Upto(F, r)) \in Nat
          BY <3>3, FS_Subset, FS_CardinalityType
    <3> QED BY <2>2, <3>3, <3>4
  <2>4. Cardinality(S) <= max + 1
    <3>1. CASE S = {}
          BY <1>5, <3>1, FS_EmptySet
    <3>2. CASE S # {}
      <4>1. PICK v \in S : TRUE
            BY <3>2
      <4>2. S \ {v} \subseteq {w \in 1..n : Connection(v, w)}
            BY <1>10, <2>1 DEF CliqueOf, Connection
      <4>3. Cardinality(S \ {v}) = Cardinality(S) - 1
            BY <2>2, FS_RemoveElement
      <4>4. Cardinality(S \ {v}) <= Cardinality({w \in 1..n : Connection(v, w)})
            BY <1>4, <4>2, FS_Subset
      <4>5. Cardinality(S \ {v}) <= Degree(1..n, v)
            BY <4>4 DEF Degree
      <4>6. Degree(1..n, v) <= max /\ Degree(1..n, v) \in Nat
            BY <1>4, <1>5, <2>1
      <4> QED BY <1>5, <2>2, <4>3, <4>5, <4>6
    <3> QED BY <3>1, <3>2
  <2>5. F[r].d = IF r <= max THEN r ELSE max + 1
        BY <1>7
  <2> QED BY <1>5, <2>2, <2>3, <2>4, <2>5
<1>11. Bounds(conn, F, 0, L)
       BY <1>7, <1>10 DEF Bounds
<1>12. \A r \in 1..n : F[r].d > 0 /\ F[r].d \in Int
  <2> TAKE r \in 1..n
  <2>1. F[r].d = IF r <= max THEN r ELSE max + 1
        BY <1>7
  <2> QED BY <1>5, <2>1
<1>13. Marked(F, 0, L)
       BY <1>7, <1>12 DEF Marked, Uninitialized
<1>14. \A v \in 1..n : v \in Upto(F, n)
  <2> TAKE v \in 1..n
  <2>1. PICK k \in 1..n : o[k] = v
        BY <1>2
  <2>2. F[k].i = v
        BY <1>7, <2>1
  <2> QED BY <2>2 DEF Upto
<1>15. FrameOK(conn, n, F, 0, L)
       BY <1>8, <1>9, <1>11, <1>13 DEF FrameOK
<1> QED BY <1>8, <1>14, <1>15

\* A frame lists no vertex twice, so that it has at most n.
LEMMA FrameLength ==
  ASSUME NEW n \in Nat, NEW F \in Seq(Vertices(n)), Distinct(F)
  PROVE  Len(F) \in Nat /\ Len(F) <= n /\ \A r \in 1..Len(F) : F[r].i \in 1..n /\ F[r].d \in Int
<1>1. Len(F) \in Nat /\ DOMAIN F = 1..Len(F) /\ \A r \in 1..Len(F) : F[r] \in Vertices(n)
      OBVIOUS
<1>2. \A r \in 1..Len(F) : F[r].i \in 1..n /\ F[r].d \in Int
  <2> TAKE r \in 1..Len(F)
  <2>1. F[r] \in [i : 1..n, d : Int]
        BY <1>1 DEF Vertices
  <2> QED BY <2>1
<1> DEFINE g == [r \in 1..Len(F) |-> F[r].i]
<1>3. \A r, s \in 1..Len(F) : g[r] = g[s] => r = s
      BY <1>1 DEF Distinct
<1>4. g \in [1..Len(F) -> 1..n]
      BY <1>2
<1>5. g \in Injection(1..Len(F), 1..n)
      BY <1>3, <1>4 DEF Injection, IsInjective
<1> HIDE DEF g
<1>6. IsFiniteSet(1..n) /\ Cardinality(1..n) = n /\ Cardinality(1..Len(F)) = Len(F)
  <2>1. \A k \in Nat : IsFiniteSet(1..k) /\ Cardinality(1..k) = k
        BY FS_Interval
  <2> QED BY <1>1, <2>1
<1>7. Len(F) <= n
      BY <1>5, <1>6, FS_Injection
<1> QED BY <1>1, <1>2, <1>7

\* C lists the p vertices before the last of F that are connected to it.
Neighbours(n, F, C, p) ==
    /\ p \in Nat /\ p + 1 <= n /\ C \in [1..p -> 1..n] /\ OneToOne(C, p)
    /\ p = 0 <=> C = <<>>
    /\ \A v : (\E k \in 1..p : C[k] = v) <=> v \in Upto(F, Len(F) - 1) /\ {F[Len(F)].i, v} \in conn

\* cut2: the earlier vertices of the frame that the last one is connected to.
LEMMA Cut2Facts ==
  ASSUME NEW n \in Nat, NEW F \in Seq(Vertices(n)), Distinct(F), F # <<>>, NEW C, C = Cut2(F)
  PROVE  \E p : Neighbours(n, F, C, p)
<1>1. PICK m \in Nat : m = Len(F)
      OBVIOUS
<1>2. m # 0 /\ m <= n /\ DOMAIN F = 1..m /\ \A r \in 1..m : F[r].i \in 1..n
  <2>1. m <= n /\ \A r \in 1..m : F[r].i \in 1..n
        BY <1>1, FrameLength
  <2> QED BY <1>1, <2>1
<1>3. PICK cut : cut = {k \in 1..(m - 1) : {F[m].i, F[k].i} \in conn}
      OBVIOUS
<1>4. IsFiniteSet(cut) /\ Cardinality(cut) \in Nat /\ Cardinality(cut) <= m - 1
  <2>1. IsFiniteSet(1..(m - 1)) /\ Cardinality(1..(m - 1)) = m - 1
        BY <1>2, FS_Interval
  <2>2. IsFiniteSet(cut) /\ Cardinality(cut) <= m - 1
        BY <1>3, <2>1, FS_Subset
  <2> QED BY <2>2, FS_CardinalityType
<1>5. PICK p \in Nat : p = Cardinality(cut)
      BY <1>4
<1>6. PICK rank : rank = [k \in cut |-> 1 + Cardinality({j \in cut : j < k})]
      OBVIOUS
<1>7. PICK at : at = ByRank(cut, rank)
      OBVIOUS
<1>8. C = [r \in DOMAIN at |-> F[at[r]].i]
      BY <1>1, <1>3, <1>6, <1>7 DEF Cut2, End, Connection
<1>9. PICK P : P = {e \in cut \X cut : e[1] < e[2]}
      OBVIOUS
<1>10. StrictOrder(P, cut)
  <2>1. \A x, y \in cut : <<x, y>> \in P <=> x < y
        BY <1>9
  <2>2. \A x \in cut : x \in Int
        BY <1>3
  <2> QED BY <2>1, <2>2 DEF StrictOrder
<1>11. \A x \in cut : rank[x] = 1 + Cardinality(Preceding(P, cut, x))
  <2> TAKE x \in cut
  <2>1. Preceding(P, cut, x) = {j \in cut : j < x}
        BY <1>9 DEF Preceding
  <2> QED BY <1>6, <2>1
<1>12. Ranks(cut, rank)
       BY ONLY <1>4, <1>10, <1>11, OrderRanks
<1>13. /\ at \in [1..p -> cut] /\ DOMAIN at = 1..p
       /\ \A r \in 1..p : rank[at[r]] = r
       /\ \A x \in cut : rank[x] \in 1..p /\ at[rank[x]] = x
       BY ONLY <1>4, <1>5, <1>7, <1>12, ByRankFacts
<1>14. C = [r \in 1..p |-> F[at[r]].i] /\ \A r \in 1..p : at[r] \in 1..(m - 1) /\ at[r] \in cut
       BY <1>3, <1>8, <1>13
<1>15. C \in [1..p -> 1..n]
  <2>1. \A r \in 1..p : F[at[r]].i \in 1..n
        BY <1>2, <1>14
  <2> QED BY <1>14, <2>1
<1>16. OneToOne(C, p)
  <2>1. \A r, s \in 1..p : C[r] = C[s] => at[r] = at[s]
        BY <1>2, <1>14 DEF Distinct
  <2> QED BY <1>13, <2>1 DEF OneToOne
<1>17. p = 0 <=> C = <<>>
       BY <1>14
<1>18. ASSUME NEW v
       PROVE  (\E k \in 1..p : C[k] = v) <=> v \in Upto(F, m - 1) /\ {F[m].i, v} \in conn
  <2>1. ASSUME NEW k \in 1..p, C[k] = v
        PROVE  v \in Upto(F, m - 1) /\ {F[m].i, v} \in conn
        BY <1>3, <1>14, <2>1 DEF Upto
  <2>2. ASSUME v \in Upto(F, m - 1), {F[m].i, v} \in conn
        PROVE  \E k \in 1..p : C[k] = v
    <3>1. PICK s \in 1..(m - 1) : F[s].i = v
          BY <2>2 DEF Upto
    <3>2. s \in cut
          BY <1>3, <2>2, <3>1
    <3>3. rank[s] \in 1..p /\ at[rank[s]] = s
          BY <1>13, <3>2
    <3> QED BY <1>14, <3>1, <3>3
  <2> QED BY <2>1, <2>2
<1>19. p + 1 <= n
       BY <1>2, <1>4, <1>5
<1>20. Neighbours(n, F, C, p)
       BY ONLY <1>1, <1>15, <1>16, <1>17, <1>18, <1>19, p \in Nat DEF Neighbours
<1> QED BY <1>20

-----------------------------------------------------------------------------
(***************************************************************************)
(* The steps of expand_dyn.                                                *)
(***************************************************************************)
\* Sets of vertices are finite.
LEMMA UptoFinite ==
  ASSUME NEW F, NEW r \in Nat
  PROVE  IsFiniteSet(Upto(F, r)) /\ Cardinality(Upto(F, r)) <= r /\ Cardinality(Upto(F, r)) \in Nat
         /\ \A S \in SUBSET Upto(F, r) : IsFiniteSet(S) /\ Cardinality(S) \in Nat
<1> DEFINE g == [s \in 1..r |-> F[s].i]
<1>1. g \in Surjection(1..r, Upto(F, r))
      BY DEF Surjection, Upto
<1>2. IsFiniteSet(1..r) /\ Cardinality(1..r) = r
      BY FS_Interval
<1> HIDE DEF g
<1>3. IsFiniteSet(Upto(F, r)) /\ Cardinality(Upto(F, r)) <= r
      BY <1>1, <1>2, FS_Surjection
<1>4. \A S \in SUBSET Upto(F, r) : IsFiniteSet(S) /\ Cardinality(S) \in Nat
      BY <1>3, FS_Subset, FS_CardinalityType
<1> QED BY <1>3, <1>4, FS_CardinalityType

\* The clique of length b has b vertices at most.
LEMMA PathFinite ==
  ASSUME NEW q, NEW b \in Nat
  PROVE  IsFiniteSet(Path(q, b)) /\ Cardinality(Path(q, b)) <= b /\ Cardinality(Path(q, b)) \in Nat
<1> DEFINE g == [s \in 1..b |-> q[s]]
<1>1. g \in Surjection(1..b, Path(q, b))
      BY DEF Surjection, Path
<1>2. IsFiniteSet(1..b) /\ Cardinality(1..b) = b
      BY FS_Interval
<1> HIDE DEF g
<1>3. IsFiniteSet(Path(q, b)) /\ Cardinality(Path(q, b)) <= b
      BY <1>1, <1>2, FS_Surjection
<1> QED BY <1>3, FS_CardinalityType

\* A frame stays one when the best clique grows.
LEMMA LaterFrame ==
  ASSUME NEW c, NEW n \in Nat, NEW F, NEW b \in Nat, NEW L \in Nat, NEW M \in Nat, L <= M, FrameOK(c, n, F, b, L)
  PROVE  FrameOK(c, n, F, b, M)
<1>1. F \in Seq(Vertices(n)) /\ DOMAIN F = 1..Len(F) /\ Len(F) \in Nat
      BY DEF FrameOK
<1>2. Bounds(c, F, b, M)
  <2> SUFFICES ASSUME NEW r \in DOMAIN F, NEW S \in SUBSET Upto(F, r), CliqueOf(c, S)
               PROVE  Cardinality(S) <= F[r].d \/ b + Cardinality(S) <= M
      BY DEF Bounds
  <2>1. Cardinality(S) <= F[r].d \/ b + Cardinality(S) <= L
        BY DEF FrameOK, Bounds
  <2>2. Cardinality(S) \in Nat
    <3>1. r \in Nat
          BY <1>1
    <3> QED BY <3>1, UptoFinite
  <2> QED BY <2>1, <2>2
<1>3. Marked(F, b, M)
  <2>1. Marked(F, b, L)
        BY DEF FrameOK
  <2> QED BY <2>1 DEF Marked
<1> QED BY <1>2, <1>3 DEF FrameOK

\* G is F without its last vertex.
Popped(n, F, G) ==
    /\ G \in Seq(Vertices(n)) /\ Len(G) = Len(F) - 1 /\ DOMAIN G = 1..(Len(F) - 1)
    /\ \A r \in 1..(Len(F) - 1) : G[r] = F[r]
    /\ Upto(G, Len(F) - 1) = Upto(F, Len(F) - 1)

\* ... and when its last vertex has been tried.
LEMMA PopFrame ==
  ASSUME NEW c, NEW n \in Nat, NEW F, NEW b \in Nat, NEW L \in Nat, FrameOK(c, n, F, b, L),
         F # <<>>, F[Len(F)].d # 0, Len(F) = 1 => b <= L, NEW G, G = Pop(F)
  PROVE  FrameOK(c, n, G, b, L) /\ Popped(n, F, G)
<1>1. PICK m \in Nat : m = Len(F) /\ m # 0 /\ F \in Seq(Vertices(n)) /\ DOMAIN F = 1..m
      BY DEF FrameOK
<1>2. /\ G \in Seq(Vertices(n)) /\ Len(G) = m - 1 /\ DOMAIN G = 1..(m - 1)
      /\ \A r \in 1..(m - 1) : G[r] = F[r]
      BY <1>1 DEF Pop
<1>3. \A r \in 1..(m - 1) : Upto(G, r) = Upto(F, r)
  <2> TAKE r \in 1..(m - 1)
  <2>1. \A s \in 1..r : G[s] = F[s]
        BY <1>2
  <2> QED BY <2>1 DEF Upto
<1>4. Upto(G, m - 1) = Upto(F, m - 1)
      BY <1>2 DEF Upto
<1>5. Distinct(G)
  <2>1. Distinct(F)
        BY DEF FrameOK
  <2>2. \A r, s \in 1..(m - 1) : r # s => G[r].i # G[s].i
    <3> TAKE r, s \in 1..(m - 1)
    <3>1. r \in DOMAIN F /\ s \in DOMAIN F /\ G[r] = F[r] /\ G[s] = F[s]
          BY <1>1, <1>2
    <3> QED BY <2>1, <3>1 DEF Distinct
  <2> QED BY <1>2, <2>2 DEF Distinct
<1>6. Bounds(c, G, b, L)
  <2>1. Bounds(c, F, b, L)
        BY DEF FrameOK
  <2> SUFFICES ASSUME NEW r \in 1..(m - 1), NEW S \in SUBSET Upto(F, r), CliqueOf(c, S)
               PROVE  Cardinality(S) <= G[r].d \/ b + Cardinality(S) <= L
      BY <1>2, <1>3 DEF Bounds
  <2>2. G[r] = F[r] /\ r \in DOMAIN F
        BY <1>1, <1>2
  <2>3. Cardinality(S) <= F[r].d \/ b + Cardinality(S) <= L
        BY <2>1, <2>2 DEF Bounds
  <2> QED BY <2>2, <2>3
<1>7. Marked(G, b, L)
  <2>1. Marked(F, b, L)
        BY DEF FrameOK
  <2>2. ASSUME NEW r \in 1..(m - 1), F[r].d = Uninitialized
        PROVE  \E s \in 1..(m - 1) : s > r /\ F[s].d = 0
    <3>1. PICK s \in 1..m : s > r /\ F[s].d = 0
          BY <1>1, <2>1, <2>2 DEF Marked
    <3>2. s # m
          BY <1>1, <3>1
    <3> QED BY <3>1, <3>2
  <2>3. ASSUME NEW r \in 1..(m - 1), F[r].d = 0
        PROVE  b <= L
        BY <1>1, <2>1, <2>3 DEF Marked
  <2>4. ASSUME NEW r \in DOMAIN G, G[r].d = Uninitialized
        PROVE  \E s \in DOMAIN G : s > r /\ G[s].d = 0
    <3>1. PICK s \in 1..(m - 1) : s > r /\ F[s].d = 0
          BY <1>2, <2>2, <2>4
    <3> QED BY <1>2, <3>1
  <2>5. ASSUME NEW r \in DOMAIN G, G[r].d = 0
        PROVE  b <= L
        BY <1>2, <2>3, <2>5
  <2> QED BY <2>4, <2>5 DEF Marked
<1>8. ASSUME b > 0, NEW r \in DOMAIN G
      PROVE  G[r].d + 1 <= n
  <2>1. r \in DOMAIN F /\ G[r] = F[r]
        BY <1>1, <1>2
  <2>2. F[r].d + 1 <= n
        BY <1>8, <2>1 DEF FrameOK
  <2> QED BY <2>1, <2>2
<1>9. G = <<>> => b <= L
      BY <1>1, <1>2
<1>10. FrameOK(c, n, G, b, L)
       BY <1>2, <1>5, <1>6, <1>7, <1>8, <1>9 DEF FrameOK
<1>11. Popped(n, F, G)
       BY <1>1, <1>2, <1>4 DEF Popped
<1> QED BY <1>10, <1>11

\* A sequence without its last element.
LEMMA PopFacts ==
  ASSUME NEW T, NEW s \in Seq(T), NEW m \in Nat, m = Len(s), m # 0, NEW t, t = Pop(s)
  PROVE  t \in Seq(T) /\ Len(t) = m - 1 /\ DOMAIN t = 1..(m - 1) /\ \A k \in 1..(m - 1) : t[k] = s[k]
BY DEF Pop

\* A sequence with one more.
LEMMA PushFacts ==
  ASSUME NEW T, NEW s \in Seq(T), NEW m \in Nat, m = Len(s), NEW x \in T, NEW t, t = Append(s, x)
  PROVE  /\ t \in Seq(T) /\ Len(t) = m + 1 /\ DOMAIN t = 1..(m + 1)
         /\ t[m + 1] = x /\ \A k \in 1..m : t[k] = s[k]
OBVIOUS

\* t is s, of length m, with x in place of its last element.
LastIs(T, s, t, m, x) ==
    /\ t \in Seq(T) /\ Len(t) = m /\ DOMAIN t = 1..m
    /\ t[m] = x /\ \A k \in 1..(m - 1) : t[k] = s[k]

\* Popping the last element and pushing x replaces it by x.
LEMMA ReplaceLast ==
  ASSUME NEW T, NEW s \in Seq(T), NEW m \in Nat, m = Len(s), m # 0, NEW x \in T, NEW t, t = Append(Pop(s), x)
  PROVE  LastIs(T, s, t, m, x)
<1>1. PICK u : u = Pop(s)
      OBVIOUS
<1>2. PICK j \in Nat : j = m - 1
      OBVIOUS
<1>3. u \in Seq(T) /\ Len(u) = j /\ \A k \in 1..j : u[k] = s[k]
      BY <1>1, <1>2, PopFacts
<1>4. /\ t \in Seq(T) /\ Len(t) = j + 1 /\ DOMAIN t = 1..(j + 1)
      /\ t[j + 1] = x /\ \A k \in 1..j : t[k] = u[k]
      BY <1>1, <1>3, PushFacts
<1> QED BY <1>2, <1>3, <1>4 DEF LastIs

\* What the invariant says of the stack, and of the frame above the clique of
\* length b.
LEMMA StackedFacts ==
  ASSUME NEW c, NEW n, NEW q, NEW L, NEW st, Stacked(c, n, q, L, st)
  PROVE  /\ Len(st) \in Nat /\ DOMAIN st = 1..Len(st) /\ st \in Seq(Frames(n)) /\ q \in Seq(1..n)
         /\ Len(st) # 0 => Len(q) + 1 = Len(st)
<1>1. st \in Seq(Frames(n)) /\ q \in Seq(1..n) /\ Len(q) = IF st = <<>> THEN 0 ELSE Len(st) - 1
      BY DEF Stacked
<1> QED BY <1>1

\* What holds of the frame above a clique of length b.
LEMMA StackedAt ==
  ASSUME NEW c, NEW n, NEW q, NEW L, NEW st, Stacked(c, n, q, L, st), NEW b \in Nat, b + 1 <= Len(st)
  PROVE  /\ FrameOK(c, n, st[b + 1], b, L) /\ Extends(c, q, st[b + 1], b)
         /\ b + 1 # Len(st) => Waits(q, st[b + 1], b + 1)
<1>1. Len(st) \in Nat /\ DOMAIN st = 1..Len(st)
      BY StackedFacts
<1>2. PICK k : k = b + 1 /\ k - 1 = b /\ k \in DOMAIN st
      BY <1>1
<1>3. FrameOK(c, n, st[k], k - 1, L) /\ Extends(c, q, st[k], k - 1)
      BY <1>2 DEF Stacked
<1>4. ASSUME k # Len(st)
      PROVE  Waits(q, st[k], k)
  <2>1. k \in 1..(Len(st) - 1)
    <3>1. PICK m \in Nat : m = Len(st)
          BY <1>1
    <3> QED BY <1>2, <1>4, <3>1
  <2> QED BY <2>1 DEF Stacked
<1> QED BY <1>2, <1>3, <1>4

\* Conversely.
LEMMA StackedBy ==
  ASSUME NEW c, NEW n, NEW q, NEW L, NEW st, st \in Seq(Frames(n)), q \in Seq(1..n), Len(q) + 1 = Len(st),
         \A b \in Nat : b + 1 <= Len(st) =>
             /\ FrameOK(c, n, st[b + 1], b, L) /\ Extends(c, q, st[b + 1], b)
             /\ b + 1 # Len(st) => Waits(q, st[b + 1], b + 1)
  PROVE  Stacked(c, n, q, L, st)
<1>1. Len(st) \in Nat /\ DOMAIN st = 1..Len(st) /\ Len(q) \in Nat
      OBVIOUS
<1>2. ASSUME NEW k \in 1..Len(st)
      PROVE  /\ FrameOK(c, n, st[k], k - 1, L) /\ Extends(c, q, st[k], k - 1)
             /\ k # Len(st) => Waits(q, st[k], k)
  <2>1. PICK b \in Nat : b = k - 1 /\ k = b + 1 /\ b + 1 <= Len(st)
        BY <1>1
  <2> QED BY <2>1
<1>3. \A k \in DOMAIN st : FrameOK(c, n, st[k], k - 1, L) /\ Extends(c, q, st[k], k - 1)
      BY <1>1, <1>2
<1>4. \A k \in 1..(Len(st) - 1) : Waits(q, st[k], k)
  <2> TAKE k \in 1..(Len(st) - 1)
  <2>1. k \in 1..Len(st) /\ k # Len(st)
        BY <1>1
  <2> QED BY <1>2, <2>1
<1>5. Len(q) = IF st = <<>> THEN 0 ELSE Len(st) - 1
      BY <1>1
<1> QED BY <1>3, <1>4, <1>5 DEF Stacked

\* What the clique begins with is the same for both sequences.
LEMMA SamePath ==
  ASSUME NEW c, NEW q, NEW q2, NEW b \in Nat, \A j \in 1..b : q2[j] = q[j]
  PROVE  /\ Path(q2, b) = Path(q, b)
         /\ \A F : Extends(c, q, F, b) => Extends(c, q2, F, b)
         /\ \A F : \A k \in 1..b : Waits(q, F, k) => Waits(q2, F, k)
BY DEF Path, Extends, Waits

\* The last vertex of a frame or an earlier one.
LEMMA UptoLast ==
  ASSUME NEW F, NEW m \in Nat \ {0}
  PROVE  Upto(F, m) = Upto(F, m - 1) \cup {F[m].i}
BY DEF Upto

\* Descend keeps the frames.
LEMMA DescendStacked ==
  ASSUME NEW c, NEW n \in Nat, NEW q, NEW L \in Nat, NEW st, Stacked(c, n, q, L, st),
         NEW b \in Nat, b + 1 = Len(st), NEW F, F = st[b + 1], NEW m \in Nat, m = Len(F), m > 1, F[m].d # 0,
         NEW v, v = F[m].i, NEW G, FrameOK(c, n, G, b + 1, L),
         \A w : w \in Upto(G, Len(G)) <=> w \in Upto(F, m - 1) /\ {v, w} \in c,
         NEW q2, q2 = Append(q, v), NEW st2, st2 = Append(st, G)
  PROVE  Stacked(c, n, q2, L, st2)
<1>1. st \in Seq(Frames(n)) /\ q \in Seq(1..n) /\ Len(q) = b /\ Len(st) \in Nat
      BY StackedFacts
<1>2. FrameOK(c, n, F, b, L) /\ Extends(c, q, F, b)
  <2>1. b + 1 <= Len(st)
        BY <1>1
  <2>2. FrameOK(c, n, st[b + 1], b, L) /\ Extends(c, q, st[b + 1], b)
        BY ONLY <2>1, Stacked(c, n, q, L, st), b \in Nat, StackedAt
  <2> QED BY <2>2
<1>3. F \in Seq(Vertices(n)) /\ Distinct(F) /\ DOMAIN F = 1..m
      BY <1>2 DEF FrameOK
<1>4. v \in 1..n
  <2>1. \A r \in 1..Len(F) : F[r].i \in 1..n
        BY <1>3, FrameLength
  <2> QED BY <2>1
<1>5. q2 \in Seq(1..n) /\ Len(q2) = b + 1 /\ q2[b + 1] = v /\ \A j \in 1..b : q2[j] = q[j]
  <2>1. PICK T : T = 1..n
        OBVIOUS
  <2>2. q2 \in Seq(T) /\ Len(q2) = b + 1 /\ q2[b + 1] = v /\ \A j \in 1..b : q2[j] = q[j]
        BY <1>1, <1>4, <2>1, PushFacts
  <2> QED BY <2>1, <2>2
<1>6. G \in Seq(Vertices(n)) /\ DOMAIN G = 1..Len(G) /\ Len(G) \in Nat
      BY DEF FrameOK
<1>7. /\ st2 \in Seq(Frames(n)) /\ Len(st2) = b + 1 + 1 /\ st2[b + 1 + 1] = G
      /\ \A k \in 1..(b + 1) : st2[k] = st[k]
  <2>1. G \in Frames(n)
        BY <1>6 DEF Frames
  <2>2. b + 1 \in Nat
        OBVIOUS
  <2> QED BY ONLY <1>1, <2>1, <2>2, b + 1 = Len(st), st2 = Append(st, G), PushFacts
<1>8. Extends(c, q2, G, b + 1)
  <2> SUFFICES ASSUME NEW j \in 1..(b + 1), NEW r \in DOMAIN G
               PROVE  {q2[j], G[r].i} \in c /\ q2[j] # G[r].i
      BY DEF Extends
  <2>1. G[r].i \in Upto(G, Len(G))
        BY <1>6 DEF Upto
  <2>2. PICK s \in 1..(m - 1) : G[r].i = F[s].i
        BY <2>1 DEF Upto
  <2>3. {v, G[r].i} \in c
        BY <2>1
  <2>4. s \in DOMAIN F /\ m \in DOMAIN F /\ s # m
        BY <1>3
  <2>5. CASE j = b + 1
    <3>1. F[s].i # F[m].i
          BY <1>3, <2>4 DEF Distinct
    <3> QED BY <1>5, <2>2, <2>3, <2>5, <3>1
  <2>6. CASE j # b + 1
    <3>1. j \in 1..b /\ q2[j] = q[j]
          BY <1>5, <2>6
    <3>2. {q[j], F[s].i} \in c /\ q[j] # F[s].i
          BY <1>2, <2>4, <3>1 DEF Extends
    <3> QED BY <2>2, <3>1, <3>2
  <2> QED BY <2>5, <2>6
<1>9. ASSUME NEW a \in Nat, a + 1 <= Len(st2)
      PROVE  /\ FrameOK(c, n, st2[a + 1], a, L) /\ Extends(c, q2, st2[a + 1], a)
             /\ a + 1 # Len(st2) => Waits(q2, st2[a + 1], a + 1)
  <2>1. CASE a = b + 1
        BY <1>7, <1>8, <2>1
  <2>2. CASE a = b
    <3>1. st2[a + 1] = F
          BY <1>7, <2>2
    <3>2. Waits(q2, F, b + 1)
          BY <1>5 DEF Waits
    <3>3. Extends(c, q2, F, b)
          BY <1>2, <1>5, SamePath
    <3> QED BY <1>2, <2>2, <3>1, <3>2, <3>3
  <2>3. CASE a < b
    <3>1. st2[a + 1] = st[a + 1] /\ a + 1 <= Len(st) /\ a + 1 # Len(st)
          BY <1>7, <2>3
    <3>2. FrameOK(c, n, st[a + 1], a, L) /\ Extends(c, q, st[a + 1], a) /\ Waits(q, st[a + 1], a + 1)
          BY <3>1, StackedAt
    <3>3. Extends(c, q2, st[a + 1], a)
      <4>1. \A j \in 1..a : q2[j] = q[j]
            BY <1>5, <2>3
      <4> QED BY <3>2, <4>1, SamePath
    <3>4. q2[a + 1] = q[a + 1]
          BY <1>5, <2>3
    <3>5. Waits(q2, st[a + 1], a + 1)
          BY <3>2, <3>4 DEF Waits
    <3> QED BY <3>1, <3>2, <3>3, <3>5
  <2> QED BY <1>7, <1>9, <2>1, <2>2, <2>3
<1>10. Len(q2) + 1 = Len(st2)
       BY <1>5, <1>7
<1> QED BY ONLY <1>5, <1>7, <1>9, <1>10, StackedBy

\* st2 is st with the last vertex of its last frame F taken away.
Shortened(st, st2, b, F) ==
    /\ Len(st2) = b + 1 /\ DOMAIN st2 = 1..(b + 1) /\ \A k \in 1..b : st2[k] = st[k]
    /\ Len(st2[b + 1]) = Len(F) - 1 /\ Upto(st2[b + 1], Len(F) - 1) = Upto(F, Len(F) - 1)

PopTop(st, F) == Append(Pop(st), Pop(F))

\* The last vertex of F may go: it is not marked, and not the last to keep F going.
Tried(F, b, M) == F # <<>> /\ F[Len(F)].d # 0 /\ (b <= M \/ Len(F) > 1)

\* A leaf keeps them, with its frame one vertex shorter.
LEMMA LeafStacked ==
  ASSUME NEW c, NEW n \in Nat, NEW q, NEW L \in Nat, NEW M \in Nat, L <= M, NEW st, Stacked(c, n, q, L, st),
         NEW b \in Nat, b + 1 = Len(st), NEW F, F = st[b + 1], Tried(F, b, M),
         NEW st2, st2 = PopTop(st, F)
  PROVE  Stacked(c, n, q, M, st2) /\ Shortened(st, st2, b, F)
<1>1. st \in Seq(Frames(n)) /\ q \in Seq(1..n) /\ Len(q) = b /\ Len(st) \in Nat
      BY StackedFacts
<1>2. FrameOK(c, n, F, b, L) /\ Extends(c, q, F, b)
  <2>1. b + 1 <= Len(st)
        BY <1>1
  <2>2. FrameOK(c, n, st[b + 1], b, L) /\ Extends(c, q, st[b + 1], b)
        BY ONLY <2>1, Stacked(c, n, q, L, st), b \in Nat, StackedAt
  <2> QED BY <2>2
<1>3. F \in Seq(Vertices(n)) /\ DOMAIN F = 1..Len(F) /\ Len(F) \in Nat
      BY <1>2 DEF FrameOK
<1>4. PICK G : G = Pop(F)
      OBVIOUS
<1>5. FrameOK(c, n, F, b, M)
      BY <1>2, LaterFrame
<1>6. Len(F) = 1 => b <= M
      BY DEF Tried
<1>7. /\ FrameOK(c, n, G, b, M)
      /\ G \in Seq(Vertices(n)) /\ Len(G) = Len(F) - 1 /\ DOMAIN G = 1..(Len(F) - 1)
      /\ \A r \in 1..(Len(F) - 1) : G[r] = F[r]
      /\ Upto(G, Len(F) - 1) = Upto(F, Len(F) - 1)
  <2>1. F # <<>> /\ F[Len(F)].d # 0
        BY DEF Tried
  <2>2. FrameOK(c, n, G, b, M) /\ Popped(n, F, G)
        BY ONLY <1>4, <1>5, <1>6, <2>1, n \in Nat, b \in Nat, M \in Nat, PopFrame
  <2> QED BY <2>2 DEF Popped
<1>8. /\ st2 \in Seq(Frames(n)) /\ Len(st2) = b + 1 /\ st2[b + 1] = G
      /\ \A k \in 1..b : st2[k] = st[k]
  <2>1. G \in Frames(n)
        BY <1>7 DEF Frames
  <2>2. PICK K \in Nat : K = b + 1 /\ K # 0 /\ K - 1 = b
        OBVIOUS
  <2>3. st2 = Append(Pop(st), G) /\ K = Len(st)
        BY <1>4, <2>2 DEF PopTop
  <2>4. PICK T : T = Frames(n)
        OBVIOUS
  <2>5. st \in Seq(T) /\ G \in T /\ K # 0
        BY <1>1, <2>1, <2>2, <2>4
  <2>6. LastIs(T, st, st2, K, G)
        BY ONLY <2>3, <2>5, K \in Nat, ReplaceLast
  <2> QED BY <2>2, <2>4, <2>6 DEF LastIs
<1>9. Extends(c, q, G, b)
  <2> SUFFICES ASSUME NEW j \in 1..b, NEW r \in DOMAIN G
               PROVE  {q[j], G[r].i} \in c /\ q[j] # G[r].i
      BY DEF Extends
  <2>1. G[r] = F[r] /\ r \in DOMAIN F
    <3>1. r \in 1..(Len(F) - 1) /\ G[r] = F[r]
          BY <1>7
    <3>2. r \in 1..Len(F)
          BY <1>3, <3>1
    <3> QED BY <1>3, <3>1, <3>2
  <2>2. {q[j], F[r].i} \in c /\ q[j] # F[r].i
        BY <1>2, <2>1 DEF Extends
  <2> QED BY <2>1, <2>2
<1>10. ASSUME NEW a \in Nat, a + 1 <= Len(st2)
       PROVE  /\ FrameOK(c, n, st2[a + 1], a, M) /\ Extends(c, q, st2[a + 1], a)
              /\ a + 1 # Len(st2) => Waits(q, st2[a + 1], a + 1)
  <2>1. CASE a = b
        BY <1>7, <1>8, <1>9, <2>1
  <2>2. CASE a < b
    <3>1. st2[a + 1] = st[a + 1] /\ a + 1 <= Len(st) /\ a + 1 # Len(st)
          BY <1>8, <2>2
    <3>2. FrameOK(c, n, st[a + 1], a, L) /\ Extends(c, q, st[a + 1], a) /\ Waits(q, st[a + 1], a + 1)
          BY <3>1, StackedAt
    <3>3. FrameOK(c, n, st[a + 1], a, M)
          BY <3>2, LaterFrame
    <3> QED BY <3>1, <3>2, <3>3
  <2> QED BY <1>8, <1>10, <2>1, <2>2
<1>11. Len(q) + 1 = Len(st2)
       BY <1>1, <1>8
<1>12. Stacked(c, n, q, M, st2)
       BY ONLY <1>1, <1>8, <1>10, <1>11, StackedBy
<1>13. Shortened(st, st2, b, F)
       BY <1>7, <1>8 DEF Shortened
<1> QED BY <1>12, <1>13

\* The stack st2 and the clique q2 of the caller, at depth b + 1.
Caller(q, st, q2, st2, b) ==
    /\ Len(st2) = b + 1 /\ Len(q2) = b /\ Waits(q, st[b + 1], b + 1)
    /\ \A k \in 1..(b + 1) : st2[k] = st[k]
    /\ \A k \in 1..b : q2[k] = q[k]

\* A frame that waits is the top of the stack below.
LEMMA PopStacked ==
  ASSUME NEW c, NEW n \in Nat, NEW q, NEW L \in Nat, NEW st, Stacked(c, n, q, L, st),
         NEW b \in Nat, b + 1 + 1 = Len(st), NEW q2, q2 = Pop(q), NEW st2, st2 = Pop(st)
  PROVE  Stacked(c, n, q2, L, st2) /\ Caller(q, st, q2, st2, b)
<1>1. st \in Seq(Frames(n)) /\ q \in Seq(1..n) /\ Len(q) = b + 1 /\ Len(st) \in Nat
      BY StackedFacts
<1>2. q2 \in Seq(1..n) /\ Len(q2) = b /\ \A k \in 1..b : q2[k] = q[k]
      BY <1>1 DEF Pop
<1>3. st2 \in Seq(Frames(n)) /\ Len(st2) = b + 1 /\ \A k \in 1..(b + 1) : st2[k] = st[k]
      BY <1>1 DEF Pop
<1>4. ASSUME NEW a \in Nat, a + 1 <= b + 1
      PROVE  /\ FrameOK(c, n, st[a + 1], a, L) /\ Extends(c, q, st[a + 1], a) /\ Waits(q, st[a + 1], a + 1)
             /\ st2[a + 1] = st[a + 1]
  <2>1. a + 1 <= Len(st) /\ a + 1 # Len(st)
        BY <1>1, <1>4
  <2>2. /\ FrameOK(c, n, st[a + 1], a, L) /\ Extends(c, q, st[a + 1], a)
        /\ a + 1 # Len(st) => Waits(q, st[a + 1], a + 1)
        BY ONLY <2>1, Stacked(c, n, q, L, st), a \in Nat, StackedAt
  <2> QED BY <1>3, <1>4, <2>1, <2>2
<1>5. ASSUME NEW a \in Nat, a + 1 <= Len(st2)
      PROVE  /\ FrameOK(c, n, st2[a + 1], a, L) /\ Extends(c, q2, st2[a + 1], a)
             /\ a + 1 # Len(st2) => Waits(q2, st2[a + 1], a + 1)
  <2>1. /\ FrameOK(c, n, st[a + 1], a, L) /\ Extends(c, q, st[a + 1], a) /\ Waits(q, st[a + 1], a + 1)
        /\ st2[a + 1] = st[a + 1]
        BY <1>3, <1>4, <1>5
  <2>2. \A j \in 1..a : q2[j] = q[j]
        BY <1>2, <1>3, <1>5
  <2>3. Extends(c, q2, st[a + 1], a)
        BY <2>1, <2>2, SamePath
  <2>4. ASSUME a + 1 # Len(st2)
        PROVE  Waits(q2, st[a + 1], a + 1)
    <3>1. q2[a + 1] = q[a + 1]
          BY <1>2, <1>3, <1>5, <2>4
    <3> QED BY <2>1, <3>1 DEF Waits
  <2> QED BY <2>1, <2>3, <2>4
<1>6. Len(q2) + 1 = Len(st2)
      BY <1>2, <1>3
<1>7. Stacked(c, n, q2, L, st2)
      BY ONLY <1>2, <1>3, <1>5, <1>6, StackedBy
<1>8. Caller(q, st, q2, st2, b)
      BY <1>2, <1>3, <1>4 DEF Caller
<1> QED BY <1>7, <1>8

\* No frames at all.
LEMMA EmptyStacked ==
  ASSUME NEW c, NEW n, NEW q, NEW L, q \in Seq(1..n), Len(q) = 0
  PROVE  Stacked(c, n, q, L, <<>>)
<1>1. <<>> \in Seq(Frames(n)) /\ DOMAIN <<>> = {} /\ Len(<<>>) = 0
      OBVIOUS
<1> QED BY <1>1 DEF Stacked

\* Where a clique is still to come.
Pending(q, st, b, S) ==
    Path(q, b) \subseteq S /\ S \subseteq Path(q, b) \cup Rest(st, b + 1)

\* Coverage in terms of the number b of vertices chosen below a frame ...
LEMMA PendingFrom ==
  ASSUME NEW c, NEW n, NEW q, NEW L, NEW st, Len(st) \in Nat, DOMAIN st = 1..Len(st), Coverage(c, n, q, L, st),
         NEW S \in SUBSET (1..n), CliqueOf(c, S)
  PROVE  Cardinality(S) <= L \/ \E b \in Nat : b + 1 <= Len(st) /\ Pending(q, st, b, S)
<1>1. CASE Cardinality(S) <= L
      BY <1>1
<1>2. CASE ~(Cardinality(S) <= L)
  <2>1. PICK k \in 1..Len(st) : Covers(q, st, k, S)
        BY <1>2 DEF Coverage
  <2>2. PICK b \in Nat : b = k - 1 /\ k = b + 1 /\ b + 1 <= Len(st)
        OBVIOUS
  <2>3. Pending(q, st, b, S)
        BY <2>1, <2>2 DEF Covers, Pending
  <2> QED BY <2>2, <2>3
<1> QED BY <1>1, <1>2

\* ... and back.
LEMMA PendingTo ==
  ASSUME NEW c, NEW n, NEW q, NEW L, NEW st, Len(st) \in Nat, DOMAIN st = 1..Len(st),
         \A S \in SUBSET (1..n) : CliqueOf(c, S) =>
             Cardinality(S) <= L \/ \E b \in Nat : b + 1 <= Len(st) /\ Pending(q, st, b, S)
  PROVE  Coverage(c, n, q, L, st)
<1> SUFFICES ASSUME NEW S \in SUBSET (1..n), CliqueOf(c, S), NEW b \in Nat, b + 1 <= Len(st), Pending(q, st, b, S)
             PROVE  \E k \in DOMAIN st : Covers(q, st, k, S)
    BY DEF Coverage
<1>1. PICK k \in DOMAIN st : k = b + 1 /\ k - 1 = b
      OBVIOUS
<1>2. Covers(q, st, k, S)
      BY <1>1 DEF Covers, Pending
<1> QED BY <1>2

\* The rest of a frame, the top one or one below.
LEMMA RestIs ==
  ASSUME NEW st, NEW b
  PROVE  /\ b + 1 = Len(st) => Rest(st, b + 1) = Upto(st[b + 1], Len(st[b + 1]))
         /\ b + 1 # Len(st) => Rest(st, b + 1) = Upto(st[b + 1], Len(st[b + 1]) - 1)
BY DEF Rest

\* A clique pending at an untouched frame stays pending.
LEMMA PendingStays ==
  ASSUME NEW q, NEW st, NEW q2, NEW st2, NEW b \in Nat, \A j \in 1..b : q2[j] = q[j],
         Rest(st2, b + 1) = Rest(st, b + 1), NEW S, Pending(q, st, b, S)
  PROVE  Pending(q2, st2, b, S)
<1>1. Path(q2, b) = Path(q, b)
      BY DEF Path
<1> QED BY <1>1 DEF Pending

\* Descend: a clique of the frame contains its last vertex, and is then one of the
\* new frame, or does not.
LEMMA DescendCoverage ==
  ASSUME NEW c, NEW n \in Nat, NEW q, NEW L \in Nat, NEW st, Stacked(c, n, q, L, st), Coverage(c, n, q, L, st),
         NEW b \in Nat, b + 1 = Len(st), NEW F, F = st[b + 1], NEW m \in Nat, m = Len(F), m > 1,
         NEW v, v = F[m].i, NEW G, G \in Frames(n),
         \A w : w \in Upto(G, Len(G)) <=> w \in Upto(F, m - 1) /\ {v, w} \in c,
         NEW q2, q2 = Append(q, v), NEW st2, st2 = Append(st, G), v \in 1..n
  PROVE  Coverage(c, n, q2, L, st2)
<1>1. st \in Seq(Frames(n)) /\ q \in Seq(1..n) /\ Len(q) = b /\ Len(st) \in Nat /\ DOMAIN st = 1..Len(st)
      BY StackedFacts
<1>2. Len(q2) = b + 1 /\ q2[b + 1] = v /\ \A j \in 1..b : q2[j] = q[j]
  <2>1. PICK T : T = 1..n
        OBVIOUS
  <2>2. Len(q2) = b + 1 /\ q2[b + 1] = v /\ \A j \in 1..b : q2[j] = q[j]
        BY <1>1, <2>1, PushFacts
  <2> QED BY <2>2
<1>3. /\ st2 \in Seq(Frames(n)) /\ Len(st2) = b + 1 + 1 /\ DOMAIN st2 = 1..(b + 1 + 1) /\ st2[b + 1 + 1] = G
      /\ \A k \in 1..(b + 1) : st2[k] = st[k]
  <2>1. b + 1 \in Nat
        OBVIOUS
  <2> QED BY ONLY <1>1, <2>1, G \in Frames(n), b + 1 = Len(st), st2 = Append(st, G), PushFacts
<1>4. ASSUME NEW S \in SUBSET (1..n), CliqueOf(c, S)
      PROVE  Cardinality(S) <= L \/ \E a \in Nat : a + 1 <= Len(st2) /\ Pending(q2, st2, a, S)
  <2>1. CASE Cardinality(S) <= L
        BY <2>1
  <2>2. ASSUME NEW a \in Nat, a + 1 <= Len(st), Pending(q, st, a, S)
        PROVE  \E z \in Nat : z + 1 <= Len(st2) /\ Pending(q2, st2, z, S)
    <3>1. \A j \in 1..a : q2[j] = q[j]
          BY <1>1, <1>2, <2>2
    <3>2. a + 1 <= Len(st2) /\ st2[a + 1] = st[a + 1] /\ a + 1 # Len(st2)
          BY <1>1, <1>3, <2>2
    <3>3. CASE a < b
      <4>1. a + 1 # Len(st)
            BY <1>1, <3>3
      <4>2. Rest(st2, a + 1) = Rest(st, a + 1)
            BY <3>2, <4>1, RestIs
      <4>3. Pending(q2, st2, a, S)
            BY <2>2, <3>1, <4>2, PendingStays
      <4> QED BY <3>2, <4>3
    <3>4. CASE a = b
      <4>1. Path(q, b) \subseteq S /\ S \subseteq Path(q, b) \cup Upto(F, m)
        <5>1. Rest(st, b + 1) = Upto(F, m)
              BY RestIs
        <5> QED BY <2>2, <3>4, <5>1 DEF Pending
      <4>2. Upto(F, m) = Upto(F, m - 1) \cup {v}
            BY UptoLast
      <4>3. Path(q2, b) = Path(q, b)
            BY <1>2 DEF Path
      <4>4. CASE v \notin S
        <5>1. Rest(st2, b + 1) = Upto(F, m - 1)
              BY <3>2, <3>4, RestIs
        <5>2. Pending(q2, st2, b, S)
              BY <4>1, <4>2, <4>3, <4>4, <5>1 DEF Pending
        <5> QED BY <3>2, <3>4, <5>2
      <4>5. CASE v \in S
        <5>1. Path(q2, b + 1) = Path(q, b) \cup {v}
              BY <1>2 DEF Path
        <5>2. Rest(st2, b + 1 + 1) = Upto(G, Len(G))
              BY <1>3 DEF Rest
        <5>3. ASSUME NEW w \in S, w \notin Path(q2, b + 1)
              PROVE  w \in Upto(G, Len(G))
          <6>1. w \in Upto(F, m - 1) /\ w # v
                BY <4>1, <4>2, <5>1, <5>3
          <6>2. {v, w} \in c
                BY <1>4, <4>5, <6>1 DEF CliqueOf
          <6> QED BY <6>1, <6>2
        <5>4. Pending(q2, st2, b + 1, S)
              BY <4>1, <4>5, <5>1, <5>2, <5>3 DEF Pending
        <5>5. b + 1 \in Nat /\ b + 1 + 1 <= Len(st2)
              BY <1>3
        <5> QED BY <5>4, <5>5
      <4> QED BY <4>4, <4>5
    <3> QED BY <1>1, <2>2, <3>3, <3>4
  <2>3. Cardinality(S) <= L \/ \E a \in Nat : a + 1 <= Len(st) /\ Pending(q, st, a, S)
        BY ONLY <1>1, <1>4, Coverage(c, n, q, L, st), PendingFrom
  <2> QED BY <2>2, <2>3
<1>5. Len(st2) \in Nat /\ DOMAIN st2 = 1..Len(st2)
      BY <1>3
<1> QED BY ONLY <1>4, <1>5, PendingTo

\* A frame the loop leaves has no clique that beats the best one.
LEMMA Exhausted ==
  ASSUME NEW c, NEW n \in Nat, NEW q, NEW L \in Nat, NEW st, NEW b \in Nat, b + 1 = Len(st), NEW F, F = st[b + 1],
         FrameOK(c, n, F, b, L), F = <<>> \/ b + F[Len(F)].d <= L,
         NEW S, CliqueOf(c, S), Pending(q, st, b, S)
  PROVE  Cardinality(S) <= L
<1>1. PICK m \in Nat : m = Len(F) /\ F \in Seq(Vertices(n)) /\ DOMAIN F = 1..m /\ Distinct(F)
      BY DEF FrameOK
<1>2. S \subseteq Path(q, b) \cup Upto(F, m)
  <2>1. Rest(st, b + 1) = Upto(F, m)
        BY <1>1, RestIs
  <2> QED BY <2>1 DEF Pending
<1>3. IsFiniteSet(Path(q, b)) /\ Cardinality(Path(q, b)) <= b /\ Cardinality(Path(q, b)) \in Nat
      BY PathFinite
<1>4. CASE F = <<>>
  <2>1. S \subseteq Path(q, b)
        BY <1>1, <1>2, <1>4 DEF Upto
  <2>2. IsFiniteSet(S) /\ Cardinality(S) <= Cardinality(Path(q, b))
        BY <1>3, <2>1, FS_Subset
  <2>3. Cardinality(S) \in Nat
        BY <2>2, FS_CardinalityType
  <2>4. b <= L
        BY <1>4 DEF FrameOK
  <2> QED BY <1>3, <2>2, <2>3, <2>4
<1>5. CASE F # <<>>
  <2>1. PICK T : T = S \cap Upto(F, m)
        OBVIOUS
  <2>2. m \in DOMAIN F /\ F[m].d \in Int
    <3>1. \A r \in 1..Len(F) : F[r].d \in Int
          BY <1>1, FrameLength
    <3>2. m \in 1..m
          BY <1>1, <1>5
    <3> QED BY <1>1, <3>1, <3>2
  <2>3. CliqueOf(c, T) /\ T \in SUBSET Upto(F, m)
        BY <2>1 DEF CliqueOf
  <2>4. Cardinality(T) <= F[m].d \/ b + Cardinality(T) <= L
        BY <2>2, <2>3 DEF FrameOK, Bounds
  <2>5. IsFiniteSet(T) /\ Cardinality(T) \in Nat
        BY <2>3, UptoFinite
  <2>6. b + Cardinality(T) <= L
        BY <1>1, <1>5, <2>2, <2>4, <2>5
  <2>7. IsFiniteSet(Path(q, b) \cup T) /\ Cardinality(Path(q, b) \cup T) <= Cardinality(Path(q, b)) + Cardinality(T)
    <3>1. /\ IsFiniteSet(Path(q, b) \cup T)
          /\ Cardinality(Path(q, b) \cup T) =
                Cardinality(Path(q, b)) + Cardinality(T) - Cardinality(Path(q, b) \cap T)
          BY <1>3, <2>5, FS_Union
    <3>2. IsFiniteSet(Path(q, b) \cap T)
          BY <1>3, FS_Subset
    <3>3. Cardinality(Path(q, b) \cap T) \in Nat
          BY <3>2, FS_CardinalityType
    <3> QED BY <1>3, <2>5, <3>1, <3>3
  <2>8. S \subseteq Path(q, b) \cup T
        BY <1>2, <2>1
  <2>9. IsFiniteSet(S) /\ Cardinality(S) <= Cardinality(Path(q, b) \cup T)
        BY <2>7, <2>8, FS_Subset
  <2>10. Cardinality(S) \in Nat /\ Cardinality(Path(q, b) \cup T) \in Nat
         BY <2>7, <2>9, FS_CardinalityType
  <2> QED BY <1>3, <2>5, <2>6, <2>7, <2>9, <2>10
<1> QED BY <1>4, <1>5

\* A leaf: the one clique with its last vertex is the one that was compared.
LEMMA LeafCoverage ==
  ASSUME NEW c, NEW n \in Nat, NEW q, NEW L \in Nat, NEW M \in Nat, L <= M, NEW st, Stacked(c, n, q, L, st),
         Coverage(c, n, q, L, st),
         NEW b \in Nat, b + 1 = Len(st), b + 1 <= M, NEW F, F = st[b + 1], NEW m \in Nat \ {0}, m = Len(F),
         NEW v, v = F[m].i, \A w \in Upto(F, m - 1) : {v, w} \notin c,
         NEW st2, Shortened(st, st2, b, F)
  PROVE  Coverage(c, n, q, M, st2)
<1>1. /\ Len(st2) = b + 1 /\ DOMAIN st2 = 1..(b + 1) /\ (\A k \in 1..b : st2[k] = st[k])
      /\ Len(st2[b + 1]) = m - 1 /\ Upto(st2[b + 1], m - 1) = Upto(F, m - 1)
      BY DEF Shortened
<1>2. Len(st) \in Nat /\ DOMAIN st = 1..Len(st)
      BY StackedFacts
<1>3. ASSUME NEW S \in SUBSET (1..n), CliqueOf(c, S)
      PROVE  Cardinality(S) <= M \/ \E a \in Nat : a + 1 <= Len(st2) /\ Pending(q, st2, a, S)
  <2>1. Cardinality(S) \in Nat
    <3>1. IsFiniteSet(1..n)
          BY FS_Interval
    <3>2. IsFiniteSet(S)
          BY <3>1, FS_Subset
    <3> QED BY <3>2, FS_CardinalityType
  <2>2. CASE Cardinality(S) <= L
        BY <2>1, <2>2
  <2>3. ASSUME NEW a \in Nat, a + 1 <= Len(st), Pending(q, st, a, S)
        PROVE  Cardinality(S) <= M \/ \E z \in Nat : z + 1 <= Len(st2) /\ Pending(q, st2, z, S)
    <3>1. CASE a < b
      <4>1. st2[a + 1] = st[a + 1] /\ a + 1 # Len(st) /\ a + 1 # Len(st2) /\ a + 1 <= Len(st2)
            BY <1>1, <3>1
      <4>2. Rest(st2, a + 1) = Rest(st, a + 1)
            BY <4>1, RestIs
      <4>3. Pending(q, st2, a, S)
            BY <2>3, <4>2, PendingStays
      <4> QED BY <4>1, <4>3
    <3>2. CASE a = b
      <4>1. Path(q, b) \subseteq S /\ S \subseteq Path(q, b) \cup Upto(F, m)
        <5>1. Rest(st, b + 1) = Upto(F, m)
              BY RestIs
        <5> QED BY <2>3, <3>2, <5>1 DEF Pending
      <4>2. Upto(F, m) = Upto(F, m - 1) \cup {v}
            BY UptoLast
      <4>3. CASE v \notin S
        <5>1. Rest(st2, b + 1) = Upto(F, m - 1)
              BY <1>1, RestIs
        <5>2. Pending(q, st2, b, S)
              BY <4>1, <4>2, <4>3, <5>1 DEF Pending
        <5>3. b + 1 <= Len(st2)
              BY <1>1
        <5> QED BY <5>2, <5>3
      <4>4. CASE v \in S
        <5>1. S \subseteq Path(q, b) \cup {v}
          <6> SUFFICES ASSUME NEW w \in S, w # v, w \notin Path(q, b)
                       PROVE  FALSE
              OBVIOUS
          <6>1. w \in Upto(F, m - 1)
                BY <4>1, <4>2
          <6>2. {v, w} \in c
                BY <1>3, <4>4 DEF CliqueOf
          <6> QED BY <6>1, <6>2
        <5>2. IsFiniteSet(Path(q, b)) /\ Cardinality(Path(q, b)) <= b /\ Cardinality(Path(q, b)) \in Nat
              BY PathFinite
        <5>3. /\ IsFiniteSet(Path(q, b) \cup {v})
              /\ Cardinality(Path(q, b) \cup {v}) =
                    IF v \in Path(q, b) THEN Cardinality(Path(q, b)) ELSE Cardinality(Path(q, b)) + 1
              BY <5>2, FS_AddElement
        <5>4. Cardinality(S) <= Cardinality(Path(q, b) \cup {v})
              BY <5>1, <5>3, FS_Subset
        <5>5. Cardinality(Path(q, b) \cup {v}) <= b + 1 /\ Cardinality(Path(q, b) \cup {v}) \in Nat
              BY <5>2, <5>3
        <5> QED BY <2>1, <5>4, <5>5
      <4> QED BY <4>3, <4>4
    <3> QED BY <1>2, <2>3, <3>1, <3>2
  <2>4. Cardinality(S) <= L \/ \E a \in Nat : a + 1 <= Len(st) /\ Pending(q, st, a, S)
        BY ONLY <1>2, <1>3, Coverage(c, n, q, L, st), PendingFrom
  <2> QED BY <2>2, <2>3, <2>4
<1>4. Len(st2) \in Nat /\ DOMAIN st2 = 1..Len(st2)
      BY <1>1
<1> QED BY ONLY <1>3, <1>4, PendingTo

\* A return: the frame below goes on with the vertices it has left.
LEMMA ReturnCoverage ==
  ASSUME NEW c, NEW n \in Nat, NEW q, NEW L \in Nat, NEW st, Stacked(c, n, q, L, st), Coverage(c, n, q, L, st),
         NEW b \in Nat, b + 1 = Len(st), NEW F, F = st[b + 1], F = <<>> \/ b + F[Len(F)].d <= L,
         NEW q2, NEW st2, Len(st2) = b, DOMAIN st2 = 1..b, \A k \in 1..(b - 1) : st2[k] = st[k] /\ q2[k] = q[k],
         b # 0 => Len(st2[b]) = Len(st[b]) - 1 /\ Upto(st2[b], Len(st[b]) - 1) = Upto(st[b], Len(st[b]) - 1)
  PROVE  Coverage(c, n, q2, L, st2)
<1>1. Len(st) \in Nat /\ DOMAIN st = 1..Len(st)
      BY StackedFacts
<1>2. FrameOK(c, n, F, b, L)
  <2>1. b + 1 <= Len(st)
        BY <1>1
  <2>2. FrameOK(c, n, st[b + 1], b, L)
        BY ONLY <2>1, Stacked(c, n, q, L, st), b \in Nat, StackedAt
  <2> QED BY <2>2
<1>3. ASSUME NEW S \in SUBSET (1..n), CliqueOf(c, S)
      PROVE  Cardinality(S) <= L \/ \E a \in Nat : a + 1 <= Len(st2) /\ Pending(q2, st2, a, S)
  <2>1. ASSUME NEW a \in Nat, a + 1 <= Len(st), Pending(q, st, a, S)
        PROVE  Cardinality(S) <= L \/ \E z \in Nat : z + 1 <= Len(st2) /\ Pending(q2, st2, z, S)
    <3>1. CASE a = b
      <4>1. Pending(q, st, b, S)
            BY <2>1, <3>1
      <4>2. F = <<>> \/ b + F[Len(F)].d <= L
            OBVIOUS
      <4> QED BY ONLY <1>2, <1>3, <4>1, <4>2, n \in Nat, L \in Nat, b \in Nat, b + 1 = Len(st), F = st[b + 1], Exhausted
    <3>2. CASE a < b
      <4>1. a + 1 <= Len(st2) /\ a + 1 # Len(st) /\ \A j \in 1..a : q2[j] = q[j]
            BY <3>2
      <4>2. Rest(st, a + 1) = Upto(st[a + 1], Len(st[a + 1]) - 1)
            BY <4>1, RestIs
      <4>3. Rest(st2, a + 1) = Rest(st, a + 1)
        <5>1. CASE a + 1 = b
          <6>1. Rest(st2, a + 1) = Upto(st2[a + 1], Len(st2[a + 1]))
                BY <5>1, RestIs
          <6>2. Len(st2[b]) = Len(st[b]) - 1 /\ Upto(st2[b], Len(st[b]) - 1) = Upto(st[b], Len(st[b]) - 1)
                BY <5>1
          <6> QED BY ONLY <4>2, <5>1, <6>1, <6>2
        <5>2. CASE a + 1 # b
          <6>1. st2[a + 1] = st[a + 1] /\ a + 1 # Len(st2)
                BY <3>2, <5>2
          <6> QED BY <4>2, <6>1, RestIs, ZenonT(30)
        <5> QED BY <5>1, <5>2
      <4>4. Pending(q2, st2, a, S)
            BY <2>1, <4>1, <4>3, PendingStays
      <4> QED BY <4>1, <4>4
    <3> QED BY <1>1, <2>1, <3>1, <3>2
  <2>2. Cardinality(S) <= L \/ \E a \in Nat : a + 1 <= Len(st) /\ Pending(q, st, a, S)
        BY ONLY <1>1, <1>3, Coverage(c, n, q, L, st), PendingFrom
  <2> QED BY <2>1, <2>2
<1>4. Len(st2) \in Nat /\ DOMAIN st2 = 1..Len(st2)
      OBVIOUS
<1> QED BY ONLY <1>3, <1>4, PendingTo

-----------------------------------------------------------------------------
(***************************************************************************)
(* The search as a whole.                                                  *)
(***************************************************************************)
\* A vertex that is connected to all of a clique extends it.
LEMMA AppendClique ==
  ASSUME NEW c, NEW n \in Nat, NEW q, SeqClique(c, n, q), NEW v \in 1..n,
         \A j \in 1..Len(q) : {q[j], v} \in c /\ q[j] # v, NEW q2, q2 = Append(q, v)
  PROVE  SeqClique(c, n, q2)
<1>1. q \in Seq(1..n) /\ (\A j, k \in DOMAIN q : j # k => q[j] # q[k]) /\ CliqueOf(c, Range(q))
      BY DEF SeqClique, Places
<1>2. PICK m \in Nat : m = Len(q) /\ DOMAIN q = 1..m
      BY <1>1
<1>3. /\ q2 \in Seq(1..n) /\ Len(q2) = m + 1 /\ DOMAIN q2 = 1..(m + 1)
      /\ q2[m + 1] = v /\ \A k \in 1..m : q2[k] = q[k]
  <2>1. PICK T : T = 1..n
        OBVIOUS
  <2>2. q \in Seq(T) /\ v \in T
        BY <1>1, <2>1
  <2>3. m \in Nat /\ m = Len(q) /\ q2 = Append(q, v)
        BY <1>2
  <2>4. /\ q2 \in Seq(T) /\ Len(q2) = m + 1 /\ DOMAIN q2 = 1..(m + 1)
        /\ q2[m + 1] = v /\ \A k \in 1..m : q2[k] = q[k]
        BY ONLY <2>2, <2>3, PushFacts
  <2> QED BY <2>1, <2>4
<1>4. ASSUME NEW j \in 1..m
      PROVE  q2[j] = q[j] /\ {q[j], v} \in c /\ {v, q[j]} \in c /\ q[j] # v /\ q[j] \in Range(q)
  <2>1. {q[j], v} = {v, q[j]}
        OBVIOUS
  <2>2. {q[j], v} \in c /\ q[j] # v
        BY <1>2
  <2> QED BY <1>2, <1>3, <2>1, <2>2 DEF Range
<1>5. Places(n, q2)
  <2>1. ASSUME NEW j \in 1..(m + 1), NEW k \in 1..(m + 1), j # k
        PROVE  q2[j] # q2[k]
    <3>1. CASE j = m + 1
      <4>1. k \in 1..m
            BY <2>1, <3>1
      <4> QED BY <1>3, <1>4, <3>1, <4>1
    <3>2. CASE k = m + 1
      <4>1. j \in 1..m
            BY <2>1, <3>2
      <4> QED BY <1>3, <1>4, <3>2, <4>1
    <3>3. CASE j # m + 1 /\ k # m + 1
      <4>1. j \in 1..m /\ k \in 1..m
            BY <3>3
      <4> QED BY <1>1, <1>2, <1>3, <2>1, <4>1
    <3> QED BY <3>1, <3>2, <3>3
  <2> QED BY <1>3, <2>1 DEF Places
<1>6. CliqueOf(c, Range(q2))
  <2>1. ASSUME NEW w \in Range(q2)
        PROVE  w = v \/ (w \in Range(q) /\ {w, v} \in c /\ {v, w} \in c)
    <3>1. PICK j \in 1..(m + 1) : w = q2[j]
          BY <1>3 DEF Range
    <3>2. CASE j = m + 1
          BY <1>3, <3>1, <3>2
    <3>3. CASE j \in 1..m
          BY <1>4, <3>1, <3>3
    <3> QED BY <3>2, <3>3
  <2> QED BY <1>1, <2>1 DEF CliqueOf
<1> QED BY <1>5, <1>6 DEF SeqClique

\* A part of a clique is one.
LEMMA PopClique ==
  ASSUME NEW c, NEW n \in Nat, NEW q, SeqClique(c, n, q), q # <<>>, NEW q2, q2 = Pop(q)
  PROVE  SeqClique(c, n, q2)
<1>1. q \in Seq(1..n) /\ (\A j, k \in DOMAIN q : j # k => q[j] # q[k]) /\ CliqueOf(c, Range(q))
      BY DEF SeqClique, Places
<1>2. PICK m \in Nat : m = Len(q) /\ DOMAIN q = 1..m /\ m # 0
      BY <1>1
<1>3. /\ q2 \in Seq(1..n) /\ Len(q2) = m - 1 /\ DOMAIN q2 = 1..(m - 1)
      /\ \A k \in 1..(m - 1) : q2[k] = q[k]
      BY <1>1, <1>2 DEF Pop
<1>4. Places(n, q2)
  <2>1. ASSUME NEW j \in 1..(m - 1), NEW k \in 1..(m - 1), j # k
        PROVE  q2[j] # q2[k]
    <3>1. j \in DOMAIN q /\ k \in DOMAIN q
          BY <1>2
    <3> QED BY <1>1, <1>3, <2>1, <3>1
  <2> QED BY <1>3, <2>1 DEF Places
<1>5. Range(q2) \subseteq Range(q)
  <2>1. ASSUME NEW j \in 1..(m - 1)
        PROVE  q2[j] \in Range(q)
    <3>1. q2[j] = q[j] /\ j \in DOMAIN q
          BY <1>2, <1>3
    <3> QED BY <3>1 DEF Range
  <2> QED BY <1>3, <2>1 DEF Range
<1> QED BY <1>1, <1>4, <1>5 DEF SeqClique, CliqueOf

\* The empty clique.
LEMMA EmptyClique ==
  ASSUME NEW c, NEW n \in Nat
  PROVE  SeqClique(c, n, <<>>)
BY DEF SeqClique, Places, CliqueOf, Range

\* The top of the stack, where expand_dyn is at work.
AtWork(b, F, m) ==
    /\ b \in Nat /\ b + 1 = Len(stack) /\ F = stack[b + 1] /\ R = F /\ Len(Q) = b
    /\ FrameOK(conn, size, F, b, Len(QMAX)) /\ Extends(conn, Q, F, b)
    /\ F \in Seq(Vertices(size)) /\ Distinct(F) /\ m \in Nat /\ m = Len(F) /\ DOMAIN F = 1..m

\* While the search expands, the frame on top is a well formed list of vertices.
LEMMA AtWorkExists ==
  ASSUME SearchOK, pc = "expand", stack # <<>>
  PROVE  \E b, F, m : AtWork(b, F, m)
<1>1. Stacked(conn, size, Q, Len(QMAX), stack)
      BY DEF SearchOK
<1>2. Len(stack) \in Nat /\ stack \in Seq(Frames(size)) /\ Q \in Seq(1..size) /\ (Len(stack) # 0 => Len(Q) + 1 = Len(stack))
      BY <1>1, StackedFacts
<1>3. Len(stack) # 0
      BY <1>2
<1>4. PICK b \in Nat : b = Len(Q) /\ b + 1 = Len(stack) /\ b + 1 <= Len(stack)
      BY <1>2, <1>3
<1>5. PICK F : F = stack[b + 1]
      OBVIOUS
<1>6. FrameOK(conn, size, F, b, Len(QMAX)) /\ Extends(conn, Q, F, b)
      BY <1>1, <1>4, <1>5, StackedAt
<1>7. R = F
      BY <1>4, <1>5 DEF R, End
<1>8. F \in Seq(Vertices(size)) /\ Distinct(F)
      BY <1>6 DEF FrameOK
<1>9. PICK m \in Nat : m = Len(F) /\ DOMAIN F = 1..m
      BY <1>8
<1>10. AtWork(b, F, m)
       BY <1>4, <1>5, <1>6, <1>7, <1>8, <1>9 DEF AtWork
<1> QED BY <1>10

\* What a step of the search has to keep.
LEMMA SearchExpands ==
  ASSUME pc' = "expand", size' \in Nat, Stacked(conn', size', Q', Len(QMAX'), stack'),
         pk' <= maxStep' => Coverage(conn', size', Q', Len(QMAX'), stack'),
         SeqClique(conn', size', Q'), SeqClique(conn', size', QMAX')
  PROVE  SearchOK'
BY DEF SearchOK

\* Start: the first frame holds every vertex.
LEMMA StartOK ==
  ASSUME SearchOK, Start
  PROVE  SearchOK'
<1>1. /\ pc' = "expand" /\ Q' = <<>> /\ QMAX' = <<>> /\ pk' = 0 /\ size' = size /\ conn' = conn /\ maxStep' = maxStep
      /\ size \in Nat
      BY DEF Start, graph, SearchOK
<1>2. PICK o \in DegreeSorted(1..size) : stack' = <<InitColors(o)>>
      BY DEF Start
<1>3. PICK F : F = InitColors(o)
      OBVIOUS
<1>4. /\ FrameOK(conn, size, F, 0, 0)
      /\ F \in Seq(Vertices(size)) /\ Len(F) = size /\ \A v \in 1..size : v \in Upto(F, size)
  <2>1. PICK n \in Nat : n = size
        BY <1>1
  <2>2. o \in DegreeSorted(1..n)
        BY <1>2, <2>1
  <2>3. /\ FrameOK(conn, n, F, 0, 0)
        /\ F \in Seq(Vertices(n)) /\ Len(F) = n /\ \A v \in 1..n : v \in Upto(F, n)
        BY ONLY <1>3, <2>1, <2>2, 0 \in Nat, n \in Nat, InitColorsFacts
  <2> QED BY <2>1, <2>3
<1>5. PICK q : q = <<>> /\ q \in Seq(1..size) /\ Len(q) = 0
  <2>1. <<>> \in Seq(1..size) /\ Len(<<>>) = 0
        OBVIOUS
  <2> QED BY <2>1
<1>6. PICK st : st = <<F>>
      OBVIOUS
<1>7. st \in Seq(Frames(size)) /\ Len(st) = 1 /\ DOMAIN st = 1..1 /\ st[1] = F
  <2>1. F \in Frames(size)
        BY <1>4 DEF Frames
  <2> QED BY <1>6, <2>1
<1>8. Stacked(conn, size, q, 0, st)
  <2>1. ASSUME NEW b \in Nat, b + 1 <= Len(st)
        PROVE  /\ FrameOK(conn, size, st[b + 1], b, 0) /\ Extends(conn, q, st[b + 1], b)
               /\ b + 1 # Len(st) => Waits(q, st[b + 1], b + 1)
    <3>1. b = 0 /\ b + 1 = Len(st) /\ st[b + 1] = F
          BY <1>7, <2>1
    <3>2. Extends(conn, q, F, 0)
          BY DEF Extends
    <3> QED BY <1>4, <3>1, <3>2
  <2>2. Len(q) + 1 = Len(st)
        BY <1>5, <1>7
  <2> QED BY ONLY <1>5, <1>7, <2>1, <2>2, StackedBy
<1>9. Coverage(conn, size, q, 0, st)
  <2>1. ASSUME NEW S \in SUBSET (1..size), CliqueOf(conn, S)
        PROVE  \E b \in Nat : b + 1 <= Len(st) /\ Pending(q, st, b, S)
    <3>1. Rest(st, 0 + 1) = Upto(F, size)
      <4>1. 0 + 1 = 1 /\ 1 = Len(st)
            BY <1>7
      <4>2. Rest(st, 1) = Upto(st[1], Len(st[1]))
            BY ONLY <4>1 DEF Rest
      <4> QED BY <1>4, <1>7, <4>1, <4>2
    <3>2. Path(q, 0) = {}
          BY DEF Path
    <3>3. Pending(q, st, 0, S)
          BY <1>4, <3>1, <3>2 DEF Pending
    <3>4. 0 + 1 <= Len(st)
          BY <1>7
    <3> QED BY <3>3, <3>4
  <2>2. Len(st) \in Nat /\ DOMAIN st = 1..Len(st)
        BY <1>7
  <2> QED BY ONLY <2>1, <2>2, PendingTo
<1>10. SeqClique(conn, size, <<>>)
       BY <1>1, EmptyClique
<1>11. Len(QMAX') = 0 /\ stack' = st /\ Q' = q
       BY <1>1, <1>2, <1>3, <1>5, <1>6
<1> QED BY <1>1, <1>8, <1>9, <1>10, <1>11, SearchExpands

\* What the loop condition says of the last vertex: it has a colour, and is not
\* the marked one.
LEMMA GoesOnAt ==
  ASSUME NEW b, NEW F, NEW m, AtWork(b, F, m), GoesOn, size \in Nat, Len(QMAX) \in Nat
  PROVE  /\ m # 0 /\ F # <<>> /\ F[m].d # 0 /\ pk <= maxStep /\ End(R) = F[m] /\ F[m].i \in 1..size
         /\ \A j \in 1..b : {Q[j], F[m].i} \in conn /\ Q[j] # F[m].i
<1>1. F # <<>> /\ pk <= maxStep /\ End(R) = F[m] /\ Len(Q) + F[m].d > Len(QMAX) /\ m \in Nat /\ DOMAIN F = 1..m
      BY DEF AtWork, GoesOn, End
<1>2. m # 0
  <2>1. F \in Seq(Vertices(size)) /\ m = Len(F)
        BY DEF AtWork
  <2> QED BY <1>1, <2>1
<1>3. m \in 1..m
      BY <1>1, <1>2
<1>4. F[m].i \in 1..size /\ F[m].d \in Int
  <2>1. F \in Seq(Vertices(size)) /\ Distinct(F) /\ m = Len(F)
        BY DEF AtWork
  <2>2. \A r \in 1..Len(F) : F[r].i \in 1..size /\ F[r].d \in Int
        BY <2>1, FrameLength
  <2> QED BY <1>3, <2>1, <2>2
<1>5. F[m].d # 0
  <2>1. Marked(F, b, Len(QMAX)) /\ b = Len(Q) /\ b \in Nat
        BY DEF AtWork, FrameOK
  <2>2. F[m].d = 0 => b <= Len(QMAX)
        BY <1>1, <1>3, <2>1 DEF Marked
  <2> QED BY <1>1, <2>1, <2>2
<1>6. \A j \in 1..b : {Q[j], F[m].i} \in conn /\ Q[j] # F[m].i
  <2>1. Extends(conn, Q, F, b)
        BY DEF AtWork
  <2> QED BY <1>1, <1>3, <2>1 DEF Extends
<1> QED BY <1>1, <1>2, <1>4, <1>5, <1>6

\* What the expanding search is known to have.
LEMMA SearchFacts ==
  ASSUME SearchOK, pc = "expand"
  PROVE  /\ size \in Nat /\ Stacked(conn, size, Q, Len(QMAX), stack) /\ Len(QMAX) \in Nat
         /\ pk <= maxStep => Coverage(conn, size, Q, Len(QMAX), stack)
         /\ SeqClique(conn, size, Q) /\ SeqClique(conn, size, QMAX)
         /\ QMAX \in Seq(1..size) /\ Q \in Seq(1..size)
<1>1. /\ size \in Nat /\ Stacked(conn, size, Q, Len(QMAX), stack)
      /\ pk <= maxStep => Coverage(conn, size, Q, Len(QMAX), stack)
      /\ SeqClique(conn, size, Q) /\ SeqClique(conn, size, QMAX)
      BY DEF SearchOK
<1>2. QMAX \in Seq(1..size) /\ Q \in Seq(1..size)
      BY <1>1 DEF SeqClique, Places
<1>3. Len(QMAX) \in Nat
      BY <1>2
<1> QED BY <1>1, <1>2, <1>3

SameVertices(o, C, p) == \A v : (\E k \in 1..p : o[k] = v) <=> (\E k \in 1..p : C[k] = v)

\* A list of the vertices of C in any order.
LEMMA Reordered ==
  ASSUME NEW n \in Nat, NEW p \in Nat, NEW C \in [1..p -> 1..n], OneToOne(C, p),
         NEW o, o \in {C} \cup DegreeSorted(Range(C))
  PROVE  o \in [1..p -> 1..n] /\ OneToOne(o, p) /\ SameVertices(o, C, p)
<1>1. CASE o = C
      BY <1>1 DEF SameVertices
<1>2. CASE o \in DegreeSorted(Range(C))
  <2>1. PICK S : S = Range(C)
        OBVIOUS
  <2>2. \A v : v \in S <=> \E k \in 1..p : C[k] = v
        BY <2>1 DEF Range
  <2>3. C \in Bijection(1..p, S)
        BY <2>2 DEF OneToOne, Bijection, Injection, IsInjective, Surjection
  <2>4. IsFiniteSet(1..p) /\ Cardinality(1..p) = p
        BY FS_Interval
  <2>5. IsFiniteSet(S) /\ p = Cardinality(S)
    <3>1. ExistsBijection(1..p, S)
          BY <2>3 DEF ExistsBijection
    <3> QED BY <2>4, <3>1, FS_Bijection
  <2>6. o \in DegreeSorted(S)
        BY <1>2, <2>1
  <2>7. o \in [1..p -> S] /\ OneToOne(o, p) /\ \A v \in S : \E k \in 1..p : o[k] = v
        BY ONLY <2>5, <2>6, DegreeSortedFacts
  <2>8. S \subseteq 1..n
        BY <2>2
  <2>9. o \in [1..p -> 1..n]
        BY <2>7, <2>8
  <2>10. \A v : (\E k \in 1..p : o[k] = v) <=> v \in S
         BY <2>7
  <2> QED BY <2>2, <2>7, <2>9, <2>10 DEF SameVertices
<1> QED BY <1>1, <1>2

\* Descend: the last vertex joins the clique, the frame of its neighbours is new.
LEMMA DescendOK ==
  ASSUME SearchOK, Descend
  PROVE  SearchOK'
<1>1. /\ pc = "expand" /\ stack # <<>> /\ GoesOn /\ Cut2(R) # <<>> /\ pc' = pc /\ QMAX' = QMAX
      /\ size' = size /\ conn' = conn /\ maxStep' = maxStep /\ pk' = pk + 1 /\ Q' = Append(Q, End(R).i)
      BY DEF Descend, Promising, graph
<1>2. PICK n \in Nat : n = size
      BY DEF SearchOK
<1>3. PICK L \in Nat : L = Len(QMAX)
      BY <1>1, SearchFacts
<1>4. PICK b, F, m : AtWork(b, F, m)
      BY <1>1, AtWorkExists
<1>5. /\ m # 0 /\ F # <<>> /\ F[m].d # 0 /\ pk <= maxStep /\ End(R) = F[m] /\ F[m].i \in 1..size
      /\ \A j \in 1..b : {Q[j], F[m].i} \in conn /\ Q[j] # F[m].i
      BY <1>1, <1>2, <1>3, <1>4, GoesOnAt
<1>6. /\ b \in Nat /\ b + 1 = Len(stack) /\ F = stack[b + 1] /\ R = F /\ Len(Q) = b
      /\ F \in Seq(Vertices(n)) /\ Distinct(F) /\ m \in Nat /\ m = Len(F) /\ DOMAIN F = 1..m
      BY <1>2, <1>4 DEF AtWork
<1>7. PICK v : v = F[m].i
      OBVIOUS
<1>8. PICK C : C = Cut2(F)
      OBVIOUS
<1>9. PICK p : Neighbours(n, F, C, p)
      BY ONLY <1>5, <1>6, <1>8, n \in Nat, Cut2Facts
<1>10. /\ p \in Nat /\ p # 0 /\ p + 1 <= n /\ C \in [1..p -> 1..n] /\ OneToOne(C, p)
       /\ \A w : (\E k \in 1..p : C[k] = w) <=> w \in Upto(F, m - 1) /\ {v, w} \in conn
       BY <1>1, <1>6, <1>7, <1>8, <1>9 DEF Neighbours
<1>11. PICK o \in {C} \cup DegreeSorted(Range(C)) : stack' = Append(stack, ColorSort(o, Q'))
       BY <1>6, <1>8 DEF Descend
<1>12. o \in [1..p -> 1..n] /\ OneToOne(o, p) /\ SameVertices(o, C, p)
       BY ONLY <1>10, o \in {C} \cup DegreeSorted(Range(C)), n \in Nat, Reordered
<1>13. PICK q2 : q2 = Q'
       OBVIOUS
<1>14. q2 = Append(Q, v) /\ v \in 1..n /\ Len(q2) = b + 1
  <2>1. q2 = Append(Q, v) /\ v \in 1..n
        BY <1>1, <1>2, <1>5, <1>7, <1>13
  <2>2. Q \in Seq(1..n)
        BY <1>1, <1>2, SearchFacts
  <2> QED BY <1>6, <2>1, <2>2
<1>15. PICK G : G = ColorSort(o, q2)
       OBVIOUS
<1>16. /\ FrameOK(conn, n, G, b + 1, L)
       /\ G \in Seq(Vertices(n)) /\ Len(G) = p
       /\ Lists(G, o, p)
  <2>1. b + 1 \in Nat /\ Len(QMAX) = L
        BY <1>3, <1>6
  <2>2. p \in Nat /\ p # 0 /\ p + 1 <= n /\ o \in [1..p -> 1..n] /\ OneToOne(o, p) /\ Len(q2) = b + 1
        BY <1>10, <1>12, <1>14
  <2> QED BY ONLY <1>15, <2>1, <2>2, n \in Nat, L \in Nat, ColorSortFacts
<1>17. \A w : w \in Upto(G, Len(G)) <=> w \in Upto(F, m - 1) /\ {v, w} \in conn
       BY <1>10, <1>12, <1>16 DEF Lists, SameVertices
<1>18. m > 1
  <2>1. \E w : w \in Upto(F, m - 1)
    <3>1. 1 \in 1..p
          BY <1>10
    <3> QED BY <1>10, <3>1
  <2>2. m - 1 # 0
        BY <2>1 DEF Upto
  <2>3. m \in Nat /\ m # 0
        BY <1>5, <1>6
  <2> QED BY <2>2, <2>3
<1>19. PICK st2 : st2 = Append(stack, G) /\ stack' = st2
       BY <1>11, <1>13, <1>15
<1>20. /\ Stacked(conn, n, Q, L, stack) /\ Coverage(conn, n, Q, L, stack)
       /\ SeqClique(conn, n, Q) /\ SeqClique(conn, n, QMAX)
       BY <1>1, <1>2, <1>3, <1>5, SearchFacts
<1>21. Stacked(conn, n, q2, L, st2)
       BY ONLY <1>5, <1>6, <1>7, <1>14, <1>16, <1>17, <1>18, <1>19, <1>20, n \in Nat, L \in Nat, DescendStacked
<1>22. Coverage(conn, n, q2, L, st2)
  <2>1. G \in Frames(n)
        BY <1>16 DEF Frames
  <2> QED BY ONLY <1>6, <1>7, <1>14, <1>17, <1>18, <1>19, <1>20, <2>1, n \in Nat, L \in Nat, DescendCoverage
<1>23. SeqClique(conn, n, q2)
  <2>1. \A j \in 1..Len(Q) : {Q[j], v} \in conn /\ Q[j] # v
        BY <1>5, <1>6, <1>7
  <2> QED BY ONLY <1>14, <1>20, <2>1, n \in Nat, AppendClique
<1> QED BY <1>1, <1>2, <1>3, <1>13, <1>19, <1>20, <1>21, <1>22, <1>23, SearchExpands

\* Leaf: the clique is compared with the best one, the vertex leaves the frame.
LEMMA LeafOK ==
  ASSUME SearchOK, Leaf
  PROVE  SearchOK'
<1>1. /\ pc = "expand" /\ stack # <<>> /\ GoesOn /\ Cut2(R) = <<>> /\ pc' = pc /\ Q' = Q
      /\ QMAX' = IF Len(Q) + 1 > Len(QMAX) THEN Append(Q, End(R).i) ELSE QMAX
      /\ size' = size /\ conn' = conn /\ maxStep' = maxStep /\ pk' = pk /\ stack' = Append(Pop(stack), Pop(R))
      BY DEF Leaf, Promising, graph
<1>2. PICK n \in Nat : n = size
      BY DEF SearchOK
<1>3. PICK L \in Nat : L = Len(QMAX)
      BY <1>1, SearchFacts
<1>4. PICK b, F, m : AtWork(b, F, m)
      BY <1>1, AtWorkExists
<1>5. /\ m # 0 /\ F # <<>> /\ F[m].d # 0 /\ pk <= maxStep /\ End(R) = F[m] /\ F[m].i \in 1..size
      /\ \A j \in 1..b : {Q[j], F[m].i} \in conn /\ Q[j] # F[m].i
      BY <1>1, <1>2, <1>3, <1>4, GoesOnAt
<1>6. /\ b \in Nat /\ b + 1 = Len(stack) /\ F = stack[b + 1] /\ R = F /\ Len(Q) = b
      /\ F \in Seq(Vertices(n)) /\ Distinct(F) /\ m \in Nat /\ m = Len(F) /\ DOMAIN F = 1..m
      BY <1>2, <1>4 DEF AtWork
<1>7. PICK v : v = F[m].i /\ v \in 1..n
      BY <1>2, <1>5
<1>8. PICK C : C = Cut2(F)
      OBVIOUS
<1>9. PICK p : Neighbours(n, F, C, p)
      BY ONLY <1>5, <1>6, <1>8, n \in Nat, Cut2Facts
<1>10. \A w \in Upto(F, m - 1) : {v, w} \notin conn
  <2>1. p = 0
        BY <1>1, <1>6, <1>8, <1>9 DEF Neighbours
  <2> QED BY <1>6, <1>7, <1>9, <2>1 DEF Neighbours
<1>11. /\ Stacked(conn, n, Q, L, stack) /\ Coverage(conn, n, Q, L, stack)
       /\ SeqClique(conn, n, Q) /\ SeqClique(conn, n, QMAX) /\ Q \in Seq(1..n)
       BY <1>1, <1>2, <1>3, <1>5, SearchFacts
<1>12. PICK best : best = QMAX'
       OBVIOUS
<1>13. SeqClique(conn, n, best) /\ Len(best) \in Nat /\ Len(best) >= L /\ Len(best) >= b + 1
  <2>1. CASE b + 1 > L
    <3>1. best = Append(Q, v)
          BY <1>1, <1>3, <1>5, <1>6, <1>7, <1>12, <2>1
    <3>2. \A j \in 1..Len(Q) : {Q[j], v} \in conn /\ Q[j] # v
          BY <1>5, <1>6, <1>7
    <3>3. SeqClique(conn, n, best)
          BY ONLY <1>7, <1>11, <3>1, <3>2, n \in Nat, AppendClique
    <3>4. Len(best) = b + 1
          BY <1>6, <1>7, <1>11, <3>1
    <3> QED BY <1>6, <2>1, <3>3, <3>4
  <2>2. CASE ~(b + 1 > L)
    <3>1. best = QMAX
          BY <1>1, <1>3, <1>6, <1>12, <2>2
    <3> QED BY <1>3, <1>6, <1>11, <2>2, <3>1
  <2> QED BY <2>1, <2>2
<1>14. PICK M \in Nat : M = Len(best) /\ L <= M /\ b + 1 <= M
       BY <1>13
<1>15. PICK st2 : st2 = Append(Pop(stack), Pop(F)) /\ stack' = st2
       BY <1>1, <1>6
<1>16. Stacked(conn, n, Q, M, st2) /\ Shortened(stack, st2, b, F)
  <2>1. Tried(F, b, M)
        BY <1>5, <1>6, <1>14 DEF Tried
  <2>2. F = stack[b + 1] /\ b + 1 = Len(stack) /\ b \in Nat
        BY <1>6
  <2>3. st2 = PopTop(stack, F)
        BY <1>15 DEF PopTop
  <2>4. Stacked(conn, n, Q, L, stack) /\ L <= M
        BY <1>11, <1>14
  <2> QED BY ONLY <2>1, <2>2, <2>3, <2>4, n \in Nat, L \in Nat, M \in Nat, LeafStacked
<1>17. Coverage(conn, n, Q, M, st2)
  <2>1. m \in Nat \ {0} /\ F = stack[b + 1] /\ m = Len(F) /\ b + 1 = Len(stack) /\ b \in Nat
        BY <1>5, <1>6
  <2> QED BY ONLY <1>7, <1>10, <1>11, <1>14, <1>16, <2>1, n \in Nat, L \in Nat, M \in Nat, LeafCoverage
<1> QED BY <1>1, <1>2, <1>11, <1>12, <1>13, <1>14, <1>15, <1>16, <1>17, SearchExpands

\* Return: the frame held no better clique, and the one below goes on.
LEMMA ReturnOK ==
  ASSUME SearchOK, Return
  PROVE  SearchOK'
<1>1. /\ pc = "expand" /\ stack # <<>> /\ ~GoesOn /\ pc' = pc /\ QMAX' = QMAX
      /\ size' = size /\ conn' = conn /\ maxStep' = maxStep /\ pk' = pk
      /\ stack' = (IF Pop(stack) = <<>> THEN Pop(stack)
                   ELSE Append(Pop(Pop(stack)), Pop(End(Pop(stack)))))
      /\ Q' = IF Len(stack) = 1 THEN Q ELSE Pop(Q)
      BY DEF Return, graph
<1>2. PICK n \in Nat : n = size
      BY DEF SearchOK
<1>3. PICK L \in Nat : L = Len(QMAX)
      BY <1>1, SearchFacts
<1>4. PICK b, F, m : AtWork(b, F, m)
      BY <1>1, AtWorkExists
<1>5. /\ b \in Nat /\ b + 1 = Len(stack) /\ F = stack[b + 1] /\ R = F /\ Len(Q) = b
      /\ F \in Seq(Vertices(n)) /\ Distinct(F) /\ m \in Nat /\ m = Len(F) /\ DOMAIN F = 1..m
      BY <1>2, <1>4 DEF AtWork
<1>6. /\ Stacked(conn, n, Q, L, stack) /\ (pk <= maxStep => Coverage(conn, n, Q, L, stack))
      /\ SeqClique(conn, n, Q) /\ SeqClique(conn, n, QMAX) /\ Q \in Seq(1..n)
      BY <1>1, <1>2, <1>3, SearchFacts
<1>7. pk <= maxStep => F = <<>> \/ b + F[Len(F)].d <= L
  <2>1. ASSUME pk <= maxStep, F # <<>>
        PROVE  b + F[Len(F)].d <= L
    <3>1. ~(Len(Q) + F[Len(F)].d > Len(QMAX))
          BY <1>1, <1>5, <2>1 DEF GoesOn, End
    <3>2. F[Len(F)].d \in Int
      <4>1. \A r \in 1..Len(F) : F[r].d \in Int
            BY <1>5, FrameLength
      <4>2. Len(F) \in 1..Len(F)
            BY <1>5, <2>1
      <4> QED BY <4>1, <4>2
    <3> QED BY <1>3, <1>5, <3>1, <3>2
  <2> QED BY <2>1
<1>8. stack \in Seq(Frames(n)) /\ Len(stack) \in Nat
      BY <1>6, StackedFacts
<1>9. PICK up : up = Pop(stack)
      OBVIOUS
<1>10. up \in Seq(Frames(n)) /\ Len(up) = b
       BY <1>5, <1>8, <1>9 DEF Pop
<1>11. CASE b = 0
  <2>1. up = <<>> /\ stack' = <<>> /\ Q' = Q
        BY <1>1, <1>5, <1>9, <1>10, <1>11
  <2>2. PICK st2 : st2 = <<>>
        OBVIOUS
  <2>3. Stacked(conn, n, Q, L, st2) /\ Len(st2) = 0 /\ DOMAIN st2 = 1..0
    <3>1. Q \in Seq(1..n) /\ Len(Q) = 0
          BY <1>5, <1>6, <1>11
    <3>2. Stacked(conn, n, Q, L, <<>>)
          BY ONLY <3>1, EmptyStacked
    <3>3. Len(<<>>) = 0 /\ DOMAIN <<>> = 1..0
          OBVIOUS
    <3> QED BY <2>2, <3>2, <3>3
  <2>4. ASSUME pk <= maxStep
        PROVE  Coverage(conn, n, Q, L, st2)
    <3>1. F = <<>> \/ b + F[Len(F)].d <= L
          BY <1>7, <2>4
    <3>2. /\ Len(st2) = b /\ DOMAIN st2 = 1..b /\ (\A k \in 1..(b - 1) : st2[k] = stack[k] /\ Q[k] = Q[k])
          /\ b # 0 => Len(st2[b]) = Len(stack[b]) - 1 /\ Upto(st2[b], Len(stack[b]) - 1) = Upto(stack[b], Len(stack[b]) - 1)
          BY <1>11, <2>3
    <3>3. Stacked(conn, n, Q, L, stack) /\ Coverage(conn, n, Q, L, stack)
          BY <1>6, <2>4
    <3>4. b \in Nat /\ b + 1 = Len(stack) /\ F = stack[b + 1]
          BY <1>5
    <3> QED BY ONLY <3>1, <3>2, <3>3, <3>4, n \in Nat, L \in Nat, ReturnCoverage
  <2> QED BY <1>1, <1>2, <1>3, <1>6, <2>1, <2>2, <2>3, <2>4, SearchExpands
<1>12. CASE b # 0
  <2>1. PICK a \in Nat : a + 1 = b /\ a + 1 + 1 = Len(stack)
    <3>1. b - 1 \in Nat /\ (b - 1) + 1 = b /\ (b - 1) + 1 + 1 = Len(stack)
          BY <1>5, <1>12
    <3> QED BY <3>1
  <2>2. PICK q2 : q2 = Pop(Q)
        OBVIOUS
  <2>3. /\ Stacked(conn, n, q2, L, up) /\ Len(up) = a + 1 /\ Len(q2) = a
        /\ \A k \in 1..(a + 1) : up[k] = stack[k]
        /\ \A k \in 1..a : q2[k] = Q[k]
        /\ Waits(Q, stack[a + 1], a + 1)
    <3>1. Stacked(conn, n, Q, L, stack)
          BY <1>6
    <3>2. Stacked(conn, n, q2, L, up) /\ Caller(Q, stack, q2, up, a)
          BY ONLY <1>9, <2>1, <2>2, <3>1, n \in Nat, L \in Nat, a \in Nat, PopStacked
    <3> QED BY <3>2 DEF Caller
  <2>4. PICK E : E = stack[a + 1] /\ E = up[a + 1] /\ E = End(up)
        BY <2>3 DEF End
  <2>5. Len(E) > 1 /\ E[Len(E)].d # 0
        BY <2>3, <2>4 DEF Waits
  <2>6. Tried(E, a, L)
        BY <2>5 DEF Tried
  <2>7. PICK st2 : st2 = PopTop(up, E)
        OBVIOUS
  <2>8. Stacked(conn, n, q2, L, st2) /\ Shortened(up, st2, a, E)
    <3>1. L <= L /\ a + 1 = Len(up) /\ E = up[a + 1]
          BY <2>3, <2>4
    <3>2. Stacked(conn, n, q2, L, up)
          BY <2>3
    <3> QED BY ONLY <2>6, <2>7, <3>1, <3>2, n \in Nat, L \in Nat, a \in Nat, LeafStacked
  <2>9. stack' = st2 /\ Q' = q2
    <3>1. up # <<>>
          BY <1>10, <1>12
    <3>2. Len(stack) # 1
      <4>1. b \in Nat /\ b + 1 = Len(stack)
            BY <1>5
      <4> QED BY ONLY <1>12, <4>1
    <3> QED BY <1>1, <1>9, <2>2, <2>4, <2>7, <3>1, <3>2 DEF PopTop
  <2>10. ASSUME pk <= maxStep
         PROVE  Coverage(conn, n, q2, L, st2)
    <3>1. F = <<>> \/ b + F[Len(F)].d <= L
          BY <1>7, <2>10
    <3>2. Stacked(conn, n, Q, L, stack) /\ Coverage(conn, n, Q, L, stack)
          BY <1>6, <2>10
    <3>3. b \in Nat /\ b + 1 = Len(stack) /\ F = stack[b + 1]
          BY <1>5
    <3>4. Len(st2) = b /\ DOMAIN st2 = 1..b /\ \A k \in 1..(b - 1) : st2[k] = stack[k] /\ q2[k] = Q[k]
      <4>1. Len(st2) = b /\ DOMAIN st2 = 1..b
            BY <2>1, <2>8 DEF Shortened
      <4>2. ASSUME NEW k \in 1..(b - 1)
            PROVE  st2[k] = stack[k] /\ q2[k] = Q[k]
        <5>1. k \in 1..a /\ k \in 1..(a + 1)
              BY <2>1
        <5> QED BY <2>3, <2>8, <5>1 DEF Shortened
      <4> QED BY <4>1, <4>2
    <3>5. Len(st2[b]) = Len(stack[b]) - 1 /\ Upto(st2[b], Len(stack[b]) - 1) = Upto(stack[b], Len(stack[b]) - 1)
          BY <2>1, <2>4, <2>8 DEF Shortened
    <3> QED BY ONLY <3>1, <3>2, <3>3, <3>4, <3>5, n \in Nat, L \in Nat, ReturnCoverage, ZenonT(30)
  <2>11. SeqClique(conn, n, q2)
    <3>1. Q # <<>>
          BY <1>5, <1>6, <1>12
    <3> QED BY <1>6, <2>2, <3>1, PopClique
  <2> QED BY <1>1, <1>2, <1>3, <1>6, <2>8, <2>9, <2>10, <2>11, SearchExpands
<1> QED BY <1>11, <1>12

\* Finish: nothing is left that could be better.
LEMMA FinishOK ==
  ASSUME SearchOK, Finish
  PROVE  SearchOK'
<1>1. /\ pc = "expand" /\ stack = <<>> /\ pc' = "found" /\ QMAX' = QMAX /\ Q' = Q /\ stack' = stack /\ pk' = pk
      /\ size' = size /\ conn' = conn /\ maxStep' = maxStep
      BY DEF Finish, graph, search
<1>2. /\ size \in Nat /\ Stacked(conn, size, Q, Len(QMAX), stack)
      /\ pk <= maxStep => Coverage(conn, size, Q, Len(QMAX), stack)
      /\ SeqClique(conn, size, Q) /\ SeqClique(conn, size, QMAX) /\ Q \in Seq(1..size)
      BY <1>1, SearchFacts
<1>3. Q = <<>>
  <2>1. Len(Q) = 0
        BY <1>1, <1>2 DEF Stacked
  <2> QED BY <1>2, <2>1
<1>4. ASSUME pk <= maxStep, NEW S \in SUBSET (1..size), IsClique(S)
      PROVE  Cardinality(S) <= Len(QMAX)
  <2>1. CliqueOf(conn, S)
        BY <1>4 DEF IsClique, CliqueOf, Connection
  <2>2. DOMAIN stack = {}
        BY <1>1
  <2> QED BY <1>2, <1>4, <2>1, <2>2 DEF Coverage
<1>5. MaximumIfFinished'
  <2>1. ASSUME pk' <= maxStep', NEW S \in SUBSET (1..size'), IsClique(S)'
        PROVE  Cardinality(S) <= Len(QMAX')
    <3>1. IsClique(S)
          BY <1>1, <2>1 DEF IsClique, Connection
    <3> QED BY <1>1, <1>4, <2>1, <3>1
  <2> QED BY <2>1 DEF MaximumIfFinished
<1> QED BY <1>1, <1>2, <1>3, <1>5 DEF SearchOK

\* The clique search keeps its invariant.
LEMMA SearchNextOK ==
  ASSUME SearchOK, SearchNext
  PROVE  SearchOK'
BY StartOK, DescendOK, LeafOK, ReturnOK, FinishOK DEF SearchNext

\* The properties of the search follow from it.
LEMMA SearchProperties ==
  ASSUME SearchOK
  PROVE  AlwaysClique /\ MaximumIfFinished /\ MemorySafe
<1>1. size \in Nat
      BY DEF SearchOK
<1>2. ASSUME NEW q, SeqClique(conn, size, q)
      PROVE  IsClique(Range(q)) /\ Cardinality(Range(q)) = Len(q)
  <2>1. q \in Seq(1..size) /\ \A j, k \in DOMAIN q : j # k => q[j] # q[k]
        BY <1>2 DEF SeqClique, Places
  <2>2. PICK m \in Nat : m = Len(q) /\ DOMAIN q = 1..m
        BY <2>1
  <2>3. q \in Bijection(1..m, Range(q))
        BY <2>1, <2>2 DEF Bijection, Injection, IsInjective, Surjection, Range
  <2>4. IsFiniteSet(1..m) /\ Cardinality(1..m) = m
        BY FS_Interval
  <2>5. ExistsBijection(1..m, Range(q))
        BY <2>3 DEF ExistsBijection
  <2>6. Cardinality(Range(q)) = m
        BY <2>4, <2>5, FS_Bijection
  <2>7. IsClique(Range(q))
        BY <1>2 DEF SeqClique, CliqueOf, IsClique, Connection
  <2> QED BY <2>2, <2>6, <2>7
<1>3. AlwaysClique
      BY <1>2 DEF AlwaysClique, SearchOK
<1>4. MaximumIfFinished
      BY DEF SearchOK, MaximumIfFinished
<1>5. ASSUME pc = "expand", NEW k \in DOMAIN stack
      PROVE  /\ k = Len(stack) /\ stack[k] # <<>> /\ pk <= maxStep => End(stack[k]).d # Uninitialized
             /\ k > 1 => \A r \in DOMAIN stack[k] : stack[k][r].d + 1 <= size
  <2>1. Stacked(conn, size, Q, Len(QMAX), stack)
        BY <1>5, SearchFacts
  <2>2. Len(stack) \in Nat /\ DOMAIN stack = 1..Len(stack)
        BY <2>1, StackedFacts
  <2>3. PICK b \in Nat : k = b + 1 /\ b + 1 <= Len(stack)
    <3>1. k - 1 \in Nat /\ k = (k - 1) + 1 /\ (k - 1) + 1 <= Len(stack)
          BY <2>2
    <3> QED BY <3>1
  <2>4. PICK F : F = stack[k]
        OBVIOUS
  <2>5. FrameOK(conn, size, F, b, Len(QMAX))
        BY <2>1, <2>3, <2>4, StackedAt
  <2>6. F \in Seq(Vertices(size)) /\ Marked(F, b, Len(QMAX)) /\ (b > 0 => \A r \in DOMAIN F : F[r].d + 1 <= size)
        BY <2>5 DEF FrameOK
  <2>7. PICK m \in Nat : m = Len(F) /\ DOMAIN F = 1..m
        BY <2>6
  <2>8. ASSUME F # <<>>
        PROVE  F[m].d # Uninitialized
    <3>1. m \in DOMAIN F
          BY <2>6, <2>7, <2>8
    <3>2. ~ \E s \in DOMAIN F : s > m
          BY <2>7
    <3> QED BY <2>6, <3>1, <3>2 DEF Marked
  <2> QED BY <2>3, <2>4, <2>6, <2>7, <2>8 DEF End
<1>6. pc # "expand" => DOMAIN stack = {}
  <2>1. pc # "expand" => stack = <<>>
        BY DEF SearchOK
  <2> QED BY <2>1
<1>7. MemorySafe
      BY <1>5, <1>6 DEF MemorySafe
<1> QED BY <1>3, <1>4, <1>7

-----------------------------------------------------------------------------
(***************************************************************************)
(* The formula while the graph is worked on: it has no cardinality         *)
(* constraint, and a step neither adds a model nor changes what a literal  *)
(* means.                                                                  *)
(***************************************************************************)
NoOutputs(g) == \A v \in DOMAIN g.card : g.card[v] = NoCard

Means(g, h) ==
    /\ LitsOf(g.poids) \subseteq LitsOf(h.poids)
    /\ h.live \subseteq g.live
    /\ \A l \in LitsOf(g.poids) : True(h, l) = True(g, l)

\* h follows from g by a step that the literals gone pay for.
Follows(g, h, gone) ==
    /\ Sound(h) /\ NoOutputs(h) /\ Means(g, h)
    /\ \A l : Soft(g, l) /\ l \notin gone => Soft(h, l)

\* What cannot be true together cannot be later.
LEMMA ConflictStays ==
  ASSUME NEW g, NEW h, Means(g, h), NEW l \in LitsOf(g.poids), NEW m \in LitsOf(g.poids),
         Models(g, {l, m}) = {}
  PROVE  Models(h, {l, m}) = {}
<1>1. \A x \in {l, m} : True(h, x) = True(g, x)
      BY DEF Means
<1>2. Models(h, {l, m}) \subseteq Models(g, {l, m})
      BY <1>1 DEF Models, Means
<1> QED BY <1>2

\* A hard unit.
LEMMA FollowsHardUnit ==
  ASSUME NEW g, Sound(g), NoOutputs(g), NEW l \in LitsOf(g.poids), NEW h, h = HardUnit(g, l)
  PROVE  Follows(g, h, {l, -l})
<1>1. Keeps(g, h, {l, -l})
      BY KeepsHardUnit
<1>2. /\ g \in Formulas /\ DOMAIN g.card = DOMAIN g.poids
      /\ l \in Int \ {0} /\ Var(l) \in DOMAIN g.card /\ g.card[Var(l)] = NoCard
  <2>1. g \in Formulas /\ DOMAIN g.card = DOMAIN g.poids
        BY Fields DEF Sound
  <2> QED BY <2>1 DEF NoOutputs, LitsOf
<1>3. PICK b : /\ b.card = g.card /\ b.truth = g.truth /\ b.live = g.live
               /\ h = AddHard(b, {l}) /\ DOMAIN b = DOMAIN g
  <2> DEFINE w == Poids(g, -l)
             m == Erase(g.map, w, -l)
             c == Wrap(g.cost + w)
             b1 == [g EXCEPT !.map = m, !.cost = c]
             m2 == Erase(g.map, -w, l)
             b2 == [g EXCEPT !.map = m2]
  <2> HIDE DEF w, m, c, m2
  <2>1. CASE w > 0
    <3>1. b1.card = g.card /\ b1.truth = g.truth /\ b1.live = g.live /\ DOMAIN b1 = DOMAIN g
          BY <1>2 DEF Formulas
    <3>2. Relax(b1, l) = b1
          BY <1>2, <3>1 DEF Relax
    <3> DEFINE b3 == [b1 EXCEPT !.poids = SetPoids(@, l, 0)]
    <3>3. h = AddHard(b3, {l})
      <4>1. ~(w = 0)
        <5>1. w \in Int
              BY <1>2, Opposites DEF w, Poids
        <5> QED BY <2>1, <5>1
      <4>2. h = AddHard([Relax(b1, l) EXCEPT !.poids = SetPoids(@, l, 0)], {l})
            BY <2>1, <4>1, Zenon DEF HardUnit, w, m, c
      <4> QED BY <3>2, <4>2
    <3>4. b3.card = b1.card /\ b3.truth = b1.truth /\ b3.live = b1.live /\ DOMAIN b3 = DOMAIN b1
          BY <1>2 DEF Formulas
    <3> HIDE DEF b3
    <3> QED BY <3>1, <3>3, <3>4
  <2>2. CASE w < 0
    <3> DEFINE b3 == [b2 EXCEPT !.poids = SetPoids(@, l, 0)]
    <3>1. b3.card = g.card /\ b3.truth = g.truth /\ b3.live = g.live /\ DOMAIN b3 = DOMAIN g
          BY <1>2 DEF Formulas
    <3>2. h = AddHard(b3, {l})
      <4>1. ~(w = 0) /\ ~(w > 0)
        <5>1. w \in Int
              BY <1>2, Opposites DEF w, Poids
        <5> QED BY <2>2, <5>1
      <4> QED BY <2>2, <4>1, Zenon DEF HardUnit, w, m2
    <3> HIDE DEF b3
    <3> QED BY <3>1, <3>2
  <2>3. CASE w = 0
    <3>1. ~(w > 0) /\ ~(w < 0)
          BY <2>3
    <3>2. h = AddHard(g, {l})
          BY <2>3, <3>1, Zenon DEF HardUnit, w
    <3> QED BY <3>2
  <2>4. w \in Int
        BY <1>2, Opposites DEF w, Poids
  <2> QED BY <2>1, <2>2, <2>3, <2>4
<1>4. h.card = g.card /\ h.truth = g.truth /\ h.live \subseteq g.live
  <2> DEFINE s == b.live \cap UNION {True(b, x) : x \in {l}}
  <2>1. h = [b EXCEPT !.live = s]
        BY <1>3 DEF AddHard
  <2>2. s \subseteq b.live
        OBVIOUS
  <2> HIDE DEF s
  <2> QED BY <1>2, <1>3, <2>1, <2>2 DEF Formulas
<1>5. NoOutputs(h)
      BY <1>4 DEF NoOutputs
<1>6. Means(g, h)
      BY <1>1, <1>4 DEF Means, Keeps, True
<1>7. \A x : Soft(g, x) /\ x \notin {l, -l} => Soft(h, x)
      BY <1>1, KeepsSoft
<1>8. Sound(h)
      BY <1>1 DEF Keeps
<1> QED BY <1>5, <1>6, <1>7, <1>8 DEF Follows

\* The least weight of a clique, the formula once it is taken, and the literals
\* that have some left.
Least(g, C) == Min({Poids(g, l) : l \in C})

PayClique(g, C, w) == [Reweigh(g, C, w) EXCEPT !.cost = Wrap(@ + w * (Cardinality(C) - 1))]

Left(r, C) == {l \in C : Poids(r, l) > 0}

\* A step of processAtMostOne takes the least weight from a clique: one literal
\* at least is spent, the others stay soft, and the new one is soft.
LEMMA FollowsReduce ==
  ASSUME NEW g, Sound(g), NoOutputs(g), NEW C, IsFiniteSet(C), C # {}, \A l \in C : Soft(g, l),
         NEW w, w = Least(g, C),
         NEW r, r = PayClique(g, C, w),
         NEW h, h = SoftClause(r, C, w), NEW n, n = Len(g.poids) + 1,
         NEW D, D = Left(r, C)
  PROVE  /\ Follows(g, h, C) /\ Soft(h, n) /\ n \notin LitsOf(g.poids)
         /\ D \subseteq C /\ D # C /\ \A l \in D : Soft(h, l)
<1>1. /\ g \in Formulas /\ IsFormula(g) /\ DOMAIN g.card = DOMAIN g.poids
      /\ C \in SUBSET LitsOf(g.poids) /\ g.poids \in Seq(Int)
      BY Fields DEF Sound, Soft
<1>2. \A l \in C : Weight(g.poids, l) \in Nat \ {0}
  <2>1. \A l \in C : Weight(g.poids, l) \in Int
        BY <1>1, Opposites
  <2> QED BY <2>1 DEF Soft
<1>3. /\ w \in Nat \ {0} /\ Affords(g.poids, C, w)
      /\ \E l \in C : Weight(g.poids, l) = w
  <2> DEFINE S == {Poids(g, l) : l \in C}
  <2>1. S \in SUBSET Nat /\ S # {}
        BY <1>2 DEF Poids
  <2>2. w \in S /\ \A y \in S : w <= y
        BY <2>1, MinFacts DEF Least
  <2>3. PICK l \in C : w = Weight(g.poids, l)
        BY <2>2 DEF Poids
  <2>4. \A x \in C : w <= Weight(g.poids, x)
        BY <2>2 DEF Poids
  <2> QED BY <1>2, <2>3, <2>4 DEF Affords
<1>4. PICK k : k = Reweigh(g, C, w)
      OBVIOUS
<1>5. /\ Keeps(g, k, C) /\ k.card = g.card /\ DOMAIN k.poids = DOMAIN g.poids
      /\ \A l \in C : Weight(k.poids, l) = Weight(g.poids, l) - w
  <2>1. Keeps(g, k, C) /\ k.card = g.card /\ \A l \in C : Weight(k.poids, l) = Weight(g.poids, l) - w
        BY ONLY Sound(g), <1>1, <1>3, <1>4, KeepsReweigh
  <2>2. DOMAIN k.poids = DOMAIN g.poids
        BY ONLY <1>1, <1>4 DEF Formulas, Reweigh
  <2> QED BY <2>1, <2>2
<1>6. k.truth = g.truth /\ k.live = g.live
      BY <1>1, <1>4 DEF Formulas, Reweigh
<1>7. Sound(k) /\ IsFormula(k) /\ k \in Formulas /\ k.poids \in Seq(Int) /\ k.cost \in Int
      BY <1>5, Fields DEF Keeps, Sound
<1>8. PICK c \in Int : r = [k EXCEPT !.cost = c]
  <2>1. Cardinality(C) \in Nat
        BY FS_CardinalityType
  <2>2. PICK d : d = Cardinality(C) - 1
        OBVIOUS
  <2>3. d \in Int /\ w \in Int
        BY <1>3, <2>1, <2>2
  <2>4. k.cost + w * d \in Int
        BY <1>7, <2>3
  <2>5. Wrap(k.cost + w * d) \in Int
        BY <2>4, WrapType
  <2>6. r = [k EXCEPT !.cost = Wrap(k.cost + w * d)]
        BY <1>4, <2>2 DEF PayClique
  <2> QED BY <2>5, <2>6
<1>9. Keeps(k, r, {}) /\ r.poids = k.poids /\ r.card = k.card
      BY ONLY <1>7, <1>8, c \in Int, KeepsCost
<1>10. r.truth = g.truth /\ r.live = g.live
       BY <1>6, <1>7, <1>8 DEF Formulas
<1>11. Sound(r) /\ IsFormula(r) /\ r \in Formulas /\ r.truth \in Seq(SUBSET Points)
       /\ r.poids \in Seq(Int) /\ r.card \in Seq(LitCard) /\ DOMAIN r.card = DOMAIN r.poids
       /\ DOMAIN r.truth = DOMAIN r.poids /\ IndexOK(r)
       BY <1>9, Fields DEF Keeps, Sound
<1>12. PICK T \in SUBSET Points : h = SoftVar(r, w, T)
  <2> DEFINE T == UNION {True(r, l) : l \in C}
  <2>1. LitsOf(g.poids) \subseteq LitsOf(r.poids)
        BY <1>5, <1>9 DEF Keeps
  <2>2. \A l \in C : True(r, l) \in SUBSET Points
        BY <1>1, <1>11, <2>1, TruePoints
  <2>3. T \in SUBSET Points
        BY <2>2
  <2>4. h = SoftVar(r, w, T)
        BY DEF SoftClause, SoftVar
  <2> QED BY <2>3, <2>4
<1>13. n = Len(r.poids) + 1
  <2>1. DOMAIN r.poids = DOMAIN g.poids
        BY <1>5, <1>9
  <2> QED BY <1>1, <1>11, <2>1
<1>14. /\ Keeps(r, h, {})
       /\ n \in LitsOf(h.poids) /\ n \notin LitsOf(r.poids) /\ Weight(h.poids, n) = w
       BY ONLY <1>3, <1>11, <1>12, <1>13, T \in SUBSET Points, KeepsSoftVar
<1>15. h.truth = Append(r.truth, T) /\ h.live = r.live
  <2>1. w \in Int /\ ~(w < 0)
        BY <1>3
  <2>2. PICK m : h = [r EXCEPT !.poids = Append(r.poids, w), !.card = Append(r.card, NoCard),
                               !.map = m, !.truth = Append(r.truth, T)]
        BY <1>12, <2>1 DEF SoftVar, NewSoftVar
  <2> QED BY <1>11, <2>2 DEF Formulas
<1>16. h.card = Append(r.card, NoCard)
  <2>1. w \in Int \ {0} /\ TRUE \in BOOLEAN
        BY <1>3
  <2> QED BY ONLY <1>11, <1>12, <2>1, T \in SUBSET Points, NewSoftVarFacts DEF SoftVar
<1>17. NoOutputs(h)
  <2>1. \A v \in DOMAIN r.card : r.card[v] = NoCard
        BY <1>5, <1>9 DEF NoOutputs
  <2>2. PICK z : z = Len(r.card) + 1
        OBVIOUS
  <2>3. DOMAIN h.card = DOMAIN r.card \cup {z} /\ h.card[z] = NoCard /\ \A v \in DOMAIN r.card : h.card[v] = r.card[v]
        BY ONLY <1>11, <1>16, <2>2, NoCardType, AppendFacts
  <2> QED BY ONLY <2>1, <2>3 DEF NoOutputs
<1>18. LitsOf(g.poids) \subseteq LitsOf(h.poids) /\ LitsOf(r.poids) = LitsOf(g.poids)
  <2>1. LitsOf(r.poids) = LitsOf(g.poids)
        BY <1>5, <1>9 DEF LitsOf
  <2> QED BY <1>14, <2>1 DEF Keeps
<1>19. Means(g, h)
  <2>1. ASSUME NEW l \in LitsOf(g.poids)
        PROVE  True(h, l) = True(g, l)
    <3>1. l \in Int \ {0} /\ Var(l) \in DOMAIN r.truth
          BY <1>5, <1>9, <1>11 DEF LitsOf
    <3>2. \A v \in DOMAIN r.truth : h.truth[v] = r.truth[v]
          BY ONLY <1>11, <1>15, T \in SUBSET Points, AppendFacts
    <3> QED BY <1>10, <3>1, <3>2 DEF True, Var
  <2> QED BY <1>10, <1>15, <1>18, <2>1 DEF Means
<1>20. \A l : Soft(g, l) /\ l \notin C => Soft(h, l)
  <2>1. Keeps(g, r, C)
        BY <1>5, <1>9, KeepsThen
  <2>2. Keeps(g, h, C)
        BY <1>14, <2>1, KeepsThen
  <2> QED BY <2>2, KeepsSoft
<1>21. Soft(h, n)
       BY <1>3, <1>14 DEF Soft
<1>22. \A l \in D : Soft(h, l)
  <2>1. \A l \in D : Soft(r, l)
        BY <1>1, <1>18 DEF Soft, Poids, Left
  <2>2. ASSUME NEW l \in D
        PROVE  Soft(h, l)
        BY ONLY <1>14, <2>1, l \in D, KeepsSoft
  <2> QED BY <2>2
<1>23. D # C
  <2>1. PICK l \in C : Weight(g.poids, l) = w
        BY <1>3
  <2>2. Poids(r, l) = 0
        BY <1>3, <1>5, <1>9, <2>1 DEF Poids
  <2>3. l \notin D
        BY <2>2 DEF Left
  <2> QED BY ONLY <2>3, l \in C
<1>24. Sound(h)
       BY <1>14 DEF Keeps
<1> QED BY <1>14, <1>17, <1>18, <1>19, <1>20, <1>21, <1>22, <1>23, <1>24 DEF Follows, Left


-----------------------------------------------------------------------------
(***************************************************************************)
(* The vector of literals and the edges.  W is the set of indices at work: *)
(* all of them while the literals are linked, then the active ones.        *)
(***************************************************************************)
\* The literals at work are different, and soft unless a unit refuted them.
VectorOK(g, n, a, W, U) ==
    /\ n \in Nat /\ DOMAIN a = 1..n /\ W \subseteq 1..n
    /\ \A k \in W : a[k] \in LitsOf(g.poids) /\ (a[k] \in U \/ Soft(g, a[k]))
    /\ \A j, k \in W : j # k => a[j] # a[k]

\* An edge joins two indices at work, whose literals are soft and exclude
\* each other.
EdgeOK(g, a, W, e) ==
    /\ e \subseteq W
    /\ \A j, k \in e : j # k => Models(g, {a[j], a[k]}) = {}
    /\ \A j \in e : Soft(g, a[j])

EdgesOK(g, n, a, c, W) == \A e \in c : e \subseteq 1..n => EdgeOK(g, a, W, e)

\* A step of the formula keeps both.
LEMMA GraphFollows ==
  ASSUME NEW g, NEW h, NEW gone, Follows(g, h, gone), NEW n, NEW a, NEW c, NEW W, NEW U,
         VectorOK(g, n, a, W, U), EdgesOK(g, n, a, c, W),
         \A k \in W : Soft(g, a[k]) => a[k] \notin gone
  PROVE  VectorOK(h, n, a, W, U) /\ EdgesOK(h, n, a, c, W)
<1>1. \A k \in W : a[k] \in LitsOf(g.poids) /\ (a[k] \in U \/ Soft(g, a[k]))
      BY DEF VectorOK
<1>2. LitsOf(g.poids) \subseteq LitsOf(h.poids) /\ Means(g, h)
      BY DEF Follows, Means
<1>3. \A k \in W : Soft(g, a[k]) => Soft(h, a[k])
      BY DEF Follows
<1>4. VectorOK(h, n, a, W, U)
      BY <1>1, <1>2, <1>3 DEF VectorOK
<1>5. ASSUME NEW e \in c, e \subseteq 1..n
      PROVE  EdgeOK(h, a, W, e)
  <2>1. EdgeOK(g, a, W, e)
        BY <1>5 DEF EdgesOK
  <2>2. e \subseteq W /\ (\A j \in e : Soft(g, a[j]))
        BY <2>1 DEF EdgeOK
  <2>3. ASSUME NEW j \in e, NEW k \in e, j # k
        PROVE  Models(h, {a[j], a[k]}) = {}
    <3>1. Models(g, {a[j], a[k]}) = {}
          BY <2>1, <2>3 DEF EdgeOK
    <3>2. a[j] \in LitsOf(g.poids) /\ a[k] \in LitsOf(g.poids)
          BY <1>1, <2>2
    <3> QED BY ONLY <1>2, <3>1, <3>2, ConflictStays
  <2> QED BY <1>3, <2>2, <2>3 DEF EdgeOK
<1>6. EdgesOK(h, n, a, c, W)
      BY <1>5 DEF EdgesOK
<1> QED BY <1>4, <1>6

\* The edges of c that avoid the indices I.
Apart(c, I) == {e \in c : e \cap I = {}}

\* Fewer indices at work, and no edge to the others.
LEMMA GraphLess ==
  ASSUME NEW g, NEW n, NEW a, NEW c, NEW W, NEW U, NEW I,
         VectorOK(g, n, a, W, U), EdgesOK(g, n, a, c, W),
         NEW c2, c2 = Apart(c, I), NEW W2, W2 = W \ I
  PROVE  VectorOK(g, n, a, W2, U) /\ EdgesOK(g, n, a, c2, W2)
<1>1. VectorOK(g, n, a, W2, U)
      BY DEF VectorOK
<1>2. ASSUME NEW e \in c2, e \subseteq 1..n
      PROVE  EdgeOK(g, a, W2, e)
  <2>1. e \in c /\ e \cap I = {}
        BY <1>2 DEF Apart
  <2>2. EdgeOK(g, a, W, e)
        BY <1>2, <2>1 DEF EdgesOK
  <2> QED BY <2>1, <2>2 DEF EdgeOK
<1>3. EdgesOK(g, n, a, c2, W2)
      BY <1>2 DEF EdgesOK
<1> QED BY <1>1, <1>3

\* New edges from the index x.
LEMMA GraphLinks ==
  ASSUME NEW g, NEW n, NEW a, NEW c, NEW W, NEW x \in W, NEW J \in SUBSET W,
         EdgesOK(g, n, a, c, W), Soft(g, a[x]),
         \A j \in J : /\ a[j] # a[x] /\ Soft(g, a[j])
                      /\ Models(g, {a[x], a[j]}) = {},
         NEW c2, c2 = c \cup {{x, j} : j \in J}
  PROVE  EdgesOK(g, n, a, c2, W)
<1>1. ASSUME NEW j \in J
      PROVE  EdgeOK(g, a, W, {x, j})
  <2>1. Models(g, {a[x], a[j]}) = {} /\ {a[j], a[x]} = {a[x], a[j]}
        OBVIOUS
  <2>2. ASSUME NEW s \in {x, j}, NEW t \in {x, j}, s # t
        PROVE  Models(g, {a[s], a[t]}) = {}
    <3>1. (s = x /\ t = j) \/ (s = j /\ t = x)
          BY <2>2
    <3>2. CASE s = x /\ t = j
          BY <2>1, <3>2
    <3>3. CASE s = j /\ t = x
          BY <2>1, <3>3
    <3> QED BY <3>1, <3>2, <3>3
  <2>3. {x, j} \subseteq W /\ \A s \in {x, j} : Soft(g, a[s])
        OBVIOUS
  <2> QED BY <2>2, <2>3 DEF EdgeOK
<1>2. ASSUME NEW e \in c2, e \subseteq 1..n
      PROVE  EdgeOK(g, a, W, e)
  <2>1. CASE e \in c
        BY <1>2, <2>1 DEF EdgesOK
  <2>2. CASE \E j \in J : e = {x, j}
        BY <1>1, <2>2
  <2> QED BY <2>1, <2>2
<1> QED BY <1>2 DEF EdgesOK

\* A refuted literal gives its place to the last one.
LEMMA GraphMoves ==
  ASSUME NEW g, NEW n, NEW x \in 1..n, NEW a, NEW c, NEW U, NEW W, W = (1..n) \ {x},
         VectorOK(g, n, a, W, U), EdgesOK(g, n, a, c, W),
         NEW m, m = n - 1,
         NEW b, b = [k \in 1..m |-> IF k = x THEN a[n] ELSE a[k]]
  PROVE  VectorOK(g, m, b, 1..m, U) /\ EdgesOK(g, m, b, c, 1..m)
<1>1. n \in Nat \ {0} /\ m \in Nat /\ m = n - 1
      BY DEF VectorOK
<1>2. DOMAIN b = 1..m
      OBVIOUS
<1>3. \A k \in 1..m : \E s \in W : b[k] = a[s] /\ (k # x => s = k) /\ (k = x => s = n)
  <2> TAKE k \in 1..m
  <2>1. CASE k = x
    <3>1. n \in W /\ b[k] = a[n]
          BY <1>1, <2>1
    <3> QED BY <2>1, <3>1
  <2>2. CASE k # x
    <3>1. k \in W /\ b[k] = a[k]
          BY <1>1, <2>2
    <3> QED BY <2>2, <3>1
  <2> QED BY <2>1, <2>2
<1>4. \A k \in 1..m : b[k] \in LitsOf(g.poids) /\ (b[k] \in U \/ Soft(g, b[k]))
      BY <1>3 DEF VectorOK
<1>5. ASSUME NEW j \in 1..m, NEW k \in 1..m, j # k
      PROVE  b[j] # b[k]
  <2>1. PICK s \in W : b[j] = a[s] /\ (j # x => s = j) /\ (j = x => s = n)
        BY <1>3
  <2>2. PICK t \in W : b[k] = a[t] /\ (k # x => t = k) /\ (k = x => t = n)
        BY <1>3
  <2>3. s # t
        BY <1>1, <1>5, <2>1, <2>2
  <2> QED BY <2>1, <2>2, <2>3 DEF VectorOK
<1>6. VectorOK(g, m, b, 1..m, U)
      BY <1>1, <1>2, <1>4, <1>5 DEF VectorOK
<1>7. ASSUME NEW e \in c, e \subseteq 1..m
      PROVE  EdgeOK(g, b, 1..m, e)
  <2>1. e \subseteq 1..n
        BY <1>1, <1>7
  <2>2. EdgeOK(g, a, W, e)
        BY <2>1 DEF EdgesOK
  <2>3. \A j \in e : b[j] = a[j]
        BY <1>7, <2>2 DEF EdgeOK
  <2> QED BY <1>7, <2>2, <2>3 DEF EdgeOK
<1>8. EdgesOK(g, m, b, c, 1..m)
      BY <1>7 DEF EdgesOK
<1> QED BY <1>6, <1>8

\* A new literal takes the place x.
LEMMA GraphPlaces ==
  ASSUME NEW g, NEW n, NEW x \in 1..n, NEW a, NEW c, NEW W, x \notin W, NEW U,
         VectorOK(g, n, a, W, U), EdgesOK(g, n, a, c, W),
         NEW l \in LitsOf(g.poids), NEW U2, U \subseteq U2, l \in U2 \/ Soft(g, l),
         \A k \in W : a[k] # l,
         NEW b, b = [a EXCEPT ![x] = l], NEW W2, W2 = W \cup {x}
  PROVE  VectorOK(g, n, b, W2, U2) /\ EdgesOK(g, n, b, c, W2)
<1>1. DOMAIN b = 1..n /\ b[x] = l /\ (\A k \in W : b[k] = a[k]) /\ W2 \subseteq 1..n /\ n \in Nat
      BY DEF VectorOK
<1>2. \A k \in W : b[k] \in LitsOf(g.poids) /\ (b[k] \in U2 \/ Soft(g, b[k]))
      BY <1>1 DEF VectorOK
<1>3. \A j, k \in W : j # k => b[j] # b[k]
      BY <1>1 DEF VectorOK
<1>4. VectorOK(g, n, b, W2, U2)
  <2>1. ASSUME NEW j \in W2, NEW k \in W2, j # k
        PROVE  b[j] # b[k]
        BY <1>1, <1>3, <2>1
  <2>2. ASSUME NEW k \in W2
        PROVE  b[k] \in LitsOf(g.poids) /\ (b[k] \in U2 \/ Soft(g, b[k]))
        BY <1>1, <1>2, <2>2
  <2> QED BY <1>1, <2>1, <2>2 DEF VectorOK
<1>5. ASSUME NEW e \in c, e \subseteq 1..n
      PROVE  EdgeOK(g, b, W2, e)
  <2>1. EdgeOK(g, a, W, e)
        BY <1>5 DEF EdgesOK
  <2>2. \A j \in e : b[j] = a[j]
        BY <1>1, <2>1 DEF EdgeOK
  <2>3. e \subseteq W2
        BY <2>1 DEF EdgeOK
  <2> QED BY <2>1, <2>2, <2>3 DEF EdgeOK
<1>6. EdgesOK(g, n, b, c, W2)
      BY <1>5 DEF EdgesOK
<1> QED BY <1>4, <1>6


-----------------------------------------------------------------------------
(***************************************************************************)
(* The invariant of adapt_am1_exact.                                       *)
(***************************************************************************)
InUse == IF pc = "link" THEN 1..size ELSE active

\* The literals of S are soft, and not at work.
NewSofts(g, a, W, S) == \A l \in S : Soft(g, l) /\ \A k \in W : a[k] # l

NoRepeats(s) == \A j, k \in DOMAIN s : j # k => s[j] # s[k]

From(s, lo) == {s[j] : j \in lo..Len(s)}

\* While the clique is reduced: what is left of it and the new literals have
\* room in its places.
Reducing(g, a, W, C, new, q) ==
    /\ IsFiniteSet(C) /\ NewSofts(g, a, W, C)
    /\ NewSofts(g, a, W, From(new, 1)) /\ From(new, 1) \cap C = {}
    /\ Len(new) + Cardinality(C) <= Len(q)
    /\ From(q, 1) \cap W = {}

\* While the new literals take their places: from lo on both are free.
Placing(g, a, W, new, q, lo) ==
    /\ Len(new) <= Len(q)
    /\ NewSofts(g, a, W, From(new, lo))
    /\ From(q, lo) \cap W = {}

GraphOK ==
    /\ Sound(f) /\ NoOutputs(f) /\ i \in Nat \ {0} /\ QMAX \in Seq(Nat)
    /\ newAssum \in Seq(Int) /\ NoRepeats(newAssum)
    /\ VectorOK(f, size, assumption, InUse, units)
    /\ EdgesOK(f, size, assumption, conn, InUse)
    /\ pc = "link" => active = {} /\ \A k \in 1..size : assumption[k] \notin units
    /\ pc \notin {"reduce", "place"} => newAssum = <<>>
    /\ pc = "reduce" => Reducing(f, assumption, active, clause, newAssum, QMAX)
    /\ pc = "place" => Placing(f, assumption, active, newAssum, QMAX, i)

ExactInv == SearchOK /\ GraphOK

\* Outside the search its invariant says little.
LEMMA SearchRests ==
  ASSUME SearchOK, pc # "expand", pc' \notin {"expand", "found"}, stack' = stack, size' \in Nat,
         pc' \in {"reduce", "place"} => Places(size', QMAX')
  PROVE  SearchOK'
<1>1. stack' = <<>>
      BY DEF SearchOK
<1> QED BY <1>1 DEF SearchOK

\* The first loop.
LEMMA RefuteOK ==
  ASSUME ExactInv, Refute
  PROVE  ExactInv'
<1>1. /\ pc = "link" /\ pc' = "link" /\ i \in 1..size /\ size \in Nat /\ i' = i
      /\ stack' = stack /\ QMAX' = QMAX /\ newAssum' = newAssum /\ active = {} /\ active' = active
      BY DEF ExactInv, SearchOK, GraphOK, Refute, md, search
<1>2. PICK l : l = assumption[i]
      OBVIOUS
<1>3. PICK h : h = HardUnit(f, -l) /\ f' = h
      BY <1>2 DEF Refute
<1>4. PICK W : W = (1..size) \ {i}
      OBVIOUS
<1>5. PICK c : c = {e \in conn : e \cap {i} = {}} /\ conn' = c
      BY DEF Refute, Without
<1>6. PICK b : b = [k \in 1..(size - 1) |-> IF k = i THEN assumption[size] ELSE assumption[k]] /\ assumption' = b
      BY DEF Refute
<1>7. /\ Sound(f) /\ NoOutputs(f) /\ VectorOK(f, size, assumption, 1..size, units)
      /\ EdgesOK(f, size, assumption, conn, 1..size)
      /\ \A k \in 1..size : assumption[k] \notin units
      BY <1>1 DEF ExactInv, GraphOK, InUse
<1>8. /\ l \in LitsOf(f.poids) /\ Soft(f, l) /\ \A k \in W : assumption[k] # l
      BY <1>1, <1>2, <1>4, <1>7 DEF VectorOK
<1>9. -l \in LitsOf(f.poids) /\ ~Soft(f, -l) /\ -(-l) = l
      BY <1>7, <1>8, SoftFacts
<1>10. Follows(f, h, {-l, l})
  <2>1. Follows(f, h, {-l, -(-l)})
        BY ONLY <1>3, <1>7, <1>9, FollowsHardUnit
  <2> QED BY <1>9, <2>1
<1>11. VectorOK(f, size, assumption, W, units) /\ EdgesOK(f, size, assumption, c, W)
  <2>1. PICK I : I = {i}
        OBVIOUS
  <2>2. PICK V : V = 1..size
        OBVIOUS
  <2>3. c = Apart(conn, I) /\ W = V \ I
        BY <1>4, <1>5, <2>1, <2>2 DEF Apart
  <2>4. VectorOK(f, size, assumption, V, units) /\ EdgesOK(f, size, assumption, conn, V)
        BY <1>7, <2>2
  <2> QED BY ONLY <2>3, <2>4, GraphLess
<1>12. \A k \in W : Soft(f, assumption[k]) => assumption[k] \notin {-l, l}
       BY <1>8, <1>9
<1>13. VectorOK(h, size, assumption, W, units) /\ EdgesOK(h, size, assumption, c, W)
       BY ONLY <1>10, <1>11, <1>12, GraphFollows
<1>14. PICK m : m = size - 1 /\ size' = m
       BY DEF Refute
<1>15. VectorOK(h, m, b, 1..m, units) /\ EdgesOK(h, m, b, c, 1..m)
  <2>1. b = [k \in 1..m |-> IF k = i THEN assumption[size] ELSE assumption[k]] /\ i \in 1..size /\ m = size - 1
        BY <1>1, <1>6, <1>14
  <2> QED BY ONLY <1>4, <1>13, <2>1, GraphMoves
<1>16. units' = units \cup {l}
       BY <1>2 DEF Refute
<1>17. \A k \in 1..m : b[k] \notin units'
  <2>1. ASSUME NEW k \in 1..m
        PROVE  \E s \in W : b[k] = assumption[s]
    <3>1. b[k] = IF k = i THEN assumption[size] ELSE assumption[k]
          BY <1>6, <1>14
    <3>2. size \in Nat \ {0} /\ m = size - 1
          BY <1>1, <1>14
    <3>3. CASE k = i
      <4>1. size \in W /\ b[k] = assumption[size]
            BY <1>4, <3>1, <3>2, <3>3
      <4> QED BY <4>1
    <3>4. CASE k # i
      <4>1. k \in W /\ b[k] = assumption[k]
            BY <1>4, <3>1, <3>2, <3>4
      <4> QED BY <4>1
    <3> QED BY <3>3, <3>4
  <2>2. \A s \in W : assumption[s] \notin units'
        BY <1>4, <1>7, <1>8, <1>16
  <2> QED BY <2>1, <2>2
<1>18. VectorOK(h, m, b, 1..m, units')
       BY <1>15, <1>16 DEF VectorOK
<1>19. Sound(h) /\ NoOutputs(h)
       BY <1>10 DEF Follows
<1>20. GraphOK'
  <2>1. InUse' = 1..m
        BY <1>1, <1>14 DEF InUse
  <2> QED BY <1>1, <1>3, <1>5, <1>6, <1>14, <1>15, <1>17, <1>18, <1>19, <2>1 DEF GraphOK, ExactInv
<1>21. SearchOK'
  <2>1. size' \in Nat
        BY <1>1, <1>14
  <2> QED BY <1>1, <2>1, SearchRests DEF ExactInv
<1> QED BY <1>20, <1>21 DEF ExactInv

\* One row of the matrix: propagation gives edges between soft literals that exclude each other.
LEMMA LinkOK ==
  ASSUME ExactInv, Link
  PROVE  ExactInv'
<1>1. /\ pc = "link" /\ pc' = "link" /\ i \in 1..size /\ size \in Nat /\ i' = i + 1 /\ i \in Nat
      /\ stack' = stack /\ QMAX' = QMAX /\ newAssum' = newAssum /\ f' = f /\ assumption' = assumption
      /\ size' = size /\ units' = units /\ active = {} /\ active' = active
      BY DEF ExactInv, SearchOK, GraphOK, Link, md, search
<1>2. /\ Sound(f) /\ NoOutputs(f) /\ VectorOK(f, size, assumption, 1..size, units)
      /\ EdgesOK(f, size, assumption, conn, 1..size)
      /\ \A k \in 1..size : assumption[k] \notin units
      BY <1>1 DEF ExactInv, GraphOK, InUse
<1>3. \A k \in 1..size : Soft(f, assumption[k])
      BY <1>2 DEF VectorOK
<1>4. PICK J \in SUBSET {j \in 1..size : MayExclude(f, assumption[i], assumption[j])} :
         conn' = conn \cup {{i, j} : j \in J}
      BY DEF Link
<1>5. \A j \in J : /\ assumption[j] # assumption[i] /\ Soft(f, assumption[j])
                   /\ Models(f, {assumption[i], assumption[j]}) = {}
      BY <1>3 DEF MayExclude
<1>6. J \in SUBSET (1..size) /\ Soft(f, assumption[i])
      BY <1>1, <1>3
<1>7. EdgesOK(f, size, assumption, conn', 1..size)
      BY ONLY <1>1, <1>2, <1>4, <1>5, <1>6, GraphLinks
<1>8. GraphOK'
  <2>1. InUse' = 1..size /\ i' \in Nat \ {0}
        BY <1>1 DEF InUse
  <2> QED BY <1>1, <1>2, <1>7, <2>1 DEF GraphOK, ExactInv
<1>9. SearchOK'
      BY <1>1, SearchRests DEF ExactInv
<1> QED BY <1>8, <1>9 DEF ExactInv

\* The matrix is complete and every vertex becomes active.
LEMMA LinkEndOK ==
  ASSUME ExactInv, LinkEnd
  PROVE  ExactInv'
<1>1. /\ pc = "link" /\ pc' \in {"done", "search"} /\ size \in Nat /\ i' = i
      /\ stack' = stack /\ QMAX' = QMAX /\ newAssum' = newAssum /\ f' = f /\ assumption' = assumption
      /\ size' = size /\ units' = units /\ conn' = conn /\ active' = 1..size
      BY DEF ExactInv, SearchOK, GraphOK, LinkEnd, md, search
<1>2. InUse = 1..size /\ InUse' = 1..size
      BY <1>1 DEF InUse
<1>3. GraphOK'
      BY <1>1, <1>2 DEF GraphOK, ExactInv
<1>4. SearchOK'
      BY <1>1, SearchRests DEF ExactInv
<1> QED BY <1>3, <1>4 DEF ExactInv

\* The clique search leaves the rest alone.
LEMMA FindCliqueOK ==
  ASSUME ExactInv, FindClique
  PROVE  ExactInv'
<1>1. SearchOK'
      BY SearchNextOK DEF ExactInv, FindClique
<1>2. /\ pc \in {"search", "expand"} /\ pc' \in {"expand", "found"}
      /\ f' = f /\ assumption' = assumption /\ active' = active /\ i' = i /\ newAssum' = newAssum
      /\ units' = units /\ conn' = conn /\ size' = size
      BY DEF FindClique, exact, SearchNext, Start, Descend, Leaf, Return, Finish, Promising, graph
<1>3. QMAX' \in Seq(Nat)
  <2>1. QMAX' \in Seq(1..size') /\ size' \in Nat
        BY <1>1, <1>2 DEF SearchOK, SeqClique, Places
  <2> QED BY <2>1
<1>4. InUse = active /\ InUse' = active
      BY <1>2 DEF InUse
<1>5. GraphOK'
      BY <1>2, <1>3, <1>4 DEF ExactInv, GraphOK
<1> QED BY <1>1, <1>5 DEF ExactInv

\* A clique of three or more: its literals are soft, active and different.
LEMMA CliqueStepOK ==
  ASSUME ExactInv, Clique
  PROVE  ExactInv'
<1>1. /\ pc = "found" /\ pc' = "reduce" /\ size' = size /\ size \in Nat /\ i' = i /\ stack' = stack
      /\ QMAX' = QMAX /\ Len(QMAX) > 2 /\ f' = f /\ assumption' = assumption /\ newAssum' = <<>>
      /\ units' = units
      BY DEF Clique, ExactInv, SearchOK, Forget, qmax
<1>2. SeqClique(conn, size, QMAX)
      BY <1>1 DEF ExactInv, SearchOK
<1>3. PICK L : L = Len(QMAX)
      OBVIOUS
<1>4. /\ L \in Nat /\ L > 2 /\ DOMAIN QMAX = 1..L /\ (\A j \in 1..L : QMAX[j] \in 1..size)
      /\ \A j, k \in 1..L : j # k => QMAX[j] # QMAX[k]
  <2>1. QMAX \in Seq(1..size) /\ \A j, k \in DOMAIN QMAX : j # k => QMAX[j] # QMAX[k]
        BY <1>2 DEF SeqClique, Places
  <2> QED BY <1>1, <1>3, <2>1
<1>5. PICK I : I = Range(QMAX)
      OBVIOUS
<1>6. I = {QMAX[j] : j \in 1..L}
      BY <1>4, <1>5 DEF Range
<1>7. /\ Sound(f) /\ NoOutputs(f) /\ VectorOK(f, size, assumption, active, units)
      /\ EdgesOK(f, size, assumption, conn, active)
      BY <1>1 DEF ExactInv, GraphOK, InUse
<1>8. ASSUME NEW k \in I
      PROVE  k \in active /\ Soft(f, assumption[k])
  <2>1. PICK j \in 1..L : k = QMAX[j]
        BY <1>6
  <2>2. PICK s \in 1..L : s # j
        BY <1>4
  <2>3. PICK e : e = {k, QMAX[s]}
        OBVIOUS
  <2>4. k # QMAX[s] /\ QMAX[s] \in I /\ e \subseteq 1..size
        BY <1>4, <1>6, <2>1, <2>2, <2>3
  <2>5. e \in conn
        BY <1>2, <1>5, <2>3, <2>4 DEF SeqClique, CliqueOf
  <2>6. EdgeOK(f, assumption, active, e)
        BY ONLY <1>7, <2>4, <2>5 DEF EdgesOK
  <2> QED BY <2>3, <2>6 DEF EdgeOK
<1>9. PICK C : C = {assumption[k] : k \in I} /\ clause' = C
      BY <1>5 DEF Clique, qmax
<1>10. PICK W : W = active \ I /\ active' = W
       BY <1>5 DEF Clique, qmax
<1>11. PICK c : c = Apart(conn, I) /\ conn' = c
       BY <1>5 DEF Clique, qmax, Without, Apart
<1>12. VectorOK(f, size, assumption, W, units) /\ EdgesOK(f, size, assumption, c, W)
       BY ONLY <1>7, <1>10, <1>11, GraphLess
<1>13. NewSofts(f, assumption, W, C)
  <2>1. \A k \in I : \A j \in W : assumption[j] # assumption[k]
        BY <1>7, <1>8, <1>10 DEF VectorOK
  <2> QED BY <1>8, <1>9, <2>1 DEF NewSofts
<1>14. IsFiniteSet(C) /\ Cardinality(C) <= L
  <2> DEFINE g == [j \in 1..L |-> assumption[QMAX[j]]]
  <2>1. g \in Surjection(1..L, C)
        BY <1>6, <1>9 DEF Surjection
  <2>2. IsFiniteSet(1..L) /\ Cardinality(1..L) = L
        BY <1>4, FS_Interval
  <2> QED BY <2>1, <2>2, FS_Surjection
<1>15. Reducing(f, assumption, W, C, <<>>, QMAX)
  <2>1. From(<<>>, 1) = {}
        BY DEF From
  <2>2. From(QMAX, 1) = I
        BY <1>3, <1>6 DEF From
  <2>3. Len(<<>>) + Cardinality(C) <= Len(QMAX)
    <3>1. Cardinality(C) \in Nat
          BY <1>14, FS_CardinalityType
    <3> QED BY <1>3, <1>4, <1>14, <3>1
  <2> QED BY <1>10, <1>13, <1>14, <2>1, <2>2, <2>3 DEF Reducing, NewSofts
<1>16. GraphOK'
  <2>1. InUse' = W
        BY <1>1, <1>10 DEF InUse
  <2>2. <<>> \in Seq(Int) /\ NoRepeats(<<>>)
        BY DEF NoRepeats
  <2>3. pc' # "link" /\ pc' # "place" /\ i \in Nat \ {0} /\ QMAX \in Seq(Nat)
        BY <1>1 DEF ExactInv, GraphOK
  <2> QED BY ONLY <1>1, <1>7, <1>9, <1>10, <1>11, <1>12, <1>15, <2>1, <2>2, <2>3 DEF GraphOK
<1>17. SearchOK'
  <2>1. Places(size', QMAX')
        BY <1>1, <1>2 DEF SeqClique
  <2> QED BY <1>1, <2>1, SearchRests DEF ExactInv
<1> QED BY <1>16, <1>17 DEF ExactInv

\* No clique of two: adapt_am1_exact ends.
LEMMA NoCliqueOK ==
  ASSUME ExactInv, NoClique
  PROVE  ExactInv'
<1>1. /\ pc = "found" /\ pc' = "done" /\ size' = size /\ size \in Nat /\ i' = i /\ stack' = stack
      /\ QMAX' = QMAX /\ f' = f /\ assumption' = assumption /\ newAssum' = newAssum
      /\ units' = units /\ active' = active /\ conn' = conn
      BY DEF NoClique, ExactInv, SearchOK, Forget, exact
<1>2. InUse = active /\ InUse' = active
      BY <1>1 DEF InUse
<1>3. GraphOK'
      BY <1>1, <1>2 DEF GraphOK, ExactInv
<1>4. SearchOK'
      BY <1>1, SearchRests DEF ExactInv
<1> QED BY <1>3, <1>4 DEF ExactInv

\* One literal more at the end.
LEMMA FromAppend ==
  ASSUME NEW s \in Seq(Int), NoRepeats(s), NEW x \in Int, x \notin From(s, 1), NEW t, t = Append(s, x)
  PROVE  /\ t \in Seq(Int) /\ NoRepeats(t) /\ Len(t) = Len(s) + 1 /\ Len(s) \in Nat
         /\ From(t, 1) = From(s, 1) \cup {x}
<1>1. PICK n : n = Len(s) + 1
      OBVIOUS
<1>2. /\ t \in Seq(Int) /\ Len(s) \in Nat /\ DOMAIN s = 1..Len(s) /\ DOMAIN t = 1..n /\ Len(t) = n
      /\ t[n] = x /\ \A v \in DOMAIN s : t[v] = s[v]
      BY <1>1
<1>3. \A v \in 1..n : v = n \/ v \in DOMAIN s
      BY <1>1, <1>2
<1>4. \A v \in DOMAIN s : s[v] \in From(s, 1) /\ v # n
      BY <1>1, <1>2 DEF From
<1>5. NoRepeats(t)
      BY <1>2, <1>3, <1>4 DEF NoRepeats
<1>6. n \in 1..n /\ DOMAIN s \subseteq 1..n
      BY <1>1, <1>2
<1>7. ASSUME NEW y
      PROVE  y \in From(t, 1) <=> y \in From(s, 1) \cup {x}
  <2>1. y \in From(t, 1) <=> \E j \in 1..n : y = t[j]
        BY <1>2 DEF From
  <2>2. y \in From(s, 1) <=> \E j \in DOMAIN s : y = s[j]
        BY <1>2 DEF From
  <2> QED BY <1>2, <1>3, <1>6, <2>1, <2>2
<1> QED BY <1>1, <1>2, <1>5, <1>7

\* A step of processAtMostOne: a literal comes, one at least goes.
LEMMA ReduceOK ==
  ASSUME ExactInv, Reduce
  PROVE  ExactInv'
<1>1. /\ pc = "reduce" /\ pc' = "reduce" /\ size' = size /\ size \in Nat /\ i' = i /\ stack' = stack
      /\ QMAX' = QMAX /\ assumption' = assumption /\ active' = active /\ conn' = conn /\ units' = units
      /\ i \in Nat \ {0} /\ QMAX \in Seq(Nat) /\ newAssum \in Seq(Int) /\ NoRepeats(newAssum)
      /\ Cardinality(clause) > 1
      BY DEF Reduce, ExactInv, SearchOK, GraphOK, md, search
<1>2. PICK C : C = clause
      OBVIOUS
<1>3. PICK w : w = Least(f, C)
      OBVIOUS
<1>4. PICK r : r = PayClique(f, C, w)
      OBVIOUS
<1>5. PICK h : h = SoftClause(r, C, w)
      OBVIOUS
<1>6. PICK D : D = Left(r, C)
      OBVIOUS
<1>7. PICK n : n = Len(f.poids) + 1
      OBVIOUS
<1>8. f' = h /\ clause' = D /\ newAssum' = Append(newAssum, n)
      BY ONLY Reduce, <1>2, <1>3, <1>4, <1>5, <1>6, <1>7 DEF Reduce, Least, PayClique, Left
<1>9. /\ Sound(f) /\ NoOutputs(f) /\ VectorOK(f, size, assumption, active, units)
      /\ EdgesOK(f, size, assumption, conn, active)
      /\ Reducing(f, assumption, active, C, newAssum, QMAX)
      BY <1>1, <1>2 DEF ExactInv, GraphOK, InUse
<1>10. /\ IsFiniteSet(C) /\ NewSofts(f, assumption, active, C)
       /\ NewSofts(f, assumption, active, From(newAssum, 1)) /\ From(newAssum, 1) \cap C = {}
       /\ Len(newAssum) + Cardinality(C) <= Len(QMAX)
       /\ From(QMAX, 1) \cap active = {}
       BY <1>9 DEF Reducing
<1>11. C # {} /\ \A l \in C : Soft(f, l)
  <2>1. C # {}
    <3>1. Cardinality({}) = 0
          BY FS_EmptySet
    <3>2. Cardinality(C) > 1
          BY <1>1, <1>2
    <3>3. C = {} => Cardinality(C) = 0
          BY ONLY <3>1
    <3> QED BY ONLY <3>2, <3>3
  <2> QED BY <1>10, <2>1 DEF NewSofts
<1>12. /\ Follows(f, h, C) /\ Soft(h, n) /\ n \notin LitsOf(f.poids)
       /\ D \subseteq C /\ D # C /\ \A l \in D : Soft(h, l)
       BY ONLY <1>3, <1>4, <1>5, <1>6, <1>7, <1>9, <1>10, <1>11, FollowsReduce
<1>13. \A k \in active : Soft(f, assumption[k]) => assumption[k] \notin C
       BY <1>10 DEF NewSofts
<1>14. VectorOK(h, size, assumption, active, units) /\ EdgesOK(h, size, assumption, conn, active)
       BY ONLY <1>9, <1>12, <1>13, GraphFollows
<1>15. PICK new : new = Append(newAssum, n) /\ newAssum' = new
       BY <1>8
<1>16. n \in Int /\ n \notin From(newAssum, 1)
  <2>1. n \in Int
        BY <1>12 DEF Soft, LitsOf
  <2>2. \A l \in From(newAssum, 1) : l \in LitsOf(f.poids)
        BY <1>10 DEF NewSofts, Soft
  <2> QED BY <1>12, <2>1, <2>2
<1>17. /\ new \in Seq(Int) /\ NoRepeats(new) /\ Len(new) = Len(newAssum) + 1 /\ Len(newAssum) \in Nat
       /\ From(new, 1) = From(newAssum, 1) \cup {n}
       BY ONLY <1>1, <1>15, <1>16, FromAppend
<1>18. Reducing(h, assumption, active, D, new, QMAX)
  <2>1. IsFiniteSet(D) /\ Cardinality(D) \in Nat /\ Cardinality(D) <= Cardinality(C) - 1 /\ Cardinality(C) \in Nat
    <3>1. PICK x \in C : x \notin D
          BY <1>12
    <3>2. IsFiniteSet(C \ {x}) /\ Cardinality(C \ {x}) = Cardinality(C) - 1
          BY <1>10, <3>1, FS_RemoveElement
    <3>3. D \in SUBSET (C \ {x})
          BY <1>12, <3>1
    <3>4. IsFiniteSet(D) /\ Cardinality(D) <= Cardinality(C \ {x})
          BY ONLY <3>2, <3>3, FS_Subset
    <3> QED BY <1>10, <3>2, <3>4, FS_CardinalityType
  <2>2. Len(new) + Cardinality(D) <= Len(QMAX)
    <3>1. Len(QMAX) \in Nat
          BY <1>1
    <3> QED BY ONLY <1>10, <1>17, <2>1, <3>1
  <2>3. NewSofts(h, assumption, active, D)
        BY <1>10, <1>12 DEF NewSofts
  <2>4. NewSofts(h, assumption, active, From(newAssum, 1))
    <3>1. \A l \in From(newAssum, 1) : Soft(f, l) /\ l \notin C
          BY <1>10 DEF NewSofts
    <3>2. \A l \in From(newAssum, 1) : Soft(h, l)
          BY <1>12, <3>1 DEF Follows
    <3> QED BY <1>10, <3>2 DEF NewSofts
  <2>5. \A k \in active : assumption[k] # n
        BY <1>9, <1>12 DEF VectorOK
  <2>6. NewSofts(h, assumption, active, From(new, 1))
        BY <1>12, <1>17, <2>4, <2>5 DEF NewSofts
  <2>7. From(new, 1) \cap D = {}
    <3>1. n \notin C
          BY <1>11, <1>12 DEF Soft
    <3> QED BY <1>10, <1>12, <1>17, <3>1
  <2> QED BY <1>10, <2>1, <2>2, <2>3, <2>6, <2>7 DEF Reducing
<1>19. GraphOK'
  <2>1. InUse' = active
        BY <1>1 DEF InUse
  <2>2. Sound(h) /\ NoOutputs(h) /\ pc' # "link" /\ pc' # "place"
        BY <1>1, <1>12 DEF Follows
  <2> QED BY ONLY <1>1, <1>8, <1>14, <1>15, <1>17, <1>18, <2>1, <2>2 DEF GraphOK
<1>20. SearchOK'
  <2>1. Places(size', QMAX')
        BY <1>1 DEF ExactInv, SearchOK
  <2> QED BY <1>1, <2>1, SearchRests DEF ExactInv
<1> QED BY <1>19, <1>20 DEF ExactInv

\* A set of one element or none as a sequence.
LEMMA FewToSeq ==
  ASSUME NEW C, IsFiniteSet(C), Cardinality(C) <= 1
  PROVE  (C = {} /\ SetToSeq(C) = <<>>) \/ \E x : C = {x} /\ SetToSeq(C) = <<x>>
<1>1. Cardinality(C) = 0 \/ Cardinality(C) = 1
      BY FS_CardinalityType
<1>2. CASE Cardinality(C) = 0
  <2>1. C = {}
        BY <1>2, FS_EmptySet
  <2> DEFINE e == [k \in 1..0 |-> k]
  <2>2. e \in [1..0 -> C] /\ IsInjective(e)
        BY DEF IsInjective
  <2> HIDE DEF e
  <2>3. \E s \in [1..0 -> C] : IsInjective(s)
        BY <2>2
  <2>4. SetToSeq(C) = CHOOSE s \in [1..0 -> C] : IsInjective(s)
        BY <1>2 DEF SetToSeq
  <2>5. SetToSeq(C) \in [1..0 -> C]
        BY <2>3, <2>4
  <2> QED BY <2>1, <2>5
<1>3. CASE Cardinality(C) = 1
  <2>1. PICK x : C = {x}
        BY <1>3, FS_Singleton
  <2> DEFINE e == [k \in 1..1 |-> x]
  <2>2. e \in [1..1 -> C] /\ IsInjective(e)
        BY <2>1 DEF IsInjective
  <2> HIDE DEF e
  <2>3. \E s \in [1..1 -> C] : IsInjective(s)
        BY <2>2
  <2>4. SetToSeq(C) = CHOOSE s \in [1..1 -> C] : IsInjective(s)
        BY <1>3 DEF SetToSeq
  <2>5. SetToSeq(C) \in [1..1 -> C]
        BY <2>3, <2>4
  <2>6. PICK s : s = SetToSeq(C)
        OBVIOUS
  <2>7. s \in Seq(C) /\ Len(s) = 1 /\ s[1] = x
    <3>1. s \in [1..1 -> C]
          BY <2>5, <2>6
    <3>2. s \in Seq(C) /\ Len(s) = 1 /\ 1 \in 1..1
      <4>1. PICK n \in Nat : n = 1
            OBVIOUS
      <4>2. s \in [1..n -> C]
            BY ONLY <3>1, <4>1
      <4>3. s \in Seq(C)
            BY ONLY <4>2, n \in Nat
      <4>4. DOMAIN s = 1..n
            BY ONLY <4>2
      <4> QED BY ONLY <4>1, <4>3, <4>4
    <3>3. s[1] \in C
          BY ONLY <3>1, <3>2
    <3> QED BY <2>1, <3>2, <3>3
  <2>8. s = <<x>>
        BY <2>7
  <2> QED BY <2>1, <2>6, <2>8
<1> QED BY <1>1, <1>2, <1>3

\* What is left of the clique joins the new literals.
LEMMA ReduceEndOK ==
  ASSUME ExactInv, ReduceEnd
  PROVE  ExactInv'
<1>1. /\ pc = "reduce" /\ pc' = "place" /\ size' = size /\ size \in Nat /\ i' = 1 /\ stack' = stack
      /\ QMAX' = QMAX /\ assumption' = assumption /\ active' = active /\ conn' = conn /\ units' = units
      /\ f' = f /\ QMAX \in Seq(Nat) /\ newAssum \in Seq(Int) /\ NoRepeats(newAssum)
      /\ Cardinality(clause) <= 1 /\ newAssum' = newAssum \o SetToSeq(clause)
      BY DEF ReduceEnd, ExactInv, SearchOK, GraphOK, md, search
<1>2. PICK C : C = clause
      OBVIOUS
<1>3. /\ Sound(f) /\ NoOutputs(f) /\ VectorOK(f, size, assumption, active, units)
      /\ EdgesOK(f, size, assumption, conn, active)
      /\ Reducing(f, assumption, active, C, newAssum, QMAX)
      BY <1>1, <1>2 DEF ExactInv, GraphOK, InUse
<1>4. /\ IsFiniteSet(C) /\ NewSofts(f, assumption, active, C)
      /\ NewSofts(f, assumption, active, From(newAssum, 1)) /\ From(newAssum, 1) \cap C = {}
      /\ Len(newAssum) + Cardinality(C) <= Len(QMAX)
      /\ From(QMAX, 1) \cap active = {}
      BY <1>3 DEF Reducing
<1>5. PICK new : new = newAssum \o SetToSeq(C) /\ newAssum' = new
      BY <1>1, <1>2
<1>6. Len(newAssum) \in Nat /\ Len(QMAX) \in Nat
      BY <1>1
<1>7. /\ new \in Seq(Int) /\ NoRepeats(new) /\ Len(new) <= Len(QMAX)
      /\ NewSofts(f, assumption, active, From(new, 1))
  <2>1. CASE C = {} /\ SetToSeq(C) = <<>>
    <3>1. new = newAssum
          BY <1>1, <1>5, <2>1
    <3>2. Cardinality(C) = 0
          BY <2>1, FS_EmptySet
    <3>3. Len(newAssum) <= Len(QMAX)
          BY ONLY <1>4, <1>6, <3>2
    <3> QED BY <1>1, <1>4, <3>1, <3>3
  <2>2. ASSUME NEW x, C = {x}, SetToSeq(C) = <<x>>
        PROVE  /\ new \in Seq(Int) /\ NoRepeats(new) /\ Len(new) <= Len(QMAX)
               /\ NewSofts(f, assumption, active, From(new, 1))
    <3>1. x \in C /\ x \in Int /\ x \notin From(newAssum, 1)
          BY <1>4, <2>2 DEF NewSofts, Soft, LitsOf
    <3>2. new = Append(newAssum, x)
      <4>1. new = newAssum \o <<x>> /\ newAssum \in Seq(Int) /\ x \in Int
            BY <1>1, <1>5, <2>2, <3>1
      <4> QED BY ONLY <4>1
    <3>3. Cardinality(C) = 1
          BY <2>2, FS_Singleton
    <3>4. /\ new \in Seq(Int) /\ NoRepeats(new) /\ Len(new) = Len(newAssum) + 1
          /\ From(new, 1) = From(newAssum, 1) \cup {x}
          BY ONLY <1>1, <3>1, <3>2, FromAppend
    <3>5. Len(new) <= Len(QMAX)
          BY ONLY <1>4, <1>6, <3>3, <3>4
    <3>6. NewSofts(f, assumption, active, From(new, 1))
          BY <1>4, <3>1, <3>4 DEF NewSofts
    <3> QED BY <3>4, <3>5, <3>6
  <2>3. (C = {} /\ SetToSeq(C) = <<>>) \/ \E x : C = {x} /\ SetToSeq(C) = <<x>>
        BY <1>1, <1>2, <1>4, FewToSeq
  <2> QED BY <2>1, <2>2, <2>3
<1>8. Placing(f, assumption, active, new, QMAX, 1)
      BY <1>4, <1>7 DEF Placing
<1>9. GraphOK'
  <2>1. InUse' = active
        BY <1>1 DEF InUse
  <2>2. pc' # "link" /\ pc' # "reduce" /\ 1 \in Nat \ {0}
        BY <1>1
  <2> QED BY ONLY <1>1, <1>3, <1>5, <1>7, <1>8, <2>1, <2>2 DEF GraphOK
<1>10. SearchOK'
  <2>1. Places(size', QMAX')
        BY <1>1 DEF ExactInv, SearchOK
  <2> QED BY <1>1, <2>1, SearchRests DEF ExactInv
<1> QED BY <1>9, <1>10 DEF ExactInv

\* Only l may be soft no longer.
SoftBut(g, h, l) == \A m : Soft(g, m) /\ m # l => Soft(h, m)

Placed(a, x, l) == [a EXCEPT ![x] = l]

\* It is the turn of the literal l, the lo-th of new, and its place x.
Turn(new, q, lo, x, l) ==
    /\ new \in Seq(Int) /\ q \in Seq(Nat) /\ lo \in Nat \ {0} /\ lo <= Len(new)
    /\ NoRepeats(new) /\ NoRepeats(q) /\ x = q[lo] /\ l = new[lo]

\* The places and the literals after lo are still free once lo is placed.
LEMMA PlacingNext ==
  ASSUME NEW g, NEW a, NEW W, NEW new, NEW q, NEW lo, NEW x, NEW l, Turn(new, q, lo, x, l),
         Placing(g, a, W, new, q, lo), x \in DOMAIN a, W \subseteq DOMAIN a,
         NEW b, b = Placed(a, x, l), NEW W2, W2 = W \cup {x}, NEW h, SoftBut(g, h, l)
  PROVE  /\ Placing(h, b, W2, new, q, lo + 1)
         /\ x \notin W /\ NewSofts(g, a, W, {l})
<1>1. /\ new \in Seq(Int) /\ q \in Seq(Nat) /\ lo \in Nat \ {0} /\ lo <= Len(new)
      /\ NoRepeats(new) /\ NoRepeats(q) /\ x = q[lo] /\ l = new[lo]
      BY DEF Turn
<1>2. /\ Len(new) \in Nat /\ Len(q) \in Nat /\ Len(new) <= Len(q)
      /\ DOMAIN new = 1..Len(new) /\ DOMAIN q = 1..Len(q)
      BY <1>1 DEF Placing
<1>3. lo \in lo..Len(new) /\ lo \in lo..Len(q) /\ lo \in DOMAIN new /\ lo \in DOMAIN q
      BY <1>1, <1>2
<1>4. l \in From(new, lo) /\ x \in From(q, lo)
      BY <1>1, <1>3 DEF From
<1>5. x \notin W /\ Soft(g, l) /\ \A k \in W : a[k] # l
      BY <1>4 DEF Placing, NewSofts
<1>6. b[x] = l /\ \A k \in W : b[k] = a[k]
      BY <1>5 DEF Placed
<1>7. ASSUME NEW m \in From(new, lo + 1)
      PROVE  Soft(h, m) /\ \A k \in W2 : b[k] # m
  <2>1. PICK j \in (lo + 1)..Len(new) : m = new[j]
        BY DEF From
  <2>2. j \in lo..Len(new) /\ j # lo /\ j \in DOMAIN new
        BY <1>1, <1>2, <2>1
  <2>3. m # l /\ m \in From(new, lo)
        BY <1>1, <1>3, <2>1, <2>2 DEF From, NoRepeats
  <2>4. Soft(g, m) /\ \A k \in W : a[k] # m
        BY <2>3 DEF Placing, NewSofts
  <2>5. Soft(h, m)
        BY <2>3, <2>4 DEF SoftBut
  <2> QED BY <1>6, <2>3, <2>4, <2>5
<1>8. ASSUME NEW y \in From(q, lo + 1)
      PROVE  y \notin W2
  <2>1. PICK j \in (lo + 1)..Len(q) : y = q[j]
        BY DEF From
  <2>2. j \in lo..Len(q) /\ j # lo /\ j \in DOMAIN q
        BY <1>1, <1>2, <2>1
  <2>3. y # x /\ y \in From(q, lo)
        BY <1>1, <1>3, <2>1, <2>2 DEF From, NoRepeats
  <2> QED BY <2>3 DEF Placing
<1>9. NewSofts(h, b, W2, From(new, lo + 1))
      BY <1>7 DEF NewSofts
<1>10. From(q, lo + 1) \cap W2 = {}
       BY <1>8
<1>11. Placing(h, b, W2, new, q, lo + 1)
       BY <1>2, <1>9, <1>10 DEF Placing
<1> QED BY <1>5, <1>11 DEF NewSofts

\* What both ways of placing a literal have in common.
LEMMA PlaceFacts ==
  ASSUME ExactInv, Place, NEW h, NEW x, x = QMAX[i], NEW l, l = newAssum[i],
         NEW W, W = active \cup {x}, NEW b, b = Placed(assumption, x, l),
         SoftBut(f, h, l)
  PROVE  /\ pc = "place" /\ pc' = "place" /\ size' = size /\ size \in Nat /\ i' = i + 1 /\ i \in Nat \ {0}
         /\ stack' = stack /\ QMAX' = QMAX /\ newAssum' = newAssum /\ assumption' = b /\ active' = W
         /\ QMAX \in Seq(Nat) /\ newAssum \in Seq(Int) /\ NoRepeats(newAssum)
         /\ Sound(f) /\ NoOutputs(f) /\ VectorOK(f, size, assumption, active, units)
         /\ EdgesOK(f, size, assumption, conn, active)
         /\ Placing(h, b, W, newAssum, QMAX, i + 1)
         /\ x \notin active /\ Soft(f, l) /\ (\A k \in active : assumption[k] # l)
         /\ x \in 1..size /\ l \in LitsOf(f.poids) /\ Places(size, QMAX)
<1>1. /\ pc = "place" /\ pc' = "place" /\ size' = size /\ size \in Nat /\ i' = i + 1 /\ i \in Nat \ {0}
      /\ stack' = stack /\ QMAX' = QMAX /\ newAssum' = newAssum /\ assumption' = b /\ active' = W
      /\ QMAX \in Seq(Nat) /\ newAssum \in Seq(Int) /\ NoRepeats(newAssum) /\ i <= Len(newAssum)
      BY DEF Place, ExactInv, SearchOK, GraphOK, md, search, qmax, Placed
<1>2. /\ Sound(f) /\ NoOutputs(f) /\ VectorOK(f, size, assumption, active, units)
      /\ EdgesOK(f, size, assumption, conn, active)
      /\ Placing(f, assumption, active, newAssum, QMAX, i)
      BY <1>1 DEF ExactInv, GraphOK, InUse
<1>3. Places(size, QMAX)
      BY <1>1 DEF ExactInv, SearchOK
<1>4. x \in 1..size /\ NoRepeats(QMAX)
  <2>1. QMAX \in Seq(1..size) /\ \A j, k \in DOMAIN QMAX : j # k => QMAX[j] # QMAX[k]
        BY <1>3 DEF Places
  <2>2. Len(QMAX) \in Nat /\ Len(newAssum) \in Nat /\ Len(newAssum) <= Len(QMAX) /\ DOMAIN QMAX = 1..Len(QMAX)
        BY <1>1, <1>2 DEF Placing
  <2>3. i \in DOMAIN QMAX
        BY ONLY <1>1, <2>2
  <2>4. QMAX[i] \in 1..size
    <3>1. PICK V : V = 1..size
          OBVIOUS
    <3>2. QMAX \in Seq(V)
          BY <2>1, <3>1
    <3>3. QMAX[i] \in V
          BY ONLY <2>2, <2>3, <3>2
    <3> QED BY <3>1, <3>3
  <2>5. NoRepeats(QMAX)
        BY ONLY <2>1 DEF NoRepeats
  <2> QED BY <2>4, <2>5
<1>5. x \in DOMAIN assumption /\ active \subseteq DOMAIN assumption
      BY <1>2, <1>4 DEF VectorOK
<1>6. /\ Placing(h, b, W, newAssum, QMAX, i + 1)
      /\ x \notin active /\ NewSofts(f, assumption, active, {l})
  <2>1. Turn(newAssum, QMAX, i, x, l)
        BY <1>1, <1>4 DEF Turn
  <2> QED BY ONLY <1>2, <1>5, <2>1, W = active \cup {x}, b = Placed(assumption, x, l), SoftBut(f, h, l), PlacingNext
<1>7. Soft(f, l) /\ (\A k \in active : assumption[k] # l) /\ l \in LitsOf(f.poids)
      BY <1>6 DEF Soft, NewSofts
<1> QED BY <1>1, <1>2, <1>3, <1>4, <1>6, <1>7

\* A new literal is placed and its row is filled by propagation.
LEMMA PlaceLinkedOK ==
  ASSUME ExactInv, PlaceLinked
  PROVE  ExactInv'
<1>1. PICK x, l, W, b : /\ x = QMAX[i] /\ l = newAssum[i] /\ W = active \cup {x}
                        /\ b = Placed(assumption, x, l)
      OBVIOUS
<1>2. SoftBut(f, f, l) /\ Place /\ f' = f /\ units' = units
      BY DEF SoftBut, PlaceLinked
<1>3. /\ pc = "place" /\ pc' = "place" /\ size' = size /\ size \in Nat /\ i' = i + 1 /\ i \in Nat \ {0}
      /\ stack' = stack /\ QMAX' = QMAX /\ newAssum' = newAssum /\ assumption' = b /\ active' = W
      /\ QMAX \in Seq(Nat) /\ newAssum \in Seq(Int) /\ NoRepeats(newAssum)
      /\ Sound(f) /\ NoOutputs(f) /\ VectorOK(f, size, assumption, active, units)
      /\ EdgesOK(f, size, assumption, conn, active)
      /\ Placing(f, b, W, newAssum, QMAX, i + 1)
      /\ x \notin active /\ Soft(f, l) /\ (\A k \in active : assumption[k] # l)
      /\ x \in 1..size /\ l \in LitsOf(f.poids) /\ Places(size, QMAX)
      BY ONLY ExactInv, <1>1, <1>2, PlaceFacts
<1>4. VectorOK(f, size, b, W, units) /\ EdgesOK(f, size, b, conn, W)
  <2>1. b = [assumption EXCEPT ![x] = l] /\ units \subseteq units
        BY <1>1 DEF Placed
  <2> QED BY ONLY <1>1, <1>3, <2>1, GraphPlaces
<1>5. b[x] = l
  <2>1. x \in DOMAIN assumption
        BY <1>3 DEF VectorOK
  <2> QED BY <1>1, <2>1 DEF Placed
<1>6. PICK K \in SUBSET W : /\ conn' = conn \cup {{x, k} : k \in K}
                            /\ \A k \in K : MayExclude(f, l, b[k])
  <2>1. PICK K \in SUBSET {k \in active' : MayExclude(f, newAssum[i], assumption'[k])} :
           conn' = conn \cup {{QMAX[i], k} : k \in K}
        BY DEF PlaceLinked, qmax
  <2>2. K \in SUBSET W /\ conn' = conn \cup {{x, k} : k \in K}
        BY <1>1, <1>3, <2>1
  <2>3. \A k \in K : MayExclude(f, newAssum[i], assumption'[k])
        BY <2>1
  <2>4. \A k \in K : MayExclude(f, l, b[k])
        BY <1>1, <1>3, <2>3
  <2> QED BY <2>2, <2>4
<1>7. \A k \in K : /\ b[k] # b[x] /\ Soft(f, b[k])
                   /\ Models(f, {b[x], b[k]}) = {}
  <2>1. \A k \in K : k \in W /\ b[k] # l /\ b[k] \notin units /\ Models(f, {l, b[k]}) = {}
        BY <1>6 DEF MayExclude
  <2> QED BY <1>4, <1>5, <2>1 DEF VectorOK
<1>8. x \in W /\ K \in SUBSET W /\ Soft(f, b[x])
      BY <1>1, <1>3, <1>5
<1>9. EdgesOK(f, size, b, conn', W)
      BY ONLY <1>4, <1>6, <1>7, <1>8, GraphLinks
<1>10. GraphOK'
  <2>1. InUse' = W /\ pc' # "link" /\ pc' # "reduce" /\ i' \in Nat \ {0}
        BY <1>3 DEF InUse
  <2> QED BY ONLY <1>2, <1>3, <1>4, <1>9, <2>1 DEF GraphOK
<1>11. SearchOK'
       BY <1>3, SearchRests DEF ExactInv
<1> QED BY <1>10, <1>11 DEF ExactInv

\* A new literal that propagation refutes is placed and its negation made hard.
LEMMA PlaceRefutedOK ==
  ASSUME ExactInv, PlaceRefuted
  PROVE  ExactInv'
<1>1. PICK x, l, W, b : /\ x = QMAX[i] /\ l = newAssum[i] /\ W = active \cup {x}
                        /\ b = Placed(assumption, x, l)
      OBVIOUS
<1>2. PICK h, U : /\ h = HardUnit(f, -l) /\ f' = h /\ U = units \cup {l} /\ units' = U
                  /\ Place /\ conn' = conn
      BY <1>1 DEF PlaceRefuted
<1>3. SoftBut(f, f, l)
      BY DEF SoftBut
<1>4. /\ Sound(f) /\ NoOutputs(f) /\ Soft(f, l) /\ l \in LitsOf(f.poids)
      /\ VectorOK(f, size, assumption, active, units)
      /\ EdgesOK(f, size, assumption, conn, active)
      /\ \A k \in active : assumption[k] # l
      BY ONLY ExactInv, <1>1, <1>2, <1>3, PlaceFacts
<1>5. -l \in LitsOf(f.poids) /\ ~Soft(f, -l) /\ -(-l) = l
      BY <1>4, SoftFacts
<1>6. Follows(f, h, {-l, l})
  <2>1. Follows(f, h, {-l, -(-l)})
        BY ONLY <1>2, <1>4, <1>5, FollowsHardUnit
  <2> QED BY <1>5, <2>1
<1>7. SoftBut(f, h, l)
      BY <1>5, <1>6 DEF SoftBut, Follows
<1>8. /\ pc = "place" /\ pc' = "place" /\ size' = size /\ size \in Nat /\ i' = i + 1 /\ i \in Nat \ {0}
      /\ stack' = stack /\ QMAX' = QMAX /\ newAssum' = newAssum /\ assumption' = b /\ active' = W
      /\ QMAX \in Seq(Nat) /\ newAssum \in Seq(Int) /\ NoRepeats(newAssum)
      /\ Placing(h, b, W, newAssum, QMAX, i + 1)
      /\ x \notin active /\ x \in 1..size /\ Places(size, QMAX)
      BY ONLY ExactInv, <1>1, <1>2, <1>7, PlaceFacts
<1>9. \A k \in active : Soft(f, assumption[k]) => assumption[k] \notin {-l, l}
      BY <1>4, <1>5
<1>10. VectorOK(h, size, assumption, active, units) /\ EdgesOK(h, size, assumption, conn, active)
       BY ONLY <1>4, <1>6, <1>9, GraphFollows
<1>11. l \in LitsOf(h.poids) /\ units \subseteq U /\ l \in U
       BY <1>2, <1>4, <1>6 DEF Follows, Means
<1>12. VectorOK(h, size, b, W, U) /\ EdgesOK(h, size, b, conn, W)
  <2>1. b = [assumption EXCEPT ![x] = l]
        BY <1>1 DEF Placed
  <2>2. l \in U \/ Soft(h, l)
        BY <1>11
  <2>3. x \in 1..size /\ x \notin active /\ W = active \cup {x} /\ \A k \in active : assumption[k] # l
        BY <1>1, <1>4, <1>8
  <2> QED BY ONLY <1>10, <1>11, <2>1, <2>2, <2>3, GraphPlaces
<1>13. Sound(h) /\ NoOutputs(h)
       BY <1>6 DEF Follows
<1>14. GraphOK'
  <2>1. InUse' = W /\ pc' # "link" /\ pc' # "reduce" /\ i' \in Nat \ {0}
        BY <1>8 DEF InUse
  <2> QED BY ONLY <1>2, <1>8, <1>12, <1>13, <2>1 DEF GraphOK
<1>15. SearchOK'
       BY <1>8, SearchRests DEF ExactInv
<1> QED BY <1>14, <1>15 DEF ExactInv

\* All new literals are placed and the search starts again.
LEMMA PlaceEndOK ==
  ASSUME ExactInv, PlaceEnd
  PROVE  ExactInv'
<1>1. /\ pc = "place" /\ pc' = "search" /\ size' = size /\ size \in Nat /\ i' = i /\ stack' = stack
      /\ QMAX' = QMAX /\ f' = f /\ assumption' = assumption /\ newAssum' = <<>>
      /\ units' = units /\ active' = active /\ conn' = conn
      BY DEF PlaceEnd, ExactInv, SearchOK, md, search
<1>2. InUse = active /\ InUse' = active
      BY <1>1 DEF InUse
<1>3. <<>> \in Seq(Int) /\ NoRepeats(<<>>)
      BY DEF NoRepeats
<1>4. GraphOK'
      BY <1>1, <1>2, <1>3 DEF GraphOK, ExactInv
<1>5. SearchOK'
      BY <1>1, SearchRests DEF ExactInv
<1> QED BY <1>4, <1>5 DEF ExactInv

\* A step that changes nothing.
LEMMA ExactStutters ==
  ASSUME ExactInv, UNCHANGED vars
  PROVE  ExactInv'
<1>1. /\ f' = f /\ assumption' = assumption /\ active' = active /\ i' = i /\ newAssum' = newAssum
      /\ clause' = clause /\ units' = units /\ size' = size /\ conn' = conn /\ pc' = pc
      /\ Q' = Q /\ QMAX' = QMAX /\ stack' = stack /\ pk' = pk /\ maxStep' = maxStep
      BY DEF vars, exact, md, search
<1>2. InUse' = InUse
      BY <1>1 DEF InUse
<1>3. GraphOK'
      BY <1>1, <1>2 DEF ExactInv, GraphOK
<1>4. MaximumIfFinished => MaximumIfFinished'
      BY <1>1 DEF MaximumIfFinished, IsClique, Connection
<1>5. SearchOK'
      BY <1>1, <1>4 DEF ExactInv, SearchOK
<1> QED BY <1>3, <1>5 DEF ExactInv

\* Every step keeps the invariant.
LEMMA ExactNextOK ==
  ASSUME ExactInv, [Next]_vars
  PROVE  ExactInv'
<1>1. CASE Done
      BY <1>1, ExactStutters DEF Done
<1>2. CASE UNCHANGED vars
      BY <1>2, ExactStutters
<1> QED BY <1>1, <1>2, RefuteOK, LinkOK, LinkEndOK, FindCliqueOK, CliqueStepOK, NoCliqueOK, ReduceOK,
           ReduceEndOK, PlaceLinkedOK, PlaceRefutedOK, PlaceEndOK DEF Next

\* The soft literals are finitely many.
LEMMA SoftFinite ==
  ASSUME NEW g, Sound(g)
  PROVE  IsFiniteSet(SoftLits(g)) /\ \A l \in SoftLits(g) : Soft(g, l) /\ l \in Int /\ Poids(g, l) \in Int
<1>1. g.poids \in Seq(Int)
      BY Fields DEF Sound
<1>2. PICK n \in Nat : DOMAIN g.poids = 1..n
      BY <1>1
<1>3. SoftLits(g) \in SUBSET ((-n)..n)
      BY <1>2 DEF SoftLits, Lits, Vars
<1>4. IsFiniteSet((-n)..n)
      BY FS_Interval
<1>5. IsFiniteSet(SoftLits(g))
      BY ONLY <1>3, <1>4, FS_Subset
<1>6. ASSUME NEW l \in SoftLits(g)
      PROVE  Soft(g, l) /\ l \in Int /\ Poids(g, l) \in Int
  <2>1. l \in Lits(g) /\ Weight(g.poids, l) > 0
        BY DEF SoftLits, Poids
  <2>2. l \in LitsOf(g.poids) /\ l \in Int
    <3>1. \A v \in DOMAIN g.poids : v \in Nat \ {0}
          BY <1>2
    <3> QED BY <2>1, <3>1 DEF Lits, Vars, LitsOf, Var
  <2>3. Weight(g.poids, l) \in Int
        BY <2>2, Opposites
  <2> QED BY <2>1, <2>2, <2>3 DEF Soft, Poids
<1> QED BY <1>5, <1>6

\* The vector lists the soft literals, each once.
LEMMA AssumptionsFacts ==
  ASSUME NEW g, Sound(g), NEW a, a = Assumptions(g)
  PROVE  /\ Len(a) \in Nat /\ DOMAIN a = 1..Len(a)
         /\ \A k \in 1..Len(a) : Soft(g, a[k])
         /\ \A j, k \in 1..Len(a) : j # k => a[j] # a[k]
<1>1. PICK soft : soft = SoftLits(g)
      OBVIOUS
<1>2. IsFiniteSet(soft) /\ \A l \in soft : Soft(g, l) /\ l \in Int /\ Poids(g, l) \in Int
      BY <1>1, SoftFinite
<1> DEFINE P == {p \in soft \X soft : \/ Poids(g, p[1]) < Poids(g, p[2])
                                      \/ Poids(g, p[1]) = Poids(g, p[2]) /\ p[1] < p[2]}
           rank == [l \in soft |->
                      1 + Cardinality({m \in soft :
                             \/ Poids(g, m) < Poids(g, l)
                             \/ Poids(g, m) = Poids(g, l) /\ m < l})]
<1>3. \A x, y \in soft : <<x, y>> \in P <=> \/ Poids(g, x) < Poids(g, y)
                                            \/ Poids(g, x) = Poids(g, y) /\ x < y
      OBVIOUS
<1>4. \A x \in soft : rank[x] = 1 + Cardinality(Preceding(P, soft, x))
  <2> TAKE x \in soft
  <2>1. Preceding(P, soft, x) = {m \in soft : \/ Poids(g, m) < Poids(g, x)
                                              \/ Poids(g, m) = Poids(g, x) /\ m < x}
        BY <1>3 DEF Preceding
  <2> QED BY <2>1
<1>5. a = ByRank(soft, rank)
      BY <1>1 DEF Assumptions
<1> HIDE DEF P, rank
<1>6. StrictOrder(P, soft)
  <2>1. \A x \in soft : <<x, x>> \notin P
        BY <1>2, <1>3
  <2>2. \A x, y, z \in soft : <<x, y>> \in P /\ <<y, z>> \in P => <<x, z>> \in P
    <3> TAKE x, y, z \in soft
    <3> HAVE <<x, y>> \in P /\ <<y, z>> \in P
    <3>1. /\ Poids(g, x) < Poids(g, y) \/ (Poids(g, x) = Poids(g, y) /\ x < y)
          /\ Poids(g, y) < Poids(g, z) \/ (Poids(g, y) = Poids(g, z) /\ y < z)
          BY <1>3
    <3>2. Poids(g, x) < Poids(g, z) \/ (Poids(g, x) = Poids(g, z) /\ x < z)
          BY <1>2, <3>1
    <3> QED BY <1>3, <3>2
  <2>3. \A x, y \in soft : x = y \/ <<x, y>> \in P \/ <<y, x>> \in P
    <3> TAKE x, y \in soft
    <3>1. Poids(g, x) < Poids(g, y) \/ Poids(g, y) < Poids(g, x) \/ Poids(g, x) = Poids(g, y)
          BY <1>2
    <3>2. x < y \/ y < x \/ x = y
          BY <1>2
    <3> QED BY <1>3, <3>1, <3>2
  <2> QED BY <2>1, <2>2, <2>3 DEF StrictOrder
<1>7. Ranks(soft, rank)
      BY ONLY <1>2, <1>4, <1>6, OrderRanks
<1>8. PICK n : n = Cardinality(soft)
      OBVIOUS
<1>9. /\ n \in Nat /\ a \in [1..n -> soft] /\ DOMAIN a = 1..n
      /\ \A r \in 1..n : rank[a[r]] = r
      BY ONLY <1>2, <1>5, <1>7, <1>8, ByRankFacts
<1>10. Len(a) = n
  <2>1. a \in Seq(soft)
        BY ONLY <1>9
  <2> QED BY ONLY <1>9, <2>1
<1>11. \A k \in 1..n : Soft(g, a[k])
       BY <1>2, <1>9
<1>12. \A j, k \in 1..n : j # k => a[j] # a[k]
       BY <1>9
<1> QED BY <1>9, <1>10, <1>11, <1>12

\* The first state.
LEMMA ExactInit ==
  ASSUME Init
  PROVE  ExactInv
<1>1. /\ f \in Problems /\ assumption = Assumptions(f) /\ size = Len(assumption) /\ conn = {} /\ i = 1 /\ active = {}
      /\ newAssum = <<>> /\ units = {} /\ QMAX = <<>> /\ stack = <<>> /\ pc = "link"
      BY DEF Init, SearchIdle
<1>2. UserFormula(f) /\ Sound(f)
      BY <1>1, ProblemsAssumption, UserSound
<1>3. NoOutputs(f)
  <2>1. f.card = [v \in DOMAIN f.poids |-> NoCard]
        BY <1>2 DEF UserFormula
  <2> QED BY <2>1 DEF NoOutputs
<1>4. /\ size \in Nat /\ DOMAIN assumption = 1..size
      /\ (\A k \in 1..size : Soft(f, assumption[k]))
      /\ \A j, k \in 1..size : j # k => assumption[j] # assumption[k]
      BY ONLY <1>1, <1>2, AssumptionsFacts
<1>5. VectorOK(f, size, assumption, 1..size, units)
      BY <1>4 DEF VectorOK, Soft
<1>6. EdgesOK(f, size, assumption, conn, 1..size)
      BY <1>1 DEF EdgesOK
<1>7. InUse = 1..size
      BY <1>1 DEF InUse
<1>8. <<>> \in Seq(Int) /\ <<>> \in Seq(Nat) /\ NoRepeats(<<>>)
      BY DEF NoRepeats
<1>9. GraphOK
      BY <1>1, <1>2, <1>3, <1>5, <1>6, <1>7, <1>8 DEF GraphOK
<1>10. SearchOK
       BY <1>1, <1>4 DEF SearchOK
<1> QED BY <1>9, <1>10 DEF ExactInv

-----------------------------------------------------------------------------
(***************************************************************************)
(* The theorems, for any formulas, any weights, any answers of unit        *)
(* propagation and any bound on the steps of the search.                   *)
(***************************************************************************)
\* adapt_am1_exact and the clique search keep their invariant.
THEOREM ExactInvariant == Spec => []ExactInv
<1>1. Init => ExactInv
      BY ExactInit
<1>2. ExactInv /\ [Next]_vars => ExactInv'
      BY ExactNextOK
<1> QED BY <1>1, <1>2, PTL DEF Spec

\* Whenever mcqdyn stops, what it has is a clique without repetitions.
THEOREM SearchAlwaysClique == Spec => []AlwaysClique
<1>1. ExactInv => AlwaysClique
      BY SearchProperties DEF ExactInv
<1> QED BY <1>1, ExactInvariant, PTL

\* Unless the step bound cut the search short, the clique is a maximum one: no
\* colour that color_sort leaves out and no bound that ends a loop of
\* expand_dyn loses a larger one.
THEOREM SearchFindsMaximum == Spec => []MaximumIfFinished
<1>1. ExactInv => MaximumIfFinished
      BY SearchProperties DEF ExactInv
<1> QED BY <1>1, ExactInvariant, PTL

\* expand_dyn never reads a degree that color_sort left uninitialized, and
\* color_sort has a colour class for every colour.
THEOREM SearchMemorySafe == Spec => []MemorySafe
<1>1. ExactInv => MemorySafe
      BY SearchProperties DEF ExactInv
<1> QED BY <1>1, ExactInvariant, PTL

\* An edge of the matrix, whatever was cleared, moved and reused, joins two
\* soft literals that exclude each other.
THEOREM ExactEdgesAreConflicts == Spec => []EdgesAreConflicts
<1>1. ASSUME ExactInv
      PROVE  EdgesAreConflicts
  <2>1. ASSUME NEW e \in conn, e \subseteq 1..size
        PROVE  /\ \A j, k \in e : j # k => Models(f, {assumption[j], assumption[k]}) = {}
               /\ \A j \in e : Poids(f, assumption[j]) > 0
    <3>1. EdgeOK(f, assumption, InUse, e)
          BY <1>1, <2>1 DEF ExactInv, GraphOK, EdgesOK
    <3> QED BY <3>1 DEF EdgeOK, Soft, Poids
  <2> QED BY <2>1 DEF EdgesAreConflicts
<1> QED BY <1>1, ExactInvariant, PTL

\* There is a place for every new literal, and the active literals are
\* different.
THEOREM ExactPlacesSuffice == Spec => []PlacesSuffice
<1>1. ASSUME ExactInv
      PROVE  PlacesSuffice
  <2>1. Len(newAssum) \in Nat /\ Len(QMAX) \in Nat
        BY <1>1 DEF ExactInv, GraphOK
  <2>2. Len(newAssum) <= Len(QMAX)
    <3>1. CASE pc = "reduce"
      <4>1. Len(newAssum) + Cardinality(clause) <= Len(QMAX) /\ IsFiniteSet(clause)
            BY <1>1, <3>1 DEF ExactInv, GraphOK, Reducing
      <4>2. Cardinality(clause) \in Nat
            BY <4>1, FS_CardinalityType
      <4> QED BY <2>1, <4>1, <4>2
    <3>2. CASE pc = "place"
          BY <1>1, <3>2 DEF ExactInv, GraphOK, Placing
    <3>3. CASE pc \notin {"reduce", "place"}
      <4>1. newAssum = <<>>
            BY <1>1, <3>3 DEF ExactInv, GraphOK
      <4> QED BY <2>1, <4>1
    <3> QED BY <3>1, <3>2, <3>3
  <2>3. ASSUME NEW j \in active, NEW k \in active, j # k
        PROVE  assumption[j] # assumption[k]
    <3>1. CASE pc # "link"
          BY <1>1, <2>3, <3>1 DEF ExactInv, GraphOK, InUse, VectorOK
    <3>2. CASE pc = "link"
          BY <1>1, <2>3, <3>2 DEF ExactInv, GraphOK, InUse, VectorOK
    <3> QED BY <3>1, <3>2
  <2> QED BY <2>2, <2>3 DEF PlacesSuffice, qmax
<1> QED BY <1>1, ExactInvariant, PTL
=============================================================================
