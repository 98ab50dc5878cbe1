--------------------------- MODULE Formula_proofs ---------------------------
(***************************************************************************)
(* What the operators of module Formula do, for formulas of any size and   *)
(* any weights.                                                            *)
(*                                                                         *)
(* First the index _mapWeight2Assum: after each of them it still holds     *)
(* exactly the soft literals, each under its weight (Indexed).             *)
(*                                                                         *)
(* Then the cost.  These lemmas are about any set bad of falsified         *)
(* literals.  Taken at a point, bad is what that point falsifies, and the  *)
(* cost is the point's; if bad is every literal, the cost is all there is  *)
(* to pay, which bounds every sum the code computes and so excludes        *)
(* overflow.                                                               *)
(***************************************************************************)
EXTENDS Formula, SumTheorems

Maps(D, R) == UNION {[K -> R] : K \in SUBSET D}

Bounded(K) == \E b \in Nat : \A k \in K : k <= b

\* The values of _mapWeight2Assum: keys are positive and there is a largest
\* one, entries are literals.
Index == {m \in Maps(Nat \ {0}, SUBSET (Int \ {0})) : Bounded(DOMAIN m)}

\* An index is a function from positive weights to sets of literals.
LEMMA IndexFacts ==
  ASSUME NEW map \in Index
  PROVE  /\ DOMAIN map \subseteq Nat \ {0}
         /\ \A k \in DOMAIN map : map[k] \subseteq Int \ {0}
         /\ map = [k \in DOMAIN map |-> map[k]]
         /\ Bounded(DOMAIN map)
  BY DEF Index, Maps

\* Such a function is an index.
LEMMA IndexIntro ==
  ASSUME NEW map, NEW K, K \subseteq Nat \ {0}, map \in [K -> SUBSET (Int \ {0})], Bounded(K)
  PROVE  map \in Index
<1>1. map \in Maps(Nat \ {0}, SUBSET (Int \ {0})) /\ DOMAIN map = K
      BY DEF Maps
<1> QED BY <1>1 DEF Index

\* Bounded sets of keys.
LEMMA BoundedFacts ==
  ASSUME NEW K \in SUBSET Nat, Bounded(K)
  PROVE  /\ \A L \in SUBSET K : Bounded(L)
         /\ \A w \in Nat : Bounded(K \cup {w})
<1>1. PICK b \in Nat : \A k \in K : k <= b
      BY DEF Bounded
<1>2. ASSUME NEW L \in SUBSET K
      PROVE  Bounded(L)
      BY <1>1 DEF Bounded
<1>3. ASSUME NEW w \in Nat
      PROVE  Bounded(K \cup {w})
  <2> DEFINE c == b + w
  <2>1. c \in Nat /\ \A k \in K \cup {w} : k <= c
        BY <1>1
  <2> QED BY <2>1 DEF Bounded
<1> QED BY <1>2, <1>3

\* map[w] = S keeps an index an index.
LEMMA PutType ==
  ASSUME NEW map \in Index, NEW w \in Nat \ {0}, NEW S \in SUBSET (Int \ {0})
  PROVE  Put(map, w, S) \in Index
<1>1. DOMAIN map \cup {w} \subseteq Nat \ {0}
      BY IndexFacts
<1>2. Put(map, w, S) \in [DOMAIN map \cup {w} -> SUBSET (Int \ {0})]
      BY IndexFacts DEF Put
<1>3. Bounded(DOMAIN map \cup {w})
      BY IndexFacts, BoundedFacts
<1> QED BY <1>1, <1>2, <1>3, IndexIntro

\* So do map[w].insert(l) and map[w].erase(l).
LEMMA InsertType ==
  ASSUME NEW map \in Index, NEW w \in Nat \ {0}, NEW l \in Int \ {0}
  PROVE  Insert(map, w, l) \in Index /\ Erase(map, w, l) \in Index
<1>1. At(map, w) \in SUBSET (Int \ {0})
      BY IndexFacts DEF At
<1> QED BY <1>1, PutType DEF Insert, Erase

\* What they leave under a key.
LEMMA AtInsert ==
  ASSUME NEW map, NEW w, NEW l, NEW k
  PROVE  /\ At(Insert(map, w, l), k) = IF k = w THEN At(map, k) \cup {l} ELSE At(map, k)
         /\ At(Erase(map, w, l), k) = IF k = w THEN At(map, k) \ {l} ELSE At(map, k)
<1>1. ASSUME NEW S
      PROVE  At(Put(map, w, S), k) = IF k = w THEN S ELSE At(map, k)
      BY DEF At, Put
<1> QED BY <1>1 DEF Insert, Erase

-----------------------------------------------------------------------------
(***************************************************************************)
(* Literals and their weights.                                             *)
(***************************************************************************)
LitsOf(poids) == {l \in Int \ {0} : Var(l) \in DOMAIN poids}

LitsAt(poids, k) == {l \in LitsOf(poids) : Weight(poids, l) = k}

\* Literals of the same variable, and the weight of a literal.
LEMMA WeightFacts ==
  ASSUME NEW poids \in Seq(Int), NEW l \in LitsOf(poids)
  PROVE  /\ Weight(poids, l) \in Int
         /\ -l \in LitsOf(poids)
         /\ Weight(poids, -l) = -Weight(poids, l)
         /\ \A x \in LitsOf(poids) : Var(x) = Var(l) => x = l \/ x = -l
  BY DEF LitsOf, Weight, Var

\* Indexed, weight by weight: a key holds the literals of that weight.
LEMMA IndexedChar ==
  ASSUME NEW poids \in Seq(Int), NEW map \in Index
  PROVE  Indexed(poids, map) <=> \A k \in Nat \ {0} : At(map, k) = LitsAt(poids, k)
<1>1. ASSUME Indexed(poids, map), NEW k \in Nat \ {0}
      PROVE  At(map, k) = LitsAt(poids, k)
  <2>1. ASSUME NEW l \in At(map, k)
        PROVE  l \in LitsAt(poids, k)
    <3>1. k \in DOMAIN map /\ l \in map[k]
          BY <2>1 DEF At
    <3>2. l \in Int \ {0}
          BY <3>1, IndexFacts
    <3> QED BY <1>1, <3>1, <3>2 DEF Indexed, LitsAt, LitsOf
  <2>2. ASSUME NEW l \in LitsAt(poids, k)
        PROVE  l \in At(map, k)
    <3>1. l \in Int \ {0} /\ Var(l) \in DOMAIN poids /\ Weight(poids, l) = k
          BY <2>2 DEF LitsAt, LitsOf
    <3>2. CASE l > 0
      <4>1. poids[l] = k /\ l \in DOMAIN poids
            BY <3>1, <3>2 DEF Weight, Var
      <4> QED BY <1>1, <4>1 DEF Indexed, At
    <3>3. CASE l < 0
      <4>1. poids[-l] = -k /\ -l \in DOMAIN poids
            BY <3>1, <3>3 DEF Weight, Var
      <4>2. -poids[-l] = k /\ poids[-l] < 0 /\ -(-l) = l
            BY <3>1, <4>1
      <4>3. -poids[-l] \in DOMAIN map /\ -(-l) \in map[-poids[-l]]
            BY <1>1, <4>1, <4>2 DEF Indexed
      <4> QED BY <4>2, <4>3 DEF At
    <3> QED BY <3>1, <3>2, <3>3
  <2> QED BY <2>1, <2>2
<1>2. ASSUME \A k \in Nat \ {0} : At(map, k) = LitsAt(poids, k)
      PROVE  Indexed(poids, map)
  <2>1. ASSUME NEW k \in DOMAIN map, NEW l \in map[k]
        PROVE  Var(l) \in DOMAIN poids /\ Weight(poids, l) = k
    <3>1. k \in Nat \ {0}
          BY IndexFacts
    <3>2. l \in LitsAt(poids, k)
          BY <1>2, <2>1, <3>1 DEF At
    <3> QED BY <3>2 DEF LitsAt, LitsOf
  <2>2. ASSUME NEW v \in DOMAIN poids
        PROVE  /\ poids[v] > 0 => poids[v] \in DOMAIN map /\ v \in map[poids[v]]
               /\ poids[v] < 0 => -poids[v] \in DOMAIN map /\ -v \in map[-poids[v]]
    <3>1. v \in Nat \ {0} /\ poids[v] \in Int
          OBVIOUS
    <3>2. CASE poids[v] > 0
      <4>1. v \in LitsAt(poids, poids[v])
            BY <3>1, <3>2 DEF LitsAt, LitsOf, Weight, Var
      <4>2. v \in At(map, poids[v])
            BY <1>2, <3>1, <3>2, <4>1
      <4> QED BY <3>1, <3>2, <4>2 DEF At
    <3>3. CASE poids[v] < 0
      <4>1. -v \in LitsAt(poids, -poids[v])
            BY <3>1, <3>3 DEF LitsAt, LitsOf, Weight, Var
      <4>2. -v \in At(map, -poids[v])
            BY <1>2, <3>1, <3>3, <4>1
      <4> QED BY <3>1, <3>3, <4>2 DEF At
    <3> QED BY <3>1, <3>2, <3>3
  <2> QED BY <2>1, <2>2 DEF Indexed
<1> QED BY <1>1, <1>2

\* _poids.set(l, w) changes the weights of l and -l only.
LEMMA WeightSet ==
  ASSUME NEW poids \in Seq(Int), NEW l \in LitsOf(poids), NEW w \in Int
  PROVE  /\ SetPoids(poids, l, w) \in Seq(Int)
         /\ DOMAIN SetPoids(poids, l, w) = DOMAIN poids
         /\ LitsOf(SetPoids(poids, l, w)) = LitsOf(poids)
         /\ \A x \in LitsOf(poids) : Weight(SetPoids(poids, l, w), x) =
              IF x = l THEN w ELSE IF x = -l THEN -w ELSE Weight(poids, x)
<1>1. Var(l) \in DOMAIN poids /\ l \in Int \ {0}
      BY DEF LitsOf
<1>2. /\ SetPoids(poids, l, w) \in Seq(Int)
      /\ DOMAIN SetPoids(poids, l, w) = DOMAIN poids
      /\ \A v \in DOMAIN poids : SetPoids(poids, l, w)[v] =
           IF v = Var(l) THEN (IF l < 0 THEN -w ELSE w) ELSE poids[v]
      BY <1>1 DEF SetPoids
<1>3. LitsOf(SetPoids(poids, l, w)) = LitsOf(poids)
      BY <1>2 DEF LitsOf
<1>4. ASSUME NEW x \in LitsOf(poids)
      PROVE  Weight(SetPoids(poids, l, w), x) =
              IF x = l THEN w ELSE IF x = -l THEN -w ELSE Weight(poids, x)
  <2>1. x \in Int \ {0} /\ Var(x) \in DOMAIN poids
        BY DEF LitsOf
  <2>2. SetPoids(poids, l, w)[Var(x)] = IF Var(x) = Var(l) THEN (IF l < 0 THEN -w ELSE w) ELSE poids[Var(x)]
        BY <1>2, <2>1
  <2> DEFINE q == SetPoids(poids, l, w)[Var(x)]
             u == poids[Var(x)]
  <2>3. Weight(SetPoids(poids, l, w), x) = (IF x < 0 THEN -q ELSE q)
        BY <2>1 DEF Weight, Var
  <2>4. Weight(poids, x) = (IF x < 0 THEN -u ELSE u)
        BY <2>1 DEF Weight, Var
  <2>5. q = IF Var(x) = Var(l) THEN (IF l < 0 THEN -w ELSE w) ELSE u
        BY <2>2
  <2>6. Var(x) = Var(l) <=> x = l \/ x = -l
        BY <1>1, <2>1 DEF Var
  <2> HIDE DEF q, u
  <2>7. CASE x = l
        BY <1>1, <2>3, <2>5, <2>6, <2>7
  <2>8. CASE x # l /\ x = -l
        BY <1>1, <2>3, <2>5, <2>6, <2>8
  <2>9. CASE x # l /\ x # -l
        BY <2>3, <2>4, <2>5, <2>6, <2>9
  <2> QED BY <2>7, <2>8, <2>9
<1> QED BY <1>2, <1>3, <1>4

\* The same for one literal.
LEMMA WeightSetAt ==
  ASSUME NEW poids \in Seq(Int), NEW l \in LitsOf(poids), NEW w \in Int,
         NEW x \in LitsOf(poids), NEW p, p = SetPoids(poids, l, w)
  PROVE  /\ x = l => Weight(p, x) = w
         /\ x # l /\ x = -l => Weight(p, x) = -w
         /\ x # l /\ x # -l => Weight(p, x) = Weight(poids, x)
<1>1. Weight(SetPoids(poids, l, w), x) = IF x = l THEN w ELSE IF x = -l THEN -w ELSE Weight(poids, x)
      BY WeightSet
<1> QED BY <1>1, Zenon

\* A literal without weight becomes soft: _poids.set(l, w); map[w].insert(l).
LEMMA IndexedSoften ==
  ASSUME NEW poids \in Seq(Int), NEW map \in Index, Indexed(poids, map),
         NEW l \in LitsOf(poids), Weight(poids, l) = 0,
         NEW w \in Nat \ {0}
  PROVE  Insert(map, w, l) \in Index /\ Indexed(SetPoids(poids, l, w), Insert(map, w, l))
<1> DEFINE p == SetPoids(poids, l, w)
           m == Insert(map, w, l)
<1>1. w \in Int /\ l \in Int \ {0}
      BY DEF LitsOf
<1>2. p \in Seq(Int) /\ m \in Index
      BY <1>1, WeightSet, InsertType
<1>3. ASSUME NEW k \in Nat \ {0}
      PROVE  At(m, k) = LitsAt(p, k)
  <2>1. At(map, k) = LitsAt(poids, k)
        BY IndexedChar
  <2>2. At(m, k) = IF k = w THEN At(map, k) \cup {l} ELSE At(map, k)
        BY AtInsert
  <2>3. /\ LitsOf(p) = LitsOf(poids)
        /\ \A x \in LitsOf(poids) : Weight(p, x) =
              IF x = l THEN w ELSE IF x = -l THEN -w ELSE Weight(poids, x)
        BY WeightSet
  <2>4. Weight(poids, -l) = 0 /\ -l \in LitsOf(poids) /\ -l # l
        BY WeightFacts DEF LitsOf
  <2> HIDE DEF p, m
  <2> QED BY <2>1, <2>2, <2>3, <2>4 DEF LitsAt
<1> HIDE DEF p, m
<1>4. Indexed(p, m)
      BY <1>2, <1>3, IndexedChar
<1> QED BY <1>2, <1>4 DEF p, m

\* A soft literal loses its weight: map[w].erase(l); _poids.set(l, 0).
LEMMA IndexedErase ==
  ASSUME NEW poids \in Seq(Int), NEW map \in Index, Indexed(poids, map),
         NEW l \in LitsOf(poids), Weight(poids, l) > 0
  PROVE  /\ Erase(map, Weight(poids, l), l) \in Index
         /\ Indexed(SetPoids(poids, l, 0), Erase(map, Weight(poids, l), l))
<1> DEFINE w == Weight(poids, l)
           p == SetPoids(poids, l, 0)
           m == Erase(map, w, l)
<1>1. w \in Nat \ {0}
      BY WeightFacts
<1>2. p \in Seq(Int) /\ m \in Index
      BY <1>1, WeightSet, InsertType DEF LitsOf
<1>3. ASSUME NEW k \in Nat \ {0}
      PROVE  At(m, k) = LitsAt(p, k)
  <2>1. At(map, k) = LitsAt(poids, k)
        BY IndexedChar
  <2>2. At(m, k) = IF k = w THEN At(map, k) \ {l} ELSE At(map, k)
        BY AtInsert
  <2>3. /\ LitsOf(p) = LitsOf(poids)
        /\ \A x \in LitsOf(poids) : Weight(p, x) =
              IF x = l THEN 0 ELSE IF x = -l THEN -0 ELSE Weight(poids, x)
        BY WeightSet
  <2>4. Weight(poids, -l) = -w /\ -l \in LitsOf(poids) /\ -l # l
        BY WeightFacts DEF LitsOf
  <2> HIDE DEF p, m
  <2> QED BY <1>1, <2>1, <2>2, <2>3, <2>4 DEF LitsAt
<1> HIDE DEF p, m
<1>4. Indexed(p, m)
      BY <1>2, <1>3, IndexedChar
<1> QED BY <1>2, <1>4 DEF p, m

\* A new variable: its literals are the only new ones.
LEMMA WeightAppend ==
  ASSUME NEW poids \in Seq(Int), NEW w \in Int
  PROVE  LET n == Len(poids) + 1
             p == Append(poids, w)
         IN  /\ p \in Seq(Int) /\ DOMAIN p = DOMAIN poids \cup {n} /\ Len(p) = n
             /\ n \in Nat \ {0} /\ n \notin DOMAIN poids
             /\ n \notin LitsOf(poids) /\ -n \notin LitsOf(poids)
             /\ LitsOf(p) = LitsOf(poids) \cup {n, -n}
             /\ Weight(p, n) = w /\ Weight(p, -n) = -w
             /\ \A x \in LitsOf(poids) : Weight(p, x) = Weight(poids, x)
<1> DEFINE n == Len(poids) + 1
           p == Append(poids, w)
<1>1. /\ p \in Seq(Int) /\ DOMAIN p = 1..n /\ DOMAIN poids = 1..(n - 1)
      /\ n \in Nat \ {0} /\ Len(p) = n /\ p[n] = w
      /\ \A v \in DOMAIN poids : p[v] = poids[v]
      OBVIOUS
<1> HIDE DEF p, n
<1>2. n \notin LitsOf(poids) /\ -n \notin LitsOf(poids) /\ LitsOf(p) = LitsOf(poids) \cup {n, -n}
      BY <1>1 DEF LitsOf, Var
<1>3. Weight(p, n) = w /\ Weight(p, -n) = -w
      BY <1>1 DEF Weight
<1>4. \A x \in LitsOf(poids) : Weight(p, x) = Weight(poids, x)
      BY <1>1 DEF Weight, LitsOf, Var
<1>5. DOMAIN p = DOMAIN poids \cup {n} /\ n \notin DOMAIN poids
      BY <1>1
<1> QED BY <1>1, <1>2, <1>3, <1>4, <1>5 DEF p, n

\* newSoftVar: a new variable that is soft at once.
LEMMA IndexedNewSoft ==
  ASSUME NEW poids \in Seq(Int), NEW map \in Index, Indexed(poids, map),
         NEW w \in Nat \ {0}, NEW val \in BOOLEAN
  PROVE  LET n == Len(poids) + 1
             l == IF val THEN n ELSE -n
         IN  /\ Insert(map, w, l) \in Index
             /\ Indexed(Append(poids, IF val THEN w ELSE -w), Insert(map, w, l))
<1> DEFINE n == Len(poids) + 1
           l == IF val THEN n ELSE -n
           p == Append(poids, IF val THEN w ELSE -w)
           m == Insert(map, w, l)
<1>1. /\ p \in Seq(Int) /\ n \in Nat \ {0}
      /\ n \notin LitsOf(poids) /\ -n \notin LitsOf(poids)
      /\ LitsOf(p) = LitsOf(poids) \cup {n, -n}
      /\ Weight(p, l) = w /\ Weight(p, -l) = -w
      /\ \A x \in LitsOf(poids) : Weight(p, x) = Weight(poids, x)
  <2>1. w \in Int /\ -w \in Int
        OBVIOUS
  <2>2. CASE val
        BY <2>1, <2>2, WeightAppend
  <2>3. CASE ~val
    <3>1. -(-n) = n
          OBVIOUS
    <3> QED BY <2>1, <2>3, <3>1, WeightAppend
  <2> QED BY <2>2, <2>3
<1>2. m \in Index
      BY <1>1, InsertType
<1>3. ASSUME NEW k \in Nat \ {0}
      PROVE  At(m, k) = LitsAt(p, k)
  <2>1. At(map, k) = LitsAt(poids, k)
        BY IndexedChar
  <2>2. /\ LitsOf(p) = LitsOf(poids) \cup {l, -l}
        /\ l \notin LitsOf(poids) /\ -l \notin LitsOf(poids)
        /\ -w # k
        BY <1>1
  <2> HIDE DEF p, l, n
  <2>3. At(m, k) = IF k = w THEN At(map, k) \cup {l} ELSE At(map, k)
        BY AtInsert
  <2> HIDE DEF m
  <2> QED BY <1>1, <2>1, <2>2, <2>3 DEF LitsAt
<1> HIDE DEF p, m
<1>4. Indexed(p, m)
      BY <1>1, <1>2, <1>3, IndexedChar
<1> QED BY <1>2, <1>4 DEF p, m

-----------------------------------------------------------------------------
(***************************************************************************)
(* Formulas: their shape, and what relates outputs of cardinality          *)
(* constraints to the literals that are soft.                              *)
(***************************************************************************)
Cards == [lits : SUBSET Int, w : Nat \ {0}, outs : Maps(Nat, Nat)]

PendingCards == Seq([lits : SUBSET Int, w : Nat \ {0}])

Formulas ==
    [poids : Seq(Int), map : Index, cost : Int, card : Seq(LitCard),
     cards : Seq(Cards), truth : Seq(SUBSET Points), live : SUBSET Points]

IsFormula(f) ==
    /\ f \in Formulas
    /\ Len(f.card) = Len(f.poids) /\ Len(f.truth) = Len(f.poids)

\* The types of the fields.
LEMMA Fields ==
  ASSUME NEW f, IsFormula(f)
  PROVE  /\ f \in Formulas
         /\ f.poids \in Seq(Int) /\ f.map \in Index /\ f.cost \in Int
         /\ f.card \in Seq(LitCard) /\ f.cards \in Seq(Cards)
         /\ f.truth \in Seq(SUBSET Points) /\ f.live \in SUBSET Points
         /\ Len(f.card) = Len(f.poids) /\ Len(f.truth) = Len(f.poids)
         /\ DOMAIN f.card = DOMAIN f.poids /\ DOMAIN f.truth = DOMAIN f.poids
<1>1. /\ f \in Formulas
      /\ f.poids \in Seq(Int) /\ f.map \in Index /\ f.cost \in Int
      /\ f.card \in Seq(LitCard) /\ f.cards \in Seq(Cards)
      /\ f.truth \in Seq(SUBSET Points) /\ f.live \in SUBSET Points
      /\ Len(f.card) = Len(f.poids) /\ Len(f.truth) = Len(f.poids)
      BY DEF IsFormula, Formulas
<1>2. DOMAIN f.card = DOMAIN f.poids /\ DOMAIN f.truth = DOMAIN f.poids
      BY <1>1
<1> QED BY <1>1, <1>2

\* NoCard is the value of a variable that is no output.
LEMMA NoCardType == NoCard \in LitCard
  BY DEF NoCard, LitCard

\* Unsigned arithmetic yields integers.
LEMMA WrapType ==
  ASSUME NEW x \in Int
  PROVE  Wrap(x) \in Int
  BY MaxWeightAssumption DEF Wrap

CardOK(f) ==
    /\ \A v \in DOMAIN f.card : f.card[v] # NoCard =>
         /\ f.card[v].card \in DOMAIN f.cards
         /\ f.card[v].initialWeight > 0
         /\ f.poids[v] <= 0
    /\ \A c \in DOMAIN f.cards : \A k \in DOMAIN f.cards[c].outs :
         /\ f.cards[c].outs[k] \in DOMAIN f.poids
         /\ f.card[f.cards[c].outs[k]] = NoCard => f.poids[f.cards[c].outs[k]] = 0

\* g has the weights of f, and 0 for new variables.
SameWeights(f, g) ==
    /\ g.map = f.map
    /\ LitsOf(f.poids) \subseteq LitsOf(g.poids)
    /\ \A x \in LitsOf(g.poids) : Weight(g.poids, x) =
         IF x \in LitsOf(f.poids) THEN Weight(f.poids, x) ELSE 0

\* So it has, but that o, a literal without weight or a new one, has become soft.
OneSofter(f, g, o, w) ==
    /\ g.map = Insert(f.map, w, o)
    /\ w \in Nat \ {0}
    /\ o \in LitsOf(g.poids)
    /\ o \in LitsOf(f.poids) => Weight(f.poids, o) = 0
    /\ LitsOf(f.poids) \subseteq LitsOf(g.poids)
    /\ \A x \in LitsOf(g.poids) : Weight(g.poids, x) =
         IF x = o THEN w ELSE IF x = -o THEN -w
         ELSE IF x \in LitsOf(f.poids) THEN Weight(f.poids, x) ELSE 0

Grown(f, g) == SameWeights(f, g) \/ \E o, w : OneSofter(f, g, o, w)

\* The index of a formula that has grown is still right.
LEMMA GrownIndexed ==
  ASSUME NEW f, NEW g, IsFormula(f), IsFormula(g), IndexOK(f), Grown(f, g)
  PROVE  IndexOK(g)
<1>1. /\ f.poids \in Seq(Int) /\ f.map \in Index /\ Indexed(f.poids, f.map)
      /\ g.poids \in Seq(Int) /\ g.map \in Index
      BY Fields DEF IndexOK
<1>2. ASSUME NEW k \in Nat \ {0}
      PROVE  At(g.map, k) = LitsAt(g.poids, k)
  <2>1. At(f.map, k) = LitsAt(f.poids, k)
        BY <1>1, IndexedChar
  <2>2. CASE SameWeights(f, g)
        BY <2>1, <2>2 DEF SameWeights, LitsAt
  <2>3. CASE \E o, w : OneSofter(f, g, o, w)
    <3>1. PICK o, w : OneSofter(f, g, o, w)
          BY <2>3
    <3>2. At(g.map, k) = IF k = w THEN At(f.map, k) \cup {o} ELSE At(f.map, k)
          BY <3>1, AtInsert DEF OneSofter
    <3>3. o # -o /\ -o \in LitsOf(g.poids)
          BY <1>1, <3>1, WeightFacts DEF OneSofter, LitsOf
    <3>4. o \in LitsOf(f.poids) => -o \in LitsOf(f.poids) /\ Weight(f.poids, -o) = 0
          BY <1>1, <3>1, WeightFacts DEF OneSofter
    <3>5. -o \in LitsOf(f.poids) => -(-o) = o /\ o \in LitsOf(f.poids)
          BY <1>1, <3>1, WeightFacts DEF OneSofter, LitsOf
    <3> QED BY <2>1, <3>1, <3>2, <3>3, <3>4, <3>5 DEF OneSofter, LitsAt
  <2> QED BY <2>2, <2>3 DEF Grown
<1> QED BY <1>1, <1>2, IndexedChar DEF IndexOK

-----------------------------------------------------------------------------
(***************************************************************************)
(* The member functions, one by one.                                       *)
(***************************************************************************)
\* newVar: a variable without card and weight.
LEMMA NewVarFacts ==
  ASSUME NEW f, IsFormula(f), NEW T \in SUBSET Points
  PROVE  LET g == NewVar(f, T)
         IN  /\ IsFormula(g) /\ SameWeights(f, g)
             /\ g.poids = Append(f.poids, 0) /\ g.card = Append(f.card, NoCard)
             /\ g.map = f.map /\ g.cards = f.cards
<1> DEFINE p == Append(f.poids, 0)
           c == Append(f.card, NoCard)
           t == Append(f.truth, T)
           g == NewVar(f, T)
<1>1. /\ p \in Seq(Int) /\ c \in Seq(LitCard) /\ t \in Seq(SUBSET Points)
      /\ Len(c) = Len(p) /\ Len(t) = Len(p)
      BY Fields, NoCardType
<1>2. g = [f EXCEPT !.poids = p, !.card = c, !.truth = t]
      BY DEF NewVar
<1>3. f \in Formulas
      BY Fields
<1>4. /\ LitsOf(f.poids) \subseteq LitsOf(p)
      /\ \A x \in LitsOf(p) : Weight(p, x) =
           IF x \in LitsOf(f.poids) THEN Weight(f.poids, x) ELSE 0
  <2>1. f.poids \in Seq(Int)
        BY Fields
  <2>2. 0 \in Int
        OBVIOUS
  <2> QED BY <2>1, <2>2, WeightAppend
<1> HIDE DEF p, c, t, g
<1>5. g \in Formulas /\ g.poids = p /\ g.card = c /\ g.truth = t /\ g.map = f.map /\ g.cards = f.cards
      BY <1>1, <1>2, <1>3 DEF Formulas
<1>6. IsFormula(g) /\ SameWeights(f, g)
      BY <1>1, <1>4, <1>5 DEF IsFormula, SameWeights
<1> QED BY <1>5, <1>6 DEF p, c, g

\* The formulas that newVar makes from a to n variables.
VarsMade(h, g, a, n) == h = [v \in a..n |-> IF v = a THEN g ELSE NewVar(h[v - 1], {p \in Points : v \in p})]

\* They exist.
LEMMA GrowsExists ==
  ASSUME NEW g, NEW a \in Nat, NEW n \in Nat
  PROVE  \E h : VarsMade(h, g, a, a + n)
<1> DEFINE F == {m \in Nat : \E h : VarsMade(h, g, a, a + m)}
<1>1. 0 \in F
  <2>1. PICK h : h = [v \in a..a |-> g]
        OBVIOUS
  <2>2. a..a = {a} /\ a + 0 = a
        OBVIOUS
  <2>3. \A v \in {a} : g = IF v = a THEN g ELSE NewVar(h[v - 1], {p \in Points : v \in p})
        OBVIOUS
  <2>4. VarsMade(h, g, a, a + 0)
        BY <2>1, <2>2, <2>3 DEF VarsMade
  <2> QED BY <2>4
<1>2. ASSUME NEW m \in Nat, m \in F
      PROVE  m + 1 \in F
  <2>1. PICK h : VarsMade(h, g, a, a + m)
        BY <1>2
  <2>2. PICK b \in Nat : b = a + m
        OBVIOUS
  <2>3. PICK k : k = [v \in a..(b + 1) |-> IF v = b + 1 THEN NewVar(h[b], {p \in Points : b + 1 \in p}) ELSE h[v]]
        OBVIOUS
  <2>4. ASSUME NEW v \in a..(b + 1)
        PROVE  k[v] = IF v = a THEN g ELSE NewVar(k[v - 1], {p \in Points : v \in p})
    <3>1. CASE v = b + 1
      <4>1. b \in a..(b + 1) /\ b # b + 1 /\ v - 1 = b /\ v # a
            BY <2>2, <3>1
      <4>2. k[b] = h[b]
            BY <2>3, <4>1
      <4> QED BY <2>3, <3>1, <4>1, <4>2
    <3>2. CASE v # b + 1
      <4>1. v \in a..b /\ k[v] = h[v]
            BY <2>2, <2>3, <3>2
      <4>2. h[v] = IF v = a THEN g ELSE NewVar(h[v - 1], {p \in Points : v \in p})
            BY <2>1, <2>2, <4>1 DEF VarsMade
      <4>3. v # a => v - 1 \in a..(b + 1) /\ v - 1 # b + 1
            BY <2>2, <4>1
      <4>4. v # a => k[v - 1] = h[v - 1]
            BY <2>3, <4>3
      <4> QED BY <4>1, <4>2, <4>4
    <3> QED BY <3>1, <3>2
  <2>5. k = [v \in a..(b + 1) |-> k[v]]
        BY <2>3
  <2>6. VarsMade(k, g, a, b + 1)
        BY <2>4, <2>5 DEF VarsMade
  <2>7. b + 1 = a + (m + 1)
        BY <2>2
  <2> QED BY <2>6, <2>7
<1>3. \A m \in Nat : m \in F
      BY ONLY <1>1, <1>2, NatClosure
<1> QED BY <1>3

\* newVar does not lead out of the set F.
NewVarStays(F) ==
    \A h \in F :
      /\ h.poids \in Seq(Int)
      /\ \A v : v = Len(h.poids) + 1 =>
           LET g == NewVar(h, {p \in Points : v \in p}) IN g \in F /\ Len(g.poids) = v

\* Nor does making several variables, which are then as many as wanted.
LEMMA NewVarsClosed ==
  ASSUME NEW F, NewVarStays(F), NEW g \in F, NEW n \in Nat
  PROVE  /\ NewVars(g, n) \in F
         /\ Len(NewVars(g, n).poids) = IF n <= Len(g.poids) THEN Len(g.poids) ELSE n
<1>1. \A h \in F : h.poids \in Seq(Int) /\ Len(h.poids) \in Nat
      BY DEF NewVarStays
<1>2. PICK a \in Nat : a = Len(g.poids)
      BY <1>1
<1>3. CASE n <= a
  <2>1. NewVars(g, n) = g
        BY <1>2, <1>3 DEF NewVars
  <2> QED BY <1>2, <1>3, <2>1
<1>4. CASE ~(n <= a)
  <2>1. PICK d \in Nat : n = a + d
    <3>1. n - a \in Nat /\ n = a + (n - a)
          BY <1>4
    <3> QED BY <3>1
  <2>2. PICK h : h = CHOOSE k : VarsMade(k, g, a, n)
        OBVIOUS
  <2>3. NewVars(g, n) = h[n]
        BY <1>2, <1>4, <2>2 DEF NewVars, VarsMade
  <2>4. VarsMade(h, g, a, n)
    <3>1. \E k : VarsMade(k, g, a, a + d)
          BY GrowsExists
    <3> QED BY <2>1, <2>2, <3>1
  <2> DEFINE P(m) == h[a + m] \in F /\ Len(h[a + m].poids) = a + m
             S == {m \in Nat : m <= d => P(m)}
  <2>5. 0 \in S
    <3>1. a + 0 = a /\ a \in a..n
          BY <1>4
    <3>2. h[a] = g
          BY <2>4, <3>1 DEF VarsMade
    <3> QED BY <1>2, <3>1, <3>2
  <2>6. ASSUME NEW m \in Nat, m \in S
        PROVE  m + 1 \in S
    <3> HIDE DEF P
    <3> SUFFICES ASSUME m + 1 <= d PROVE P(m + 1)
        OBVIOUS
    <3>1. P(m)
          BY <2>6
    <3>2. PICK v : v = a + (m + 1)
          OBVIOUS
    <3>3. v \in a..n /\ v # a /\ v - 1 = a + m /\ v = (a + m) + 1
          BY ONLY <2>1, <3>2, m \in Nat, a \in Nat, d \in Nat, m + 1 <= d
    <3>4. h[v] = NewVar(h[a + m], {p \in Points : v \in p})
          BY <2>4, <3>3 DEF VarsMade
    <3>5. PICK b : b = h[a + m]
          OBVIOUS
    <3>6. b \in F /\ v = Len(b.poids) + 1 /\ h[v] = NewVar(b, {p \in Points : v \in p})
          BY <3>1, <3>3, <3>4, <3>5 DEF P
    <3>7. h[v] \in F /\ Len(h[v].poids) = v
          BY <3>6 DEF NewVarStays
    <3> QED BY <3>2, <3>7 DEF P
  <2>7. d \in S
        BY ONLY <2>5, <2>6, d \in Nat, NatClosure
  <2> QED BY <1>2, <1>4, <2>1, <2>3, <2>7
<1> QED BY <1>3, <1>4

\* A variable that exists is not made again.
LEMMA NewVarsSame ==
  ASSUME NEW f, f.poids \in Seq(Int), NEW l \in LitsOf(f.poids)
  PROVE  NewVars(f, Var(l)) = f
<1>1. Var(l) \in DOMAIN f.poids /\ DOMAIN f.poids = 1..Len(f.poids) /\ Len(f.poids) \in Nat
      BY DEF LitsOf
<1>2. Var(l) <= Len(f.poids)
      BY <1>1
<1> QED BY <1>2, Zenon DEF NewVars

\* newSoftVar with a weight other than 0, of either sign.
LEMMA NewSoftVarFacts ==
  ASSUME NEW f, IsFormula(f), IndexOK(f), NEW T \in SUBSET Points,
         NEW value \in BOOLEAN, NEW weight \in Int \ {0}
  PROVE  LET g == NewSoftVar(f, value, weight, T)
         IN  /\ IsFormula(g) /\ IndexOK(g)
             /\ Len(g.poids) = Len(f.poids) + 1 /\ DOMAIN g.poids = DOMAIN f.poids \cup {Len(f.poids) + 1}
             /\ g.card = Append(f.card, NoCard) /\ g.cards = f.cards
<1> DEFINE val == IF weight < 0 THEN ~value ELSE value
           w == IF weight < 0 THEN -weight ELSE weight
           n == Len(f.poids) + 1
           p == Append(f.poids, IF val THEN w ELSE -w)
           c == Append(f.card, NoCard)
           t == Append(f.truth, T)
           m == Insert(f.map, w, IF val THEN n ELSE -n)
           g == NewSoftVar(f, value, weight, T)
<1>1. g = [f EXCEPT !.poids = p, !.card = c, !.map = m, !.truth = t]
      BY DEF NewSoftVar
<1>2. val \in BOOLEAN
      OBVIOUS
<1>3. w \in Nat \ {0}
      OBVIOUS
<1> HIDE DEF val, w
<1>4. m \in Index /\ Indexed(p, m)
      BY <1>2, <1>3, Fields, IndexedNewSoft DEF IndexOK
<1>5. /\ p \in Seq(Int) /\ c \in Seq(LitCard) /\ t \in Seq(SUBSET Points)
      /\ Len(c) = Len(p) /\ Len(t) = Len(p) /\ Len(p) = n
      /\ DOMAIN p = DOMAIN f.poids \cup {n}
  <2>1. (IF val THEN w ELSE -w) \in Int
        BY <1>3
  <2>2. c \in Seq(LitCard) /\ t \in Seq(SUBSET Points) /\ Len(c) = n /\ Len(t) = n
        BY Fields, NoCardType
  <2>3. f.poids \in Seq(Int)
        BY Fields
  <2>4. p \in Seq(Int) /\ Len(p) = n /\ DOMAIN p = DOMAIN f.poids \cup {n}
        BY <2>1, <2>3, WeightAppend
  <2> QED BY <2>2, <2>4
<1>6. f \in Formulas
      BY Fields
<1> HIDE DEF p, c, t, m, g, n
<1>7. g \in Formulas /\ g.poids = p /\ g.card = c /\ g.truth = t /\ g.map = m /\ g.cards = f.cards
      BY <1>1, <1>4, <1>5, <1>6 DEF Formulas
<1>8. IsFormula(g) /\ IndexOK(g)
      BY <1>4, <1>5, <1>7 DEF IsFormula, IndexOK
<1> QED BY <1>5, <1>7, <1>8 DEF g, c, n

\* Weights, index and cost are replaced.
Replace(f, p, c, m) == [f EXCEPT !.poids = p, !.cost = c, !.map = m]

\* The other fields stay.
LEMMA ReplaceFacts ==
  ASSUME NEW f, IsFormula(f), NEW p \in Seq(Int), Len(p) = Len(f.poids),
         NEW m \in Index, NEW c \in Int, NEW g,
         g = Replace(f, p, c, m)
  PROVE  /\ IsFormula(g)
         /\ g.poids = p /\ g.map = m /\ g.cost = c /\ g.card = f.card /\ g.cards = f.cards
         /\ g.truth = f.truth
<1>1. f \in Formulas
      BY Fields
<1>2. /\ g \in Formulas
      /\ g.poids = p /\ g.map = m /\ g.cost = c /\ g.card = f.card /\ g.cards = f.cards
      /\ g.truth = f.truth
      BY <1>1 DEF Formulas, Replace
<1>3. IsFormula(g)
      BY <1>2, Fields DEF IsFormula
<1> QED BY <1>2, <1>3

\* A hard clause only cuts away assignments.
LEMMA AddHardFacts ==
  ASSUME NEW f, IsFormula(f), NEW C
  PROVE  LET g == AddHard(f, C)
         IN  /\ IsFormula(g)
             /\ g.poids = f.poids /\ g.map = f.map /\ g.card = f.card /\ g.cards = f.cards
<1> DEFINE v == f.live \cap UNION {True(f, l) : l \in C}
           g == AddHard(f, C)
<1>1. f \in Formulas /\ v \in SUBSET Points
      BY Fields
<1>2. g = [f EXCEPT !.live = v]
      BY DEF AddHard
<1> HIDE DEF v, g
<1>3. /\ g \in Formulas
      /\ g.poids = f.poids /\ g.map = f.map /\ g.card = f.card /\ g.cards = f.cards
      /\ g.truth = f.truth
      BY <1>1, <1>2 DEF Formulas
<1>4. IsFormula(g)
      BY <1>3, Fields DEF IsFormula
<1> QED BY <1>3, <1>4 DEF g

-----------------------------------------------------------------------------
(***************************************************************************)
(* Cardinality constraints.                                                *)
(***************************************************************************)
\* The variables 1..n, those of the user, are no outputs.
InputsFree(f, n) ==
    /\ n <= Len(f.poids)
    /\ \A v \in 1..n : f.card[v] = NoCard
    /\ \A c \in DOMAIN f.cards : \A k \in DOMAIN f.cards[c].outs : f.cards[c].outs[k] > n

IsOutput(f, v) == \E c \in DOMAIN f.cards : \E k \in DOMAIN f.cards[c].outs : v = f.cards[c].outs[k]

\* A cardinality constraint numbers some of its outputs.
LEMMA CardFacts ==
  ASSUME NEW x \in Cards
  PROVE  /\ DOMAIN x.outs \subseteq Nat
         /\ \A k \in DOMAIN x.outs : x.outs[k] \in Nat
         /\ x.outs = [k \in DOMAIN x.outs |-> x.outs[k]]
<1>1. x.outs \in Maps(Nat, Nat)
      BY DEF Cards
<1> QED BY <1>1 DEF Maps

\* The output k becomes the variable n.
PutOut(x, k, n) == [x EXCEPT !.outs = Put(x.outs, k, n)]

\* What this leaves of a constraint.
LEMMA CardPut ==
  ASSUME NEW x \in Cards, NEW k \in Nat, NEW n \in Nat, k \notin DOMAIN x.outs
  PROVE  LET y == PutOut(x, k, n)
         IN  /\ y \in Cards /\ y.lits = x.lits
             /\ DOMAIN y.outs = DOMAIN x.outs \cup {k} /\ y.outs[k] = n
             /\ \A i \in DOMAIN x.outs : y.outs[i] = x.outs[i]
<1> DEFINE o == Put(x.outs, k, n)
           y == PutOut(x, k, n)
<1>1. DOMAIN x.outs \subseteq Nat /\ \A i \in DOMAIN x.outs : x.outs[i] \in Nat
      BY CardFacts
<1>2. /\ DOMAIN o = DOMAIN x.outs \cup {k} /\ o[k] = n
      /\ \A i \in DOMAIN x.outs : o[i] = x.outs[i]
      BY DEF Put
<1>3. o \in [DOMAIN x.outs \cup {k} -> Nat]
  <2>1. \A i \in DOMAIN x.outs \cup {k} : (IF i = k THEN n ELSE x.outs[i]) \in Nat
        BY <1>1
  <2> QED BY <2>1 DEF Put
<1>4. y = [x EXCEPT !.outs = o]
      BY DEF PutOut
<1> HIDE DEF o, y
<1>5. o \in Maps(Nat, Nat)
  <2>1. DOMAIN x.outs \cup {k} \in SUBSET Nat
        BY <1>1
  <2> QED BY <1>3, <2>1 DEF Maps
<1>6. y \in Cards /\ y.lits = x.lits /\ y.outs = o
      BY <1>4, <1>5 DEF Cards
<1> QED BY <1>2, <1>6 DEF o, y

\* card->atMost(k) leaves what exists alone ...
LEMMA WithAtMostOld ==
  ASSUME NEW f, IsFormula(f), CardOK(f), NEW c \in DOMAIN f.cards, NEW k \in Nat,
         k >= Cardinality(f.cards[c].lits) \/ k \in DOMAIN f.cards[c].outs
  PROVE  /\ WithAtMost(f, c, k) = f /\ SameWeights(f, f)
         /\ AtMost(f, c, k) # 0 =>
              -AtMost(f, c, k) \in DOMAIN f.poids /\ IsOutput(f, -AtMost(f, c, k))
<1>1. WithAtMost(f, c, k) = f
      BY DEF WithAtMost
<1>2. SameWeights(f, f)
      BY DEF SameWeights
<1>3. f.cards[c] \in Cards
      BY Fields
<1>4. ASSUME AtMost(f, c, k) # 0
      PROVE  -AtMost(f, c, k) \in DOMAIN f.poids /\ IsOutput(f, -AtMost(f, c, k))
  <2>1. k \in DOMAIN f.cards[c].outs /\ AtMost(f, c, k) = -f.cards[c].outs[k]
        BY <1>4 DEF AtMost
  <2>2. f.cards[c].outs[k] \in Nat
        BY <1>3, <2>1, CardFacts
  <2>3. -AtMost(f, c, k) = f.cards[c].outs[k]
        BY <2>1, <2>2
  <2> QED BY <2>1, <2>3 DEF CardOK, IsOutput
<1> QED BY <1>1, <1>2, <1>4

\* ... and makes a new output a new variable without weight.
LEMMA WithAtMostNew ==
  ASSUME NEW f, IsFormula(f), CardOK(f), NEW c \in DOMAIN f.cards, NEW k \in Nat,
         ~(k >= Cardinality(f.cards[c].lits) \/ k \in DOMAIN f.cards[c].outs),
         NEW g, g = WithAtMost(f, c, k), NEW n, n = Len(f.poids) + 1
  PROVE  /\ IsFormula(g) /\ SameWeights(f, g)
         /\ g.poids = Append(f.poids, 0) /\ g.card = Append(f.card, NoCard)
         /\ DOMAIN g.cards = DOMAIN f.cards
         /\ AtMost(g, c, k) = -n
         /\ k \in DOMAIN g.cards[c].outs /\ g.cards[c].outs[k] = n
         /\ \A d \in DOMAIN f.cards : \A i \in DOMAIN g.cards[d].outs :
              g.cards[d].outs[i] = n \/ (i \in DOMAIN f.cards[d].outs /\ g.cards[d].outs[i] = f.cards[d].outs[i])
<1> DEFINE T == MoreThan(f, f.cards[c].lits, k)
           h == NewVar(f, T)
           y == PutOut(f.cards[c], k, n)
           z == [f.cards EXCEPT ![c] = y]
<1>1. T \in SUBSET Points
      BY DEF MoreThan
<1> HIDE DEF T
<1>2. /\ IsFormula(h) /\ SameWeights(f, h)
      /\ h.poids = Append(f.poids, 0) /\ h.card = Append(f.card, NoCard)
      /\ h.map = f.map /\ h.cards = f.cards
      BY <1>1, NewVarFacts
<1>3. g = [h EXCEPT !.cards = z]
      BY <1>2 DEF WithAtMost, T, PutOut
<1> HIDE DEF h
<1>4. f.cards \in Seq(Cards) /\ f.cards[c] \in Cards /\ n \in Nat
      BY Fields
<1>5. /\ y \in Cards /\ y.lits = f.cards[c].lits
      /\ DOMAIN y.outs = DOMAIN f.cards[c].outs \cup {k} /\ y.outs[k] = n
      /\ \A i \in DOMAIN f.cards[c].outs : y.outs[i] = f.cards[c].outs[i]
      BY <1>4, CardPut
<1> HIDE DEF y
<1>6. /\ z \in Seq(Cards) /\ DOMAIN z = DOMAIN f.cards /\ z[c] = y
      /\ \A d \in DOMAIN f.cards : d # c => z[d] = f.cards[d]
      BY <1>4, <1>5
<1> HIDE DEF z
<1>7. /\ g \in Formulas /\ g.poids = h.poids /\ g.map = h.map /\ g.card = h.card
      /\ g.truth = h.truth /\ g.cards = z
  <2>1. h \in Formulas
        BY <1>2, Fields
  <2> QED BY <1>3, <1>6, <2>1 DEF Formulas
<1>8. IsFormula(g)
      BY <1>2, <1>7, Fields DEF IsFormula
<1>9. SameWeights(f, g)
      BY <1>2, <1>7 DEF SameWeights
<1>10. AtMost(g, c, k) = -n
      BY <1>5, <1>6, <1>7 DEF AtMost
<1>11. ASSUME NEW d \in DOMAIN f.cards, NEW i \in DOMAIN g.cards[d].outs
       PROVE  g.cards[d].outs[i] = n \/ (i \in DOMAIN f.cards[d].outs /\ g.cards[d].outs[i] = f.cards[d].outs[i])
       BY <1>5, <1>6, <1>7
<1> QED BY <1>2, <1>5, <1>6, <1>7, <1>8, <1>9, <1>10, <1>11

\* Append(s, x) has x at the new place and s before it.
LEMMA AppendFacts ==
  ASSUME NEW S, NEW s \in Seq(S), NEW x \in S, NEW n, n = Len(s) + 1
  PROVE  /\ DOMAIN Append(s, x) = DOMAIN s \cup {n} /\ n \notin DOMAIN s /\ n \in Nat
         /\ Len(Append(s, x)) = n /\ Append(s, x)[n] = x
         /\ \A v \in DOMAIN s : Append(s, x)[v] = s[v]
  OBVIOUS

\* In both cases the weights stay, and the literal of the output is there.
LEMMA WithAtMostFacts ==
  ASSUME NEW f, IsFormula(f), CardOK(f), NEW c \in DOMAIN f.cards, NEW k \in Nat,
         NEW g, g = WithAtMost(f, c, k)
  PROVE  /\ IsFormula(g) /\ CardOK(g) /\ SameWeights(f, g)
         /\ DOMAIN g.cards = DOMAIN f.cards
         /\ DOMAIN f.poids \subseteq DOMAIN g.poids
         /\ \A v \in DOMAIN f.poids : g.card[v] = f.card[v] /\ g.poids[v] = f.poids[v]
         /\ \A n \in Nat : InputsFree(f, n) => InputsFree(g, n)
         /\ AtMost(g, c, k) # 0 =>
              -AtMost(g, c, k) \in DOMAIN g.poids /\ IsOutput(g, -AtMost(g, c, k))
<1>1. CASE k >= Cardinality(f.cards[c].lits) \/ k \in DOMAIN f.cards[c].outs
      BY <1>1, WithAtMostOld
<1>2. CASE ~(k >= Cardinality(f.cards[c].lits) \/ k \in DOMAIN f.cards[c].outs)
  <2> DEFINE n == Len(f.poids) + 1
  <2>1. /\ IsFormula(g) /\ SameWeights(f, g)
        /\ g.poids = Append(f.poids, 0) /\ g.card = Append(f.card, NoCard)
        /\ DOMAIN g.cards = DOMAIN f.cards
        /\ AtMost(g, c, k) = -n
        /\ k \in DOMAIN g.cards[c].outs /\ g.cards[c].outs[k] = n
        /\ \A d \in DOMAIN f.cards : \A i \in DOMAIN g.cards[d].outs :
             g.cards[d].outs[i] = n \/ (i \in DOMAIN f.cards[d].outs /\ g.cards[d].outs[i] = f.cards[d].outs[i])
    <3>1. n = Len(f.poids) + 1
          OBVIOUS
    <3> HIDE DEF n
    <3> QED BY <1>2, <3>1, WithAtMostNew
  <2>2. /\ f.poids \in Seq(Int) /\ f.card \in Seq(LitCard)
        /\ Len(f.card) = Len(f.poids) /\ DOMAIN f.card = DOMAIN f.poids
        BY Fields
  <2>3. /\ DOMAIN g.poids = DOMAIN f.poids \cup {n} /\ n \notin DOMAIN f.poids
        /\ DOMAIN g.card = DOMAIN f.poids \cup {n} /\ n \in Nat
        /\ Len(g.poids) = n /\ g.poids[n] = 0 /\ g.card[n] = NoCard
        /\ \A v \in DOMAIN f.poids : g.card[v] = f.card[v] /\ g.poids[v] = f.poids[v]
    <3>1. 0 \in Int /\ n = Len(f.card) + 1
          BY <2>2
    <3> HIDE DEF n
    <3>2. /\ DOMAIN g.poids = DOMAIN f.poids \cup {n} /\ n \notin DOMAIN f.poids /\ n \in Nat
          /\ Len(g.poids) = n /\ g.poids[n] = 0 /\ \A v \in DOMAIN f.poids : g.poids[v] = f.poids[v]
          BY <2>1, <2>2, <3>1, AppendFacts DEF n
    <3>3. /\ DOMAIN g.card = DOMAIN f.card \cup {n} /\ g.card[n] = NoCard
          /\ \A v \in DOMAIN f.card : g.card[v] = f.card[v]
          BY <2>1, <2>2, <3>1, NoCardType, AppendFacts
    <3> QED BY <2>2, <3>2, <3>3
  <2>4. CardOK(g)
    <3>1. ASSUME NEW v \in DOMAIN g.card, g.card[v] # NoCard
          PROVE  /\ g.card[v].card \in DOMAIN g.cards
                 /\ g.card[v].initialWeight > 0
                 /\ g.poids[v] <= 0
      <4>1. v \in DOMAIN f.card /\ v \in DOMAIN f.poids
            BY <2>2, <2>3, <3>1
      <4> QED BY <2>1, <2>3, <3>1, <4>1 DEF CardOK
    <3>2. ASSUME NEW d \in DOMAIN g.cards, NEW i \in DOMAIN g.cards[d].outs
          PROVE  /\ g.cards[d].outs[i] \in DOMAIN g.poids
                 /\ g.card[g.cards[d].outs[i]] = NoCard => g.poids[g.cards[d].outs[i]] = 0
      <4> DEFINE v == g.cards[d].outs[i]
      <4>1. CASE v = n
            BY <2>3, <4>1
      <4>2. CASE i \in DOMAIN f.cards[d].outs /\ v = f.cards[d].outs[i]
        <5>1. d \in DOMAIN f.cards
              BY <2>1
        <5>2. v \in DOMAIN f.poids /\ (f.card[v] = NoCard => f.poids[v] = 0)
              BY <4>2, <5>1 DEF CardOK
        <5> HIDE DEF v
        <5>3. v \in DOMAIN g.poids /\ (g.card[v] = NoCard => g.poids[v] = 0)
              BY <2>3, <5>2
        <5> QED BY <5>3 DEF v
      <4> QED BY <2>1, <4>1, <4>2
    <3> QED BY <3>1, <3>2 DEF CardOK
  <2>5. ASSUME NEW m \in Nat, InputsFree(f, m)
        PROVE  InputsFree(g, m)
    <3>1. /\ m <= Len(f.poids)
          /\ \A v \in 1..m : f.card[v] = NoCard
          /\ \A d \in DOMAIN f.cards : \A i \in DOMAIN f.cards[d].outs : f.cards[d].outs[i] > m
          BY <2>5 DEF InputsFree
    <3>2. Len(f.poids) \in Nat /\ DOMAIN f.poids = 1..Len(f.poids)
          BY <2>2
    <3>3. m <= Len(g.poids) /\ n > m
          BY <2>3, <3>1, <3>2
    <3>4. \A v \in 1..m : g.card[v] = NoCard
      <4> TAKE v \in 1..m
      <4>1. v \in DOMAIN f.poids /\ f.card[v] = NoCard
            BY <3>1, <3>2
      <4> QED BY <2>3, <4>1
    <3> HIDE DEF n
    <3>5. \A d \in DOMAIN g.cards : \A i \in DOMAIN g.cards[d].outs : g.cards[d].outs[i] > m
      <4> TAKE d \in DOMAIN g.cards
      <4> TAKE i \in DOMAIN g.cards[d].outs
      <4>1. CASE g.cards[d].outs[i] = n
            BY <3>3, <4>1
      <4>2. CASE i \in DOMAIN f.cards[d].outs /\ g.cards[d].outs[i] = f.cards[d].outs[i]
        <5>1. d \in DOMAIN f.cards
              BY <2>1
        <5> QED BY <3>1, <4>2, <5>1
      <4> QED BY <2>1, <4>1, <4>2
    <3> QED BY <3>3, <3>4, <3>5 DEF InputsFree
  <2>6. -AtMost(g, c, k) = n
        BY <2>1, <2>3
  <2>7. IsOutput(g, n)
        BY <2>1 DEF IsOutput
  <2> HIDE DEF n
  <2> QED BY <2>1, <2>3, <2>4, <2>5, <2>6, <2>7
<1> QED BY <1>1, <1>2

\* The output o becomes soft, and is known in _mapAssum2Card.
LEMMA SoftenCardFacts ==
  ASSUME NEW f, IsFormula(f), CardOK(f), NEW c \in DOMAIN f.cards, NEW k \in Nat,
         NEW w \in Nat \ {0}, NEW l \in LitsOf(f.poids), l < 0,
         NEW o, o = Var(l), Weight(f.poids, l) = 0, NEW g, g = SoftenCard(f, l, c, k, w)
  PROVE  /\ IsFormula(g) /\ CardOK(g) /\ OneSofter(f, g, l, w)
         /\ g.cards = f.cards /\ DOMAIN g.poids = DOMAIN f.poids
         /\ \A v \in DOMAIN f.poids \ {o} : g.card[v] = f.card[v] /\ g.poids[v] = f.poids[v]
         /\ g.card[o] # NoCard
<1> DEFINE e == [card |-> c, atMost |-> k, initialWeight |-> w]
           p == SetPoids(f.poids, l, w)
           m == Insert(f.map, w, l)
           d == [f.card EXCEPT ![o] = e]
<1>1. /\ f.poids \in Seq(Int) /\ f.map \in Index /\ f.card \in Seq(LitCard)
      /\ Len(f.card) = Len(f.poids) /\ DOMAIN f.card = DOMAIN f.poids
      /\ f.cards \in Seq(Cards) /\ f \in Formulas
      BY Fields
<1>2. o \in Nat \ {0} /\ o \in DOMAIN f.poids /\ l \in LitsOf(f.poids) /\ o \in LitsOf(f.poids) /\ Var(l) = o
      /\ l \in Int \ {0} /\ -l = o
      BY <1>1 DEF LitsOf, Var
<1>3. f.poids[o] = 0 /\ Weight(f.poids, o) = 0
      BY <1>1, <1>2 DEF Weight
<1>4. e \in LitCard /\ e # NoCard /\ e.card = c /\ e.initialWeight = w
  <2>1. c \in Nat
        BY <1>1
  <2> QED BY <2>1 DEF LitCard, NoCard
<1>5. /\ p \in Seq(Int) /\ DOMAIN p = DOMAIN f.poids /\ LitsOf(p) = LitsOf(f.poids)
      /\ \A x \in LitsOf(f.poids) : Weight(p, x) =
           IF x = l THEN w ELSE IF x = o THEN -w ELSE Weight(f.poids, x)
  <2>1. w \in Int
        OBVIOUS
  <2>2. f.poids \in Seq(Int)
        BY <1>1
  <2>3. p \in Seq(Int) /\ DOMAIN p = DOMAIN f.poids /\ LitsOf(p) = LitsOf(f.poids)
        BY <2>1, <2>2, WeightSet
  <2>4. ASSUME NEW x \in LitsOf(f.poids)
        PROVE  Weight(p, x) = IF x = l THEN w ELSE IF x = o THEN -w ELSE Weight(f.poids, x)
    <3>1. p = SetPoids(f.poids, l, w)
          OBVIOUS
    <3> HIDE DEF p
    <3>2. /\ x = l => Weight(p, x) = w
          /\ x # l /\ x = -l => Weight(p, x) = -w
          /\ x # l /\ x # -l => Weight(p, x) = Weight(f.poids, x)
          BY <2>1, <2>2, <3>1, WeightSetAt
    <3> QED BY <1>2, <3>2, Zenon
  <2> QED BY <2>3, <2>4
<1>6. p[o] = -w /\ \A v \in DOMAIN f.poids \ {o} : p[v] = f.poids[v]
      BY <1>1, <1>2 DEF SetPoids
<1>7. m \in Index
      BY <1>1, <1>2, InsertType
<1>8. Len(p) = Len(f.poids)
      BY <1>1, <1>5
<1>9. g = [f EXCEPT !.poids = p, !.map = m, !.card = d]
      BY <1>2 DEF SoftenCard
<1> HIDE DEF e, p, m
<1>10. /\ d \in Seq(LitCard) /\ Len(d) = Len(f.card) /\ d[o] = e /\ DOMAIN d = DOMAIN f.card
       /\ \A v \in DOMAIN f.poids \ {o} : d[v] = f.card[v]
       BY <1>1, <1>2, <1>4
<1> HIDE DEF d
<1>11. /\ g \in Formulas /\ g.poids = p /\ g.map = m /\ g.card = d /\ g.cards = f.cards
       /\ g.truth = f.truth
       BY <1>1, <1>5, <1>7, <1>9, <1>10 DEF Formulas
<1>12. IsFormula(g)
       BY <1>1, <1>8, <1>10, <1>11, Fields DEF IsFormula
<1>13. CardOK(g)
  <2>1. ASSUME NEW v \in DOMAIN g.card, g.card[v] # NoCard
        PROVE  /\ g.card[v].card \in DOMAIN g.cards
               /\ g.card[v].initialWeight > 0
               /\ g.poids[v] <= 0
    <3>1. CASE v = o
          BY <1>4, <1>6, <1>10, <1>11, <3>1
    <3>2. CASE v # o
          BY <1>1, <1>6, <1>10, <1>11, <2>1, <3>2 DEF CardOK
    <3> QED BY <3>1, <3>2
  <2>2. ASSUME NEW b \in DOMAIN g.cards, NEW i \in DOMAIN g.cards[b].outs
        PROVE  /\ g.cards[b].outs[i] \in DOMAIN g.poids
               /\ g.card[g.cards[b].outs[i]] = NoCard => g.poids[g.cards[b].outs[i]] = 0
    <3> DEFINE v == f.cards[b].outs[i]
    <3>1. v \in DOMAIN f.poids /\ (f.card[v] = NoCard => f.poids[v] = 0) /\ g.cards[b].outs[i] = v
          BY <1>11, <2>2 DEF CardOK
    <3> HIDE DEF v
    <3>2. CASE v = o
          BY <1>4, <1>5, <1>10, <1>11, <3>1, <3>2
    <3>3. CASE v # o
      <4>1. g.card[v] = f.card[v] /\ g.poids[v] = f.poids[v]
            BY <1>6, <1>10, <1>11, <3>1, <3>3
      <4> QED BY <1>5, <1>11, <3>1, <4>1
    <3> QED BY <3>2, <3>3
  <2> QED BY <2>1, <2>2 DEF CardOK
<1>14. OneSofter(f, g, l, w)
       BY <1>2, <1>3, <1>5, <1>11 DEF OneSofter, m
<1> QED BY <1>4, <1>5, <1>6, <1>10, <1>11, <1>12, <1>13, <1>14

\* An output that _mapAssum2Card does not know has no weight: it may become soft.
LEMMA OutputIsFree ==
  ASSUME NEW f, IsFormula(f), CardOK(f), NEW v \in DOMAIN f.poids, IsOutput(f, v),
         NEW o \in Int, -o = v
  PROVE  /\ o \in LitsOf(f.poids) /\ o < 0 /\ Var(o) = v
         /\ f.card[v] = NoCard => Weight(f.poids, o) = 0
         /\ \A n \in Nat : InputsFree(f, n) => v > n
<1>1. v \in Nat \ {0} /\ f.poids \in Seq(Int)
      BY Fields
<1>2. o < 0 /\ Var(o) = v
      BY <1>1 DEF Var
<1>3. o \in LitsOf(f.poids)
      BY <1>2 DEF LitsOf
<1>4. f.card[v] = NoCard => f.poids[v] = 0
      BY DEF CardOK, IsOutput
<1>5. f.poids[v] = 0 => Weight(f.poids, o) = 0
      BY <1>1, <1>2 DEF Weight
<1>6. \A n \in Nat : InputsFree(f, n) => v > n
      BY DEF InputsFree, IsOutput
<1> QED BY <1>2, <1>3, <1>4, <1>5, <1>6

\* A formula that grew twice, the first time without a soft literal.
LEMMA GrownAfter ==
  ASSUME NEW f, NEW g, NEW h, NEW o, NEW w, SameWeights(f, g), OneSofter(g, h, o, w)
  PROVE  OneSofter(f, h, o, w)
  BY DEF SameWeights, OneSofter

\* What relax and the creation of a constraint may do to a formula; keep are
\* the variables whose entries in _mapAssum2Card may change otherwise.
Extended(f, g, keep) ==
    /\ IsFormula(g) /\ CardOK(g) /\ Grown(f, g)
    /\ DOMAIN f.poids \subseteq DOMAIN g.poids
    /\ \A n \in Nat : InputsFree(f, n) => InputsFree(g, n)
    /\ \A v \in DOMAIN f.poids \ keep :
         f.card[v] # NoCard => g.card[v] = f.card[v] /\ g.poids[v] = f.poids[v]

\* The output k of a constraint is created and made soft, unless it already is.
LEMMA SoftOutput ==
  ASSUME NEW f, IsFormula(f), CardOK(f), NEW c \in DOMAIN f.cards, NEW k \in Nat, NEW w \in Nat \ {0},
         NEW g, g = WithAtMost(f, c, k), NEW o, o = AtMost(g, c, k),
         NEW h, h = IF o # 0 /\ g.card[Var(o)] = NoCard THEN SoftenCard(g, o, c, k, w) ELSE g
  PROVE  Extended(f, h, {})
<1>1. /\ IsFormula(g) /\ CardOK(g) /\ SameWeights(f, g)
      /\ DOMAIN g.cards = DOMAIN f.cards
      /\ DOMAIN f.poids \subseteq DOMAIN g.poids
      /\ \A v \in DOMAIN f.poids : g.card[v] = f.card[v] /\ g.poids[v] = f.poids[v]
      /\ \A n \in Nat : InputsFree(f, n) => InputsFree(g, n)
      /\ o # 0 => -o \in DOMAIN g.poids /\ IsOutput(g, -o)
      BY WithAtMostFacts
<1>2. CASE ~(o # 0 /\ g.card[Var(o)] = NoCard)
  <2>1. h = g
        BY <1>2
  <2> QED BY <1>1, <2>1 DEF Extended, Grown
<1>3. CASE o # 0 /\ g.card[Var(o)] = NoCard
  <2>1. o \in Int
    <3>1. c \in DOMAIN g.cards /\ g.cards[c] \in Cards
          BY <1>1, Fields
    <3>2. k \in DOMAIN g.cards[c].outs /\ g.cards[c].outs[k] \in Nat => o \in Int
          BY <1>3 DEF AtMost
    <3>3. CASE k >= Cardinality(f.cards[c].lits) \/ k \in DOMAIN f.cards[c].outs
      <4>1. g = f
            BY <3>3 DEF WithAtMost
      <4>2. k \in DOMAIN g.cards[c].outs
            BY <1>3, <3>3, <4>1 DEF AtMost
      <4> QED BY <3>1, <3>2, <4>2, CardFacts
    <3>4. CASE ~(k >= Cardinality(f.cards[c].lits) \/ k \in DOMAIN f.cards[c].outs)
      <4>1. k \in DOMAIN g.cards[c].outs
            BY <3>4, WithAtMostNew
      <4> QED BY <3>1, <3>2, <4>1, CardFacts
    <3> QED BY <3>3, <3>4
  <2> DEFINE v == -o
  <2>2. v \in DOMAIN g.poids /\ IsOutput(g, v)
        BY <1>1, <1>3
  <2>3. /\ o \in LitsOf(g.poids) /\ o < 0 /\ Var(o) = v
        /\ Weight(g.poids, o) = 0
        /\ \A n \in Nat : InputsFree(g, n) => v > n
    <3>1. /\ o \in LitsOf(g.poids) /\ o < 0 /\ Var(o) = v
          /\ g.card[v] = NoCard => Weight(g.poids, o) = 0
          /\ \A n \in Nat : InputsFree(g, n) => v > n
          BY <1>1, <2>1, <2>2, OutputIsFree
    <3> QED BY <1>3, <3>1
  <2>4. h = SoftenCard(g, o, c, k, w)
        BY <1>3
  <2> HIDE DEF v
  <2>5. /\ IsFormula(h) /\ CardOK(h) /\ OneSofter(g, h, o, w)
        /\ h.cards = g.cards /\ DOMAIN h.poids = DOMAIN g.poids
        /\ \A x \in DOMAIN g.poids \ {v} : h.card[x] = g.card[x] /\ h.poids[x] = g.poids[x]
    <3>1. c \in DOMAIN g.cards
          BY <1>1
    <3> QED BY <1>1, <2>3, <2>4, <3>1, SoftenCardFacts
  <2>6. Grown(f, h)
        BY <1>1, <2>5, GrownAfter DEF Grown
  <2>7. ASSUME NEW n \in Nat, InputsFree(f, n)
        PROVE  InputsFree(h, n)
    <3>1. InputsFree(g, n) /\ v > n
          BY <1>1, <2>3, <2>7
    <3>2. n <= Len(h.poids)
      <4>1. g.poids \in Seq(Int) /\ h.poids \in Seq(Int)
            BY <1>1, <2>5, Fields
      <4>2. Len(h.poids) = Len(g.poids)
            BY <2>5, <4>1
      <4> QED BY <3>1, <4>2 DEF InputsFree
    <3>3. \A x \in 1..n : h.card[x] = NoCard
      <4>1. g.poids \in Seq(Int) /\ n <= Len(g.poids)
            BY <1>1, <3>1, Fields DEF InputsFree
      <4>2. \A x \in 1..n : x \in DOMAIN g.poids \ {v}
            BY <2>2, <3>1, <4>1
      <4>3. \A x \in DOMAIN g.poids \ {v} : h.card[x] = g.card[x]
            BY <2>5
      <4>4. \A x \in 1..n : g.card[x] = NoCard
            BY <3>1 DEF InputsFree
      <4> QED BY <4>2, <4>3, <4>4
    <3> QED BY <2>5, <3>1, <3>2, <3>3 DEF InputsFree
  <2>8. ASSUME NEW x \in DOMAIN f.poids, f.card[x] # NoCard
        PROVE  h.card[x] = f.card[x] /\ h.poids[x] = f.poids[x]
    <3>1. x \in DOMAIN g.poids \ {v}
          BY <1>1, <1>3, <2>3, <2>8
    <3> QED BY <1>1, <2>5, <3>1
  <2> QED BY <1>1, <2>5, <2>6, <2>7, <2>8 DEF Extended
<1> QED BY <1>2, <1>3

\* Only the entry of _mapAssum2Card for v changes, to NoCard.
Release(f, v) == [f EXCEPT !.card[v] = NoCard]

\* A literal without weight may be let go.
LEMMA ReleaseFacts ==
  ASSUME NEW f, IsFormula(f), CardOK(f), NEW v \in DOMAIN f.poids, f.poids[v] = 0,
         NEW g, g = Release(f, v)
  PROVE  Extended(f, g, {v}) /\ g.poids = f.poids /\ g.map = f.map
<1> DEFINE d == [f.card EXCEPT ![v] = NoCard]
<1>1. /\ f \in Formulas /\ f.card \in Seq(LitCard) /\ DOMAIN f.card = DOMAIN f.poids
      /\ Len(f.card) = Len(f.poids) /\ Len(f.truth) = Len(f.poids)
      BY Fields
<1>2. g = [f EXCEPT !.card = d]
      BY DEF Release
<1>3. /\ d \in Seq(LitCard) /\ Len(d) = Len(f.card) /\ DOMAIN d = DOMAIN f.card /\ d[v] = NoCard
      /\ \A x \in DOMAIN f.card \ {v} : d[x] = f.card[x]
      BY <1>1, NoCardType
<1> HIDE DEF d
<1>4. /\ g \in Formulas /\ g.poids = f.poids /\ g.map = f.map /\ g.card = d /\ g.cards = f.cards
      /\ g.truth = f.truth
      BY <1>1, <1>2, <1>3 DEF Formulas
<1>5. IsFormula(g)
      BY <1>1, <1>3, <1>4 DEF IsFormula
<1>6. SameWeights(f, g)
      BY <1>4 DEF SameWeights
<1>7. CardOK(g)
  <2>1. ASSUME NEW x \in DOMAIN g.card, g.card[x] # NoCard
        PROVE  /\ g.card[x].card \in DOMAIN g.cards
               /\ g.card[x].initialWeight > 0
               /\ g.poids[x] <= 0
    <3>1. x \in DOMAIN f.card \ {v}
          BY <1>3, <1>4, <2>1
    <3> QED BY <1>3, <1>4, <2>1, <3>1 DEF CardOK
  <2>2. ASSUME NEW b \in DOMAIN g.cards, NEW i \in DOMAIN g.cards[b].outs
        PROVE  /\ g.cards[b].outs[i] \in DOMAIN g.poids
               /\ g.card[g.cards[b].outs[i]] = NoCard => g.poids[g.cards[b].outs[i]] = 0
    <3> DEFINE x == f.cards[b].outs[i]
    <3>1. x \in DOMAIN f.poids /\ (f.card[x] = NoCard => f.poids[x] = 0) /\ g.cards[b].outs[i] = x
          BY <1>4, <2>2 DEF CardOK
    <3> HIDE DEF x
    <3>2. CASE x = v
          BY <1>4, <3>1, <3>2
    <3>3. CASE x # v
          BY <1>1, <1>3, <1>4, <3>1, <3>3
    <3> QED BY <3>2, <3>3
  <2> QED BY <2>1, <2>2 DEF CardOK
<1>8. ASSUME NEW n \in Nat, InputsFree(f, n)
      PROVE  InputsFree(g, n)
  <2>1. \A x \in 1..n : x \in DOMAIN f.card
        BY <1>1, <1>8 DEF InputsFree
  <2>2. \A x \in 1..n : g.card[x] = NoCard
        BY <1>3, <1>4, <1>8, <2>1 DEF InputsFree
  <2> QED BY <1>4, <1>8, <2>2 DEF InputsFree
<1> QED BY <1>1, <1>3, <1>4, <1>5, <1>6, <1>7, <1>8 DEF Extended, Grown

\* relax(l): the next output becomes soft, and l is let go if its weight is spent.
LEMMA RelaxFacts ==
  ASSUME NEW f, IsFormula(f), CardOK(f), NEW l \in LitsOf(f.poids)
  PROVE  Extended(f, Relax(f, l), {Var(l)})
<1> DEFINE lc == f.card[Var(l)]
           g  == WithAtMost(f, lc.card, lc.atMost + 1)
           o  == AtMost(g, lc.card, lc.atMost + 1)
           h  == IF o # 0 /\ g.card[Var(o)] = NoCard
                 THEN SoftenCard(g, o, lc.card, lc.atMost + 1, lc.initialWeight)
                 ELSE g
<1>1. CASE lc = NoCard
  <2>1. Relax(f, l) = f
        BY <1>1 DEF Relax
  <2>2. SameWeights(f, f)
        BY DEF SameWeights
  <2> QED BY <2>1, <2>2 DEF Extended, Grown
<1>2. CASE lc # NoCard
  <2>1. Var(l) \in DOMAIN f.poids /\ Var(l) \in DOMAIN f.card
        BY Fields DEF LitsOf
  <2>2. /\ lc \in LitCard /\ lc.card \in DOMAIN f.cards /\ lc.initialWeight > 0
        BY <1>2, <2>1, Fields DEF CardOK
  <2>3. lc.atMost + 1 \in Nat /\ lc.initialWeight \in Nat \ {0}
        BY <2>2 DEF LitCard
  <2>4. Relax(f, l) = IF Poids(h, l) = 0 THEN Release(h, Var(l)) ELSE h
        BY <1>2 DEF Relax, Release
  <2>5. Extended(f, h, {})
        BY <2>2, <2>3, SoftOutput
  <2> HIDE DEF h
  <2>6. CASE Poids(h, l) # 0
        BY <2>4, <2>5, <2>6 DEF Extended
  <2>7. CASE Poids(h, l) = 0
    <3>1. Var(l) \in DOMAIN h.poids /\ h.poids \in Seq(Int)
          BY <2>1, <2>5, Fields DEF Extended
    <3>2. h.poids[Var(l)] = 0
          BY <2>7, <3>1 DEF Poids, Weight, Var, LitsOf
    <3> DEFINE r == Release(h, Var(l))
    <3>3. Extended(h, r, {Var(l)}) /\ r.poids = h.poids /\ r.map = h.map
          BY <2>5, <3>1, <3>2, ReleaseFacts DEF Extended
    <3> HIDE DEF r
    <3>4. Grown(f, r)
          BY <2>5, <3>3 DEF Extended, Grown, SameWeights, OneSofter
    <3>5. ASSUME NEW v \in DOMAIN f.poids \ {Var(l)}, f.card[v] # NoCard
          PROVE  r.card[v] = f.card[v] /\ r.poids[v] = f.poids[v]
      <4>1. h.card[v] = f.card[v] /\ v \in DOMAIN h.poids \ {Var(l)} /\ h.poids[v] = f.poids[v]
            BY <2>5, <3>5 DEF Extended
      <4> QED BY <3>3, <3>5, <4>1 DEF Extended
    <3>6. Extended(f, r, {Var(l)})
          BY <2>5, <3>3, <3>4, <3>5 DEF Extended
    <3> QED BY <2>4, <2>7, <3>6 DEF r
  <2> QED BY <2>6, <2>7
<1> QED BY <1>1, <1>2

\* A core becomes a cardinality constraint.
LEMMA AddCardFacts ==
  ASSUME NEW f, IsFormula(f), CardOK(f), NEW C \in SUBSET Int, NEW w \in Nat \ {0}
  PROVE  Extended(f, AddCard(f, C, w), {})
<1> DEFINE c == Len(f.cards) + 1
           e == [lits |-> C, w |-> w, outs |-> <<>>]
           b == [f EXCEPT !.cards = Append(f.cards, e)]
           g == WithAtMost(b, c, 1)
           o == AtMost(g, c, 1)
           h == IF o # 0 THEN SoftenCard(g, o, c, 1, w) ELSE g
<1>1. AddCard(f, C, w) = h
      BY DEF AddCard
<1>2. /\ f \in Formulas /\ f.cards \in Seq(Cards) /\ f.poids \in Seq(Int)
      /\ Len(f.card) = Len(f.poids) /\ Len(f.truth) = Len(f.poids)
      BY Fields
<1>3. e \in Cards /\ DOMAIN e.outs = {}
  <2>1. <<>> \in Maps(Nat, Nat)
    <3>1. <<>> \in [{} -> Nat]
          OBVIOUS
    <3> QED BY <3>1 DEF Maps
  <2>2. DOMAIN <<>> = {}
        OBVIOUS
  <2> QED BY <2>1, <2>2 DEF Cards
<1> DEFINE z == Append(f.cards, e)
<1>4. b = [f EXCEPT !.cards = z]
      OBVIOUS
<1> HIDE DEF e, b
<1>5. /\ z \in Seq(Cards) /\ DOMAIN z = DOMAIN f.cards \cup {c} /\ z[c] = e /\ c \notin DOMAIN f.cards
      /\ \A d \in DOMAIN f.cards : z[d] = f.cards[d]
  <2>1. z \in Seq(Cards)
        BY <1>2, <1>3
  <2> QED BY <1>2, <1>3, <2>1, AppendFacts
<1> HIDE DEF z, c
<1>6. /\ b \in Formulas /\ b.poids = f.poids /\ b.map = f.map /\ b.card = f.card /\ b.cards = z
      /\ b.truth = f.truth
      BY <1>2, <1>4, <1>5 DEF Formulas
<1>7. IsFormula(b)
      BY <1>2, <1>6 DEF IsFormula
<1>8. ASSUME NEW d \in DOMAIN b.cards, NEW i \in DOMAIN b.cards[d].outs
      PROVE  d \in DOMAIN f.cards /\ b.cards[d] = f.cards[d]
      BY <1>3, <1>5, <1>6
<1>9. CardOK(b)
  <2>1. ASSUME NEW v \in DOMAIN b.card, b.card[v] # NoCard
        PROVE  /\ b.card[v].card \in DOMAIN b.cards
               /\ b.card[v].initialWeight > 0
               /\ b.poids[v] <= 0
        BY <1>5, <1>6, <2>1 DEF CardOK
  <2>2. ASSUME NEW d \in DOMAIN b.cards, NEW i \in DOMAIN b.cards[d].outs
        PROVE  /\ b.cards[d].outs[i] \in DOMAIN b.poids
               /\ b.card[b.cards[d].outs[i]] = NoCard => b.poids[b.cards[d].outs[i]] = 0
    <3>1. d \in DOMAIN f.cards /\ b.cards[d] = f.cards[d] /\ i \in DOMAIN f.cards[d].outs
          BY <1>8
    <3> QED BY <1>6, <3>1 DEF CardOK
  <2> QED BY <2>1, <2>2 DEF CardOK
<1>10. \A n \in Nat : InputsFree(f, n) => InputsFree(b, n)
       BY <1>6, <1>8 DEF InputsFree
<1>11. c \in DOMAIN b.cards /\ 1 \in Nat /\ 1 \notin DOMAIN b.cards[c].outs
       BY <1>3, <1>5, <1>6
<1>12. o # 0 => g.card[Var(o)] = NoCard
  <2>1. CASE 1 >= Cardinality(b.cards[c].lits)
    <3>1. g = b
          BY <2>1 DEF WithAtMost
    <3> QED BY <2>1, <3>1 DEF AtMost
  <2>2. CASE ~(1 >= Cardinality(b.cards[c].lits))
    <3> DEFINE n == Len(b.poids) + 1
    <3>1. g.card = Append(b.card, NoCard) /\ o = -n
          BY <1>7, <1>9, <1>11, <2>2, WithAtMostNew
    <3>2. b.card \in Seq(LitCard) /\ Len(b.card) = Len(b.poids) /\ n \in Nat \ {0}
          BY <1>7, Fields
    <3>3. Var(o) = n
          BY <3>1, <3>2 DEF Var
    <3>4. n = Len(b.card) + 1
          BY <3>2
    <3> HIDE DEF n, o, g
    <3> QED BY <3>1, <3>2, <3>3, <3>4, NoCardType, AppendFacts
  <2> QED BY <2>1, <2>2
<1>13. h = IF o # 0 /\ g.card[Var(o)] = NoCard THEN SoftenCard(g, o, c, 1, w) ELSE g
       BY <1>12
<1>14. Extended(b, h, {})
       BY <1>7, <1>9, <1>11, <1>13, SoftOutput
<1> HIDE DEF h
<1>15. Grown(f, h)
       BY <1>6, <1>14 DEF Extended, Grown, SameWeights, OneSofter
<1>16. Extended(f, h, {})
       BY <1>6, <1>10, <1>14, <1>15 DEF Extended
<1> QED BY <1>1, <1>16

-----------------------------------------------------------------------------
(***************************************************************************)
(* Hard units, and weights that change.                                    *)
(***************************************************************************)
\* Clearing weights, constraints untouched, keeps CardOK and the inputs free.
LEMMA CardOKCleared ==
  ASSUME NEW f, NEW g, IsFormula(f), IsFormula(g), CardOK(f),
         g.card = f.card, g.cards = f.cards, DOMAIN g.poids = DOMAIN f.poids,
         \A v \in DOMAIN f.poids : g.poids[v] = f.poids[v] \/ g.poids[v] = 0
  PROVE  CardOK(g) /\ \A n \in Nat : InputsFree(f, n) => InputsFree(g, n)
<1>1. DOMAIN f.card = DOMAIN f.poids /\ f.poids \in Seq(Int) /\ g.poids \in Seq(Int)
      BY Fields
<1>2. Len(f.poids) = Len(g.poids)
      BY <1>1
<1>3. ASSUME NEW v \in DOMAIN g.card, g.card[v] # NoCard
      PROVE  /\ g.card[v].card \in DOMAIN g.cards
             /\ g.card[v].initialWeight > 0
             /\ g.poids[v] <= 0
      BY <1>1, <1>3 DEF CardOK
<1>4. ASSUME NEW d \in DOMAIN g.cards, NEW i \in DOMAIN g.cards[d].outs
      PROVE  /\ g.cards[d].outs[i] \in DOMAIN g.poids
             /\ g.card[g.cards[d].outs[i]] = NoCard => g.poids[g.cards[d].outs[i]] = 0
  <2> DEFINE v == f.cards[d].outs[i]
  <2>1. v \in DOMAIN f.poids /\ (f.card[v] = NoCard => f.poids[v] = 0) /\ g.cards[d].outs[i] = v
        BY <1>4 DEF CardOK
  <2> HIDE DEF v
  <2> QED BY <2>1
<1>5. \A n \in Nat : InputsFree(f, n) => InputsFree(g, n)
      BY <1>2 DEF InputsFree
<1> QED BY <1>3, <1>4, <1>5 DEF CardOK

\* _poids.set(l, 0).
LEMMA WeightClear ==
  ASSUME NEW poids \in Seq(Int), NEW l \in LitsOf(poids)
  PROVE  LET p == SetPoids(poids, l, 0)
         IN  /\ p \in Seq(Int) /\ DOMAIN p = DOMAIN poids /\ Len(p) = Len(poids)
             /\ LitsOf(p) = LitsOf(poids)
             /\ \A v \in DOMAIN poids : p[v] = IF v = Var(l) THEN 0 ELSE poids[v]
             /\ \A x \in LitsOf(poids) : Weight(p, x) = IF x = l \/ x = -l THEN 0 ELSE Weight(poids, x)
<1> DEFINE p == SetPoids(poids, l, 0)
<1>1. 0 \in Int
      OBVIOUS
<1>2. /\ p \in Seq(Int) /\ DOMAIN p = DOMAIN poids /\ LitsOf(p) = LitsOf(poids)
      /\ \A x \in LitsOf(poids) : Weight(p, x) = IF x = l THEN 0 ELSE IF x = -l THEN -0 ELSE Weight(poids, x)
      BY <1>1, WeightSet
<1>3. \A v \in DOMAIN poids : p[v] = IF v = Var(l) THEN 0 ELSE poids[v]
      BY DEF SetPoids, Var
<1> HIDE DEF p
<1>4. Len(p) = Len(poids)
      BY <1>2
<1> QED BY <1>2, <1>3, <1>4 DEF p

\* Growing and clearing the weight of a literal that has one commute.
LEMMA ClearGrown ==
  ASSUME NEW f, NEW g, f.poids \in Seq(Int), g.poids \in Seq(Int), Grown(f, g),
         NEW l \in LitsOf(f.poids), Weight(f.poids, l) # 0,
         NEW e, e.map = f.map, e.poids = SetPoids(f.poids, l, 0),
         NEW h, h.map = g.map, h.poids = SetPoids(g.poids, l, 0)
  PROVE  Grown(e, h)
<1>1. l \in LitsOf(g.poids)
      BY DEF Grown, SameWeights, OneSofter
<1>2. /\ LitsOf(e.poids) = LitsOf(f.poids)
      /\ \A x \in LitsOf(f.poids) : Weight(e.poids, x) =
           IF x = l \/ x = -l THEN 0 ELSE Weight(f.poids, x)
      BY WeightClear
<1>3. /\ LitsOf(h.poids) = LitsOf(g.poids)
      /\ \A x \in LitsOf(g.poids) : Weight(h.poids, x) =
           IF x = l \/ x = -l THEN 0 ELSE Weight(g.poids, x)
      BY <1>1, WeightClear
<1>4. -l \in LitsOf(f.poids) /\ Weight(f.poids, -l) # 0
      BY WeightFacts
<1>5. CASE SameWeights(f, g)
      BY <1>2, <1>3, <1>4, <1>5 DEF Grown, SameWeights
<1>6. CASE \E o, w : OneSofter(f, g, o, w)
  <2>1. PICK o, w : OneSofter(f, g, o, w)
        BY <1>6
  <2>2. o # l /\ o # -l
        BY <1>4, <2>1 DEF OneSofter
  <2>3. -o # l /\ -o # -l
    <3>1. o \in Int /\ l \in Int
          BY <2>1 DEF OneSofter, LitsOf
    <3> QED BY <2>2, <3>1
  <2>4. OneSofter(e, h, o, w)
        BY <1>2, <1>3, <1>4, <2>1, <2>2, <2>3 DEF OneSofter
  <2> QED BY <2>4 DEF Grown
<1> QED BY <1>5, <1>6 DEF Grown

\* A formula that has grown still has the weights it had.
LEMMA GrownKeeps ==
  ASSUME NEW f, NEW g, f.poids \in Seq(Int), Grown(f, g), NEW x \in LitsOf(f.poids), Weight(f.poids, x) # 0
  PROVE  x \in LitsOf(g.poids) /\ Weight(g.poids, x) = Weight(f.poids, x)
<1>1. CASE SameWeights(f, g)
      BY <1>1 DEF SameWeights
<1>2. CASE \E o, w : OneSofter(f, g, o, w)
  <2>1. PICK o, w : OneSofter(f, g, o, w)
        BY <1>2
  <2>2. x # o
        BY <2>1 DEF OneSofter
  <2>3. x # -o
    <3>1. o \in Int /\ x \in Int
          BY <2>1 DEF OneSofter, LitsOf
    <3>2. -x \in LitsOf(f.poids) /\ Weight(f.poids, -x) # 0
          BY WeightFacts
    <3>3. o # -x
          BY <2>1, <3>2 DEF OneSofter
    <3> QED BY <3>1, <3>3
  <2> QED BY <2>1, <2>2, <2>3 DEF OneSofter
<1> QED BY <1>1, <1>2 DEF Grown

\* What a hard unit on l may do to a formula.
Settled1(f, g, l) ==
    /\ IsFormula(g) /\ CardOK(g) /\ IndexOK(g)
    /\ DOMAIN f.poids \subseteq DOMAIN g.poids
    /\ \A n \in Nat : InputsFree(f, n) => InputsFree(g, n)
    /\ \A v \in DOMAIN f.poids \ {Var(l)} :
         f.card[v] # NoCard => g.card[v] = f.card[v] /\ g.poids[v] = f.poids[v]
    /\ \A x \in LitsOf(f.poids) \ {l, -l} :
         Weight(f.poids, x) # 0 => Weight(g.poids, x) = Weight(f.poids, x)

\* Setting the weight of l to 0.
Clear(f, l) == [f EXCEPT !.poids = SetPoids(@, l, 0)]

\* The other fields stay.
LEMMA ClearFacts ==
  ASSUME NEW f, IsFormula(f), CardOK(f), NEW l \in LitsOf(f.poids), NEW g, g = Clear(f, l)
  PROVE  /\ IsFormula(g) /\ CardOK(g)
         /\ g.poids = SetPoids(f.poids, l, 0)
         /\ g.map = f.map /\ g.card = f.card /\ g.cards = f.cards
         /\ \A n \in Nat : InputsFree(f, n) => InputsFree(g, n)
<1> DEFINE p == SetPoids(f.poids, l, 0)
<1>1. /\ f \in Formulas /\ f.poids \in Seq(Int)
      /\ Len(f.card) = Len(f.poids) /\ Len(f.truth) = Len(f.poids)
      BY Fields
<1>2. /\ p \in Seq(Int) /\ DOMAIN p = DOMAIN f.poids /\ Len(p) = Len(f.poids)
      /\ \A v \in DOMAIN f.poids : p[v] = f.poids[v] \/ p[v] = 0
      BY <1>1, WeightClear
<1>3. g = [f EXCEPT !.poids = p]
      BY DEF Clear
<1> HIDE DEF p
<1>4. /\ g \in Formulas /\ g.poids = p /\ g.map = f.map /\ g.card = f.card /\ g.cards = f.cards
      /\ g.truth = f.truth
      BY <1>1, <1>2, <1>3 DEF Formulas
<1>5. IsFormula(g)
      BY <1>1, <1>2, <1>4 DEF IsFormula
<1>6. CardOK(g) /\ \A n \in Nat : InputsFree(f, n) => InputsFree(g, n)
      BY <1>2, <1>4, <1>5, CardOKCleared
<1> QED BY <1>4, <1>5, <1>6 DEF p

\* A new index, and a new cost.
Reindex(f, m, c) == [f EXCEPT !.map = m, !.cost = c]

\* The other fields stay.
LEMMA ReindexFacts ==
  ASSUME NEW f, IsFormula(f), NEW m \in Index, NEW c \in Int, NEW g, g = Reindex(f, m, c)
  PROVE  /\ IsFormula(g)
         /\ g.map = m /\ g.poids = f.poids /\ g.card = f.card /\ g.cards = f.cards
         /\ CardOK(f) => CardOK(g)
         /\ \A n \in Nat : InputsFree(f, n) => InputsFree(g, n)
<1>1. /\ f \in Formulas /\ Len(f.card) = Len(f.poids) /\ Len(f.truth) = Len(f.poids)
      BY Fields
<1>2. /\ g \in Formulas /\ g.poids = f.poids /\ g.map = m /\ g.card = f.card /\ g.cards = f.cards
      /\ g.truth = f.truth
      BY <1>1 DEF Formulas, Reindex
<1>3. IsFormula(g)
      BY <1>1, <1>2 DEF IsFormula
<1>4. CardOK(f) => CardOK(g)
      BY <1>2 DEF CardOK
<1>5. \A n \in Nat : InputsFree(f, n) => InputsFree(g, n)
      BY <1>2 DEF InputsFree
<1> QED BY <1>2, <1>3, <1>4, <1>5

\* A hard clause changes neither weights nor constraints.
LEMMA AddHardSettled ==
  ASSUME NEW f, NEW g, NEW l, Settled1(f, g, l), NEW C
  PROVE  Settled1(f, AddHard(g, C), l)
<1> DEFINE h == AddHard(g, C)
<1>1. /\ IsFormula(h)
      /\ h.poids = g.poids /\ h.map = g.map /\ h.card = g.card /\ h.cards = g.cards
      BY AddHardFacts DEF Settled1
<1> HIDE DEF h
<1>2. CardOK(h) /\ IndexOK(h) /\ \A n \in Nat : InputsFree(g, n) => InputsFree(h, n)
      BY <1>1 DEF Settled1, CardOK, IndexOK, InputsFree
<1>3. Settled1(f, h, l)
      BY <1>1, <1>2 DEF Settled1
<1> QED BY <1>3 DEF h

\* The unit falsifies a soft literal, whose weight is paid.
LEMMA UnitPays ==
  ASSUME NEW f, IsFormula(f), CardOK(f), IndexOK(f), NEW l \in LitsOf(f.poids),
         NEW x, x = -l, NEW w, w = Weight(f.poids, x), w > 0, NEW c \in Int,
         NEW b, b = Reindex(f, Erase(f.map, w, x), c),
         NEW h, h = Clear(Relax(b, l), l)
  PROVE  Settled1(f, h, l)
<1> DEFINE m == Erase(f.map, w, x)
           r == Relax(b, l)
<1>1. f.poids \in Seq(Int) /\ f.map \in Index /\ Indexed(f.poids, f.map)
      BY Fields DEF IndexOK
<1>2. x \in LitsOf(f.poids) /\ Weight(f.poids, l) # 0 /\ w \in Nat \ {0}
      BY <1>1, WeightFacts
<1>3. m \in Index /\ Indexed(SetPoids(f.poids, x, 0), m)
      BY <1>1, <1>2, IndexedErase
<1>4. SetPoids(f.poids, x, 0) = SetPoids(f.poids, l, 0)
  <2>1. l \in Int \ {0} /\ Var(x) = Var(l)
        BY DEF LitsOf, Var
  <2> QED BY <2>1 DEF SetPoids
<1> HIDE DEF m
<1>5. /\ IsFormula(b) /\ CardOK(b)
      /\ b.map = m /\ b.poids = f.poids /\ b.card = f.card /\ b.cards = f.cards
      /\ \A n \in Nat : InputsFree(f, n) => InputsFree(b, n)
      BY <1>3, ReindexFacts DEF m
<1>6. Extended(b, r, {Var(l)})
      BY <1>5, RelaxFacts
<1> HIDE DEF r
<1>7. r.poids \in Seq(Int) /\ l \in LitsOf(r.poids) /\ IsFormula(r) /\ CardOK(r)
  <2>1. IsFormula(r) /\ CardOK(r) /\ Grown(b, r)
        BY <1>6 DEF Extended
  <2>2. b.poids \in Seq(Int) /\ l \in LitsOf(b.poids) /\ Weight(b.poids, l) # 0
        BY <1>1, <1>2, <1>5
  <2>3. l \in LitsOf(r.poids)
        BY <2>1, <2>2, GrownKeeps
  <2> QED BY <2>1, <2>3, Fields
<1>8. /\ IsFormula(h) /\ CardOK(h)
      /\ h.poids = SetPoids(r.poids, l, 0)
      /\ h.map = r.map /\ h.card = r.card /\ h.cards = r.cards
      /\ \A n \in Nat : InputsFree(r, n) => InputsFree(h, n)
      BY <1>7, ClearFacts DEF r
<1> DEFINE e == Clear(b, l)
<1>9. IsFormula(e) /\ e.poids = SetPoids(b.poids, l, 0) /\ e.map = b.map
      BY <1>5, ClearFacts
<1> HIDE DEF e
<1>10. Grown(e, h)
  <2>1. l \in LitsOf(b.poids) /\ Weight(b.poids, l) # 0 /\ b.poids \in Seq(Int)
        BY <1>1, <1>2, <1>5
  <2>2. Grown(b, r) /\ r.poids \in Seq(Int)
        BY <1>6, <1>7 DEF Extended
  <2>3. e.map = b.map /\ e.poids = SetPoids(b.poids, l, 0)
        BY <1>9
  <2>4. h.map = r.map /\ h.poids = SetPoids(r.poids, l, 0)
        BY <1>8
  <2> QED BY ONLY <2>1, <2>2, <2>3, <2>4, ClearGrown
<1>11. IndexOK(e)
       BY <1>3, <1>4, <1>5, <1>9 DEF IndexOK
<1>12. IndexOK(h)
       BY <1>8, <1>9, <1>10, <1>11, GrownIndexed
<1>13. /\ DOMAIN h.poids = DOMAIN r.poids /\ LitsOf(h.poids) = LitsOf(r.poids)
       /\ \A v \in DOMAIN r.poids : h.poids[v] = IF v = Var(l) THEN 0 ELSE r.poids[v]
       /\ \A y \in LitsOf(r.poids) : Weight(h.poids, y) = IF y = l \/ y = -l THEN 0 ELSE Weight(r.poids, y)
  <2> DEFINE q == r.poids
             z == SetPoids(q, l, 0)
  <2>1. q \in Seq(Int) /\ l \in LitsOf(q) /\ h.poids = z
        BY <1>7, <1>8
  <2> HIDE DEF q
  <2>2. /\ DOMAIN z = DOMAIN q /\ LitsOf(z) = LitsOf(q)
        /\ \A v \in DOMAIN q : z[v] = IF v = Var(l) THEN 0 ELSE q[v]
        /\ \A y \in LitsOf(q) : Weight(z, y) = IF y = l \/ y = -l THEN 0 ELSE Weight(q, y)
        BY ONLY <2>1, WeightClear
  <2> HIDE DEF z
  <2> QED BY ONLY <2>1, <2>2 DEF q
<1>14. ASSUME NEW v \in DOMAIN f.poids \ {Var(l)}, f.card[v] # NoCard
       PROVE  h.card[v] = f.card[v] /\ h.poids[v] = f.poids[v]
  <2>1. r.card[v] = f.card[v] /\ r.poids[v] = f.poids[v] /\ v \in DOMAIN r.poids
        BY <1>5, <1>6, <1>14 DEF Extended
  <2> QED BY <1>8, <1>13, <2>1
<1>15. ASSUME NEW y \in LitsOf(f.poids) \ {l, -l}, Weight(f.poids, y) # 0
       PROVE  Weight(h.poids, y) = Weight(f.poids, y)
  <2>1. y \in LitsOf(r.poids) /\ Weight(r.poids, y) = Weight(f.poids, y)
        BY <1>1, <1>5, <1>6, <1>15, GrownKeeps DEF Extended
  <2> QED BY <1>13, <2>1
<1>16. DOMAIN f.poids \subseteq DOMAIN h.poids /\ \A n \in Nat : InputsFree(f, n) => InputsFree(h, n)
       BY <1>5, <1>6, <1>8, <1>13 DEF Extended
<1> QED BY <1>8, <1>12, <1>14, <1>15, <1>16 DEF Settled1

\* The unit satisfies a soft literal, whose weight is dropped.
LEMMA UnitDrops ==
  ASSUME NEW f, IsFormula(f), CardOK(f), IndexOK(f), NEW l \in LitsOf(f.poids),
         NEW w, w = Weight(f.poids, l), w > 0, NEW c \in Int,
         NEW b, b = Reindex(f, Erase(f.map, w, l), c),
         NEW h, h = Clear(b, l)
  PROVE  Settled1(f, h, l)
<1> DEFINE m == Erase(f.map, w, l)
<1>1. f.poids \in Seq(Int) /\ f.map \in Index /\ Indexed(f.poids, f.map)
      BY Fields DEF IndexOK
<1>2. m \in Index /\ Indexed(SetPoids(f.poids, l, 0), m)
      BY <1>1, IndexedErase
<1> HIDE DEF m
<1>3. /\ IsFormula(b) /\ CardOK(b)
      /\ b.map = m /\ b.poids = f.poids /\ b.card = f.card /\ b.cards = f.cards
      /\ \A n \in Nat : InputsFree(f, n) => InputsFree(b, n)
      BY <1>2, ReindexFacts DEF m
<1>4. /\ IsFormula(h) /\ CardOK(h)
      /\ h.poids = SetPoids(f.poids, l, 0)
      /\ h.map = m /\ h.card = f.card /\ h.cards = f.cards
      /\ \A n \in Nat : InputsFree(b, n) => InputsFree(h, n)
      BY <1>3, ClearFacts
<1>5. /\ DOMAIN h.poids = DOMAIN f.poids
      /\ \A v \in DOMAIN f.poids : h.poids[v] = IF v = Var(l) THEN 0 ELSE f.poids[v]
      /\ \A y \in LitsOf(f.poids) : Weight(h.poids, y) = IF y = l \/ y = -l THEN 0 ELSE Weight(f.poids, y)
      BY <1>1, <1>4, WeightClear
<1> QED BY <1>2, <1>3, <1>4, <1>5 DEF Settled1, IndexOK

\* Only the index is replaced.
LEMMA ReindexOnly ==
  ASSUME NEW f, IsFormula(f), NEW m \in Index
  PROVE  [f EXCEPT !.map = m] = Reindex(f, m, f.cost)
<1>1. f \in Formulas
      BY Fields
<1> QED BY <1>1 DEF Formulas, Reindex

\* addClause({l}) of a hard unit.
LEMMA HardUnitFacts ==
  ASSUME NEW f, IsFormula(f), CardOK(f), IndexOK(f), NEW l \in LitsOf(f.poids)
  PROVE  Settled1(f, HardUnit(f, l), l)
<1> DEFINE x == -l
           w == Weight(f.poids, x)
<1>1. f.poids \in Seq(Int) /\ f.map \in Index /\ f.cost \in Int
      BY Fields
<1>2. x \in LitsOf(f.poids) /\ w \in Int /\ Weight(f.poids, l) = -w /\ l \in Int \ {0} /\ x \in Int \ {0}
      BY <1>1, WeightFacts DEF LitsOf
<1> HIDE DEF x, w
<1>3. CASE w > 0
  <2> DEFINE c == Wrap(f.cost + w)
             m == Erase(f.map, w, x)
             b == Reindex(f, m, c)
             h == Clear(Relax(b, l), l)
  <2>1. c \in Int
    <3>1. f.cost + w \in Int
          BY <1>1, <1>2
    <3> QED BY <3>1, WrapType
  <2>2. HardUnit(f, l) = AddHard(h, {l})
        BY <1>3, <1>2 DEF HardUnit, Poids, w, x, Reindex, Clear
  <2> HIDE DEF c
  <2>3. Settled1(f, h, l)
        BY <1>3, <2>1, UnitPays DEF w, x
  <2> HIDE DEF h
  <2> QED BY <2>2, <2>3, AddHardSettled
<1>4. CASE w < 0
  <2> DEFINE m == Erase(f.map, -w, l)
             b == Reindex(f, m, f.cost)
             h == Clear(b, l)
  <2>1. m \in Index /\ -w = Weight(f.poids, l) /\ -w > 0
        BY <1>1, <1>2, <1>4, InsertType
  <2>2. HardUnit(f, l) = AddHard(Clear([f EXCEPT !.map = m], l), {l})
    <3>1. ~(w > 0) /\ w < 0 /\ ~(w = 0) /\ w = Poids(f, -l)
          BY <1>2, <1>4 DEF Poids, w, x
    <3> HIDE DEF w
    <3> QED BY <3>1, Zenon DEF HardUnit, Clear
  <2>3. [f EXCEPT !.map = m] = b
        BY <2>1, ReindexOnly
  <2>4. Settled1(f, h, l)
        BY <1>1, <2>1, UnitDrops
  <2> HIDE DEF h, b
  <2> QED BY <2>2, <2>3, <2>4, AddHardSettled DEF h
<1>5. CASE w = 0
  <2>1. HardUnit(f, l) = AddHard(f, {l})
        BY <1>5 DEF HardUnit, Poids, w, x
  <2>2. Settled1(f, f, l)
        BY DEF Settled1
  <2> QED BY <2>1, <2>2, AddHardSettled
<1> QED BY <1>2, <1>3, <1>4, <1>5

\* A function on the places of a sequence is a sequence of the same length.
LEMMA SameLength ==
  ASSUME NEW s \in Seq(Int), NEW p, p \in [DOMAIN s -> Int]
  PROVE  p \in Seq(Int) /\ DOMAIN p = DOMAIN s /\ Len(p) = Len(s)
<1>1. DOMAIN s = 1..Len(s) /\ Len(s) \in Nat
      OBVIOUS
<1>2. p \in Seq(Int)
      BY <1>1
<1>3. DOMAIN p = DOMAIN s
      OBVIOUS
<1> QED BY <1>1, <1>2, <1>3

\* New weights and a new index.
Reweighed(f, p, m) == [f EXCEPT !.poids = p, !.map = m]

\* The other fields stay.
LEMMA ReweighedFacts ==
  ASSUME NEW f, IsFormula(f), NEW p \in Seq(Int), Len(p) = Len(f.poids), NEW m \in Index,
         NEW g, g = Reweighed(f, p, m)
  PROVE  IsFormula(g) /\ g.poids = p /\ g.map = m /\ g.card = f.card /\ g.cards = f.cards
<1>1. f \in Formulas /\ Len(f.card) = Len(f.poids) /\ Len(f.truth) = Len(f.poids)
      BY Fields
<1>2. /\ g \in Formulas /\ g.poids = p /\ g.map = m /\ g.card = f.card /\ g.cards = f.cards
      /\ g.truth = f.truth
      BY <1>1 DEF Formulas, Reweighed
<1> QED BY <1>1, <1>2 DEF IsFormula

\* Every literal of C weighs at least w.
Affords(poids, C, w) == \A l \in C : Weight(poids, l) >= w

\* _poids and _mapWeight2Assum after w is taken from every literal of C.
Lighter(poids, C, w) ==
    [v \in DOMAIN poids |->
       IF v \in C THEN poids[v] - w ELSE IF -v \in C THEN poids[v] + w ELSE poids[v]]

WeightLeft(poids, C, w, x) ==
    IF x \in C THEN Weight(poids, x) - w
    ELSE IF -x \in C THEN Weight(poids, x) + w ELSE Weight(poids, x)

Lowered(poids, map, C, w) ==
    [k \in DOMAIN map \cup {Weight(poids, l) - w : l \in {x \in C : Weight(poids, x) - w # 0}} |->
       (At(map, k) \ C) \cup {l \in C : Weight(poids, l) - w = k}]

\* The shape of the lighter weights.
LEMMA ReweighShape ==
  ASSUME NEW poids \in Seq(Int), NEW C \in SUBSET LitsOf(poids), NEW w \in Nat \ {0},
         Affords(poids, C, w),
         NEW p, p = Lighter(poids, C, w)
  PROVE  p \in Seq(Int) /\ DOMAIN p = DOMAIN poids /\ Len(p) = Len(poids) /\ LitsOf(p) = LitsOf(poids)
<1>1. p \in [DOMAIN poids -> Int]
      BY DEF Lighter
<1>2. p \in Seq(Int) /\ DOMAIN p = DOMAIN poids /\ Len(p) = Len(poids)
      BY <1>1, SameLength
<1> QED BY <1>2 DEF LitsOf

\* What a core or a clique that pays w leaves of the weights.
LEMMA ReweighWeights ==
  ASSUME NEW poids \in Seq(Int), NEW C \in SUBSET LitsOf(poids), NEW w \in Nat \ {0},
         Affords(poids, C, w),
         NEW p, p = Lighter(poids, C, w)
  PROVE  \A x \in LitsOf(poids) : Weight(p, x) = WeightLeft(poids, C, w, x)
<1>1. /\ p \in [DOMAIN poids -> Int]
      /\ \A v \in DOMAIN poids : p[v] =
           IF v \in C THEN poids[v] - w ELSE IF -v \in C THEN poids[v] + w ELSE poids[v]
      BY DEF Lighter
<1>2. ASSUME NEW x \in LitsOf(poids)
      PROVE  ~(x \in C /\ -x \in C)
  <2>1. Weight(poids, -x) = -Weight(poids, x) /\ Weight(poids, x) \in Int
        BY WeightFacts
  <2>2. x \in C => Weight(poids, x) >= w
        BY DEF Affords
  <2>3. -x \in C => Weight(poids, -x) >= w
        BY DEF Affords
  <2> QED BY <2>1, <2>2, <2>3
<1>3. ASSUME NEW x \in LitsOf(poids)
      PROVE  Weight(p, x) = IF x \in C THEN Weight(poids, x) - w
                            ELSE IF -x \in C THEN Weight(poids, x) + w ELSE Weight(poids, x)
  <2>1. x \in Int \ {0} /\ Var(x) \in DOMAIN poids
        BY DEF LitsOf
  <2>2. CASE x > 0
    <3>1. x \in DOMAIN poids
          BY <2>1, <2>2 DEF Var
    <3> QED BY <1>1, <2>1, <2>2, <3>1 DEF Weight
  <2>3. CASE x < 0
    <3> DEFINE v == -x
    <3>1. v \in DOMAIN poids /\ -v = x /\ v \in Int /\ poids[v] \in Int
          BY <2>1, <2>3 DEF Var
    <3>2. ~(v \in C /\ x \in C)
          BY <1>2
    <3>3. Weight(p, x) = -p[v] /\ Weight(poids, x) = -poids[v]
          BY <2>3 DEF Weight
    <3>4. p[v] = IF v \in C THEN poids[v] - w ELSE IF x \in C THEN poids[v] + w ELSE poids[v]
          BY <1>1, <3>1
    <3> HIDE DEF v
    <3>5. Weight(p, x) = IF x \in C THEN Weight(poids, x) - w
                         ELSE IF v \in C THEN Weight(poids, x) + w ELSE Weight(poids, x)
          BY <3>1, <3>2, <3>3, <3>4
    <3> QED BY <3>5 DEF v
  <2> QED BY <2>1, <2>2, <2>3
<1> QED BY <1>3 DEF WeightLeft

\* The literals of C move down in the index with their weights.
LEMMA ReweighIndex ==
  ASSUME NEW poids \in Seq(Int), NEW map \in Index, Indexed(poids, map),
         NEW C \in SUBSET LitsOf(poids), NEW w \in Nat \ {0},
         Affords(poids, C, w),
         NEW p, p = Lighter(poids, C, w),
         NEW m, m = Lowered(poids, map, C, w)
  PROVE  m \in Index /\ Indexed(p, m)
<1> DEFINE K == DOMAIN map \cup {Weight(poids, l) - w : l \in {x \in C : Weight(poids, x) - w # 0}}
<1>1. \A l \in C : Weight(poids, l) \in Int
      BY WeightFacts
<1>2. K \subseteq Nat \ {0}
  <2>1. DOMAIN map \subseteq Nat \ {0}
        BY IndexFacts
  <2>2. \A l \in C : Weight(poids, l) - w # 0 => Weight(poids, l) - w \in Nat \ {0}
        BY <1>1 DEF Affords
  <2> QED BY <2>1, <2>2
<1>3. C \subseteq Int \ {0} /\ \A k \in Nat \ {0} : At(map, k) \subseteq Int \ {0}
      BY IndexFacts DEF LitsOf, At
<1>4. m \in [K -> SUBSET (Int \ {0})]
      BY <1>2, <1>3 DEF Lowered
<1>5. m \in Index
  <2>1. PICK b \in Nat : \A k \in DOMAIN map : k <= b
        BY IndexFacts DEF Bounded
  <2>2. ASSUME NEW l \in C
        PROVE  Weight(poids, l) - w <= b
    <3>1. Weight(poids, l) \in Nat \ {0} /\ Weight(poids, l) > 0
          BY <1>1 DEF Affords
    <3>2. l \in At(map, Weight(poids, l))
          BY <3>1, IndexedChar DEF LitsAt
    <3>3. Weight(poids, l) \in DOMAIN map
          BY <3>2 DEF At
    <3>4. Weight(poids, l) <= b
          BY <2>1, <3>3
    <3> QED BY <3>1, <3>4
  <2>3. \A k \in K : k <= b
        BY <2>1, <2>2
  <2>4. Bounded(K)
        BY <2>3 DEF Bounded
  <2> HIDE DEF K
  <2> QED BY <1>2, <1>4, <2>4, IndexIntro
<1>6. ASSUME NEW k \in Nat \ {0}
      PROVE  At(m, k) = LitsAt(p, k)
  <2>1. At(m, k) = (At(map, k) \ C) \cup {l \in C : Weight(poids, l) - w = k}
    <3>1. CASE k \in K
          BY <3>1 DEF At, Lowered
    <3>2. CASE k \notin K
      <4>1. At(map, k) = {} /\ {l \in C : Weight(poids, l) - w = k} = {}
            BY <3>2 DEF At
      <4> QED BY <3>2, <4>1 DEF At, Lowered
    <3> QED BY <3>1, <3>2
  <2>2. At(map, k) = LitsAt(poids, k)
        BY IndexedChar
  <2>3. /\ LitsOf(p) = LitsOf(poids)
        /\ \A x \in LitsOf(poids) : Weight(p, x) = WeightLeft(poids, C, w, x)
        BY ReweighShape, ReweighWeights
  <2>4. ASSUME NEW x \in LitsOf(poids), -x \in C
        PROVE  ~(Weight(poids, x) + w = k) /\ ~(Weight(poids, x) = k)
    <3>1. Weight(poids, -x) = -Weight(poids, x) /\ Weight(poids, x) \in Int /\ Weight(poids, -x) >= w
          BY <2>4, WeightFacts DEF Affords
    <3> QED BY <3>1
  <2> QED BY <2>1, <2>2, <2>3, <2>4 DEF LitsAt, WeightLeft
<1>7. p \in Seq(Int)
      BY ReweighShape
<1> QED BY <1>5, <1>6, <1>7, IndexedChar

\* The loops that take w from every literal of a core or of a clique.
LEMMA ReweighFacts ==
  ASSUME NEW f, IsFormula(f), CardOK(f), IndexOK(f), NEW C \in SUBSET LitsOf(f.poids),
         NEW w \in Nat \ {0}, Affords(f.poids, C, w), NEW g, g = Reweigh(f, C, w)
  PROVE  /\ IsFormula(g) /\ CardOK(g) /\ IndexOK(g)
         /\ g.card = f.card /\ g.cards = f.cards
         /\ DOMAIN g.poids = DOMAIN f.poids /\ LitsOf(g.poids) = LitsOf(f.poids)
         /\ \A x \in LitsOf(f.poids) : Weight(g.poids, x) = WeightLeft(f.poids, C, w, x)
         /\ \A n \in Nat : InputsFree(f, n) => InputsFree(g, n)
<1> DEFINE p == Lighter(f.poids, C, w)
           m == Lowered(f.poids, f.map, C, w)
<1>1. f.poids \in Seq(Int) /\ f.map \in Index /\ Indexed(f.poids, f.map) /\ DOMAIN f.card = DOMAIN f.poids
      BY Fields DEF IndexOK
<1>2. m \in Index /\ Indexed(p, m)
  <2>1. p = Lighter(f.poids, C, w) /\ m = Lowered(f.poids, f.map, C, w)
        OBVIOUS
  <2> HIDE DEF p, m
  <2> QED BY <1>1, <2>1, ReweighIndex
<1>3. /\ p \in Seq(Int) /\ DOMAIN p = DOMAIN f.poids /\ Len(p) = Len(f.poids)
      /\ LitsOf(p) = LitsOf(f.poids)
      /\ \A x \in LitsOf(f.poids) : Weight(p, x) = WeightLeft(f.poids, C, w, x)
  <2>1. p = Lighter(f.poids, C, w)
        OBVIOUS
  <2> HIDE DEF p, m
  <2>2. p \in Seq(Int) /\ DOMAIN p = DOMAIN f.poids /\ Len(p) = Len(f.poids) /\ LitsOf(p) = LitsOf(f.poids)
        BY <1>1, <2>1, ReweighShape
  <2>3. ASSUME NEW x \in LitsOf(f.poids)
        PROVE  Weight(p, x) = WeightLeft(f.poids, C, w, x)
        BY <1>1, <2>1, ReweighWeights
  <2> QED BY <2>2, <2>3
<1>4. g = Reweighed(f, p, m)
      BY DEF Reweigh, Reweighed, Lighter, Lowered, Poids
<1>5. ASSUME NEW v \in DOMAIN f.poids, f.poids[v] <= 0
      PROVE  p[v] <= 0 /\ (f.poids[v] = 0 => p[v] = 0)
  <2>1. v \in Nat \ {0} /\ f.poids[v] \in Int
        BY <1>1
  <2>2. v \notin C
    <3>1. Weight(f.poids, v) = f.poids[v]
          BY <2>1 DEF Weight
    <3> QED BY <1>5, <2>1, <3>1 DEF Affords
  <2>3. -v \in C => -f.poids[v] >= w
    <3>1. Weight(f.poids, -v) = -f.poids[v]
          BY <2>1 DEF Weight
    <3> QED BY <3>1 DEF Affords
  <2>4. p[v] = IF -v \in C THEN f.poids[v] + w ELSE f.poids[v]
        BY <2>2 DEF Lighter
  <2> HIDE DEF p
  <2> QED BY <1>5, <2>1, <2>3, <2>4
<1> HIDE DEF p, m
<1>6. IsFormula(g) /\ g.poids = p /\ g.map = m /\ g.card = f.card /\ g.cards = f.cards
      BY <1>2, <1>3, <1>4, ReweighedFacts
<1>7. CardOK(g)
  <2>1. ASSUME NEW v \in DOMAIN g.card, g.card[v] # NoCard
        PROVE  /\ g.card[v].card \in DOMAIN g.cards
               /\ g.card[v].initialWeight > 0
               /\ g.poids[v] <= 0
    <3>1. v \in DOMAIN f.poids /\ f.poids[v] <= 0
          BY <1>1, <1>6, <2>1 DEF CardOK
    <3> QED BY <1>5, <1>6, <2>1, <3>1 DEF CardOK
  <2>2. ASSUME NEW d \in DOMAIN g.cards, NEW i \in DOMAIN g.cards[d].outs
        PROVE  /\ g.cards[d].outs[i] \in DOMAIN g.poids
               /\ g.card[g.cards[d].outs[i]] = NoCard => g.poids[g.cards[d].outs[i]] = 0
    <3> DEFINE v == f.cards[d].outs[i]
    <3>1. v \in DOMAIN f.poids /\ (f.card[v] = NoCard => f.poids[v] = 0) /\ g.cards[d].outs[i] = v
          BY <1>6, <2>2 DEF CardOK
    <3> HIDE DEF v
    <3>2. f.poids[v] = 0 => f.poids[v] <= 0
          OBVIOUS
    <3> QED BY <1>3, <1>5, <1>6, <3>1, <3>2
  <2> QED BY <2>1, <2>2 DEF CardOK
<1>8. \A n \in Nat : InputsFree(f, n) => InputsFree(g, n)
      BY <1>3, <1>6 DEF InputsFree
<1> QED BY <1>2, <1>3, <1>6, <1>7, <1>8 DEF IndexOK

Pruned(map, K) == [k \in K |-> map[k]]

\* Keys with empty sets may go.
LEMMA PruneFacts ==
  ASSUME NEW f, IsFormula(f), CardOK(f), IndexOK(f), NEW K, K \subseteq DOMAIN f.map,
         \A k \in DOMAIN f.map \ K : f.map[k] = {},
         NEW m, m = Pruned(f.map, K), NEW c \in Int,
         NEW g, g = Reindex(f, m, c)
  PROVE  /\ IsFormula(g) /\ CardOK(g) /\ IndexOK(g)
         /\ g.poids = f.poids /\ g.card = f.card /\ g.cards = f.cards
         /\ \A n \in Nat : InputsFree(f, n) => InputsFree(g, n)
<1>1. f.poids \in Seq(Int) /\ f.map \in Index /\ Indexed(f.poids, f.map) /\ f.cost \in Int
      BY Fields DEF IndexOK
<1>2. m \in Index
  <2>1. K \subseteq Nat \ {0} /\ m \in [K -> SUBSET (Int \ {0})]
        BY <1>1, IndexFacts DEF Pruned
  <2>2. Bounded(K)
        BY <1>1, IndexFacts, BoundedFacts
  <2> QED BY <2>1, <2>2, IndexIntro
<1>3. \A k \in Nat \ {0} : At(m, k) = At(f.map, k)
      BY DEF At, Pruned
<1>4. Indexed(f.poids, m)
      BY <1>1, <1>2, <1>3, IndexedChar
<1>5. /\ IsFormula(g) /\ CardOK(g)
      /\ g.map = m /\ g.poids = f.poids /\ g.card = f.card /\ g.cards = f.cards
      /\ \A n \in Nat : InputsFree(f, n) => InputsFree(g, n)
      BY <1>2, ReindexFacts
<1> QED BY <1>4, <1>5 DEF IndexOK

-----------------------------------------------------------------------------
(***************************************************************************)
(* harden.                                                                 *)
(***************************************************************************)
\* Min of a set of natural numbers.
LEMMA MinFacts ==
  ASSUME NEW S \in SUBSET Nat, S # {}
  PROVE  Min(S) \in S /\ \A y \in S : Min(S) <= y
<1>1. \E x \in S : \A y \in S : ~(<<y, x>> \in OpToRel(<, Nat))
      BY WFMin, NatLessThanWellFounded
<1>2. PICK x \in S : \A y \in S : ~(<<y, x>> \in OpToRel(<, Nat))
      BY <1>1
<1>3. \A y \in S : x <= y
  <2> TAKE y \in S
  <2>1. ~(y < x)
        BY <1>2 DEF OpToRel
  <2> QED BY <2>1
<1>4. \E z \in S : \A y \in S : z =< y
      BY <1>3
<1> QED BY <1>4 DEF Min

\* _poids and _mapWeight2Assum once the literals hard have no weight.
Freed(poids, hard) == [v \in DOMAIN poids |-> IF v \in hard \/ -v \in hard THEN 0 ELSE poids[v]]

Under(map, H) == UNION {map[k] : k \in H}

Stripped(map, keys, hard) == [k \in keys |-> map[k] \ hard]

WeightFreed(poids, hard, x) == IF x \in hard \/ -x \in hard THEN 0 ELSE Weight(poids, x)

\* The weights that are left.
LEMMA FreedWeights ==
  ASSUME NEW poids \in Seq(Int), NEW hard \in SUBSET LitsOf(poids), NEW p, p = Freed(poids, hard)
  PROVE  /\ p \in Seq(Int) /\ DOMAIN p = DOMAIN poids /\ Len(p) = Len(poids)
         /\ LitsOf(p) = LitsOf(poids)
         /\ \A v \in DOMAIN poids : p[v] = poids[v] \/ p[v] = 0
         /\ \A x \in LitsOf(poids) : Weight(p, x) = WeightFreed(poids, hard, x)
<1>1. /\ p \in [DOMAIN poids -> Int]
      /\ \A v \in DOMAIN poids : p[v] = IF v \in hard \/ -v \in hard THEN 0 ELSE poids[v]
      BY DEF Freed
<1>2. p \in Seq(Int) /\ DOMAIN p = DOMAIN poids /\ Len(p) = Len(poids)
      BY <1>1, SameLength
<1>3. LitsOf(p) = LitsOf(poids)
      BY <1>2 DEF LitsOf
<1>4. ASSUME NEW x \in LitsOf(poids)
      PROVE  Weight(p, x) = WeightFreed(poids, hard, x)
  <2>1. x \in Int \ {0} /\ Var(x) \in DOMAIN poids
        BY DEF LitsOf
  <2>2. CASE x > 0
    <3>1. x \in DOMAIN poids
          BY <2>1, <2>2 DEF Var
    <3> QED BY <1>1, <2>1, <2>2, <3>1 DEF Weight, WeightFreed
  <2>3. CASE x < 0
    <3> DEFINE v == -x
    <3>1. v \in DOMAIN poids /\ -v = x /\ v \in Int /\ poids[v] \in Int
          BY <2>1, <2>3 DEF Var
    <3>2. Weight(p, x) = -p[v] /\ Weight(poids, x) = -poids[v]
          BY <2>3 DEF Weight
    <3>3. p[v] = IF v \in hard \/ x \in hard THEN 0 ELSE poids[v]
          BY <1>1, <3>1
    <3>4. WeightFreed(poids, hard, x) = IF x \in hard \/ v \in hard THEN 0 ELSE Weight(poids, x)
          BY DEF WeightFreed
    <3> HIDE DEF v
    <3> QED BY <3>1, <3>2, <3>3, <3>4
  <2> QED BY <2>1, <2>2, <2>3
<1> QED BY <1>1, <1>2, <1>3, <1>4

\* The literals under heavy keys, without the ones that are let go.
LEMMA FreedIndex ==
  ASSUME NEW poids \in Seq(Int), NEW map \in Index, Indexed(poids, map),
         NEW H \in SUBSET DOMAIN map, NEW hard, hard = Under(map, H),
         NEW keys \in SUBSET DOMAIN map, DOMAIN map \ H \subseteq keys,
         NEW p, p = Freed(poids, hard), NEW m, m = Stripped(map, keys, hard)
  PROVE  hard \in SUBSET LitsOf(poids) /\ m \in Index /\ Indexed(p, m)
<1>1. DOMAIN map \subseteq Nat \ {0} /\ \A k \in DOMAIN map : map[k] \subseteq Int \ {0}
      BY IndexFacts
<1>2. \A k \in DOMAIN map : map[k] = LitsAt(poids, k)
  <2>1. \A k \in Nat \ {0} : At(map, k) = LitsAt(poids, k)
        BY IndexedChar
  <2> QED BY <1>1, <2>1 DEF At
<1>3. \A x : x \in hard <=> x \in LitsOf(poids) /\ Weight(poids, x) \in H
      BY <1>2 DEF LitsAt, Under
<1>4. hard \in SUBSET LitsOf(poids)
      BY <1>3
<1>5. m \in Index
  <2>1. keys \subseteq Nat \ {0} /\ m \in [keys -> SUBSET (Int \ {0})]
        BY <1>1 DEF Stripped
  <2>2. Bounded(keys)
        BY IndexFacts, BoundedFacts
  <2> QED BY <2>1, <2>2, IndexIntro
<1>6. ASSUME NEW k \in Nat \ {0}
      PROVE  At(m, k) = LitsAt(p, k)
  <2>1. /\ LitsOf(p) = LitsOf(poids)
        /\ \A x \in LitsOf(poids) : Weight(p, x) = WeightFreed(poids, hard, x)
        BY <1>4, FreedWeights
  <2>2. At(m, k) = IF k \in keys THEN map[k] \ hard ELSE {}
        BY DEF At, Stripped
  <2>3. ASSUME NEW x \in LitsOf(poids), Weight(poids, x) = k
        PROVE  k \in DOMAIN map /\ -x \notin hard
    <3>1. k \in DOMAIN map
      <4>1. x \in At(map, k)
            BY <2>3, IndexedChar DEF LitsAt
      <4> QED BY <4>1 DEF At
    <3>2. Weight(poids, -x) = -k
          BY <2>3, WeightFacts
    <3>3. -k \notin H
          BY <1>1
    <3> QED BY <1>3, <3>1, <3>2, <3>3
  <2>4. ASSUME NEW x \in At(m, k)
        PROVE  x \in LitsAt(p, k)
    <3>1. k \in keys /\ x \in map[k] /\ x \notin hard
          BY <2>2, <2>4
    <3>2. x \in LitsOf(poids) /\ Weight(poids, x) = k
          BY <1>2, <3>1 DEF LitsAt
    <3> QED BY <2>1, <2>3, <3>1, <3>2 DEF LitsAt, WeightFreed
  <2>5. ASSUME NEW x \in LitsAt(p, k)
        PROVE  x \in At(m, k)
    <3>1. x \in LitsOf(poids) /\ WeightFreed(poids, hard, x) = k
          BY <2>1, <2>5 DEF LitsAt
    <3>2. x \notin hard /\ Weight(poids, x) = k
          BY <3>1 DEF WeightFreed
    <3>3. k \in DOMAIN map /\ k \notin H
          BY <1>3, <2>3, <3>1, <3>2
    <3> QED BY <1>2, <2>2, <3>1, <3>2, <3>3 DEF LitsAt
  <2> QED BY <2>4, <2>5
<1>7. p \in Seq(Int)
      BY <1>4, FreedWeights
<1> QED BY <1>4, <1>5, <1>6, <1>7, IndexedChar

\* harden: heavy literals become hard, and their keys go, except the last one.
LEMMA HardenFacts ==
  ASSUME NEW f, IsFormula(f), CardOK(f), IndexOK(f), DOMAIN f.map # {}, NEW mc, NEW g, g = Harden(f, mc)
  PROVE  /\ IsFormula(g) /\ CardOK(g) /\ IndexOK(g)
         /\ g.card = f.card /\ g.cards = f.cards /\ DOMAIN g.poids = DOMAIN f.poids
         /\ \A v \in DOMAIN f.poids : g.poids[v] = f.poids[v] \/ g.poids[v] = 0
         /\ \A n \in Nat : InputsFree(f, n) => InputsFree(g, n)
<1> DEFINE H == {k \in DOMAIN f.map : k >= mc}
           hard == Under(f.map, H)
           keys == IF H = DOMAIN f.map THEN {Min(H)} ELSE DOMAIN f.map \ H
           p == Freed(f.poids, hard)
           m == Stripped(f.map, keys, hard)
           v == Models(f, hard)
<1>1. f.poids \in Seq(Int) /\ f.map \in Index /\ Indexed(f.poids, f.map) /\ f.live \in SUBSET Points
      BY Fields DEF IndexOK
<1>2. g = [f EXCEPT !.poids = p, !.map = m, !.live = v]
      BY DEF Harden, HardenLits, InitAssum, Freed, Stripped, Under
<1>3. H \in SUBSET DOMAIN f.map
      OBVIOUS
<1>4. DOMAIN f.map \subseteq Nat
      BY <1>1, IndexFacts
<1>5. keys \in SUBSET DOMAIN f.map /\ DOMAIN f.map \ H \subseteq keys
  <2>1. CASE H = DOMAIN f.map
    <3>1. Min(H) \in H
          BY <1>4, <2>1, MinFacts
    <3> QED BY <2>1, <3>1
  <2>2. CASE H # DOMAIN f.map
        BY <2>2
  <2> QED BY <2>1, <2>2
<1> HIDE DEF H, keys
<1>6. hard \in SUBSET LitsOf(f.poids) /\ m \in Index /\ Indexed(p, m)
      BY <1>1, <1>3, <1>5, FreedIndex
<1> HIDE DEF hard
<1>7. /\ p \in Seq(Int) /\ DOMAIN p = DOMAIN f.poids /\ Len(p) = Len(f.poids)
      /\ \A x \in DOMAIN f.poids : p[x] = f.poids[x] \/ p[x] = 0
      BY <1>1, <1>6, FreedWeights
<1>8. v \in SUBSET Points
      BY <1>1 DEF Models
<1> HIDE DEF p, m, v
<1>9. /\ g \in Formulas /\ g.poids = p /\ g.map = m /\ g.card = f.card /\ g.cards = f.cards
      /\ g.truth = f.truth
  <2>1. f \in Formulas
        BY Fields
  <2> QED BY <1>2, <1>6, <1>7, <1>8, <2>1 DEF Formulas
<1>10. IsFormula(g)
       BY <1>7, <1>9, Fields DEF IsFormula
<1>11. CardOK(g) /\ \A n \in Nat : InputsFree(f, n) => InputsFree(g, n)
       BY <1>7, <1>9, <1>10, CardOKCleared
<1> QED BY <1>6, <1>7, <1>9, <1>10, <1>11 DEF IndexOK

-----------------------------------------------------------------------------
(***************************************************************************)
(* addWeight.                                                              *)
(***************************************************************************)
\* The index without the literals l and x of a variable, x = -l; and with the
\* one of them that is soft when l weighs new.
Taken(map, l, x, old) == IF old = 0 THEN map ELSE IF old > 0 THEN Erase(map, old, l) ELSE Erase(map, -old, x)

Given(map, l, x, new) == IF new > 0 THEN Insert(map, new, l) ELSE IF new < 0 THEN Insert(map, -new, x) ELSE map

Opposite(l, x) == x = -l

\* Both are indexes.
LEMMA MoveTypes ==
  ASSUME NEW map \in Index, NEW l \in Int \ {0}, NEW x \in Int \ {0}, NEW w \in Int
  PROVE  Taken(map, l, x, w) \in Index /\ Given(map, l, x, w) \in Index
<1>1. CASE w = 0
      BY <1>1 DEF Taken, Given
<1>2. CASE w > 0
  <2>1. w \in Nat \ {0}
        BY <1>2
  <2> QED BY <1>2, <2>1, InsertType DEF Taken, Given
<1>3. CASE w < 0
  <2> DEFINE n == -w
  <2>1. n \in Nat \ {0} /\ ~(w = 0) /\ ~(w > 0)
        BY <1>3
  <2>2. Taken(map, l, x, w) = Erase(map, n, x) /\ Given(map, l, x, w) = Insert(map, n, x)
        BY <1>3, <2>1 DEF Taken, Given
  <2> HIDE DEF n
  <2> QED BY <2>1, <2>2, InsertType
<1> QED BY <1>1, <1>2, <1>3

\* What is under a key when l and x are taken out.
LEMMA TakenAt ==
  ASSUME NEW poids \in Seq(Int), NEW map \in Index, Indexed(poids, map),
         NEW l \in LitsOf(poids), NEW x \in LitsOf(poids), Opposite(l, x),
         NEW old \in Int, old = Weight(poids, l), NEW m, m = Taken(map, l, x, old),
         NEW k \in Nat \ {0}
  PROVE  At(m, k) = LitsAt(poids, k) \ {l, x}
<1>1. Weight(poids, x) = -old
      BY WeightFacts DEF Opposite
<1>2. At(map, k) = LitsAt(poids, k)
      BY IndexedChar
<1>3. l \in LitsAt(poids, k) <=> old = k
      BY DEF LitsAt
<1>4. x \in LitsAt(poids, k) <=> -old = k
      BY <1>1 DEF LitsAt
<1>5. CASE old = 0
  <2>1. m = map
        BY <1>5 DEF Taken
  <2> QED BY <1>2, <1>3, <1>4, <1>5, <2>1
<1>6. CASE old > 0
  <2>1. m = Erase(map, old, l)
        BY <1>6 DEF Taken
  <2>2. At(m, k) = IF k = old THEN At(map, k) \ {l} ELSE At(map, k)
        BY <2>1, AtInsert
  <2> QED BY <1>2, <1>3, <1>4, <1>6, <2>2
<1>7. CASE old < 0
  <2> DEFINE w == -old
  <2>1. m = Erase(map, w, x) /\ w # old /\ ~(old = k)
        BY <1>7 DEF Taken
  <2>2. At(m, k) = IF k = w THEN At(map, k) \ {x} ELSE At(map, k)
    <3> HIDE DEF w
    <3> QED BY <2>1, AtInsert
  <2> QED BY <1>2, <1>3, <1>4, <2>1, <2>2
<1> QED BY <1>5, <1>6, <1>7

\* What is under a key when one of them is put back.
LEMMA GivenAt ==
  ASSUME NEW map, NEW l, NEW x, NEW new \in Int, NEW m, m = Given(map, l, x, new),
         NEW k \in Nat \ {0}, NEW y
  PROVE  y \in At(m, k) <=> y \in At(map, k) \/ (y = l /\ new = k) \/ (y = x /\ -new = k)
<1>1. CASE new = 0
      BY <1>1 DEF Given
<1>2. CASE new > 0
  <2>1. m = Insert(map, new, l) /\ -new # k
        BY <1>2 DEF Given
  <2>2. At(m, k) = IF k = new THEN At(map, k) \cup {l} ELSE At(map, k)
        BY <2>1, AtInsert
  <2> QED BY <2>1, <2>2
<1>3. CASE new < 0
  <2> DEFINE w == -new
  <2>1. m = Insert(map, w, x) /\ new # k
        BY <1>3 DEF Given
  <2>2. At(m, k) = IF k = w THEN At(map, k) \cup {x} ELSE At(map, k)
    <3> HIDE DEF w
    <3> QED BY <2>1, AtInsert
  <2> QED BY <2>1, <2>2
<1> QED BY <1>1, <1>2, <1>3

\* A literal gets another weight and moves in the index.
LEMMA IndexedMove ==
  ASSUME NEW poids \in Seq(Int), NEW map \in Index, Indexed(poids, map),
         NEW l \in LitsOf(poids), NEW x \in LitsOf(poids), Opposite(l, x),
         NEW old \in Int, old = Weight(poids, l), NEW new \in Int,
         NEW p, p = SetPoids(poids, l, new),
         NEW t, t = Taken(map, l, x, old), NEW m, m = Given(t, l, x, new)
  PROVE  m \in Index /\ Indexed(p, m)
<1>1. l \in Int \ {0} /\ x \in Int \ {0}
      BY DEF LitsOf
<1>2. t \in Index
      BY <1>1, MoveTypes
<1>3. m \in Index
      BY <1>1, <1>2, MoveTypes
<1>4. p \in Seq(Int) /\ LitsOf(p) = LitsOf(poids)
      BY WeightSet
<1>5. l # x
      BY <1>1 DEF Opposite
<1>6. ASSUME NEW y \in LitsOf(poids)
      PROVE  Weight(p, y) = IF y = l THEN new ELSE IF y = x THEN -new ELSE Weight(poids, y)
  <2>1. /\ y = l => Weight(p, y) = new
        /\ y # l /\ y = -l => Weight(p, y) = -new
        /\ y # l /\ y # -l => Weight(p, y) = Weight(poids, y)
        BY WeightSetAt
  <2> QED BY <2>1, Zenon DEF Opposite
<1>7. ASSUME NEW k \in Nat \ {0}
      PROVE  At(m, k) = LitsAt(p, k)
  <2>1. At(t, k) = LitsAt(poids, k) \ {l, x}
        BY TakenAt
  <2>2. ASSUME NEW y
        PROVE  y \in At(m, k) <=> y \in LitsAt(p, k)
    <3>1. y \in At(m, k) <=> y \in At(t, k) \/ (y = l /\ new = k) \/ (y = x /\ -new = k)
          BY GivenAt
    <3>2. y \in LitsAt(p, k) <=> y \in LitsOf(poids) /\ Weight(p, y) = k
          BY <1>4 DEF LitsAt
    <3>3. y \in LitsAt(poids, k) <=> y \in LitsOf(poids) /\ Weight(poids, y) = k
          BY DEF LitsAt
    <3>4. CASE y = l
          BY <1>5, <1>6, <2>1, <3>1, <3>2, <3>4
    <3>5. CASE y = x
          BY <1>5, <1>6, <2>1, <3>1, <3>2, <3>5
    <3>6. CASE y # l /\ y # x
          BY <1>6, <2>1, <3>1, <3>2, <3>3, <3>6
    <3> QED BY <3>4, <3>5, <3>6
  <2> QED BY <2>2
<1> QED BY <1>3, <1>4, <1>7, IndexedChar

\* What addWeight on l may do to a formula: the variable of l, which is no
\* output, gets another weight.
Moved(f, g, l) ==
    /\ IsFormula(g) /\ CardOK(g) /\ IndexOK(g)
    /\ DOMAIN g.poids = DOMAIN f.poids
    /\ g.card = f.card /\ g.cards = f.cards
    /\ \A v \in DOMAIN f.poids \ {Var(l)} : g.poids[v] = f.poids[v]

\* The weights of the other variables stay.
LEMMA SetOther ==
  ASSUME NEW poids \in Seq(Int), NEW l \in LitsOf(poids), NEW w \in Int
  PROVE  /\ Len(SetPoids(poids, l, w)) = Len(poids)
         /\ \A v \in DOMAIN poids \ {Var(l)} : SetPoids(poids, l, w)[v] = poids[v]
  BY DEF SetPoids

\* The literal l of a variable that is no output moves from old to new.
LEMMA MoveFacts ==
  ASSUME NEW f, IsFormula(f), CardOK(f), IndexOK(f), NEW l \in LitsOf(f.poids),
         NEW x \in LitsOf(f.poids), Opposite(l, x),
         f.card[Var(l)] = NoCard, ~IsOutput(f, Var(l)),
         NEW old \in Int, old = Weight(f.poids, l), NEW new \in Int, NEW c \in Int,
         NEW g, g = Replace(f, SetPoids(f.poids, l, new), c, Given(Taken(f.map, l, x, old), l, x, new))
  PROVE  Moved(f, g, l)
<1> DEFINE p == SetPoids(f.poids, l, new)
           m == Given(Taken(f.map, l, x, old), l, x, new)
<1>1. f.poids \in Seq(Int) /\ f.map \in Index /\ Indexed(f.poids, f.map)
      BY Fields DEF IndexOK
<1>2. m \in Index /\ Indexed(p, m)
      BY <1>1, IndexedMove
<1>3. p \in Seq(Int) /\ DOMAIN p = DOMAIN f.poids
      BY <1>1, WeightSet
<1>4. Len(p) = Len(f.poids) /\ \A v \in DOMAIN f.poids \ {Var(l)} : p[v] = f.poids[v]
      BY <1>1, SetOther
<1> HIDE DEF p, m
<1>5. /\ IsFormula(g)
      /\ g.poids = p /\ g.map = m /\ g.card = f.card /\ g.cards = f.cards
      BY <1>2, <1>3, <1>4, ReplaceFacts DEF p, m
<1>6. CardOK(g)
  <2>1. DOMAIN f.card = DOMAIN f.poids
        BY Fields
  <2>2. \A v \in DOMAIN g.card : g.card[v] # NoCard =>
          /\ g.card[v].card \in DOMAIN g.cards
          /\ g.card[v].initialWeight > 0
          /\ g.poids[v] <= 0
        BY <1>4, <1>5, <2>1 DEF CardOK
  <2>3. \A d \in DOMAIN g.cards : \A k \in DOMAIN g.cards[d].outs : g.cards[d].outs[k] # Var(l)
        BY <1>5 DEF IsOutput
  <2>4. ASSUME NEW d \in DOMAIN g.cards, NEW k \in DOMAIN g.cards[d].outs
        PROVE  /\ g.cards[d].outs[k] \in DOMAIN g.poids
               /\ g.card[g.cards[d].outs[k]] = NoCard => g.poids[g.cards[d].outs[k]] = 0
    <3> DEFINE o == f.cards[d].outs[k]
    <3>1. /\ o \in DOMAIN f.poids /\ (f.card[o] = NoCard => f.poids[o] = 0)
          /\ o = g.cards[d].outs[k] /\ o # Var(l)
          BY <1>5, <2>3 DEF CardOK
    <3> HIDE DEF o
    <3>2. p[o] = f.poids[o]
          BY <1>4, <3>1
    <3> QED BY <1>3, <1>5, <3>1, <3>2
  <2> QED BY <2>2, <2>4 DEF CardOK
<1> QED BY <1>2, <1>3, <1>4, <1>5, <1>6 DEF Moved, IndexOK

\* addWeight has something to do that does not put a literal under the key 0.
Weighs(f, lit, weight) == weight # 0 \/ Weight(f.poids, lit) # 0

\* addWeight on a literal of a variable that is no output: relax(l), when the
\* weights cancel, has nothing to do.
LEMMA AddWeightFacts ==
  ASSUME NEW f, IsFormula(f), CardOK(f), IndexOK(f), NEW lit \in LitsOf(f.poids),
         f.card[Var(lit)] = NoCard, ~IsOutput(f, Var(lit)), NEW weight \in Int, Weighs(f, lit, weight)
  PROVE  Moved(f, AddWeight(f, lit, weight), lit)
<1> DEFINE l == IF weight < 0 THEN -lit ELSE lit
           w == IF weight < 0 THEN -weight ELSE weight
           x == -l
           old == Weight(f.poids, l)
           new == old + w
           c == IF old < 0 THEN Wrap(f.cost + Min({w, -old})) ELSE f.cost
           p == SetPoids(f.poids, l, new)
           m == Given(Taken(f.map, l, x, old), l, x, new)
           g == [f EXCEPT !.poids = p, !.cost = c, !.map = m]
           t == Taken(f.map, l, x, old)
           q == [f EXCEPT !.poids = p, !.cost = c,
                          !.map = IF old = 0 \/ new > 0 THEN Insert(t, new, l) ELSE IF new < 0 THEN Insert(t, -new, x) ELSE t]
<1>1. f.poids \in Seq(Int) /\ f.map \in Index /\ f.cost \in Int
      BY Fields
<1>2. l \in LitsOf(f.poids) /\ Var(l) = Var(lit) /\ w \in Nat
      BY DEF LitsOf, Var
<1>3. x \in LitsOf(f.poids) /\ Opposite(l, x)
      BY <1>2 DEF LitsOf, Var, Opposite
<1>4. old = 0 => w > 0
      BY <1>2 DEF Weighs
<1>5. NewVars(f, Var(l)) = f
      BY <1>1, <1>2, NewVarsSame
<1> HIDE DEF l, w
<1>6. old \in Int
      BY <1>1, <1>2, WeightFacts
<1>7. new \in Int
      BY <1>2, <1>6
<1>8. c \in Int
  <2>1. CASE old < 0
    <3>1. {w, -old} \in SUBSET Nat /\ {w, -old} # {}
          BY <1>2, <1>6, <2>1
    <3>2. Min({w, -old}) \in Nat
          BY <3>1, MinFacts
    <3>3. f.cost + Min({w, -old}) \in Int
          BY <1>1, <3>2
    <3> QED BY <2>1, <3>3, WrapType
  <2>2. CASE ~(old < 0)
        BY <1>1, <2>2
  <2> QED BY <2>1, <2>2
<1>9. AddWeight(f, lit, weight) = IF new = 0 THEN Relax(g, l) ELSE g
  <2>1. (old = 0 \/ new > 0 <=> new > 0) /\ (old # 0 /\ new = 0 <=> new = 0)
        BY <1>2, <1>6, <1>7, <1>4
  <2>2. AddWeight(f, lit, weight) = IF old # 0 /\ new = 0 THEN Relax(q, l) ELSE q
    <3>1. PICK o : o = Weight(f.poids, l)
          OBVIOUS
    <3>2. PICK n : n = o + w
          OBVIOUS
    <3>3. PICK d : d = IF o < 0 THEN Wrap(f.cost + Min({w, -o})) ELSE f.cost
          OBVIOUS
    <3>4. PICK u : u = Taken(f.map, l, -l, o)
          OBVIOUS
    <3>5. PICK b : b = IF o = 0 \/ n > 0 THEN Insert(u, n, l) ELSE IF n < 0 THEN Insert(u, -n, -l) ELSE u
          OBVIOUS
    <3>6. PICK r : r = [f EXCEPT !.poids = SetPoids(f.poids, l, n), !.cost = d, !.map = b]
          OBVIOUS
    <3>7. AddWeight(f, lit, weight) = IF o # 0 /\ n = 0 THEN Relax(r, l) ELSE r
      <4>1. l = (IF weight < 0 THEN -lit ELSE lit) /\ w = (IF weight < 0 THEN -weight ELSE weight)
            BY DEF l, w
      <4> HIDE DEF old, new, c, p, m, g, t, q, x
      <4> QED BY <1>5, <3>1, <3>2, <3>3, <3>4, <3>5, <3>6, <4>1, ZenonT(60) DEF AddWeight, Poids, Taken
    <3>8. o = old /\ n = new /\ d = c /\ u = t /\ r = q
          BY <3>1, <3>2, <3>3, <3>4, <3>5, <3>6, Zenon
    <3> QED BY <3>7, <3>8, Zenon
  <2>3. q = g
        BY <2>1, Zenon DEF Given
  <2> QED BY <2>1, <2>2, <2>3, Zenon
<1> HIDE DEF x, old, new, c
<1>10. g = Replace(f, p, c, m)
       BY DEF Replace
<1>11. Moved(f, g, l)
       BY <1>2, <1>3, <1>6, <1>7, <1>8, <1>10, MoveFacts DEF old
<1> HIDE DEF g
<1>12. Relax(g, l) = g
       BY <1>2, <1>11 DEF Moved, Relax
<1>13. Moved(f, g, lit)
       BY <1>2, <1>11 DEF Moved
<1> QED BY <1>9, <1>12, <1>13

-----------------------------------------------------------------------------
(***************************************************************************)
(* Strata: chooseNextMinWeight, and the literals initAssum returns.        *)
(***************************************************************************)
\* Max of a bounded set of natural numbers.
LEMMA MaxFacts ==
  ASSUME NEW S \in SUBSET Nat, S # {}, Bounded(S)
  PROVE  Max(S) \in S /\ \A y \in S : y <= Max(S)
<1>1. PICK b \in Nat : \A k \in S : k <= b
      BY DEF Bounded
<1> DEFINE T == {b - k : k \in S}
<1>2. T \in SUBSET Nat /\ T # {}
  <2>1. \A k \in S : b - k \in Nat
        BY <1>1
  <2>2. PICK k \in S : TRUE
        OBVIOUS
  <2>3. b - k \in T
        OBVIOUS
  <2> QED BY <2>1, <2>3
<1>3. Min(T) \in T /\ \A y \in T : Min(T) <= y
      BY <1>2, MinFacts
<1>4. PICK x \in S : Min(T) = b - x
      BY <1>3
<1>5. \A y \in S : x >= y
  <2> TAKE y \in S
  <2>1. b - x <= b - y
        BY <1>3, <1>4
  <2> QED BY <2>1
<1>6. \E z \in S : \A y \in S : z >= y
      BY <1>5
<1> QED BY <1>6 DEF Max

\* chooseNextMinWeight only erases keys with empty sets, and the stratum it
\* chooses is not 0.
LEMMA StratumFacts ==
  ASSUME NEW map \in Index, NEW m, NEW c \in ChooseNextMinWeight(map, m)
  PROVE  /\ c.min \in Nat \ {0} /\ (c.min = 1 \/ c.min < m)
         /\ \E K \in SUBSET DOMAIN map :
              (\A k \in DOMAIN map \ K : map[k] = {}) /\ c.map = Pruned(map, K)
<1> DEFINE below == {k \in DOMAIN map : k < m}
           next(k) == {j \in DOMAIN map : j < k}
           stops == {k \in below : /\ map[k] # {}
                                   /\ next(k) = {} \/ 2 * Max(next(k)) < m}
           stop  == Max(stops)
           empty == {k \in below : map[k] = {} /\ (stops = {} \/ k > stop)}
           gone  == IF empty = DOMAIN map THEN empty \ {Min(empty)} ELSE empty
           left  == [k \in DOMAIN map \ gone |-> map[k]]
<1>1. /\ DOMAIN map \subseteq Nat \ {0} /\ Bounded(DOMAIN map)
      /\ map = [k \in DOMAIN map |-> map[k]]
      BY IndexFacts
<1>2. ASSUME stops # {}
      PROVE  stop \in Nat \ {0} /\ stop < m
  <2>1. stops \in SUBSET DOMAIN map /\ \A k \in stops : k < m
        OBVIOUS
  <2> HIDE DEF stops
  <2>2. stops \in SUBSET Nat /\ Bounded(stops)
        BY <1>1, <2>1, BoundedFacts
  <2>3. Max(stops) \in stops
        BY <1>2, <2>2, MaxFacts
  <2> QED BY <1>1, <2>1, <2>3
<1>3. gone \in SUBSET DOMAIN map /\ \A k \in gone : map[k] = {}
      BY Zenon
<1>4. \/ c = [min |-> 1, map |-> map]
      \/ c = [min |-> 1, map |-> left]
      \/ stops # {} /\ c = [min |-> stop, map |-> left]
  <2> DEFINE A == {[min |-> 1, map |-> map]}
             B == {[min |-> 1, map |-> left]}
             D == {[min |-> stop, map |-> left]}
             E == {[min |-> w, map |-> left] : w \in {1} \cup {x \in {stop} : 2 * x < m}}
  <2>1. c \in IF Cardinality(DOMAIN map) <= 1 THEN A
              ELSE IF stops = {} \/ (gone # {} /\ Cardinality(DOMAIN left) <= 1) THEN B
              ELSE IF next(stop) # {} THEN D ELSE E
        BY Zenon DEF ChooseNextMinWeight
  <2> HIDE DEF stops, gone, stop, next, left
  <2> QED BY <2>1
<1> HIDE DEF stops, gone, stop
<1>5. left = Pruned(map, DOMAIN map \ gone)
      BY DEF Pruned
<1>6. map = Pruned(map, DOMAIN map)
      BY <1>1 DEF Pruned
<1> HIDE DEF left
<1>7. c.min \in Nat \ {0} /\ (c.min = 1 \/ c.min < m)
      BY <1>2, <1>4
<1>8. c.map = Pruned(map, DOMAIN map) \/ c.map = Pruned(map, DOMAIN map \ gone)
      BY <1>4, <1>5, <1>6
<1> QED BY <1>3, <1>7, <1>8

\* The literals of at least some weight.
Heavy(poids, m) == {l \in LitsOf(poids) : Weight(poids, l) >= m}

\* initAssum reads them off the index.
LEMMA HeavyInit ==
  ASSUME NEW f, IsFormula(f), IndexOK(f), NEW m \in Nat \ {0}
  PROVE  InitAssum(f, m) = Heavy(f.poids, m)
<1>1. f.poids \in Seq(Int) /\ f.map \in Index /\ Indexed(f.poids, f.map)
      BY Fields DEF IndexOK
<1>2. DOMAIN f.map \subseteq Nat \ {0}
      BY <1>1, IndexFacts
<1>3. \A k \in Nat \ {0} : At(f.map, k) = LitsAt(f.poids, k)
      BY <1>1, IndexedChar
<1>4. ASSUME NEW x \in InitAssum(f, m)
      PROVE  x \in Heavy(f.poids, m)
  <2>1. PICK k \in DOMAIN f.map : k >= m /\ x \in f.map[k]
        BY DEF InitAssum
  <2>2. x \in LitsAt(f.poids, k)
        BY <1>2, <1>3, <2>1 DEF At
  <2> QED BY <2>1, <2>2 DEF LitsAt, Heavy
<1>5. ASSUME NEW x \in Heavy(f.poids, m)
      PROVE  x \in InitAssum(f, m)
  <2> DEFINE k == Weight(f.poids, x)
  <2>1. x \in LitsOf(f.poids) /\ k >= m
        BY DEF Heavy
  <2>2. k \in Int
        BY <1>1, <2>1, WeightFacts
  <2>3. x \in LitsAt(f.poids, k) /\ k \in Nat \ {0}
        BY <2>1, <2>2 DEF LitsAt
  <2> HIDE DEF k
  <2>4. x \in At(f.map, k)
        BY <1>3, <2>3
  <2>5. k \in DOMAIN f.map /\ x \in f.map[k]
        BY <2>4 DEF At
  <2> QED BY <2>1, <2>5 DEF InitAssum
<1> QED BY <1>4, <1>5

\* The soft literals are those of positive weight.
LEMMA SoftLitsFacts ==
  ASSUME NEW f, IsFormula(f)
  PROVE  \A l : l \in SoftLits(f) <=> l \in LitsOf(f.poids) /\ Weight(f.poids, l) > 0
<1>1. f.poids \in Seq(Int)
      BY Fields
<1>2. \A l : l \in Lits(f) <=> l \in LitsOf(f.poids)
      BY <1>1 DEF Lits, Vars, LitsOf, Var
<1> QED BY <1>2 DEF SoftLits, Poids

\* The assumptions follow when new literals become soft.
LEMMA HeavyGrown ==
  ASSUME NEW f, IsFormula(f), NEW g, IsFormula(g), Grown(f, g), NEW m \in Nat \ {0}
  PROVE  Heavy(g.poids, m) = Heavy(f.poids, m) \cup {l \in SoftLits(g) \ SoftLits(f) : Poids(g, l) >= m}
<1> DEFINE N == {l \in SoftLits(g) \ SoftLits(f) : Poids(g, l) >= m}
<1>1. f.poids \in Seq(Int) /\ g.poids \in Seq(Int)
      BY Fields
<1>2. \A x \in LitsOf(f.poids) : Weight(f.poids, x) \in Int
      BY <1>1, WeightFacts
<1>3. \A x \in LitsOf(g.poids) : Weight(g.poids, x) \in Int
      BY <1>1, WeightFacts
<1>4. \A l : l \in SoftLits(f) <=> l \in LitsOf(f.poids) /\ Weight(f.poids, l) > 0
      BY SoftLitsFacts
<1>5. \A l : l \in SoftLits(g) <=> l \in LitsOf(g.poids) /\ Weight(g.poids, l) > 0
      BY SoftLitsFacts
<1>6. ASSUME NEW x \in Heavy(g.poids, m)
      PROVE  x \in Heavy(f.poids, m) \cup N
  <2>1. x \in SoftLits(g) /\ Weight(g.poids, x) >= m
        BY <1>3, <1>5 DEF Heavy
  <2>2. CASE x \in SoftLits(f)
    <3>1. x \in LitsOf(f.poids) /\ Weight(f.poids, x) # 0
          BY <1>2, <1>4, <2>2
    <3>2. Weight(g.poids, x) = Weight(f.poids, x)
          BY <1>1, <3>1, GrownKeeps
    <3> QED BY <2>1, <3>1, <3>2 DEF Heavy
  <2>3. CASE x \notin SoftLits(f)
        BY <2>1, <2>3 DEF Poids
  <2> QED BY <2>2, <2>3
<1>7. ASSUME NEW x \in Heavy(f.poids, m)
      PROVE  x \in Heavy(g.poids, m)
  <2>1. x \in LitsOf(f.poids) /\ Weight(f.poids, x) # 0
        BY <1>2 DEF Heavy
  <2>2. x \in LitsOf(g.poids)
        BY <1>1, <2>1, GrownKeeps
  <2>3. Weight(g.poids, x) = Weight(f.poids, x)
        BY <1>1, <2>1, GrownKeeps
  <2> QED BY <2>2, <2>3 DEF Heavy
<1>8. ASSUME NEW x \in N
      PROVE  x \in Heavy(g.poids, m)
      BY <1>5, <1>8 DEF Heavy, Poids
<1> QED BY <1>6, <1>7, <1>8

\* They follow when literals become hard.
LEMMA HeavyHarden ==
  ASSUME NEW f, IsFormula(f), IndexOK(f), NEW mc, NEW m \in Nat \ {0},
         NEW p, p = Freed(f.poids, HardenLits(f, mc))
  PROVE  Heavy(p, m) = Heavy(f.poids, m) \ HardenLits(f, mc)
<1> DEFINE hard == HardenLits(f, mc)
<1>1. f.poids \in Seq(Int) /\ f.map \in Index /\ Indexed(f.poids, f.map)
      BY Fields DEF IndexOK
<1>2. DOMAIN f.map \subseteq Nat \ {0}
      BY <1>1, IndexFacts
<1>3. \A k \in Nat \ {0} : At(f.map, k) = LitsAt(f.poids, k)
      BY <1>1, IndexedChar
<1>4. ASSUME NEW x \in hard
      PROVE  x \in LitsOf(f.poids) /\ Weight(f.poids, x) \in Nat \ {0}
  <2>1. PICK k \in DOMAIN f.map : x \in f.map[k]
        BY DEF HardenLits, InitAssum
  <2>2. x \in LitsAt(f.poids, k)
        BY <1>2, <1>3, <2>1 DEF At
  <2> QED BY <1>2, <2>2 DEF LitsAt
<1> HIDE DEF hard
<1>5. hard \in SUBSET LitsOf(f.poids) /\ p = Freed(f.poids, hard)
      BY <1>4 DEF hard
<1>6. LitsOf(p) = LitsOf(f.poids)
      BY <1>1, <1>5, FreedWeights
<1>7. ASSUME NEW x \in LitsOf(f.poids)
      PROVE  Weight(p, x) >= m <=> Weight(f.poids, x) >= m /\ x \notin hard
  <2>1. Weight(p, x) = WeightFreed(f.poids, hard, x)
        BY <1>1, <1>5, FreedWeights
  <2>2. Weight(f.poids, x) \in Int /\ Weight(f.poids, -x) = -Weight(f.poids, x)
        BY <1>1, WeightFacts
  <2>3. -x \in hard => Weight(f.poids, x) < 0
        BY <1>4, <2>2
  <2> QED BY <2>1, <2>2, <2>3 DEF WeightFreed
<1> QED BY <1>6, <1>7 DEF Heavy, hard

-----------------------------------------------------------------------------
(***************************************************************************)
(* What the steps of a search do to the formula, in one form: g differs    *)
(* from f only in what concerns the literals gone, and in new literals.    *)
(***************************************************************************)
Sound(f) == IsFormula(f) /\ CardOK(f) /\ IndexOK(f)

\* A literal keeps a weight it has, and a known output stays known and keeps
\* its weight.
Keeps(f, g, gone) ==
    /\ Sound(g)
    /\ LitsOf(f.poids) \subseteq LitsOf(g.poids)
    /\ \A n \in Nat : InputsFree(f, n) => InputsFree(g, n)
    /\ \A x \in LitsOf(f.poids) : x \notin gone /\ Weight(f.poids, x) > 0 => Weight(g.poids, x) = Weight(f.poids, x)
    /\ \A x \in LitsOf(f.poids) : x \notin gone /\ x < 0 /\ f.card[Var(x)] # NoCard =>
         g.card[Var(x)] = f.card[Var(x)] /\ Weight(g.poids, x) = Weight(f.poids, x)

\* More variables, more literals.
LEMMA MoreLits ==
  ASSUME NEW p, NEW q, DOMAIN p \subseteq DOMAIN q
  PROVE  LitsOf(p) \subseteq LitsOf(q)
  BY DEF LitsOf

\* Nothing happens to the weights.
LEMMA KeepsSame ==
  ASSUME NEW f, Sound(f), NEW g, IsFormula(g), IndexOK(g), g.poids = f.poids,
         g.card = f.card, g.cards = f.cards
  PROVE  Keeps(f, g, {})
<1>1. CardOK(g)
      BY DEF Sound, CardOK
<1>2. \A n \in Nat : InputsFree(f, n) => InputsFree(g, n)
      BY DEF InputsFree
<1> QED BY <1>1, <1>2 DEF Keeps, Sound

\* relax.
LEMMA KeepsRelax ==
  ASSUME NEW f, Sound(f), NEW l \in LitsOf(f.poids), l < 0, NEW g, g = Relax(f, l)
  PROVE  Keeps(f, g, {l}) /\ Grown(f, g)
<1>1. Extended(f, g, {Var(l)})
      BY RelaxFacts DEF Sound
<1>2. f.poids \in Seq(Int) /\ IsFormula(f) /\ IndexOK(f) /\ IsFormula(g)
      BY <1>1, Fields DEF Sound, Extended
<1>3. Grown(f, g) /\ LitsOf(f.poids) \subseteq LitsOf(g.poids)
      BY <1>1, MoreLits DEF Extended
<1>4. Sound(g)
  <2>1. IndexOK(g)
        BY <1>2, <1>3, GrownIndexed
  <2> QED BY <1>1, <2>1 DEF Extended, Sound
<1>5. ASSUME NEW x \in LitsOf(f.poids), Weight(f.poids, x) > 0
      PROVE  Weight(g.poids, x) = Weight(f.poids, x)
  <2>1. Weight(f.poids, x) # 0
        BY <1>2, <1>5, WeightFacts
  <2> QED BY <1>2, <1>3, <2>1, GrownKeeps
<1>6. ASSUME NEW x \in LitsOf(f.poids), x # l, x < 0, f.card[Var(x)] # NoCard
      PROVE  g.card[Var(x)] = f.card[Var(x)] /\ Weight(g.poids, x) = Weight(f.poids, x)
  <2>1. Var(x) # Var(l) /\ Var(x) \in DOMAIN f.poids
        BY <1>6 DEF LitsOf, Var
  <2>2. g.card[Var(x)] = f.card[Var(x)] /\ g.poids[Var(x)] = f.poids[Var(x)]
        BY <1>1, <1>6, <2>1 DEF Extended
  <2> QED BY <1>6, <2>2 DEF Weight, Var
<1>7. \A n \in Nat : InputsFree(f, n) => InputsFree(g, n)
      BY <1>1 DEF Extended
<1> QED BY <1>3, <1>4, <1>5, <1>6, <1>7 DEF Keeps

\* A cardinality constraint.
LEMMA KeepsAddCard ==
  ASSUME NEW f, Sound(f), NEW C \in SUBSET Int, NEW w \in Nat \ {0}, NEW g, g = AddCard(f, C, w)
  PROVE  Keeps(f, g, {}) /\ Grown(f, g)
<1>1. Extended(f, g, {})
      BY AddCardFacts DEF Sound
<1>2. f.poids \in Seq(Int) /\ IsFormula(f) /\ IndexOK(f) /\ IsFormula(g)
      BY <1>1, Fields DEF Sound, Extended
<1>3. Grown(f, g) /\ LitsOf(f.poids) \subseteq LitsOf(g.poids)
      BY <1>1, MoreLits DEF Extended
<1>4. Sound(g)
  <2>1. IndexOK(g)
        BY <1>2, <1>3, GrownIndexed
  <2> QED BY <1>1, <2>1 DEF Extended, Sound
<1>5. ASSUME NEW x \in LitsOf(f.poids), Weight(f.poids, x) > 0
      PROVE  Weight(g.poids, x) = Weight(f.poids, x)
  <2>1. Weight(f.poids, x) # 0
        BY <1>2, <1>5, WeightFacts
  <2> QED BY <1>2, <1>3, <2>1, GrownKeeps
<1>6. ASSUME NEW x \in LitsOf(f.poids), x < 0, f.card[Var(x)] # NoCard
      PROVE  g.card[Var(x)] = f.card[Var(x)] /\ Weight(g.poids, x) = Weight(f.poids, x)
  <2>1. Var(x) \in DOMAIN f.poids
        BY DEF LitsOf
  <2>2. g.card[Var(x)] = f.card[Var(x)] /\ g.poids[Var(x)] = f.poids[Var(x)]
        BY <1>1, <1>6, <2>1 DEF Extended
  <2> QED BY <1>6, <2>2 DEF Weight, Var
<1>7. \A n \in Nat : InputsFree(f, n) => InputsFree(g, n)
      BY <1>1 DEF Extended
<1> QED BY <1>3, <1>4, <1>5, <1>6, <1>7 DEF Keeps

\* A hard unit.
LEMMA KeepsHardUnit ==
  ASSUME NEW f, Sound(f), NEW l \in LitsOf(f.poids), NEW g, g = HardUnit(f, l)
  PROVE  Keeps(f, g, {l, -l})
<1>1. Settled1(f, g, l)
      BY HardUnitFacts DEF Sound
<1>2. f.poids \in Seq(Int)
      BY Fields DEF Sound
<1>3. LitsOf(f.poids) \subseteq LitsOf(g.poids) /\ Sound(g)
      BY <1>1, MoreLits DEF Settled1, Sound
<1>4. ASSUME NEW x \in LitsOf(f.poids), x \notin {l, -l}, Weight(f.poids, x) > 0
      PROVE  Weight(g.poids, x) = Weight(f.poids, x)
  <2>1. Weight(f.poids, x) # 0
        BY <1>2, <1>4, WeightFacts
  <2> QED BY <1>1, <1>4, <2>1 DEF Settled1
<1>5. ASSUME NEW x \in LitsOf(f.poids), x \notin {l, -l}, x < 0, f.card[Var(x)] # NoCard
      PROVE  g.card[Var(x)] = f.card[Var(x)] /\ Weight(g.poids, x) = Weight(f.poids, x)
  <2>1. Var(x) # Var(l) /\ Var(x) \in DOMAIN f.poids
        BY <1>5 DEF LitsOf, Var
  <2>2. g.card[Var(x)] = f.card[Var(x)] /\ g.poids[Var(x)] = f.poids[Var(x)]
        BY <1>1, <1>5, <2>1 DEF Settled1
  <2> QED BY <1>5, <2>2 DEF Weight, Var
<1>6. \A n \in Nat : InputsFree(f, n) => InputsFree(g, n)
      BY <1>1 DEF Settled1
<1> QED BY <1>3, <1>4, <1>5, <1>6 DEF Keeps

\* addWeight, on a variable that is no output.
LEMMA KeepsAddWeight ==
  ASSUME NEW f, Sound(f), NEW l \in LitsOf(f.poids), NEW w \in Int,
         f.card[Var(l)] = NoCard, ~IsOutput(f, Var(l)), Weighs(f, l, w), NEW g, g = AddWeight(f, l, w)
  PROVE  Keeps(f, g, {l, -l})
<1>1. Moved(f, g, l)
      BY AddWeightFacts DEF Sound
<1>2. /\ Sound(g) /\ LitsOf(f.poids) \subseteq LitsOf(g.poids)
      /\ g.card = f.card /\ g.cards = f.cards
      BY <1>1, MoreLits DEF Moved, Sound
<1>3. ASSUME NEW x \in LitsOf(f.poids), x \notin {l, -l}
      PROVE  Weight(g.poids, x) = Weight(f.poids, x)
  <2>1. Var(x) # Var(l) /\ Var(x) \in DOMAIN f.poids
        BY <1>3 DEF LitsOf, Var
  <2>2. g.poids[Var(x)] = f.poids[Var(x)]
        BY <1>1, <2>1 DEF Moved
  <2> QED BY <2>2 DEF Weight, Var
<1>4. \A n \in Nat : InputsFree(f, n) => InputsFree(g, n)
  <2>1. Len(g.poids) = Len(f.poids)
    <3>1. f.poids \in Seq(Int) /\ g.poids \in Seq(Int) /\ DOMAIN g.poids = DOMAIN f.poids
          BY <1>1, Fields DEF Sound, Moved
    <3> QED BY <3>1
  <2> QED BY <1>2, <2>1 DEF InputsFree
<1> QED BY <1>2, <1>3, <1>4 DEF Keeps

\* The soft variable of a clause.
SoftVar(f, w, T) == NewSoftVar(f, TRUE, w, T)

\* It is new, and soft.
LEMMA KeepsSoftVar ==
  ASSUME NEW f, Sound(f), NEW T \in SUBSET Points, NEW w \in Nat \ {0}, NEW g, g = SoftVar(f, w, T),
         NEW n, n = Len(f.poids) + 1
  PROVE  /\ Keeps(f, g, {})
         /\ n \in LitsOf(g.poids) /\ n \notin LitsOf(f.poids) /\ Weight(g.poids, n) = w
<1>1. f.poids \in Seq(Int) /\ f.card \in Seq(LitCard) /\ NoCard \in LitCard /\ f \in Formulas
      /\ DOMAIN f.card = DOMAIN f.poids /\ IsFormula(f) /\ IndexOK(f) /\ Len(f.card) = Len(f.poids)
      BY Fields, NoCardType DEF Sound
<1>2. w \in Int \ {0} /\ TRUE \in BOOLEAN
      OBVIOUS
<1>3. IsFormula(g) /\ IndexOK(g) /\ g.card = Append(f.card, NoCard) /\ g.cards = f.cards
      BY <1>1, <1>2, NewSoftVarFacts DEF SoftVar
<1> DEFINE p == Append(f.poids, w)
<1>4. g.poids = p
  <2>1. w \in Int /\ ~(w < 0)
        OBVIOUS
  <2> HIDE DEF p
  <2> QED BY <1>1, <2>1 DEF SoftVar, NewSoftVar, Formulas, p
<1>5. /\ DOMAIN p = DOMAIN f.poids \cup {n} /\ Len(p) = n
      /\ n \in Nat \ {0} /\ n \notin DOMAIN f.poids
      /\ n \notin LitsOf(f.poids)
      /\ LitsOf(p) = LitsOf(f.poids) \cup {n, -n}
      /\ Weight(p, n) = w
      BY <1>1, <1>2, WeightAppend
<1>6. \A x \in LitsOf(f.poids) : Weight(p, x) = Weight(f.poids, x)
      BY <1>1, <1>2, WeightAppend
<1>7. p[n] = w /\ \A v \in DOMAIN f.poids : p[v] = f.poids[v]
      BY <1>1
<1> HIDE DEF p
<1>8. g.card[n] = NoCard /\ DOMAIN g.card = DOMAIN f.poids \cup {n} /\ \A v \in DOMAIN f.poids : g.card[v] = f.card[v]
  <2>1. n = Len(f.card) + 1
        BY <1>1
  <2> DEFINE q == Append(f.card, NoCard)
  <2>2. q[n] = NoCard /\ DOMAIN q = DOMAIN f.card \cup {n}
        BY <1>1, <2>1, AppendFacts
  <2>3. \A v \in DOMAIN f.card : q[v] = f.card[v]
        BY <1>1, <2>1, AppendFacts
  <2>4. g.card = q
        BY <1>3
  <2> HIDE DEF q
  <2> QED BY <1>1, <2>2, <2>3, <2>4
<1>9. CardOK(g)
  <2>1. ASSUME NEW v \in DOMAIN g.card, g.card[v] # NoCard
        PROVE  /\ g.card[v].card \in DOMAIN g.cards
               /\ g.card[v].initialWeight > 0
               /\ g.poids[v] <= 0
    <3>1. v \in DOMAIN f.poids /\ g.card[v] = f.card[v] /\ g.poids[v] = f.poids[v]
          BY <1>4, <1>7, <1>8, <2>1
    <3> QED BY <1>1, <1>3, <2>1, <3>1 DEF Sound, CardOK
  <2>2. ASSUME NEW c \in DOMAIN g.cards, NEW k \in DOMAIN g.cards[c].outs
        PROVE  /\ g.cards[c].outs[k] \in DOMAIN g.poids
               /\ g.card[g.cards[c].outs[k]] = NoCard => g.poids[g.cards[c].outs[k]] = 0
    <3> DEFINE v == f.cards[c].outs[k]
    <3>1. v \in DOMAIN f.poids /\ (f.card[v] = NoCard => f.poids[v] = 0) /\ v = g.cards[c].outs[k]
          BY <1>3 DEF Sound, CardOK
    <3> HIDE DEF v
    <3>2. g.card[v] = f.card[v] /\ g.poids[v] = f.poids[v] /\ v \in DOMAIN g.poids
          BY <1>4, <1>5, <1>7, <1>8, <3>1
    <3> QED BY <3>1, <3>2
  <2> QED BY <2>1, <2>2 DEF CardOK
<1>10. ASSUME NEW i \in Nat, InputsFree(f, i)
       PROVE  InputsFree(g, i)
  <2>1. i <= Len(f.poids) /\ \A v \in 1..i : f.card[v] = NoCard
        BY <1>10 DEF InputsFree
  <2>2. i <= Len(g.poids)
    <3>1. Len(f.poids) \in Nat
          BY <1>1
    <3>2. i <= Len(f.poids) + 1
          BY <2>1, <3>1
    <3> QED BY <1>4, <1>5, <3>2
  <2>3. \A v \in 1..i : v \in DOMAIN f.poids
        BY <1>1, <2>1
  <2>4. \A v \in 1..i : g.card[v] = NoCard
        BY <1>8, <2>1, <2>3
  <2> QED BY <1>3, <1>10, <2>2, <2>4 DEF InputsFree
<1>11. \A x \in LitsOf(f.poids) : Var(x) \in DOMAIN f.poids
       BY DEF LitsOf
<1>12. Sound(g)
       BY <1>3, <1>9 DEF Sound
<1>13. Keeps(f, g, {})
       BY <1>4, <1>5, <1>6, <1>8, <1>10, <1>11, <1>12 DEF Keeps
<1> QED BY <1>4, <1>5, <1>13

\* A literal and its negation: at most one is soft, and outputs only negatively.
LEMMA Opposites ==
  ASSUME NEW f, Sound(f), NEW x \in LitsOf(f.poids)
  PROVE  /\ Weight(f.poids, x) \in Int /\ -x \in LitsOf(f.poids)
         /\ Weight(f.poids, -x) = -Weight(f.poids, x)
         /\ x < 0 /\ f.card[Var(x)] # NoCard => Weight(f.poids, x) >= 0
<1>1. f.poids \in Seq(Int) /\ DOMAIN f.card = DOMAIN f.poids
      BY Fields DEF Sound
<1>2. /\ Weight(f.poids, x) \in Int /\ -x \in LitsOf(f.poids)
      /\ Weight(f.poids, -x) = -Weight(f.poids, x)
      BY <1>1, WeightFacts
<1>3. ASSUME x < 0, f.card[Var(x)] # NoCard
      PROVE  Weight(f.poids, x) >= 0
  <2>1. Var(x) \in DOMAIN f.poids /\ x \in Int
        BY DEF LitsOf
  <2>2. f.poids[Var(x)] <= 0 /\ f.poids[Var(x)] \in Int
        BY <1>1, <1>3, <2>1 DEF Sound, CardOK
  <2>3. Weight(f.poids, x) = -f.poids[Var(x)]
        BY <1>3 DEF Weight, Var
  <2> QED BY <2>2, <2>3
<1> QED BY <1>2, <1>3

\* Taking w from the literals of C.
LEMMA KeepsReweigh ==
  ASSUME NEW f, Sound(f), NEW C \in SUBSET LitsOf(f.poids), NEW w \in Nat \ {0}, Affords(f.poids, C, w),
         NEW g, g = Reweigh(f, C, w)
  PROVE  /\ Keeps(f, g, C) /\ g.card = f.card
         /\ \A l \in C : Weight(g.poids, l) = Weight(f.poids, l) - w
<1>1. /\ IsFormula(g) /\ CardOK(g) /\ IndexOK(g)
      /\ g.card = f.card /\ g.cards = f.cards
      /\ LitsOf(g.poids) = LitsOf(f.poids)
      /\ \A n \in Nat : InputsFree(f, n) => InputsFree(g, n)
      BY ReweighFacts DEF Sound
<1>2. \A x \in LitsOf(f.poids) : Weight(g.poids, x) = WeightLeft(f.poids, C, w, x)
      BY ReweighFacts DEF Sound
<1>3. ASSUME NEW x \in LitsOf(f.poids), x \notin C,
             Weight(f.poids, x) > 0 \/ (x < 0 /\ f.card[Var(x)] # NoCard)
      PROVE  Weight(g.poids, x) = Weight(f.poids, x)
  <2>1. Weight(f.poids, x) \in Int /\ Weight(f.poids, -x) = -Weight(f.poids, x) /\ Weight(f.poids, x) >= 0
        BY <1>3, Opposites
  <2>2. -x \in C => Weight(f.poids, -x) >= w
        BY DEF Affords
  <2>3. -x \notin C
        BY <2>1, <2>2
  <2> QED BY <1>2, <1>3, <2>3 DEF WeightLeft
<1>4. Sound(g)
      BY <1>1 DEF Sound
<1>5. \A l \in C : Weight(g.poids, l) = Weight(f.poids, l) - w
      BY <1>2 DEF WeightLeft
<1> QED BY <1>1, <1>3, <1>4, <1>5 DEF Keeps

\* The loop of harden.
LEMMA KeepsHarden ==
  ASSUME NEW f, Sound(f), DOMAIN f.map # {}, NEW mc, NEW g, g = Harden(f, mc)
  PROVE  /\ Keeps(f, g, HardenLits(f, mc)) /\ g.poids = Freed(f.poids, HardenLits(f, mc))
         /\ \A l \in HardenLits(f, mc) : l \in LitsOf(f.poids) /\ Weight(f.poids, l) > 0
<1> DEFINE hard == HardenLits(f, mc)
<1>1. /\ IsFormula(g) /\ CardOK(g) /\ IndexOK(g)
      /\ g.card = f.card /\ DOMAIN g.poids = DOMAIN f.poids
      /\ \A n \in Nat : InputsFree(f, n) => InputsFree(g, n)
      BY HardenFacts DEF Sound
<1>2. f.poids \in Seq(Int) /\ f.map \in Index /\ Indexed(f.poids, f.map) /\ f \in Formulas
      BY Fields DEF Sound, IndexOK
<1>3. g.poids = Freed(f.poids, hard)
      BY <1>2 DEF Harden, Formulas, Freed
<1>4. ASSUME NEW x \in hard
      PROVE  x \in LitsOf(f.poids) /\ Weight(f.poids, x) > 0
  <2>1. PICK k \in DOMAIN f.map : x \in f.map[k]
        BY DEF HardenLits, InitAssum
  <2>2. k \in Nat \ {0}
        BY <1>2, IndexFacts
  <2>3. At(f.map, k) = LitsAt(f.poids, k)
        BY <1>2, <2>2, IndexedChar
  <2> QED BY <2>1, <2>2, <2>3 DEF At, LitsAt
<1> HIDE DEF hard
<1>5. hard \in SUBSET LitsOf(f.poids)
      BY <1>4
<1>6. ASSUME NEW x \in LitsOf(f.poids), x \notin hard,
             Weight(f.poids, x) > 0 \/ (x < 0 /\ f.card[Var(x)] # NoCard)
      PROVE  Weight(g.poids, x) = Weight(f.poids, x)
  <2>1. Weight(f.poids, x) \in Int /\ Weight(f.poids, -x) = -Weight(f.poids, x) /\ Weight(f.poids, x) >= 0
        BY <1>6, Opposites
  <2>2. -x \notin hard
        BY <1>4, <2>1
  <2>3. Weight(g.poids, x) = WeightFreed(f.poids, hard, x)
        BY <1>2, <1>3, <1>5, FreedWeights
  <2> QED BY <1>6, <2>2, <2>3 DEF WeightFreed
<1>7. LitsOf(f.poids) \subseteq LitsOf(g.poids) /\ Sound(g)
      BY <1>1, MoreLits DEF Sound
<1>8. Keeps(f, g, hard)
      BY <1>1, <1>6, <1>7 DEF Keeps
<1> QED BY <1>3, <1>4, <1>8 DEF hard

\* Choosing a stratum.
LEMMA KeepsStratum ==
  ASSUME NEW f, Sound(f), NEW m, NEW c \in ChooseNextMinWeight(f.map, m), NEW g, g = [f EXCEPT !.map = c.map]
  PROVE  Keeps(f, g, {}) /\ g.poids = f.poids /\ c.min \in Nat \ {0}
<1>1. f.map \in Index /\ f.cost \in Int
      BY Fields DEF Sound
<1>2. c.min \in Nat \ {0}
      BY <1>1, StratumFacts
<1>3. PICK K \in SUBSET DOMAIN f.map :
        (\A k \in DOMAIN f.map \ K : f.map[k] = {}) /\ c.map = Pruned(f.map, K)
      BY <1>1, StratumFacts
<1>4. g = Reindex(f, Pruned(f.map, K), f.cost)
  <2>1. f \in Formulas
        BY Fields DEF Sound
  <2> QED BY <1>3, <2>1 DEF Reindex, Formulas
<1>5. /\ IsFormula(g) /\ IndexOK(g)
      /\ g.poids = f.poids /\ g.card = f.card /\ g.cards = f.cards
      BY <1>1, <1>3, <1>4, PruneFacts DEF Sound
<1> QED BY <1>2, <1>5, KeepsSame

\* A change of cost.
LEMMA KeepsCost ==
  ASSUME NEW f, Sound(f), NEW c \in Int, NEW g, g = [f EXCEPT !.cost = c]
  PROVE  Keeps(f, g, {}) /\ g.poids = f.poids /\ g.card = f.card
<1>1. f \in Formulas /\ f.map \in Index /\ IsFormula(f)
      BY Fields DEF Sound
<1>2. g = Reindex(f, f.map, c)
      BY <1>1 DEF Reindex, Formulas
<1>3. /\ IsFormula(g)
      /\ g.map = f.map /\ g.poids = f.poids /\ g.card = f.card /\ g.cards = f.cards
      BY <1>1, <1>2, ReindexFacts
<1>4. IndexOK(g)
      BY <1>3 DEF Sound, IndexOK
<1> QED BY <1>3, <1>4, KeepsSame

\* A soft literal, and an output whose weight is spent.
Soft(f, l) == l \in LitsOf(f.poids) /\ Weight(f.poids, l) > 0

Spent(f, l) == l \in LitsOf(f.poids) /\ l < 0 /\ Weight(f.poids, l) = 0 /\ f.card[Var(l)] # NoCard

\* Nothing at all happens.
LEMMA KeepsAll ==
  ASSUME NEW f, Sound(f)
  PROVE  Keeps(f, f, {})
  BY KeepsSame DEF Sound

\* One thing after another.
LEMMA KeepsThen ==
  ASSUME NEW f, NEW g, NEW h, NEW X, Sound(f), Keeps(f, g, X), Keeps(g, h, {})
  PROVE  Keeps(f, h, X)
<1>1. ASSUME NEW x \in LitsOf(f.poids), x \notin X, Weight(f.poids, x) > 0
      PROVE  Weight(h.poids, x) = Weight(f.poids, x)
  <2>1. Weight(g.poids, x) = Weight(f.poids, x) /\ x \in LitsOf(g.poids)
        BY <1>1 DEF Keeps
  <2> QED BY <1>1, <2>1 DEF Keeps
<1>2. ASSUME NEW x \in LitsOf(f.poids), x \notin X, x < 0, f.card[Var(x)] # NoCard
      PROVE  h.card[Var(x)] = f.card[Var(x)] /\ Weight(h.poids, x) = Weight(f.poids, x)
  <2>1. g.card[Var(x)] = f.card[Var(x)] /\ Weight(g.poids, x) = Weight(f.poids, x) /\ x \in LitsOf(g.poids)
        BY <1>2 DEF Keeps
  <2>2. g.card[Var(x)] # NoCard /\ x \notin {}
        BY <1>2, <2>1
  <2>3. h.card[Var(x)] = g.card[Var(x)] /\ Weight(h.poids, x) = Weight(g.poids, x)
        BY <1>2, <2>1, <2>2 DEF Keeps
  <2> QED BY <2>1, <2>3
<1>3. Sound(h) /\ LitsOf(f.poids) \subseteq LitsOf(h.poids)
      BY DEF Keeps
<1>4. \A n \in Nat : InputsFree(f, n) => InputsFree(h, n)
      BY DEF Keeps
<1> QED BY <1>1, <1>2, <1>3, <1>4 DEF Keeps

\* A soft literal stays soft.
LEMMA KeepsSoft ==
  ASSUME NEW f, NEW g, NEW X, Keeps(f, g, X), NEW l, Soft(f, l), l \notin X
  PROVE  Soft(g, l)
  BY DEF Keeps, Soft

\* A spent output stays spent.
LEMMA KeepsSpent ==
  ASSUME NEW f, NEW g, NEW X, Keeps(f, g, X), NEW l, Spent(f, l), l \notin X
  PROVE  Spent(g, l)
  BY DEF Keeps, Spent

\* A soft literal of an output is negative; the negation of a soft literal is
\* neither soft nor spent.
LEMMA SoftFacts ==
  ASSUME NEW f, Sound(f), NEW l, Soft(f, l)
  PROVE  /\ l \in LitsOf(f.poids) /\ l \in Int /\ -l \in LitsOf(f.poids)
         /\ ~Soft(f, -l) /\ ~Spent(f, l) /\ ~Spent(f, -l)
         /\ f.card[Var(l)] # NoCard => l < 0
<1>1. l \in LitsOf(f.poids) /\ Weight(f.poids, l) > 0
      BY DEF Soft
<1>2. Weight(f.poids, l) \in Int /\ -l \in LitsOf(f.poids) /\ Weight(f.poids, -l) = -Weight(f.poids, l)
      BY <1>1, Opposites
<1>3. l \in Int \ {0} /\ Var(l) \in DOMAIN f.poids
      BY <1>1 DEF LitsOf
<1>4. ~Soft(f, -l) /\ ~Spent(f, l) /\ ~Spent(f, -l)
      BY <1>1, <1>2 DEF Soft, Spent
<1>5. ASSUME f.card[Var(l)] # NoCard, ~(l < 0)
      PROVE  FALSE
  <2>1. DOMAIN f.card = DOMAIN f.poids /\ f.poids \in Seq(Int)
        BY Fields DEF Sound
  <2>2. f.poids[Var(l)] <= 0
        BY <1>3, <1>5, <2>1 DEF Sound, CardOK
  <2>3. Var(l) = l /\ Weight(f.poids, l) = f.poids[l]
        BY <1>5 DEF Var, Weight
  <2>4. f.poids[l] \in Int
        BY <1>3, <2>1, <2>3
  <2> QED BY <1>1, <2>2, <2>3, <2>4
<1> QED BY <1>1, <1>2, <1>3, <1>4, <1>5

\* The assumptions follow.
LEMMA ReweighHeavy ==
  ASSUME NEW f, Sound(f), NEW C \in SUBSET LitsOf(f.poids), NEW w \in Nat \ {0}, Affords(f.poids, C, w),
         NEW g, g = Reweigh(f, C, w), NEW m \in Nat \ {0}
  PROVE  Heavy(g.poids, m) = Heavy(f.poids, m) \ {l \in C : Weight(g.poids, l) < m}
<1>1. LitsOf(g.poids) = LitsOf(f.poids)
      BY ReweighFacts DEF Sound
<1>2. \A x \in LitsOf(f.poids) : Weight(g.poids, x) = WeightLeft(f.poids, C, w, x)
      BY ReweighFacts DEF Sound
<1>3. ASSUME NEW x \in LitsOf(f.poids)
      PROVE  Weight(f.poids, x) \in Int /\ -x \in LitsOf(f.poids) /\ Weight(f.poids, -x) = -Weight(f.poids, x)
      BY Opposites
<1>4. ASSUME NEW x \in LitsOf(f.poids)
      PROVE  /\ x \in C => Weight(g.poids, x) = Weight(f.poids, x) - w /\ Weight(f.poids, x) >= w
             /\ x \notin C /\ -x \in C => Weight(g.poids, x) = Weight(f.poids, x) + w /\ Weight(f.poids, x) + w <= 0
             /\ x \notin C /\ -x \notin C => Weight(g.poids, x) = Weight(f.poids, x)
  <2>1. Weight(g.poids, x) = WeightLeft(f.poids, C, w, x)
        BY <1>2
  <2>2. -x \in C => Weight(f.poids, -x) >= w
        BY DEF Affords
  <2> QED BY <1>3, <2>1, <2>2 DEF WeightLeft, Affords
<1>5. ASSUME NEW x \in LitsOf(f.poids)
      PROVE  Weight(g.poids, x) >= m <=> Weight(f.poids, x) >= m /\ ~(x \in C /\ Weight(g.poids, x) < m)
  <2>1. Weight(f.poids, x) \in Int
        BY <1>3
  <2>2. CASE x \in C
        BY <1>4, <2>1, <2>2
  <2>3. CASE x \notin C /\ -x \in C
        BY <1>4, <2>1, <2>3
  <2>4. CASE x \notin C /\ -x \notin C
        BY <1>4, <2>1, <2>4
  <2> QED BY <2>2, <2>3, <2>4
<1> QED BY <1>5, <1>1 DEF Heavy

\* A literal is true at some of the points.
LEMMA TruePoints ==
  ASSUME NEW g, IsFormula(g), NEW l \in LitsOf(g.poids)
  PROVE  True(g, l) \in SUBSET Points
<1>1. g.truth \in Seq(SUBSET Points) /\ DOMAIN g.truth = DOMAIN g.poids
      BY Fields
<1>2. l \in Int \ {0} /\ Var(l) \in DOMAIN g.truth
      BY <1>1 DEF LitsOf
<1>3. CASE l < 0
      BY <1>3 DEF True
<1>4. CASE ~(l < 0)
  <2>1. l \in DOMAIN g.truth
        BY <1>2, <1>4 DEF Var
  <2> QED BY <1>1, <1>4, <2>1 DEF True
<1> QED BY <1>3, <1>4

\* What the user gives is sound.
LEMMA UserSound ==
  ASSUME NEW g, UserFormula(g)
  PROVE  Sound(g) /\ InputsFree(g, Len(g.poids)) /\ Len(g.poids) \in Nat
<1>1. /\ g = [poids |-> g.poids, map |-> g.map, cost |-> g.cost,
              card |-> [v \in DOMAIN g.poids |-> NoCard], cards |-> <<>>,
              truth |-> g.truth, live |-> g.live]
      /\ g.poids \in Seq(Int) /\ g.cost \in Int
      /\ g.truth \in Seq(SUBSET Points) /\ Len(g.truth) = Len(g.poids)
      /\ g.live \in SUBSET Points
      /\ IndexOK(g)
      BY MaxWeightAssumption DEF UserFormula
<1>2. g.map \in Index
  <2> DEFINE K == DOMAIN g.map
  <2>1. g.map = [k \in K |-> g.map[k]] /\ K \subseteq 1..MaxWeight
        BY DEF UserFormula
  <2>2. Lits(g) \subseteq Int \ {0}
        BY <1>1 DEF Lits, Vars
  <2>3. \A k \in K : g.map[k] \in SUBSET (Int \ {0})
        BY <2>2 DEF UserFormula
  <2>4. K \subseteq Nat \ {0} /\ Bounded(K)
        BY <2>1, MaxWeightAssumption DEF Bounded
  <2>5. g.map \in [K -> SUBSET (Int \ {0})]
        BY <2>1, <2>3
  <2> QED BY <2>4, <2>5, IndexIntro
<1>3. /\ g.card = [v \in DOMAIN g.poids |-> NoCard] /\ g.cards = <<>>
      /\ DOMAIN g.poids = 1..Len(g.poids) /\ Len(g.poids) \in Nat
      BY <1>1
<1>4. g.card \in Seq(LitCard) /\ Len(g.card) = Len(g.poids) /\ g.cards \in Seq(Cards)
      BY <1>3, NoCardType
<1>5. g \in Formulas
      BY <1>1, <1>2, <1>4 DEF Formulas
<1>6. IsFormula(g)
      BY <1>1, <1>4, <1>5 DEF IsFormula
<1>7. CardOK(g)
      BY <1>3 DEF CardOK
<1>8. InputsFree(g, Len(g.poids))
      BY <1>3 DEF InputsFree
<1> QED BY <1>1, <1>3, <1>6, <1>7, <1>8 DEF Sound

-----------------------------------------------------------------------------
(***************************************************************************)
(* Soft literals.                                                          *)
(***************************************************************************)
\* The weights stand at finitely many positive variables.
LEMMA PoidsFacts ==
  ASSUME NEW poids \in Seq(Int)
  PROVE  /\ IsFiniteSet(DOMAIN poids) /\ DOMAIN poids \subseteq Nat \ {0}
         /\ \A v \in DOMAIN poids : poids[v] \in Int
<1>1. Len(poids) \in Nat /\ DOMAIN poids = 1..Len(poids)
      OBVIOUS
<1>2. IsFiniteSet(DOMAIN poids)
      BY <1>1, FS_Interval
<1> QED BY <1>1, <1>2

\* A variable costs a number.
LEMMA ChargedNat ==
  ASSUME NEW poids \in Seq(Int), NEW bad
  PROVE  \A v \in DOMAIN poids : Charged(poids, bad, v) \in Nat
<1> SUFFICES ASSUME NEW v \in DOMAIN poids PROVE Charged(poids, bad, v) \in Nat
    OBVIOUS
<1>1. poids[v] \in Int
      OBVIOUS
<1> QED BY <1>1 DEF Charged

ChargeMap(poids, bad) == [v \in DOMAIN poids |-> Charged(poids, bad, v)]

\* A charge is a sum of naturals, one for each variable.
LEMMA ChargeMapFacts ==
  ASSUME NEW poids \in Seq(Int), NEW bad
  PROVE  /\ Charges(poids, bad) = SumFunctionOnSet(ChargeMap(poids, bad), DOMAIN poids)
         /\ \A v \in DOMAIN poids : /\ ChargeMap(poids, bad)[v] = Charged(poids, bad, v)
                                    /\ ChargeMap(poids, bad)[v] \in Nat
                                    /\ ChargeMap(poids, bad)[v] \in Int
<1>1. \A v \in DOMAIN poids : Charged(poids, bad, v) \in Nat
      BY ChargedNat
<1> QED BY <1>1 DEF Charges, ChargeMap

\* Hence it is a natural number.
LEMMA ChargesNat ==
  ASSUME NEW poids \in Seq(Int), NEW bad
  PROVE  Charges(poids, bad) \in Nat
<1>1. IsFiniteSet(DOMAIN poids)
      BY PoidsFacts
<1> QED BY <1>1, ChargeMapFacts, SumNat

\* Only literals of the formula are looked at.
LEMMA ChargesAgree ==
  ASSUME NEW poids \in Seq(Int), NEW a, NEW b, \A l \in LitsOf(poids) : l \in a <=> l \in b
  PROVE  Charges(poids, a) = Charges(poids, b)
<1>1. IsFiniteSet(DOMAIN poids) /\ DOMAIN poids \subseteq Nat \ {0}
      BY PoidsFacts
<1>2. ASSUME NEW v \in DOMAIN poids
      PROVE  ChargeMap(poids, a)[v] \in Int /\ ChargeMap(poids, a)[v] = ChargeMap(poids, b)[v]
  <2>1. v \in LitsOf(poids) /\ -v \in LitsOf(poids)
        BY <1>1 DEF LitsOf, Var
  <2>2. Charged(poids, a, v) = Charged(poids, b, v)
        BY <2>1 DEF Charged
  <2> QED BY <2>2, ChargeMapFacts
<1>3. SumFunctionOnSet(ChargeMap(poids, a), DOMAIN poids) = SumFunctionOnSet(ChargeMap(poids, b), DOMAIN poids)
      BY <1>1, <1>2, SumSame
<1> QED BY <1>3, ChargeMapFacts

\* What weight x of variable n costs.
Price(x, n, bad) == IF x > 0 /\ n \in bad THEN x ELSE IF x < 0 /\ -n \in bad THEN -x ELSE 0

\* A new variable.
LEMMA ChargesAppend ==
  ASSUME NEW poids \in Seq(Int), NEW x \in Int, NEW bad, NEW n, n = Len(poids) + 1
  PROVE  Charges(Append(poids, x), bad) = Charges(poids, bad) + Price(x, n, bad)
<1> DEFINE q == Append(poids, x)
           D == DOMAIN poids
           a == ChargeMap(poids, bad)
           b == ChargeMap(q, bad)
<1>1. q \in Seq(Int) /\ DOMAIN q = D \cup {n} /\ n \notin D /\ q[n] = x /\ \A v \in D : q[v] = poids[v]
      BY AppendFacts
<1> HIDE DEF q
<1>2. IsFiniteSet(D)
      BY PoidsFacts
<1>3. /\ \A v \in D : a[v] = Charged(poids, bad, v) /\ a[v] \in Int
      /\ Charges(poids, bad) = SumFunctionOnSet(a, D)
      BY ChargeMapFacts
<1>4. /\ \A v \in D \cup {n} : b[v] = Charged(q, bad, v) /\ b[v] \in Int
      /\ Charges(q, bad) = SumFunctionOnSet(b, D \cup {n})
      BY <1>1, ChargeMapFacts
<1>5. b[n] = Price(x, n, bad)
      BY <1>1, <1>4 DEF Charged, Price
<1>6. \A v \in D : b[v] = a[v]
      BY <1>1, <1>3, <1>4 DEF Charged
<1> HIDE DEF a, b, D
<1>7. SumFunctionOnSet(b, D \cup {n}) = b[n] + SumFunctionOnSet(b, D)
      BY <1>1, <1>2, <1>4, SumAdd
<1>8. SumFunctionOnSet(a, D) = SumFunctionOnSet(b, D) /\ SumFunctionOnSet(b, D) \in Int
      BY <1>2, <1>3, <1>6, SumSame, SumInt
<1>9. b[n] \in Int
      BY <1>4
<1>10. Charges(q, bad) = Charges(poids, bad) + b[n]
      BY <1>3, <1>4, <1>7, <1>8, <1>9
<1> QED BY <1>5, <1>10 DEF q

\* A variable whose weight changes.
LEMMA ChargesSet ==
  ASSUME NEW poids \in Seq(Int), NEW q \in Seq(Int), NEW bad, NEW v \in DOMAIN poids,
         DOMAIN q = DOMAIN poids, \A u \in DOMAIN poids \ {v} : q[u] = poids[u]
  PROVE  Charges(q, bad) = Charges(poids, bad) + (Price(q[v], v, bad) - Price(poids[v], v, bad))
<1> DEFINE D == DOMAIN poids
           a == ChargeMap(poids, bad)
           b == ChargeMap(q, bad)
<1>1. IsFiniteSet(D)
      BY PoidsFacts
<1>2. /\ \A u \in D : a[u] = Charged(poids, bad, u) /\ a[u] \in Int
      /\ Charges(poids, bad) = SumFunctionOnSet(a, D)
      BY ChargeMapFacts
<1>3. /\ \A u \in D : b[u] = Charged(q, bad, u) /\ b[u] \in Int
      /\ Charges(q, bad) = SumFunctionOnSet(b, D)
      BY ChargeMapFacts
<1>4. \A u \in D : u # v => a[u] = b[u]
      BY <1>2, <1>3 DEF Charged
<1>5. a[v] = Price(poids[v], v, bad) /\ b[v] = Price(q[v], v, bad)
      BY <1>2, <1>3 DEF Charged, Price
<1>6. v \in D
      OBVIOUS
<1> HIDE DEF a, b, D
<1>7. \A u \in D : a[u] \in Int /\ b[u] \in Int /\ (u # v => a[u] = b[u])
      BY <1>2, <1>3, <1>4
<1>8. SumFunctionOnSet(b, D) = SumFunctionOnSet(a, D) + (b[v] - a[v])
      BY <1>1, <1>6, <1>7, SumChange
<1> QED BY <1>2, <1>3, <1>5, <1>8

\* A falsified soft literal costs its weight.
LEMMA ChargesTerm ==
  ASSUME NEW poids \in Seq(Int), NEW bad, NEW l \in LitsOf(poids), l \in bad, Weight(poids, l) > 0
  PROVE  Weight(poids, l) <= Charges(poids, bad)
<1>1. Var(l) \in DOMAIN poids /\ l \in Int \ {0}
      BY DEF LitsOf
<1>2. Charged(poids, bad, Var(l)) = Weight(poids, l)
  <2>1. poids[Var(l)] \in Int
        BY <1>1
  <2>2. CASE l > 0
        BY <1>1, <2>1, <2>2 DEF Charged, Weight, Var
  <2>3. CASE l < 0
    <3>1. -(-l) = l /\ Var(l) = -l
          BY <1>1, <2>3 DEF Var
    <3> QED BY <1>1, <2>1, <2>3, <3>1 DEF Charged, Weight
  <2> QED BY <1>1, <2>2, <2>3
<1>3. IsFiniteSet(DOMAIN poids)
      BY PoidsFacts
<1>4. ChargeMap(poids, bad)[Var(l)] <= SumFunctionOnSet(ChargeMap(poids, bad), DOMAIN poids)
      BY <1>1, <1>3, ChargeMapFacts, SumTerm
<1> QED BY <1>1, <1>2, <1>4, ChargeMapFacts

\* Nothing is to be paid where every soft literal holds.
LEMMA ChargesNone ==
  ASSUME NEW poids \in Seq(Int), NEW bad,
         \A l \in LitsOf(poids) : Weight(poids, l) > 0 => l \notin bad
  PROVE  Charges(poids, bad) = 0
<1>1. IsFiniteSet(DOMAIN poids) /\ DOMAIN poids \subseteq Nat \ {0}
      BY PoidsFacts
<1>2. ASSUME NEW v \in DOMAIN poids
      PROVE  ChargeMap(poids, bad)[v] = 0
  <2>1. v \in LitsOf(poids) /\ -v \in LitsOf(poids) /\ v \in Nat \ {0} /\ poids[v] \in Int
        BY <1>1 DEF LitsOf, Var
  <2>2. Weight(poids, v) = poids[v] /\ Weight(poids, -v) = -poids[v]
        BY <2>1 DEF Weight
  <2>3. poids[v] > 0 => v \notin bad
        BY <2>1, <2>2
  <2>4. poids[v] < 0 => -v \notin bad
        BY <2>1, <2>2
  <2>5. Charged(poids, bad, v) = 0
        BY <2>3, <2>4 DEF Charged
  <2> QED BY <2>5, ChargeMapFacts
<1> QED BY <1>1, <1>2, ChargeMapFacts, SumZero

\* Fewer falsified literals cost less.
LEMMA ChargesSubset ==
  ASSUME NEW poids \in Seq(Int), NEW a, NEW b,
         \A l \in LitsOf(poids) : Weight(poids, l) > 0 /\ l \in a => l \in b
  PROVE  Charges(poids, a) <= Charges(poids, b)
<1>1. IsFiniteSet(DOMAIN poids) /\ DOMAIN poids \subseteq Nat \ {0}
      BY PoidsFacts
<1>2. ASSUME NEW v \in DOMAIN poids
      PROVE  ChargeMap(poids, a)[v] <= ChargeMap(poids, b)[v]
  <2>1. v \in LitsOf(poids) /\ -v \in LitsOf(poids) /\ v \in Nat \ {0} /\ poids[v] \in Int
        BY <1>1 DEF LitsOf, Var
  <2>2. Weight(poids, v) = poids[v] /\ Weight(poids, -v) = -poids[v]
        BY <2>1 DEF Weight
  <2>3. poids[v] > 0 /\ v \in a => v \in b
        BY <2>1, <2>2
  <2>4. poids[v] < 0 /\ -v \in a => -v \in b
        BY <2>1, <2>2
  <2>5. Charged(poids, a, v) <= Charged(poids, b, v)
        BY <2>1, <2>3, <2>4 DEF Charged
  <2> QED BY <2>5, ChargeMapFacts
<1>3. \A v \in DOMAIN poids : ChargeMap(poids, a)[v] \in Int /\ ChargeMap(poids, b)[v] \in Int
      BY ChargeMapFacts
<1> QED BY <1>1, <1>2, <1>3, ChargeMapFacts, SumMonotone

\* As many x as y, if each x is of one y.
LEMMA SameSize ==
  ASSUME NEW S, NEW T, NEW g \in [S -> T], IsFiniteSet(S),
         \A x, y \in S : g[x] = g[y] => x = y, \A y \in T : \E x \in S : g[x] = y
  PROVE  IsFiniteSet(T) /\ Cardinality(T) = Cardinality(S)
<1>1. g \in Bijection(S, T)
      BY DEF Bijection, Injection, Surjection, IsInjective
<1>2. ExistsBijection(S, T)
      BY <1>1 DEF ExistsBijection
<1> QED BY <1>2, FS_Bijection

\* The literals of a formula are finitely many.
LEMMA LitsOfFinite ==
  ASSUME NEW poids \in Seq(Int)
  PROVE  IsFiniteSet(LitsOf(poids))
<1> DEFINE n == Len(poids)
           m == -n
<1>1. n \in Nat /\ m \in Int /\ n \in Int /\ DOMAIN poids = 1..n
      OBVIOUS
<1>2. LitsOf(poids) \subseteq m..n
      BY <1>1 DEF LitsOf, Var
<1>3. IsFiniteSet(m..n)
      BY <1>1, FS_Interval
<1> QED BY <1>2, <1>3, FS_Subset

\* w is taken from each literal of C.
LEMMA ChargesLighter ==
  ASSUME NEW poids \in Seq(Int), NEW C \in SUBSET LitsOf(poids), NEW w \in Nat \ {0},
         Affords(poids, C, w), NEW bad
  PROVE  /\ Charges(poids, bad) = Charges(Lighter(poids, C, w), bad) + w * Cardinality(C \cap bad)
         /\ IsFiniteSet(C \cap bad) /\ Cardinality(C \cap bad) \in Nat
<1> DEFINE q == Lighter(poids, C, w)
           D == DOMAIN poids
           B == C \cap bad
           Y == {v \in D : v \in B \/ -v \in B}
           a == ChargeMap(poids, bad)
           b == ChargeMap(q, bad)
           d == [v \in D |-> IF v \in Y THEN w ELSE 0]
<1>1. q \in Seq(Int) /\ DOMAIN q = D
      BY ReweighShape
<1>2. IsFiniteSet(D) /\ D \subseteq Nat \ {0} /\ \A v \in D : poids[v] \in Int
      BY PoidsFacts
<1>3. IsFiniteSet(B)
  <2>1. B \subseteq LitsOf(poids)
        OBVIOUS
  <2> QED BY <2>1, LitsOfFinite, FS_Subset
<1>4. Cardinality(B) \in Nat
      BY <1>3, FS_CardinalityType
<1>5. /\ \A v \in D : a[v] = Charged(poids, bad, v) /\ a[v] \in Int
      /\ Charges(poids, bad) = SumFunctionOnSet(a, D)
      BY ChargeMapFacts
<1>6. /\ \A v \in D : b[v] = Charged(q, bad, v) /\ b[v] \in Int
      /\ Charges(q, bad) = SumFunctionOnSet(b, D)
      BY <1>1, ChargeMapFacts
<1>7. ASSUME NEW v \in D PROVE d[v] \in Int /\ a[v] = b[v] + d[v]
  <2>1. v \in Nat \ {0} /\ poids[v] \in Int /\ -v \in Int /\ -(-v) = v
        BY <1>2
  <2>2. q[v] = IF v \in C THEN poids[v] - w ELSE IF -v \in C THEN poids[v] + w ELSE poids[v]
        BY DEF Lighter
  <2>3. v \in C => poids[v] >= w
        BY <2>1 DEF Affords, Weight
  <2>4. -v \in C => -poids[v] >= w
        BY <2>1 DEF Affords, Weight
  <2>5. v \in Y <=> (v \in C /\ v \in bad) \/ (-v \in C /\ -v \in bad)
        OBVIOUS
  <2>6. d[v] = IF v \in Y THEN w ELSE 0
        OBVIOUS
  <2> HIDE DEF d, Y, q
  <2>7. Charged(poids, bad, v) = Charged(q, bad, v) + d[v]
    <3>1. CASE v \in C
          BY <2>1, <2>2, <2>3, <2>4, <2>5, <2>6, <3>1 DEF Charged
    <3>2. CASE v \notin C /\ -v \in C
          BY <2>1, <2>2, <2>4, <2>5, <2>6, <3>2 DEF Charged
    <3>3. CASE v \notin C /\ -v \notin C
          BY <2>1, <2>2, <2>5, <2>6, <3>3 DEF Charged
    <3> QED BY <3>1, <3>2, <3>3
  <2> QED BY <1>5, <1>6, <2>6, <2>7
<1>8. Cardinality(D \cap Y) = Cardinality(B)
  <2> DEFINE g == [l \in B |-> Var(l)]
  <2>1. ASSUME NEW l \in B
        PROVE  /\ l \in Int \ {0} /\ Var(l) \in D \cap Y /\ g[l] = Var(l)
               /\ Weight(poids, l) >= w /\ Weight(poids, l) = IF l < 0 THEN -poids[Var(l)] ELSE poids[Var(l)]
    <3>1. l \in Int \ {0} /\ Var(l) \in D
          BY DEF LitsOf
    <3>2. Var(l) = l \/ -Var(l) = l
          BY <3>1 DEF Var
    <3>3. Var(l) \in Y
          BY <3>1, <3>2
    <3>4. Weight(poids, l) >= w
          BY DEF Affords
    <3>5. Weight(poids, l) = IF l < 0 THEN -poids[Var(l)] ELSE poids[Var(l)]
          BY DEF Weight, Var
    <3> QED BY <3>1, <3>3, <3>4, <3>5
  <2>2. g \in [B -> D \cap Y]
        BY <2>1
  <2>3. ASSUME NEW x \in B, NEW y \in B, g[x] = g[y] PROVE x = y
    <3>1. Var(x) = Var(y) /\ x \in Int /\ y \in Int /\ poids[Var(x)] \in Int
          BY <1>2, <2>1, <2>3
    <3>2. x < 0 <=> y < 0
          BY <2>1, <3>1
    <3> QED BY <3>1, <3>2 DEF Var
  <2>4. ASSUME NEW v \in D \cap Y PROVE \E x \in B : g[x] = v
    <3>1. v \in Nat \ {0} /\ Var(v) = v /\ Var(-v) = v
          BY <1>2 DEF Var
    <3>2. v \in B \/ -v \in B
          OBVIOUS
    <3> QED BY <3>1, <3>2
  <2> HIDE DEF g, B, Y, D
  <2> QED BY <1>3, <2>2, <2>3, <2>4, SameSize
<1>9. \A v \in D : d[v] = IF v \in Y THEN w ELSE 0
      OBVIOUS
<1>10. D = DOMAIN poids /\ w \in Int
      OBVIOUS
<1> HIDE DEF a, b, d, Y, D, q, B
<1>11. SumFunctionOnSet(d, D) = w * Cardinality(D \cap Y)
      BY <1>2, <1>9, <1>10, SumConstant
<1>12. SumFunctionOnSet(a, D) = SumFunctionOnSet(b, D) + SumFunctionOnSet(d, D)
  <2>1. \A v \in D : b[v] \in Int /\ d[v] \in Int /\ a[v] = b[v] + d[v]
        BY <1>6, <1>7
  <2>2. IsFiniteSet(D)
        BY <1>2
  <2> QED BY ONLY <2>1, <2>2, SumPlus
<1>13. Charges(poids, bad) = Charges(q, bad) + w * Cardinality(B)
      BY <1>5, <1>6, <1>8, <1>11, <1>12
<1> QED BY <1>3, <1>4, <1>13 DEF q, B

\* Literals become hard.
LEMMA ChargesFreed ==
  ASSUME NEW poids \in Seq(Int), NEW hard \in SUBSET LitsOf(poids), NEW bad
  PROVE  /\ Charges(Freed(poids, hard), bad) <= Charges(poids, bad)
         /\ (\A l \in hard : Weight(poids, l) >= 0 /\ l \notin bad) =>
              Charges(Freed(poids, hard), bad) = Charges(poids, bad)
<1> DEFINE q == Freed(poids, hard)
           D == DOMAIN poids
           a == ChargeMap(poids, bad)
           b == ChargeMap(q, bad)
<1>1. /\ q \in Seq(Int) /\ DOMAIN q = D
      /\ \A v \in D : q[v] = IF v \in hard \/ -v \in hard THEN 0 ELSE poids[v]
  <2>1. \A v \in D : q[v] = IF v \in hard \/ -v \in hard THEN 0 ELSE poids[v]
        BY DEF Freed
  <2> QED BY <2>1, FreedWeights
<1> HIDE DEF q
<1>2. IsFiniteSet(D) /\ D \subseteq Nat \ {0} /\ \A v \in D : poids[v] \in Int
      BY PoidsFacts
<1>3. /\ \A v \in D : a[v] = Charged(poids, bad, v) /\ a[v] \in Int /\ a[v] \in Nat
      /\ Charges(poids, bad) = SumFunctionOnSet(a, D)
      BY ChargeMapFacts
<1>4. /\ \A v \in D : b[v] = Charged(q, bad, v) /\ b[v] \in Int
      /\ Charges(q, bad) = SumFunctionOnSet(b, D)
      BY <1>1, ChargeMapFacts
<1>5. ASSUME NEW v \in D PROVE b[v] <= a[v]
  <2>1. CASE q[v] = 0
    <3>1. Charged(q, bad, v) = 0
          BY <2>1 DEF Charged
    <3> QED BY <1>3, <1>4, <3>1
  <2>2. CASE q[v] = poids[v]
    <3>1. Charged(q, bad, v) = Charged(poids, bad, v)
          BY <2>2 DEF Charged
    <3> QED BY <1>3, <1>4, <3>1
  <2> QED BY <1>1, <2>1, <2>2
<1>6. ASSUME \A l \in hard : Weight(poids, l) >= 0 /\ l \notin bad, NEW v \in D
      PROVE  b[v] = a[v]
  <2>1. v \in Nat \ {0} /\ poids[v] \in Int /\ -(-v) = v /\ v > 0 /\ -v < 0
        BY <1>2
  <2>2. Weight(poids, v) = poids[v] /\ Weight(poids, -v) = -poids[v]
        BY <2>1 DEF Weight
  <2>3. v \in hard => poids[v] >= 0 /\ v \notin bad
        BY <1>6, <2>1, <2>2
  <2>4. -v \in hard => -poids[v] >= 0 /\ -v \notin bad
        BY <1>6, <2>1, <2>2
  <2>5. Charged(q, bad, v) = Charged(poids, bad, v)
        BY <1>1, <2>1, <2>3, <2>4 DEF Charged
  <2> QED BY <1>3, <1>4, <2>5
<1> HIDE DEF a, b, D
<1>7. SumFunctionOnSet(b, D) <= SumFunctionOnSet(a, D)
  <2>1. IsFiniteSet(D) /\ (\A v \in D : a[v] \in Int) /\ (\A v \in D : b[v] \in Int) /\ \A v \in D : b[v] <= a[v]
        BY <1>2, <1>3, <1>4, <1>5
  <2> QED BY ONLY <2>1, SumMonotone
<1>8. (\A l \in hard : Weight(poids, l) >= 0 /\ l \notin bad) => SumFunctionOnSet(b, D) = SumFunctionOnSet(a, D)
  <2> SUFFICES ASSUME \A l \in hard : Weight(poids, l) >= 0 /\ l \notin bad
               PROVE  SumFunctionOnSet(b, D) = SumFunctionOnSet(a, D)
      OBVIOUS
  <2>1. IsFiniteSet(D) /\ \A v \in D : b[v] = a[v] /\ b[v] \in Int /\ a[v] \in Int
        BY <1>2, <1>3, <1>4, <1>6
  <2> QED BY ONLY <2>1, SumSame
<1> QED BY <1>3, <1>4, <1>7, <1>8 DEF q

-----------------------------------------------------------------------------
(***************************************************************************)
(* Cardinality constraints.                                                *)
(***************************************************************************)
\* How many of the literals of a constraint hold when those of bad are false.
Count(bad, lits) == Cardinality({l \in lits : -l \in bad})

\* What is owed beyond the first n outputs.
Owes(bad, lits, w, n) ==
    IF Count(bad, lits) - 1 - n > 0 THEN w * (Count(bad, lits) - 1 - n) ELSE 0

\* The number of outputs a constraint has.
Paid(x) == Cardinality(DOMAIN x.outs)

CardOwes(bad, x) == Owes(bad, x.lits, x.w, Paid(x))

CardsOwe(bad, cards) ==
    SumFunctionOnSet([c \in DOMAIN cards |-> CardOwes(bad, cards[c])], DOMAIN cards)

PendingOwe(bad, q) ==
    SumFunctionOnSet([i \in DOMAIN q |-> Owes(bad, q[i].lits, q[i].w, 0)], DOMAIN q)

\* What is to be paid in all, q being the constraints still to be added.
Total(f, q, bad) == f.cost + Charges(f.poids, bad) + CardsOwe(bad, f.cards) + PendingOwe(bad, q)

\* Outputs are numbered from 1, and none is without a use.
CardWell(x) ==
    /\ IsFiniteSet(x.lits) /\ Paid(x) \in Nat /\ DOMAIN x.outs = 1..Paid(x)
    /\ x.w \in Nat \ {0}
    /\ \A k \in DOMAIN x.outs : k < Cardinality(x.lits)

\* A constraint still to be added.
PendingWell(x) == IsFiniteSet(x.lits) /\ x.w \in Nat \ {0}

\* A constraint has no more true literals than literals.
LEMMA CountFacts ==
  ASSUME NEW lits, IsFiniteSet(lits), NEW bad
  PROVE  /\ Count(bad, lits) \in Nat /\ Cardinality(lits) \in Nat
         /\ Count(bad, lits) <= Cardinality(lits)
<1> DEFINE S == {l \in lits : -l \in bad}
<1>1. S \subseteq lits
      OBVIOUS
<1>2. IsFiniteSet(S) /\ Cardinality(S) <= Cardinality(lits)
      BY <1>1, FS_Subset
<1>3. Cardinality(S) \in Nat /\ Cardinality(lits) \in Nat
      BY <1>2, FS_CardinalityType
<1> QED BY <1>2, <1>3 DEF Count

\* What a constraint owes is never negative.
LEMMA OwesNat ==
  ASSUME NEW lits, IsFiniteSet(lits), NEW bad, NEW w \in Nat, NEW n \in Nat
  PROVE  Owes(bad, lits, w, n) \in Nat
<1>1. Count(bad, lits) \in Nat
      BY CountFacts
<1> DEFINE m == Count(bad, lits) - 1 - n
<1>2. m \in Int
      BY <1>1
<1> HIDE DEF m
<1>3. m > 0 => w * m \in Nat
      BY <1>2
<1> QED BY <1>3 DEF Owes, m

\* One more output.
LEMMA OwesNext ==
  ASSUME NEW lits, IsFiniteSet(lits), NEW bad, NEW w \in Nat, NEW n \in Nat
  PROVE  Owes(bad, lits, w, n) =
           Owes(bad, lits, w, n + 1) + IF Count(bad, lits) > n + 1 THEN w ELSE 0
<1> DEFINE m == Count(bad, lits)
<1>1. m \in Nat
      BY CountFacts
<1>2. /\ Owes(bad, lits, w, n) = IF m - 1 - n > 0 THEN w * (m - 1 - n) ELSE 0
      /\ Owes(bad, lits, w, n + 1) = IF m - 1 - (n + 1) > 0 THEN w * (m - 1 - (n + 1)) ELSE 0
      BY DEF Owes
<1> HIDE DEF m
<1>3. CASE m > n + 2
  <2> DEFINE d == m - 1 - (n + 1)
  <2>1. d \in Nat /\ d > 0 /\ m - 1 - n = d + 1
        BY <1>1, <1>3
  <2> HIDE DEF d
  <2>2. w * (d + 1) = w * d + w
        BY <2>1
  <2>3. Owes(bad, lits, w, n) = w * (d + 1) /\ Owes(bad, lits, w, n + 1) = w * d
        BY <1>1, <1>2, <1>3, <2>1 DEF d
  <2> QED BY <1>1, <1>3, <2>2, <2>3 DEF m
<1>4. CASE m = n + 2
  <2>1. m - 1 - n = 1 /\ m - 1 - (n + 1) = 0 /\ w * 1 = w
        BY <1>1, <1>4
  <2> QED BY <1>1, <1>2, <1>4, <2>1 DEF m
<1>5. CASE m < n + 2
  <2>1. ~(m - 1 - n > 0) /\ ~(m - 1 - (n + 1) > 0) /\ ~(m > n + 1)
        BY <1>1, <1>5
  <2> QED BY <1>2, <2>1 DEF m
<1> QED BY <1>1, <1>3, <1>4, <1>5

\* Nothing is owed if at most one more holds than there are outputs.
LEMMA OwesNone ==
  ASSUME NEW lits, IsFiniteSet(lits), NEW bad, NEW w \in Nat, NEW n \in Nat,
         Count(bad, lits) <= n + 1
  PROVE  Owes(bad, lits, w, n) = 0
<1>1. Count(bad, lits) \in Nat
      BY CountFacts
<1>2. ~(Count(bad, lits) - 1 - n > 0)
      BY <1>1
<1> QED BY <1>2 DEF Owes

\* Only the literals of the constraint are looked at.
LEMMA CountAgree ==
  ASSUME NEW lits, NEW a, NEW b, \A l \in lits : -l \in a <=> -l \in b
  PROVE  Count(a, lits) = Count(b, lits)
<1>1. {l \in lits : -l \in a} = {l \in lits : -l \in b}
      OBVIOUS
<1> QED BY <1>1 DEF Count

-----------------------------------------------------------------------------
(***************************************************************************)
(* Sums over constraints.                                                  *)
(***************************************************************************)
OweMap(bad, cards) == [c \in DOMAIN cards |-> CardOwes(bad, cards[c])]

CardsWell(cards) == \A c \in DOMAIN cards : CardWell(cards[c])

\* What the constraints owe is a sum of naturals, one for each.
LEMMA OweMapFacts ==
  ASSUME NEW cards \in Seq(Cards), CardsWell(cards), NEW bad
  PROVE  /\ CardsOwe(bad, cards) = SumFunctionOnSet(OweMap(bad, cards), DOMAIN cards)
         /\ IsFiniteSet(DOMAIN cards)
         /\ \A c \in DOMAIN cards : /\ OweMap(bad, cards)[c] = CardOwes(bad, cards[c])
                                    /\ OweMap(bad, cards)[c] \in Nat
                                    /\ OweMap(bad, cards)[c] \in Int
<1>1. ASSUME NEW c \in DOMAIN cards PROVE CardOwes(bad, cards[c]) \in Nat
      BY OwesNat DEF CardsWell, CardWell, CardOwes
<1>2. Len(cards) \in Nat /\ DOMAIN cards = 1..Len(cards)
      OBVIOUS
<1>3. IsFiniteSet(DOMAIN cards)
      BY <1>2, FS_Interval
<1> QED BY <1>1, <1>3 DEF CardsOwe, OweMap

\* Hence it is a natural number.
LEMMA CardsOweNat ==
  ASSUME NEW cards \in Seq(Cards), CardsWell(cards), NEW bad
  PROVE  CardsOwe(bad, cards) \in Nat
  BY OweMapFacts, SumNat

\* One constraint changes.
LEMMA CardsOweChange ==
  ASSUME NEW cards \in Seq(Cards), CardsWell(cards), NEW d \in Seq(Cards), CardsWell(d), NEW bad,
         DOMAIN d = DOMAIN cards, NEW c \in DOMAIN cards,
         \A i \in DOMAIN cards \ {c} : d[i] = cards[i]
  PROVE  CardsOwe(bad, d) = CardsOwe(bad, cards) + (CardOwes(bad, d[c]) - CardOwes(bad, cards[c]))
<1> DEFINE D == DOMAIN cards
           a == OweMap(bad, cards)
           b == OweMap(bad, d)
<1>1. /\ CardsOwe(bad, cards) = SumFunctionOnSet(a, D) /\ IsFiniteSet(D)
      /\ \A i \in D : a[i] = CardOwes(bad, cards[i]) /\ a[i] \in Int
      BY OweMapFacts
<1>2. /\ CardsOwe(bad, d) = SumFunctionOnSet(b, D)
      /\ \A i \in D : b[i] = CardOwes(bad, d[i]) /\ b[i] \in Int
      BY OweMapFacts
<1>3. c \in D /\ \A i \in D : i # c => a[i] = b[i]
      BY <1>1, <1>2
<1> HIDE DEF a, b, D
<1>4. SumFunctionOnSet(b, D) = SumFunctionOnSet(a, D) + (b[c] - a[c])
  <2>1. \A i \in D : a[i] \in Int /\ b[i] \in Int /\ (i # c => a[i] = b[i])
        BY <1>1, <1>2, <1>3
  <2> QED BY <1>1, <1>3, <2>1, SumChange
<1> QED BY <1>1, <1>2, <1>3, <1>4

\* One more constraint.
LEMMA CardsOweAppend ==
  ASSUME NEW cards \in Seq(Cards), CardsWell(cards), NEW x \in Cards, CardWell(x), NEW bad
  PROVE  CardsOwe(bad, Append(cards, x)) = CardsOwe(bad, cards) + CardOwes(bad, x)
<1> DEFINE n == Len(cards) + 1
           d == Append(cards, x)
           D == DOMAIN cards
           a == OweMap(bad, cards)
           b == OweMap(bad, d)
<1>1. d \in Seq(Cards) /\ DOMAIN d = D \cup {n} /\ n \notin D /\ d[n] = x /\ \A c \in D : d[c] = cards[c]
  <2>1. d \in Seq(Cards)
        OBVIOUS
  <2> QED BY <2>1, AppendFacts
<1> HIDE DEF d, n
<1>2. CardsWell(d)
      BY <1>1 DEF CardsWell
<1>3. /\ CardsOwe(bad, cards) = SumFunctionOnSet(a, D) /\ IsFiniteSet(D)
      /\ \A i \in D : a[i] = CardOwes(bad, cards[i]) /\ a[i] \in Int
      BY OweMapFacts
<1>4. /\ CardsOwe(bad, d) = SumFunctionOnSet(b, D \cup {n})
      /\ \A i \in D \cup {n} : b[i] = CardOwes(bad, d[i]) /\ b[i] \in Int
      BY <1>1, <1>2, OweMapFacts
<1>5. b[n] = CardOwes(bad, x) /\ b[n] \in Int /\ \A i \in D : b[i] = a[i]
      BY <1>1, <1>3, <1>4
<1> HIDE DEF a, b, D
<1>6. SumFunctionOnSet(b, D \cup {n}) = b[n] + SumFunctionOnSet(b, D)
      BY <1>1, <1>3, <1>4, SumAdd
<1>7. SumFunctionOnSet(a, D) = SumFunctionOnSet(b, D) /\ SumFunctionOnSet(b, D) \in Int
      BY <1>3, <1>5, SumSame, SumInt
<1>8. CardsOwe(bad, d) = CardsOwe(bad, cards) + b[n]
      BY <1>3, <1>4, <1>5, <1>6, <1>7
<1> QED BY <1>5, <1>8 DEF d

\* Only the literals of the constraints are looked at.
LEMMA CardsOweAgree ==
  ASSUME NEW cards \in Seq(Cards), CardsWell(cards), NEW a, NEW b,
         \A c \in DOMAIN cards : \A l \in cards[c].lits : -l \in a <=> -l \in b
  PROVE  CardsOwe(a, cards) = CardsOwe(b, cards)
<1>1. ASSUME NEW c \in DOMAIN cards
      PROVE  OweMap(a, cards)[c] \in Int /\ OweMap(a, cards)[c] = OweMap(b, cards)[c]
  <2>1. Count(a, cards[c].lits) = Count(b, cards[c].lits)
        BY CountAgree
  <2>2. CardOwes(a, cards[c]) = CardOwes(b, cards[c])
        BY <2>1 DEF CardOwes, Owes
  <2> QED BY <2>2, OweMapFacts
<1>2. SumFunctionOnSet(OweMap(a, cards), DOMAIN cards) = SumFunctionOnSet(OweMap(b, cards), DOMAIN cards)
      BY <1>1, OweMapFacts, SumSame
<1> QED BY <1>2, OweMapFacts

\* Constraints that owe nothing one by one owe nothing together.
LEMMA CardsOweNone ==
  ASSUME NEW cards \in Seq(Cards), CardsWell(cards), NEW bad,
         \A c \in DOMAIN cards : CardOwes(bad, cards[c]) = 0
  PROVE  CardsOwe(bad, cards) = 0
<1>1. \A c \in DOMAIN cards : OweMap(bad, cards)[c] = 0
      BY OweMapFacts
<1> QED BY <1>1, OweMapFacts, SumZero

PendingMap(bad, q) == [i \in DOMAIN q |-> Owes(bad, q[i].lits, q[i].w, 0)]

QueueWell(q) == \A i \in DOMAIN q : PendingWell(q[i])

\* What the pending constraints owe is a sum of naturals, one for each.
LEMMA PendingMapFacts ==
  ASSUME NEW S, NEW q \in Seq(S), QueueWell(q), NEW bad
  PROVE  /\ PendingOwe(bad, q) = SumFunctionOnSet(PendingMap(bad, q), DOMAIN q)
         /\ IsFiniteSet(DOMAIN q)
         /\ \A i \in DOMAIN q : /\ PendingMap(bad, q)[i] = Owes(bad, q[i].lits, q[i].w, 0)
                                /\ PendingMap(bad, q)[i] \in Nat
                                /\ PendingMap(bad, q)[i] \in Int
<1>1. ASSUME NEW i \in DOMAIN q PROVE Owes(bad, q[i].lits, q[i].w, 0) \in Nat
      BY OwesNat DEF QueueWell, PendingWell
<1>2. Len(q) \in Nat /\ DOMAIN q = 1..Len(q)
      OBVIOUS
<1>3. IsFiniteSet(DOMAIN q)
      BY <1>2, FS_Interval
<1> QED BY <1>1, <1>3 DEF PendingOwe, PendingMap

\* Hence it is a natural number.
LEMMA PendingOweNat ==
  ASSUME NEW S, NEW q \in Seq(S), QueueWell(q), NEW bad
  PROVE  PendingOwe(bad, q) \in Nat
  BY PendingMapFacts, SumNat

\* Nothing pending, nothing owed.
LEMMA PendingOweNone ==
  ASSUME NEW bad
  PROVE  PendingOwe(bad, <<>>) = 0
<1>1. DOMAIN <<>> = {}
      OBVIOUS
<1> QED BY <1>1, SumEmpty DEF PendingOwe

\* Only the literals of the pending constraints are looked at.
LEMMA PendingOweAgree ==
  ASSUME NEW S, NEW q \in Seq(S), QueueWell(q), NEW a, NEW b,
         \A i \in DOMAIN q : \A l \in q[i].lits : -l \in a <=> -l \in b
  PROVE  PendingOwe(a, q) = PendingOwe(b, q)
<1>1. ASSUME NEW i \in DOMAIN q
      PROVE  PendingMap(a, q)[i] \in Int /\ PendingMap(a, q)[i] = PendingMap(b, q)[i]
  <2>1. Count(a, q[i].lits) = Count(b, q[i].lits)
        BY CountAgree
  <2>2. Owes(a, q[i].lits, q[i].w, 0) = Owes(b, q[i].lits, q[i].w, 0)
        BY <2>1 DEF Owes
  <2> QED BY <2>2, PendingMapFacts
<1>2. SumFunctionOnSet(PendingMap(a, q), DOMAIN q) = SumFunctionOnSet(PendingMap(b, q), DOMAIN q)
      BY <1>1, PendingMapFacts, SumSame
<1> QED BY <1>2, PendingMapFacts

\* A core is noted.
LEMMA PendingOweAppend ==
  ASSUME NEW S, NEW q \in Seq(S), QueueWell(q), NEW x \in S, PendingWell(x), NEW bad
  PROVE  /\ QueueWell(Append(q, x))
         /\ PendingOwe(bad, Append(q, x)) = PendingOwe(bad, q) + Owes(bad, x.lits, x.w, 0)
<1> DEFINE n == Len(q) + 1
           r == Append(q, x)
           D == DOMAIN q
           a == PendingMap(bad, q)
           b == PendingMap(bad, r)
<1>1. r \in Seq(S) /\ DOMAIN r = D \cup {n} /\ n \notin D /\ r[n] = x /\ \A i \in D : r[i] = q[i]
  <2>1. r \in Seq(S)
        OBVIOUS
  <2> QED BY <2>1, AppendFacts
<1> HIDE DEF r, n
<1>2. QueueWell(r)
      BY <1>1 DEF QueueWell
<1>3. /\ PendingOwe(bad, q) = SumFunctionOnSet(a, D) /\ IsFiniteSet(D)
      /\ \A i \in D : a[i] = Owes(bad, q[i].lits, q[i].w, 0) /\ a[i] \in Int
      BY PendingMapFacts
<1>4. /\ PendingOwe(bad, r) = SumFunctionOnSet(b, D \cup {n})
      /\ \A i \in D \cup {n} : b[i] = Owes(bad, r[i].lits, r[i].w, 0) /\ b[i] \in Int
      BY <1>1, <1>2, PendingMapFacts
<1>5. b[n] = Owes(bad, x.lits, x.w, 0) /\ b[n] \in Int /\ \A i \in D : b[i] = a[i]
      BY <1>1, <1>3, <1>4
<1> HIDE DEF a, b, D
<1>6. SumFunctionOnSet(b, D \cup {n}) = b[n] + SumFunctionOnSet(b, D)
      BY <1>1, <1>3, <1>4, SumAdd
<1>7. SumFunctionOnSet(a, D) = SumFunctionOnSet(b, D) /\ SumFunctionOnSet(b, D) \in Int
      BY <1>3, <1>5, SumSame, SumInt
<1>8. PendingOwe(bad, r) = PendingOwe(bad, q) + b[n]
      BY <1>3, <1>4, <1>5, <1>6, <1>7
<1> QED BY <1>2, <1>5, <1>8 DEF r

\* The first pending constraint is taken.
LEMMA PendingOweTail ==
  ASSUME NEW S, NEW q \in Seq(S), QueueWell(q), q # <<>>, NEW bad
  PROVE  /\ QueueWell(Tail(q)) /\ PendingWell(Head(q))
         /\ PendingOwe(bad, q) = Owes(bad, Head(q).lits, Head(q).w, 0) + PendingOwe(bad, Tail(q))
<1> DEFINE r == Tail(q)
           n == Len(q) - 1
           a == PendingMap(bad, q)
           b == PendingMap(bad, r)
<1>1. /\ r \in Seq(S) /\ n \in Nat /\ Len(q) = n + 1 /\ DOMAIN q = 1..(n + 1) /\ DOMAIN r = 1..n
      /\ Head(q) = q[1] /\ \A i \in 1..n : r[i] = q[i + 1]
      OBVIOUS
<1> HIDE DEF r, n
<1>2. QueueWell(r) /\ PendingWell(Head(q))
  <2>1. \A i \in 1..n : i + 1 \in 1..(n + 1)
        BY <1>1
  <2>2. 1 \in DOMAIN q
        BY <1>1
  <2> QED BY <1>1, <2>1, <2>2 DEF QueueWell
<1>3. /\ PendingOwe(bad, q) = SumFunctionOnSet(a, 1..(n + 1))
      /\ \A i \in 1..(n + 1) : a[i] = Owes(bad, q[i].lits, q[i].w, 0) /\ a[i] \in Int
      BY <1>1, PendingMapFacts
<1>4. /\ PendingOwe(bad, r) = SumFunctionOnSet(b, 1..n)
      /\ \A i \in 1..n : b[i] = Owes(bad, r[i].lits, r[i].w, 0) /\ b[i] \in Int
      BY <1>1, <1>2, PendingMapFacts
<1>5. ASSUME NEW i \in 1..n PROVE b[i] = a[i + 1]
  <2>1. i + 1 \in 1..(n + 1)
        BY <1>1
  <2> QED BY <1>1, <1>3, <1>4, <2>1
<1>6. 1 \in 1..(n + 1)
      BY <1>1
<1> HIDE DEF a, b
<1>7. SumFunctionOnSet(a, 1..(n + 1)) = a[1] + SumFunctionOnSet(b, 1..n)
      BY <1>1, <1>3, <1>5, SumShift
<1>8. a[1] = Owes(bad, Head(q).lits, Head(q).w, 0)
      BY <1>1, <1>3, <1>6
<1> QED BY <1>2, <1>3, <1>4, <1>7, <1>8 DEF r

-----------------------------------------------------------------------------
(***************************************************************************)
(* Points, and the literals they falsify.                                  *)
(***************************************************************************)
\* The literals of a formula are those of its weights.
LEMMA LitsAre ==
  ASSUME NEW f, f.poids \in Seq(Int)
  PROVE  Lits(f) = LitsOf(f.poids)
<1>1. DOMAIN f.poids \subseteq Nat \ {0}
      BY PoidsFacts
<1>2. ASSUME NEW l \in Lits(f) PROVE l \in LitsOf(f.poids)
      BY <1>1 DEF Lits, Vars, LitsOf, Var
<1>3. ASSUME NEW l \in LitsOf(f.poids) PROVE l \in Lits(f)
  <2>1. l \in Int \ {0} /\ Var(l) \in DOMAIN f.poids
        BY DEF LitsOf
  <2>2. Var(l) = l \/ l = -Var(l)
        BY <2>1 DEF Var
  <2> QED BY <2>1, <2>2 DEF Lits, Vars
<1> QED BY <1>2, <1>3

\* A literal is true where its negation is false.
LEMMA FalsifiedFacts ==
  ASSUME NEW f, IsFormula(f), NEW p \in Points
  PROVE  \A l \in LitsOf(f.poids) : /\ -l \in LitsOf(f.poids) /\ -(-l) = l
                                    /\ l \in Falsified(f, p) <=> p \notin True(f, l)
                                    /\ -l \in Falsified(f, p) <=> p \in True(f, l)
                                    /\ -l \in Falsified(f, p) <=> l \notin Falsified(f, p)
<1> SUFFICES ASSUME NEW l \in LitsOf(f.poids)
             PROVE  /\ -l \in LitsOf(f.poids) /\ -(-l) = l
                    /\ l \in Falsified(f, p) <=> p \notin True(f, l)
                    /\ -l \in Falsified(f, p) <=> p \in True(f, l)
    OBVIOUS
<1>1. f.poids \in Seq(Int)
      BY Fields
<1>2. Lits(f) = LitsOf(f.poids)
      BY <1>1, LitsAre
<1>3. l \in Int \ {0} /\ -l \in LitsOf(f.poids) /\ -(-l) = l
      BY DEF LitsOf, Var
<1>4. l \in Falsified(f, p) <=> p \notin True(f, l)
      BY <1>2 DEF Falsified
<1>5. -l \in Falsified(f, p) <=> p \notin True(f, -l)
      BY <1>2, <1>3 DEF Falsified
<1>6. p \notin True(f, -l) <=> p \in True(f, l)
  <2>1. CASE l < 0
    <3>1. ~(-l < 0)
          BY <1>3, <2>1
    <3>2. True(f, l) = Points \ f.truth[-l] /\ True(f, -l) = f.truth[-l]
          BY <2>1, <3>1 DEF True
    <3> QED BY <3>2
  <2>2. CASE ~(l < 0)
    <3>1. -l < 0
          BY <1>3, <2>2
    <3>2. True(f, l) = f.truth[l] /\ True(f, -l) = Points \ f.truth[-(-l)]
          BY <2>2, <3>1 DEF True
    <3> QED BY <1>3, <3>2
  <2> QED BY <2>1, <2>2
<1> QED BY <1>3, <1>4, <1>5, <1>6

\* At a point, the literals counted are the true ones.
LEMMA CountPoint ==
  ASSUME NEW f, IsFormula(f), NEW p \in Points, NEW C \in SUBSET LitsOf(f.poids)
  PROVE  Count(Falsified(f, p), C) = NbTrue(f, C, p)
<1>1. {l \in C : -l \in Falsified(f, p)} = {l \in C : p \in True(f, l)}
      BY FalsifiedFacts
<1> QED BY <1>1 DEF Count, NbTrue

\* g knows what f knows of its variables.
SameTruth(f, g) ==
    /\ DOMAIN f.poids \subseteq DOMAIN g.poids
    /\ \A v \in DOMAIN f.poids : g.truth[v] = f.truth[v]

\* A formula that keeps the truths keeps the points of every literal,
LEMMA SameTrue ==
  ASSUME NEW f, NEW g, SameTruth(f, g)
  PROVE  /\ LitsOf(f.poids) \subseteq LitsOf(g.poids)
         /\ \A l \in LitsOf(f.poids) : True(g, l) = True(f, l)
  BY DEF SameTruth, True, LitsOf, Var

\* the literals a point falsifies,
LEMMA SameFalsified ==
  ASSUME NEW f, NEW g, IsFormula(f), IsFormula(g), SameTruth(f, g), NEW p \in Points
  PROVE  \A l \in LitsOf(f.poids) : l \in Falsified(g, p) <=> l \in Falsified(f, p)
  BY SameTrue, FalsifiedFacts

\* and the meaning of a cardinality output.
LEMMA SameMoreThan ==
  ASSUME NEW f, NEW g, SameTruth(f, g), NEW C \in SUBSET LitsOf(f.poids), NEW k
  PROVE  MoreThan(g, C, k) = MoreThan(f, C, k)
<1>1. \A p \in Points : {l \in C : p \in True(g, l)} = {l \in C : p \in True(f, l)}
      BY SameTrue
<1> QED BY <1>1 DEF MoreThan, NbTrue

-----------------------------------------------------------------------------
(***************************************************************************)
(* The shape of the constraints.  O are the open variables: those of soft  *)
(* outputs, and of outputs waiting to be relaxed.                          *)
(***************************************************************************)
\* The output of _mapAssum2Card is the one of its constraint.
Names(f, v) ==
    LET x == f.cards[f.card[v].card]
        k == f.card[v].atMost
    IN  k \in DOMAIN x.outs /\ x.outs[k] = v /\ f.card[v].initialWeight = x.w

CardsIn(f) == \A c \in DOMAIN f.cards : f.cards[c].lits \subseteq LitsOf(f.poids)

OutputsTrue(f) ==
    \A c \in DOMAIN f.cards : \A k \in DOMAIN f.cards[c].outs :
        f.truth[f.cards[c].outs[k]] = MoreThan(f, f.cards[c].lits, k)

\* No two constraints share an output.
Disjoint(f) ==
    \A c, d \in DOMAIN f.cards : \A k \in DOMAIN f.cards[c].outs : \A i \in DOMAIN f.cards[d].outs :
        f.cards[c].outs[k] = f.cards[d].outs[i] => c = d

OutputsOK(f) ==
    /\ CardsWell(f.cards) /\ CardsIn(f) /\ OutputsTrue(f) /\ Disjoint(f)
    /\ \A v \in DOMAIN f.card : f.card[v] # NoCard => Names(f, v)

\* An open output is the last one of its constraint.
LastOnly(f, O) ==
    \A v \in O : v \in DOMAIN f.card /\ f.card[v] # NoCard =>
        f.card[v].atMost = Paid(f.cards[f.card[v].card])

\* A constraint that may owe more has its last output open, or out of reach.
Ended(f, x, O) ==
    \/ Cardinality(x.lits) <= Paid(x) + 1
    \/ /\ Paid(x) \in DOMAIN x.outs
       /\ x.outs[Paid(x)] \in O \/ f.live \cap f.truth[x.outs[Paid(x)]] = {}

Shaped(f, O) ==
    /\ OutputsOK(f) /\ LastOnly(f, O)
    /\ \A c \in DOMAIN f.cards : Ended(f, f.cards[c], O)

\* The constraints still to be added.
QueueOK(f, q) == q \in PendingCards /\ \A i \in DOMAIN q : q[i].lits \subseteq LitsOf(f.poids)

\* Every pending constraint is finite, with a positive weight.
LEMMA QueueFacts ==
  ASSUME NEW f, f.poids \in Seq(Int), NEW q, QueueOK(f, q)
  PROVE  QueueWell(q)
<1>1. ASSUME NEW i \in DOMAIN q PROVE PendingWell(q[i])
  <2> DEFINE S == [lits : SUBSET Int, w : Nat \ {0}]
  <2>1. q \in Seq(S)
        BY DEF QueueOK, PendingCards
  <2> HIDE DEF S
  <2>2. q[i] \in S
        BY <2>1
  <2> USE DEF S
  <2>3. q[i].lits \subseteq LitsOf(f.poids)
        BY DEF QueueOK
  <2>4. IsFiniteSet(q[i].lits)
        BY <2>3, LitsOfFinite, FS_Subset
  <2> QED BY <2>2, <2>4 DEF PendingWell
<1> QED BY <1>1 DEF QueueWell

\* bad makes an output false where the constraint exceeds it.
Fits(f, bad) ==
    \A c \in DOMAIN f.cards : \A k \in DOMAIN f.cards[c].outs :
        -f.cards[c].outs[k] \in bad <=> Count(bad, f.cards[c].lits) > k

\* A point of the formula agrees with the outputs created,
LEMMA FitsPoint ==
  ASSUME NEW f, IsFormula(f), CardOK(f), OutputsOK(f), NEW p \in Points
  PROVE  Fits(f, Falsified(f, p))
<1> SUFFICES ASSUME NEW c \in DOMAIN f.cards, NEW k \in DOMAIN f.cards[c].outs
             PROVE  -f.cards[c].outs[k] \in Falsified(f, p) <=> Count(Falsified(f, p), f.cards[c].lits) > k
    BY DEF Fits
<1> DEFINE o == f.cards[c].outs[k]
           C == f.cards[c].lits
<1>1. o \in DOMAIN f.poids /\ f.poids \in Seq(Int)
      BY Fields DEF CardOK
<1>2. o \in Nat \ {0} /\ o \in LitsOf(f.poids)
      BY <1>1, PoidsFacts DEF LitsOf, Var
<1>3. f.truth[o] = MoreThan(f, C, k) /\ C \in SUBSET LitsOf(f.poids)
      BY DEF OutputsOK, OutputsTrue, CardsIn
<1> HIDE DEF o, C
<1>4. -o \in Falsified(f, p) <=> p \in True(f, o)
      BY <1>2, FalsifiedFacts
<1>5. True(f, o) = f.truth[o]
      BY <1>2 DEF True
<1>6. p \in MoreThan(f, C, k) <=> NbTrue(f, C, p) > k
      BY DEF MoreThan
<1>7. Count(Falsified(f, p), C) = NbTrue(f, C, p)
      BY <1>3, CountPoint
<1> QED BY <1>3, <1>4, <1>5, <1>6, <1>7 DEF o, C

\* and so does the set of all literals, the bound on every total.
LEMMA FitsAll ==
  ASSUME NEW f, IsFormula(f), OutputsOK(f)
  PROVE  Fits(f, Int)
<1> SUFFICES ASSUME NEW c \in DOMAIN f.cards, NEW k \in DOMAIN f.cards[c].outs
             PROVE  -f.cards[c].outs[k] \in Int /\ Count(Int, f.cards[c].lits) > k
    BY DEF Fits
<1>1. f.cards[c] \in Cards /\ CardWell(f.cards[c])
      BY Fields DEF OutputsOK, CardsWell
<1>2. f.cards[c].outs[k] \in Nat
      BY <1>1, CardFacts
<1>3. {l \in f.cards[c].lits : -l \in Int} = f.cards[c].lits
      BY <1>1 DEF Cards
<1>4. k \in Nat /\ Cardinality(f.cards[c].lits) \in Nat /\ k < Cardinality(f.cards[c].lits)
      BY <1>1, CardFacts, FS_CardinalityType DEF CardWell
<1>5. Count(Int, f.cards[c].lits) = Cardinality(f.cards[c].lits)
      BY <1>3 DEF Count
<1> QED BY <1>2, <1>4, <1>5

-----------------------------------------------------------------------------
(***************************************************************************)
(* What is to be paid in all.                                              *)
(***************************************************************************)
\* The parts of a total are numbers.
LEMMA TotalParts ==
  ASSUME NEW f, IsFormula(f), CardsWell(f.cards), NEW q, QueueOK(f, q), NEW bad
  PROVE  /\ Charges(f.poids, bad) \in Nat /\ CardsOwe(bad, f.cards) \in Nat
         /\ PendingOwe(bad, q) \in Nat /\ f.cost \in Int
<1>1. f.poids \in Seq(Int) /\ f.cards \in Seq(Cards) /\ f.cost \in Int
      BY Fields
<1>2. QueueWell(q)
      BY <1>1, QueueFacts
<1>3. PendingOwe(bad, q) \in Nat
      BY <1>2, PendingOweNat DEF QueueOK, PendingCards
<1> QED BY <1>1, <1>3, ChargesNat, CardsOweNat

\* Only literals of the formula count.
LEMMA TotalAgree ==
  ASSUME NEW f, IsFormula(f), CardsWell(f.cards), CardsIn(f), NEW q, QueueOK(f, q), NEW a, NEW b,
         \A l \in LitsOf(f.poids) : l \in a <=> l \in b
  PROVE  Total(f, q, a) = Total(f, q, b)
<1>1. f.poids \in Seq(Int) /\ f.cards \in Seq(Cards)
      BY Fields
<1>2. QueueWell(q)
      BY <1>1, QueueFacts
<1>3. \A l \in LitsOf(f.poids) : -l \in a <=> -l \in b
      BY DEF LitsOf, Var
<1>4. Charges(f.poids, a) = Charges(f.poids, b)
      BY <1>1, ChargesAgree
<1>5. CardsOwe(a, f.cards) = CardsOwe(b, f.cards)
      BY <1>1, <1>3, CardsOweAgree DEF CardsIn
<1>6. PendingOwe(a, q) = PendingOwe(b, q)
  <2>1. \A i \in DOMAIN q : \A l \in q[i].lits : -l \in a <=> -l \in b
        BY <1>3 DEF QueueOK
  <2> QED BY <1>2, <2>1, PendingOweAgree DEF QueueOK, PendingCards
<1> QED BY <1>4, <1>5, <1>6 DEF Total

\* At a point it is what the formula says the point costs.
LEMMA TotalPoint ==
  ASSUME NEW f, IsFormula(f), CardsIn(f), NEW q, QueueOK(f, q), NEW p \in Points
  PROVE  /\ f.cost + Residual(f, q, p) =
              f.cost + (Charges(f.poids, Falsified(f, p)) + CardsOwe(Falsified(f, p), f.cards)
                        + PendingOwe(Falsified(f, p), q))
         /\ CostOf(f, p) = f.cost + Charges(f.poids, Falsified(f, p))
<1> DEFINE bad == Falsified(f, p)
<1>1. ASSUME NEW C \in SUBSET LitsOf(f.poids), NEW w, NEW n
      PROVE  Owed(f, C, w, n, p) = Owes(bad, C, w, n)
  <2>1. Count(bad, C) = NbTrue(f, C, p)
        BY CountPoint
  <2> QED BY <2>1 DEF Owed, Owes
<1>2. [c \in DOMAIN f.cards |->
         Owed(f, f.cards[c].lits, f.cards[c].w, Cardinality(DOMAIN f.cards[c].outs), p)]
      = [c \in DOMAIN f.cards |-> CardOwes(bad, f.cards[c])]
  <2>1. ASSUME NEW c \in DOMAIN f.cards
        PROVE  Owed(f, f.cards[c].lits, f.cards[c].w, Cardinality(DOMAIN f.cards[c].outs), p)
               = CardOwes(bad, f.cards[c])
        BY <1>1 DEF CardsIn, CardOwes, Paid
  <2> QED BY <2>1
<1>3. [i \in DOMAIN q |-> Owed(f, q[i].lits, q[i].w, 0, p)]
      = [i \in DOMAIN q |-> Owes(bad, q[i].lits, q[i].w, 0)]
  <2>1. ASSUME NEW i \in DOMAIN q
        PROVE  Owed(f, q[i].lits, q[i].w, 0, p) = Owes(bad, q[i].lits, q[i].w, 0)
        BY <1>1 DEF QueueOK
  <2> QED BY <2>1
<1>4. Residual(f, q, p) = Charges(f.poids, bad) + CardsOwe(bad, f.cards) + PendingOwe(bad, q)
      BY <1>2, <1>3 DEF Residual, SoftCost, CardsOwe, PendingOwe
<1>5. CostOf(f, p) = f.cost + Charges(f.poids, bad)
      BY DEF CostOf, SoftCost
<1> QED BY <1>4, <1>5

\* In particular of a formula without constraints.
LEMMA TotalPlain ==
  ASSUME NEW f, IsFormula(f), CardOK(f), f.cards = <<>>, NEW bad
  PROVE  /\ Total(f, <<>>, bad) = f.cost + Charges(f.poids, bad)
         /\ QueueOK(f, <<>>) /\ \A O : Shaped(f, O)
<1>1. DOMAIN f.cards = {} /\ f.poids \in Seq(Int) /\ f.cost \in Int /\ f.cards \in Seq(Cards)
      BY Fields
<1>2. \A v \in DOMAIN f.card : f.card[v] = NoCard
      BY <1>1 DEF CardOK
<1>3. \A O : Shaped(f, O)
      BY <1>1, <1>2 DEF Shaped, OutputsOK, CardsWell, CardsIn, OutputsTrue, Disjoint, LastOnly
<1>4. QueueOK(f, <<>>)
      BY DEF QueueOK, PendingCards
<1>5. CardsOwe(bad, f.cards) = 0 /\ PendingOwe(bad, <<>>) = 0
  <2>1. CardsWell(f.cards) /\ \A c \in DOMAIN f.cards : CardOwes(bad, f.cards[c]) = 0
        BY <1>1 DEF CardsWell
  <2> QED BY <1>1, <2>1, CardsOweNone, PendingOweNone
<1>6. Charges(f.poids, bad) \in Nat
      BY <1>1, ChargesNat
<1>7. Total(f, <<>>, bad) = f.cost + Charges(f.poids, bad)
      BY <1>1, <1>5, <1>6 DEF Total
<1> QED BY <1>3, <1>4, <1>7

-----------------------------------------------------------------------------
(***************************************************************************)
(* The next output of a constraint.                                        *)
(***************************************************************************)
\* Two sequences that agree everywhere are one.
LEMMA AppendIs ==
  ASSUME NEW S, NEW s \in Seq(S), NEW z \in Seq(S), NEW b \in S, NEW n, n = Len(s) + 1,
         Len(z) = n, z[n] = b, \A i \in DOMAIN s : z[i] = s[i]
  PROVE  z = Append(s, b)
<1> DEFINE y == Append(s, b)
<1>1. y \in Seq(S) /\ Len(y) = n /\ n \in Nat
      OBVIOUS
<1>2. \A i \in 1..n : z[i] = y[i]
  <2>1. ASSUME NEW i \in 1..n, i # n PROVE i \in DOMAIN s
        BY <2>1
  <2> QED BY <2>1
<1>3. DOMAIN z = 1..n /\ DOMAIN y = 1..n
      BY <1>1
<1> HIDE DEF y
<1>4. z = [i \in 1..n |-> z[i]] /\ y = [i \in 1..n |-> y[i]]
      BY <1>1, <1>3
<1>5. z = y
      BY <1>2, <1>4
<1> QED BY <1>5 DEF y

\* The output k of the constraint c becomes a new variable, soft at w.
Entry(c, k, w) == [card |-> c, atMost |-> k, initialWeight |-> w]

WithOut(cards, c, k, n) == [cards EXCEPT ![c] = PutOut(cards[c], k, n)]

Grew(f, h, c, k, w) ==
    /\ IsFormula(h)
    /\ h.poids = Append(f.poids, -w)
    /\ h.card = Append(f.card, Entry(c, k, w))
    /\ h.truth = Append(f.truth, MoreThan(f, f.cards[c].lits, k))
    /\ h.cards = WithOut(f.cards, c, k, Len(f.poids) + 1)
    /\ h.cost = f.cost /\ h.live = f.live

\* Creating an output and giving it its weight: one variable more.
LEMMA SoftOutputGrew ==
  ASSUME NEW f, IsFormula(f), CardOK(f), NEW c \in DOMAIN f.cards, NEW k \in Nat, NEW w \in Nat \ {0},
         ~(k >= Cardinality(f.cards[c].lits) \/ k \in DOMAIN f.cards[c].outs),
         NEW g, g = WithAtMost(f, c, k), NEW o, o = AtMost(g, c, k),
         NEW h, h = IF o # 0 /\ g.card[Var(o)] = NoCard THEN SoftenCard(g, o, c, k, w) ELSE g
  PROVE  Grew(f, h, c, k, w)
<1> DEFINE n == Len(f.poids) + 1
           T == MoreThan(f, f.cards[c].lits, k)
<1>1. /\ f \in Formulas /\ f.poids \in Seq(Int) /\ f.card \in Seq(LitCard) /\ f.truth \in Seq(SUBSET Points)
      /\ Len(f.card) = Len(f.poids) /\ Len(f.truth) = Len(f.poids) /\ f.cards \in Seq(Cards)
      BY Fields
<1>2. n \in Nat \ {0} /\ n = Len(f.card) + 1
      BY <1>1
<1>3. IsFormula(g) /\ g.poids = Append(f.poids, 0) /\ g.card = Append(f.card, NoCard) /\ o = -n
      BY WithAtMostNew
<1>4. /\ g.truth = Append(f.truth, T) /\ g.cards = WithOut(f.cards, c, k, n)
      /\ g.cost = f.cost /\ g.live = f.live
      BY <1>1 DEF WithAtMost, NewVar, Formulas, WithOut, PutOut
<1> HIDE DEF n, T
<1>5. o # 0 /\ o < 0 /\ Var(o) = n
      BY <1>2, <1>3 DEF Var
<1>6. g.card[n] = NoCard
      BY <1>1, <1>2, <1>3, NoCardType, AppendFacts
<1>7. h = SoftenCard(g, o, c, k, w)
      BY <1>5, <1>6
<1>8. Extended(f, h, {})
      BY SoftOutput
<1>9. /\ h.poids = SetPoids(g.poids, o, w) /\ h.card = [g.card EXCEPT ![n] = Entry(c, k, w)]
      /\ h.truth = g.truth /\ h.cards = g.cards /\ h.cost = g.cost /\ h.live = g.live
  <2>1. g \in Formulas
        BY <1>3, Fields
  <2> QED BY <1>5, <1>7, <2>1 DEF SoftenCard, Formulas, Entry
<1>10. h.poids = Append(f.poids, -w)
  <2> DEFINE x == Append(f.poids, 0)
             z == h.poids
  <2>1. x \in Seq(Int) /\ Len(x) = n /\ n \in DOMAIN x /\ DOMAIN x = DOMAIN f.poids \cup {n} /\ n \notin DOMAIN f.poids
        /\ \A i \in DOMAIN f.poids : x[i] = f.poids[i]
        BY <1>1, AppendFacts DEF n
  <2>2. z = [x EXCEPT ![n] = -w]
        BY <1>3, <1>5, <1>9 DEF SetPoids
  <2> HIDE DEF x, z
  <2>3. z \in Seq(Int) /\ Len(z) = n /\ z[n] = -w /\ \A i \in DOMAIN f.poids : z[i] = f.poids[i]
        BY <2>1, <2>2
  <2>4. z = Append(f.poids, -w)
        BY <1>1, <2>3, AppendIs DEF n
  <2> QED BY <2>4 DEF z
<1>11. h.card = Append(f.card, Entry(c, k, w))
  <2> DEFINE x == Append(f.card, NoCard)
             z == h.card
             e == Entry(c, k, w)
  <2>1. e \in LitCard
    <3>1. c \in Nat
          BY <1>1
    <3> QED BY <3>1 DEF Entry, LitCard
  <2>2. x \in Seq(LitCard) /\ Len(x) = n /\ n \in DOMAIN x /\ DOMAIN x = DOMAIN f.card \cup {n} /\ n \notin DOMAIN f.card
        /\ \A i \in DOMAIN f.card : x[i] = f.card[i]
        BY <1>1, <1>2, NoCardType, AppendFacts
  <2>3. z = [x EXCEPT ![n] = e]
        BY <1>3, <1>9
  <2> HIDE DEF x, z, e
  <2>4. z \in Seq(LitCard) /\ Len(z) = n /\ z[n] = e /\ \A i \in DOMAIN f.card : z[i] = f.card[i]
        BY <2>1, <2>2, <2>3
  <2>5. z = Append(f.card, e)
        BY <1>1, <1>2, <2>1, <2>4, AppendIs
  <2> QED BY <2>5 DEF z, e
<1> QED BY <1>4, <1>8, <1>9, <1>10, <1>11 DEF Grew, Extended, n, T

\* The fields of h.
LEMMA GrewFacts ==
  ASSUME NEW f, IsFormula(f), NEW c \in DOMAIN f.cards, NEW k \in Nat, NEW w \in Nat \ {0},
         k \notin DOMAIN f.cards[c].outs, NEW h, Grew(f, h, c, k, w), NEW n, n = Len(f.poids) + 1
  PROVE  /\ SameTruth(f, h) /\ h.poids \in Seq(Int)
         /\ n \in Nat \ {0} /\ n \notin DOMAIN f.poids /\ DOMAIN h.poids = DOMAIN f.poids \cup {n}
         /\ h.poids[n] = -w /\ \A v \in DOMAIN f.poids : h.poids[v] = f.poids[v]
         /\ h.card[n] = Entry(c, k, w) /\ \A v \in DOMAIN f.poids : h.card[v] = f.card[v]
         /\ h.truth[n] = MoreThan(f, f.cards[c].lits, k)
         /\ DOMAIN h.cards = DOMAIN f.cards
         /\ \A d \in DOMAIN f.cards : d # c => h.cards[d] = f.cards[d]
         /\ h.cards[c].lits = f.cards[c].lits /\ h.cards[c].w = f.cards[c].w
         /\ DOMAIN h.cards[c].outs = DOMAIN f.cards[c].outs \cup {k} /\ h.cards[c].outs[k] = n
         /\ \A i \in DOMAIN f.cards[c].outs : h.cards[c].outs[i] = f.cards[c].outs[i]
<1>1. /\ f.poids \in Seq(Int) /\ f.card \in Seq(LitCard) /\ f.truth \in Seq(SUBSET Points)
      /\ DOMAIN f.card = DOMAIN f.poids /\ DOMAIN f.truth = DOMAIN f.poids
      /\ n = Len(f.card) + 1 /\ n = Len(f.truth) + 1 /\ f.cards \in Seq(Cards)
      BY Fields
<1>2. h.poids \in Seq(Int) /\ IsFormula(h)
      BY Fields DEF Grew
<1>3. /\ n \in Nat \ {0} /\ n \notin DOMAIN f.poids /\ DOMAIN h.poids = DOMAIN f.poids \cup {n}
      /\ h.poids[n] = -w /\ \A v \in DOMAIN f.poids : h.poids[v] = f.poids[v]
  <2>1. h.poids = Append(f.poids, -w) /\ -w \in Int
        BY DEF Grew
  <2>2. n \in Nat \ {0} /\ n = Len(f.poids) + 1
        BY <1>1
  <2>3. PICK x \in Int : x = -w
        BY <2>1
  <2>4. /\ DOMAIN Append(f.poids, x) = DOMAIN f.poids \cup {n} /\ n \notin DOMAIN f.poids
        /\ Append(f.poids, x)[n] = x /\ \A v \in DOMAIN f.poids : Append(f.poids, x)[v] = f.poids[v]
        BY ONLY <1>1, <2>2, x \in Int, AppendFacts
  <2> QED BY ONLY <2>1, <2>2, <2>3, <2>4
<1>4. h.card[n] = Entry(c, k, w) /\ \A v \in DOMAIN f.poids : h.card[v] = f.card[v]
  <2>1. Entry(c, k, w) \in LitCard
    <3>1. c \in Nat
          BY <1>1
    <3> QED BY <3>1 DEF Entry, LitCard
  <2>2. h.card = Append(f.card, Entry(c, k, w))
        BY DEF Grew
  <2> QED BY <1>1, <2>1, <2>2, AppendFacts
<1>5. h.truth[n] = MoreThan(f, f.cards[c].lits, k) /\ \A v \in DOMAIN f.poids : h.truth[v] = f.truth[v]
  <2>1. MoreThan(f, f.cards[c].lits, k) \in SUBSET Points
        BY DEF MoreThan
  <2>2. h.truth = Append(f.truth, MoreThan(f, f.cards[c].lits, k))
        BY DEF Grew
  <2> HIDE DEF Grew
  <2> QED BY <1>1, <2>1, <2>2, AppendFacts
<1> DEFINE y == PutOut(f.cards[c], k, n)
<1>6. f.cards[c] \in Cards
      BY <1>1
<1>7. /\ y \in Cards /\ y.lits = f.cards[c].lits
      /\ DOMAIN y.outs = DOMAIN f.cards[c].outs \cup {k} /\ y.outs[k] = n
      /\ \A i \in DOMAIN f.cards[c].outs : y.outs[i] = f.cards[c].outs[i]
      BY <1>3, <1>6, CardPut
<1>8. y.w = f.cards[c].w
      BY <1>6 DEF PutOut, Cards
<1>9. h.cards = [f.cards EXCEPT ![c] = y]
      BY DEF Grew, WithOut
<1> HIDE DEF y
<1>10. /\ DOMAIN h.cards = DOMAIN f.cards /\ h.cards[c] = y
       /\ \A d \in DOMAIN f.cards : d # c => h.cards[d] = f.cards[d]
       BY <1>1, <1>7, <1>9
<1>11. SameTruth(f, h)
       BY <1>3, <1>5 DEF SameTruth
<1> QED BY <1>2, <1>3, <1>4, <1>5, <1>7, <1>8, <1>10, <1>11

\* The constraint has one output more.
LEMMA GrewWell ==
  ASSUME NEW f, IsFormula(f), CardsWell(f.cards), NEW c \in DOMAIN f.cards, NEW k, NEW w \in Nat \ {0},
         k = Paid(f.cards[c]) + 1, k < Cardinality(f.cards[c].lits), NEW h, Grew(f, h, c, k, w)
  PROVE  /\ k \in Nat /\ k \notin DOMAIN f.cards[c].outs
         /\ CardsWell(h.cards) /\ Paid(h.cards[c]) = k
<1>1. CardWell(f.cards[c]) /\ f.cards[c] \in Cards
      BY Fields DEF CardsWell
<1>2. k \in Nat /\ k \notin DOMAIN f.cards[c].outs
      BY <1>1 DEF CardWell
<1> DEFINE n == Len(f.poids) + 1
           x == f.cards[c]
           y == h.cards[c]
<1>3. /\ DOMAIN h.cards = DOMAIN f.cards
      /\ \A d \in DOMAIN f.cards : d # c => h.cards[d] = f.cards[d]
      /\ y.lits = x.lits /\ y.w = x.w
      /\ DOMAIN y.outs = DOMAIN x.outs \cup {k}
      BY <1>2, GrewFacts
<1> HIDE DEF x, y
<1>4. DOMAIN y.outs = 1..k
      BY <1>1, <1>3 DEF CardWell, x
<1>5. Paid(y) = k
  <2>1. Cardinality(1..k) = k
    <3>1. 1 \in Int /\ k \in Int
          BY <1>2
    <3>2. Cardinality(1..k) = IF 1 > k THEN 0 ELSE k - 1 + 1
          BY ONLY <3>1, FS_Interval
    <3> QED BY <1>2, <3>2
  <2> QED BY <1>4, <2>1 DEF Paid
<1>6. CardWell(y)
  <2>1. \A i \in 1..k : i < Cardinality(x.lits)
    <3>1. Cardinality(x.lits) \in Nat
          BY <1>1, FS_CardinalityType DEF CardWell, x
    <3>2. k < Cardinality(x.lits)
          BY DEF x
    <3> QED BY <1>2, <3>1, <3>2
  <2> QED BY <1>1, <1>2, <1>3, <1>4, <1>5, <2>1 DEF CardWell, x
<1>7. CardsWell(h.cards)
      BY <1>3, <1>6 DEF CardsWell, y
<1> QED BY <1>2, <1>5, <1>7 DEF y

\* The new output costs what the constraint owes no longer.
LEMMA GrewTotal ==
  ASSUME NEW f, IsFormula(f), CardsWell(f.cards), NEW c \in DOMAIN f.cards, NEW k, NEW w \in Nat \ {0},
         k = Paid(f.cards[c]) + 1, k < Cardinality(f.cards[c].lits), w = f.cards[c].w,
         NEW h, Grew(f, h, c, k, w), NEW bad, Fits(h, bad), NEW q, QueueOK(f, q)
  PROVE  Total(h, q, bad) = Total(f, q, bad)
<1> DEFINE n == Len(f.poids) + 1
           x == f.cards[c]
           y == h.cards[c]
           e == IF Count(bad, x.lits) > k THEN w ELSE 0
<1>1. k \in Nat /\ k \notin DOMAIN x.outs /\ CardsWell(h.cards) /\ Paid(y) = k
      BY GrewWell
<1>2. /\ DOMAIN h.cards = DOMAIN f.cards
      /\ \A d \in DOMAIN f.cards : d # c => h.cards[d] = f.cards[d]
      /\ y.lits = x.lits /\ y.w = x.w
      /\ k \in DOMAIN y.outs /\ y.outs[k] = n
      BY <1>1, GrewFacts
<1>3. -n \in bad <=> Count(bad, x.lits) > k
      BY <1>2 DEF Fits
<1>4. f.poids \in Seq(Int) /\ f.cards \in Seq(Cards) /\ h.cards \in Seq(Cards) /\ f.cost \in Int /\ n \in Nat
  <2>1. IsFormula(h)
        BY DEF Grew
  <2>2. f.poids \in Seq(Int) /\ f.cards \in Seq(Cards) /\ h.cards \in Seq(Cards) /\ f.cost \in Int
        BY ONLY <2>1, IsFormula(f), Fields
  <2> QED BY <2>2
<1>5. CardWell(x)
      BY DEF CardsWell
<1>6. CardOwes(bad, x) = CardOwes(bad, y) + e
  <2>1. Owes(bad, x.lits, w, Paid(x)) = Owes(bad, x.lits, w, Paid(x) + 1) + e
    <3>1. IsFiniteSet(x.lits) /\ Paid(x) \in Nat /\ k = Paid(x) + 1
          BY <1>5 DEF CardWell
    <3> HIDE DEF x
    <3> QED BY <3>1, OwesNext
  <2>2. CardOwes(bad, x) = Owes(bad, x.lits, w, Paid(x)) /\ CardOwes(bad, y) = Owes(bad, x.lits, w, Paid(x) + 1)
        BY <1>1, <1>2 DEF CardOwes
  <2> QED BY <2>1, <2>2
<1>7. CardOwes(bad, x) \in Nat /\ CardOwes(bad, y) \in Nat
  <2>1. CardWell(y)
        BY <1>1, <1>2 DEF CardsWell
  <2> QED BY <1>5, <2>1, OwesNat DEF CardOwes, CardWell
<1>8. CardsOwe(bad, h.cards) = CardsOwe(bad, f.cards) + (CardOwes(bad, y) - CardOwes(bad, x))
  <2>1. \A i \in DOMAIN f.cards \ {c} : h.cards[i] = f.cards[i]
        BY <1>2
  <2>2. PICK s : s = f.cards
        OBVIOUS
  <2>3. PICK t : t = h.cards
        OBVIOUS
  <2>4. /\ s \in Seq(Cards) /\ CardsWell(s) /\ t \in Seq(Cards) /\ CardsWell(t)
        /\ DOMAIN t = DOMAIN s /\ c \in DOMAIN s /\ \A i \in DOMAIN s \ {c} : t[i] = s[i]
        BY <1>1, <1>2, <1>4, <2>1, <2>2, <2>3
  <2>5. CardsOwe(bad, t) = CardsOwe(bad, s) + (CardOwes(bad, t[c]) - CardOwes(bad, s[c]))
        BY ONLY <2>4, CardsOweChange
  <2> QED BY ONLY <2>2, <2>3, <2>5
<1>9. Charges(h.poids, bad) = Charges(f.poids, bad) + e
  <2>1. h.poids = Append(f.poids, -w) /\ -w \in Int /\ -w < 0
        BY DEF Grew
  <2>2. Price(-w, n, bad) = e
        BY <1>3, <2>1 DEF Price
  <2> HIDE DEF e
  <2>3. n = Len(f.poids) + 1
        OBVIOUS
  <2> HIDE DEF n
  <2>4. Charges(Append(f.poids, -w), bad) = Charges(f.poids, bad) + Price(-w, n, bad)
        BY <1>4, <2>1, <2>3, ChargesAppend
  <2> QED BY <2>1, <2>2, <2>4
<1>10. /\ Charges(f.poids, bad) \in Nat /\ CardsOwe(bad, f.cards) \in Nat /\ PendingOwe(bad, q) \in Nat
       BY TotalParts
<1>11. e \in Nat /\ h.cost = f.cost
       BY DEF Grew
<1> HIDE DEF e, x, y
<1>12. CardsOwe(bad, h.cards) = CardsOwe(bad, f.cards) - e
       BY <1>6, <1>7, <1>8, <1>10, <1>11
<1>13. Charges(h.poids, bad) + CardsOwe(bad, h.cards) = Charges(f.poids, bad) + CardsOwe(bad, f.cards)
       BY <1>9, <1>10, <1>11, <1>12
<1>14. CardsOwe(bad, h.cards) \in Int /\ Charges(h.poids, bad) \in Int
       BY <1>9, <1>10, <1>11, <1>12
<1>15. f.cost \in Int
       BY <1>4
<1>16. \A c0, a1, b1, a2, b2, z \in Int : a1 + b1 = a2 + b2 => c0 + a1 + b1 + z = c0 + a2 + b2 + z
       OBVIOUS
<1>17. f.cost + Charges(h.poids, bad) + CardsOwe(bad, h.cards) + PendingOwe(bad, q)
       = f.cost + Charges(f.poids, bad) + CardsOwe(bad, f.cards) + PendingOwe(bad, q)
  <2>1. PICK a1 \in Int : a1 = Charges(h.poids, bad)
        BY <1>14
  <2>2. PICK b1 \in Int : b1 = CardsOwe(bad, h.cards)
        BY <1>14
  <2>3. PICK a2 \in Int : a2 = Charges(f.poids, bad)
        BY <1>10
  <2>4. PICK b2 \in Int : b2 = CardsOwe(bad, f.cards)
        BY <1>10
  <2>5. PICK z \in Int : z = PendingOwe(bad, q)
        BY <1>10
  <2>6. a1 + b1 = a2 + b2
        BY <1>13, <2>1, <2>2, <2>3, <2>4
  <2>7. f.cost + a1 + b1 + z = f.cost + a2 + b2 + z
        BY ONLY <1>15, <1>16, <2>6, a1 \in Int, b1 \in Int, a2 \in Int, b2 \in Int, z \in Int
  <2> QED BY ONLY <2>1, <2>2, <2>3, <2>4, <2>5, <2>7
<1> QED BY <1>11, <1>17 DEF Total

\* And it is open, while the one before it, if any, is no longer.
LEMMA GrewShape ==
  ASSUME NEW f, IsFormula(f), CardOK(f), NEW O, OutputsOK(f), LastOnly(f, O),
         NEW c \in DOMAIN f.cards, NEW k, NEW w \in Nat \ {0},
         k = Paid(f.cards[c]) + 1, k < Cardinality(f.cards[c].lits), w = f.cards[c].w,
         NEW h, Grew(f, h, c, k, w), NEW n, n = Len(f.poids) + 1, NEW Q \in SUBSET O,
         \A v \in Q : v \in DOMAIN f.card /\ f.card[v] # NoCard => f.card[v].card # c,
         \A d \in DOMAIN f.cards : d # c => Ended(f, f.cards[d], Q)
  PROVE  Shaped(h, Q \cup {n})
<1> DEFINE x == f.cards[c]
           y == h.cards[c]
<1>1. k \in Nat /\ k \notin DOMAIN x.outs /\ CardsWell(h.cards) /\ Paid(y) = k
      BY GrewWell DEF OutputsOK
<1>2. /\ SameTruth(f, h)
      /\ n \notin DOMAIN f.poids /\ DOMAIN h.poids = DOMAIN f.poids \cup {n}
      /\ h.card[n] = Entry(c, k, w) /\ \A v \in DOMAIN f.poids : h.card[v] = f.card[v]
      /\ h.truth[n] = MoreThan(f, x.lits, k)
      BY ONLY <1>1, IsFormula(f), c \in DOMAIN f.cards, w \in Nat \ {0}, Grew(f, h, c, k, w), n = Len(f.poids) + 1, GrewFacts
<1>3. /\ DOMAIN h.cards = DOMAIN f.cards
      /\ \A d \in DOMAIN f.cards : d # c => h.cards[d] = f.cards[d]
      /\ y.lits = x.lits /\ y.w = x.w
      /\ DOMAIN y.outs = DOMAIN x.outs \cup {k} /\ y.outs[k] = n
      /\ \A i \in DOMAIN x.outs : y.outs[i] = x.outs[i]
      BY <1>1, GrewFacts
<1>4. DOMAIN f.card = DOMAIN f.poids /\ DOMAIN h.card = DOMAIN h.poids /\ IsFormula(h) /\ h.live = f.live
      BY Fields DEF Grew
<1>5. ASSUME NEW d \in DOMAIN f.cards
      PROVE  h.cards[d].lits = f.cards[d].lits /\ h.cards[d].w = f.cards[d].w
      BY <1>3
<1>6. ASSUME NEW d \in DOMAIN f.cards, NEW i \in DOMAIN h.cards[d].outs
      PROVE  \/ d = c /\ i = k /\ h.cards[d].outs[i] = n
             \/ /\ i \in DOMAIN f.cards[d].outs /\ h.cards[d].outs[i] = f.cards[d].outs[i]
                /\ f.cards[d].outs[i] \in DOMAIN f.poids
  <2>1. \/ d = c /\ i = k /\ h.cards[d].outs[i] = n
        \/ i \in DOMAIN f.cards[d].outs /\ h.cards[d].outs[i] = f.cards[d].outs[i]
        BY <1>3
  <2> QED BY <2>1 DEF CardOK
<1> HIDE DEF x, y
<1>7. CardsIn(h)
  <2>1. LitsOf(f.poids) \subseteq LitsOf(h.poids)
        BY <1>2, SameTrue
  <2> QED BY <1>3, <1>5, <2>1 DEF OutputsOK, CardsIn
<1>8. OutputsTrue(h)
  <2> SUFFICES ASSUME NEW d \in DOMAIN f.cards, NEW i \in DOMAIN h.cards[d].outs
               PROVE  h.truth[h.cards[d].outs[i]] = MoreThan(h, h.cards[d].lits, i)
      BY <1>3 DEF OutputsTrue
  <2>1. h.cards[d].lits = f.cards[d].lits /\ MoreThan(h, f.cards[d].lits, i) = MoreThan(f, f.cards[d].lits, i)
        BY <1>2, <1>5, SameMoreThan DEF OutputsOK, CardsIn
  <2>2. CASE d = c /\ i = k /\ h.cards[d].outs[i] = n
        BY <1>2, <2>1, <2>2 DEF x
  <2>3. CASE /\ i \in DOMAIN f.cards[d].outs /\ h.cards[d].outs[i] = f.cards[d].outs[i]
             /\ f.cards[d].outs[i] \in DOMAIN f.poids
        BY <1>2, <2>1, <2>3 DEF OutputsOK, OutputsTrue, SameTruth
  <2> QED BY <1>6, <2>2, <2>3
<1>9. Disjoint(h)
  <2> SUFFICES ASSUME NEW a \in DOMAIN f.cards, NEW b \in DOMAIN f.cards,
                      NEW i \in DOMAIN h.cards[a].outs, NEW j \in DOMAIN h.cards[b].outs,
                      h.cards[a].outs[i] = h.cards[b].outs[j]
               PROVE  a = b
      BY <1>3 DEF Disjoint
  <2>1. \/ a = c /\ h.cards[a].outs[i] = n
        \/ /\ i \in DOMAIN f.cards[a].outs /\ h.cards[a].outs[i] = f.cards[a].outs[i]
           /\ f.cards[a].outs[i] \in DOMAIN f.poids
        BY <1>6
  <2>2. \/ b = c /\ h.cards[b].outs[j] = n
        \/ /\ j \in DOMAIN f.cards[b].outs /\ h.cards[b].outs[j] = f.cards[b].outs[j]
           /\ f.cards[b].outs[j] \in DOMAIN f.poids
        BY <1>6
  <2> QED BY <1>2, <2>1, <2>2 DEF OutputsOK, Disjoint
<1>10. ASSUME NEW v \in DOMAIN h.card, h.card[v] # NoCard
       PROVE  Names(h, v)
  <2>1. CASE v = n
    <3>1. h.card[v].card = c /\ h.card[v].atMost = k /\ h.card[v].initialWeight = w
          BY <1>2, <2>1 DEF Entry
    <3> QED BY <1>3, <2>1, <3>1 DEF Names, x, y
  <2>2. CASE v # n
    <3> DEFINE d == f.card[v].card
    <3>1. v \in DOMAIN f.card /\ h.card[v] = f.card[v]
          BY <1>2, <1>4, <2>2
    <3>2. d \in DOMAIN f.cards /\ Names(f, v)
          BY <1>10, <3>1 DEF CardOK, OutputsOK
    <3>3. f.card[v].atMost \in DOMAIN f.cards[d].outs /\ f.cards[d].outs[f.card[v].atMost] = v
          /\ f.card[v].initialWeight = f.cards[d].w
          BY <3>2 DEF Names
    <3>4. f.card[v].atMost \in DOMAIN h.cards[d].outs /\ h.cards[d].outs[f.card[v].atMost] = v
          BY <1>3, <3>2, <3>3 DEF x, y
    <3> QED BY <1>5, <3>1, <3>2, <3>3, <3>4 DEF Names
  <2> QED BY <2>1, <2>2
<1>11. LastOnly(h, Q \cup {n})
  <2> SUFFICES ASSUME NEW v \in Q \cup {n}, v \in DOMAIN h.card, h.card[v] # NoCard
               PROVE  h.card[v].atMost = Paid(h.cards[h.card[v].card])
      BY DEF LastOnly
  <2>1. CASE v = n
        BY <1>1, <1>2, <2>1 DEF Entry, y
  <2>2. CASE v # n
    <3>1. v \in Q /\ v \in O /\ v \in DOMAIN f.card /\ h.card[v] = f.card[v]
          BY <1>2, <1>4, <2>2
    <3>2. f.card[v].card # c /\ f.card[v].card \in DOMAIN f.cards
          BY <3>1 DEF CardOK
    <3> QED BY <1>3, <3>1, <3>2 DEF LastOnly
  <2> QED BY <2>1, <2>2
<1>12. ASSUME NEW d \in DOMAIN h.cards PROVE Ended(h, h.cards[d], Q \cup {n})
  <2>1. CASE d = c
        BY <1>1, <1>3, <2>1 DEF Ended, y
  <2>2. CASE d # c
    <3>1. d \in DOMAIN f.cards /\ h.cards[d] = f.cards[d] /\ Ended(f, f.cards[d], Q)
          BY <1>3, <2>2
    <3>2. Paid(f.cards[d]) \in DOMAIN f.cards[d].outs =>
            h.truth[f.cards[d].outs[Paid(f.cards[d])]] = f.truth[f.cards[d].outs[Paid(f.cards[d])]]
          BY <1>2, <3>1 DEF SameTruth, CardOK
    <3> QED BY <1>4, <3>1, <3>2 DEF Ended
  <2> QED BY <2>1, <2>2
<1> QED BY <1>1, <1>7, <1>8, <1>9, <1>10, <1>11, <1>12 DEF Shaped, OutputsOK

\* Constraints that do not change: outputs that close must be the last ones,
\* or out of reach.
LEMMA ShapeKept ==
  ASSUME NEW f, IsFormula(f), CardOK(f), NEW O, Shaped(f, O), NEW g, IsFormula(g),
         g.cards = f.cards, SameTruth(f, g), g.live \subseteq f.live,
         \A v \in DOMAIN g.card : g.card[v] # NoCard => v \in DOMAIN f.card /\ g.card[v] = f.card[v],
         NEW Q, \A v \in Q : v \in DOMAIN g.card /\ g.card[v] # NoCard => v \in O,
         \A d \in DOMAIN f.cards :
           Paid(f.cards[d]) \in DOMAIN f.cards[d].outs /\ f.cards[d].outs[Paid(f.cards[d])] \in O =>
             \/ f.cards[d].outs[Paid(f.cards[d])] \in Q
             \/ Cardinality(f.cards[d].lits) <= Paid(f.cards[d]) + 1
             \/ g.live \cap f.truth[f.cards[d].outs[Paid(f.cards[d])]] = {}
  PROVE  Shaped(g, Q)
<1>1. ASSUME NEW d \in DOMAIN f.cards, NEW i \in DOMAIN f.cards[d].outs
      PROVE  /\ f.cards[d].outs[i] \in DOMAIN f.poids
             /\ g.truth[f.cards[d].outs[i]] = f.truth[f.cards[d].outs[i]]
  <2>1. f.cards[d].outs[i] \in DOMAIN f.poids
        BY DEF CardOK
  <2> QED BY <2>1 DEF SameTruth
<1>2. CardsWell(g.cards)
      BY DEF Shaped, OutputsOK
<1>3. CardsIn(g)
  <2>1. LitsOf(f.poids) \subseteq LitsOf(g.poids)
        BY SameTrue
  <2> QED BY <2>1 DEF Shaped, OutputsOK, CardsIn
<1>4. OutputsTrue(g)
  <2> SUFFICES ASSUME NEW d \in DOMAIN f.cards, NEW i \in DOMAIN f.cards[d].outs
               PROVE  g.truth[f.cards[d].outs[i]] = MoreThan(g, f.cards[d].lits, i)
      BY DEF OutputsTrue
  <2>1. MoreThan(g, f.cards[d].lits, i) = MoreThan(f, f.cards[d].lits, i)
        BY SameMoreThan DEF Shaped, OutputsOK, CardsIn
  <2> QED BY <1>1, <2>1 DEF Shaped, OutputsOK, OutputsTrue
<1>5. Disjoint(g)
      BY DEF Shaped, OutputsOK, Disjoint
<1>6. \A v \in DOMAIN g.card : g.card[v] # NoCard => Names(g, v)
      BY DEF Shaped, OutputsOK, Names
<1>7. LastOnly(g, Q)
      BY DEF Shaped, LastOnly
<1>8. ASSUME NEW d \in DOMAIN f.cards PROVE Ended(g, f.cards[d], Q)
  <2> DEFINE x == f.cards[d]
             m == Paid(x)
  <2>1. Ended(f, x, O)
        BY DEF Shaped
  <2>2. m \in DOMAIN x.outs /\ x.outs[m] \in O =>
          x.outs[m] \in Q \/ Cardinality(x.lits) <= m + 1 \/ g.live \cap f.truth[x.outs[m]] = {}
        OBVIOUS
  <2>3. m \in DOMAIN x.outs => g.truth[x.outs[m]] = f.truth[x.outs[m]]
        BY <1>1
  <2> HIDE DEF x, m
  <2>4. m = Paid(x)
        BY DEF m
  <2> QED BY <2>1, <2>2, <2>3, <2>4 DEF Ended, x
<1> QED BY <1>2, <1>3, <1>4, <1>5, <1>6, <1>7, <1>8 DEF Shaped, OutputsOK

\* What relax and the creation of a constraint do, N being the new outputs.
Relaxed(f, g, N) ==
    /\ IsFormula(g) /\ CardOK(g)
    /\ SameTruth(f, g) /\ g.live = f.live /\ g.cost = f.cost
    /\ DOMAIN g.poids = DOMAIN f.poids \cup N
    /\ \A v \in DOMAIN f.poids : g.poids[v] = f.poids[v]
    /\ \A v \in N : v \notin DOMAIN f.poids /\ g.poids[v] < 0

\* The open outputs were Q, and nothing changes in what is to be paid.
Opens(f, g, Q) ==
    \E N : /\ Relaxed(f, g, N) /\ Shaped(g, Q \cup N)
           /\ \A q, bad : QueueOK(f, q) /\ Fits(g, bad) => Total(g, q, bad) = Total(f, q, bad)

Softened(f, c, k, w) ==
    LET e == WithAtMost(f, c, k)
        o == AtMost(e, c, k)
    IN  IF o # 0 /\ e.card[Var(o)] = NoCard THEN SoftenCard(e, o, c, k, w) ELSE e

\* The next output of the constraint c is made soft, if there is one.
LEMMA NextOutput ==
  ASSUME NEW f, IsFormula(f), CardOK(f), NEW O, OutputsOK(f), LastOnly(f, O), NEW Q \in SUBSET O,
         NEW c \in DOMAIN f.cards, NEW k, NEW w, k = Paid(f.cards[c]) + 1, w = f.cards[c].w,
         NEW h, h = Softened(f, c, k, w),
         \A v \in Q : v \in DOMAIN f.card /\ f.card[v] # NoCard => f.card[v].card # c,
         \A d \in DOMAIN f.cards : d # c => Ended(f, f.cards[d], Q)
  PROVE  Opens(f, h, Q)
<1>a. PICK e : e = WithAtMost(f, c, k)
      OBVIOUS
<1>b. PICK o : o = AtMost(e, c, k)
      OBVIOUS
<1>c. h = IF o # 0 /\ e.card[Var(o)] = NoCard THEN SoftenCard(e, o, c, k, w) ELSE e
      BY <1>a, <1>b DEF Softened
<1>4. CardWell(f.cards[c]) /\ CardsWell(f.cards)
      BY DEF OutputsOK, CardsWell
<1>5. /\ w \in Nat \ {0} /\ IsFiniteSet(f.cards[c].lits) /\ Paid(f.cards[c]) \in Nat
      /\ DOMAIN f.cards[c].outs = 1..Paid(f.cards[c])
      BY <1>4 DEF CardWell
<1>6. k \in Nat /\ k \notin DOMAIN f.cards[c].outs
      BY <1>5
<1>7. Cardinality(f.cards[c].lits) \in Nat
      BY <1>5, FS_CardinalityType
<1>8. CASE k >= Cardinality(f.cards[c].lits)
  <2>1. e = f
        BY <1>a, <1>8 DEF WithAtMost
  <2>2. o = 0
        BY <1>b, <1>8, <2>1 DEF AtMost
  <2>3. h = f
        BY <1>c, <2>1, <2>2
  <2>4. Relaxed(f, f, {})
        BY DEF Relaxed, SameTruth
  <2>5. Shaped(f, Q \cup {})
    <3>1. Ended(f, f.cards[c], Q)
          BY <1>5, <1>7, <1>8 DEF Ended
    <3>2. \A d \in DOMAIN f.cards : Ended(f, f.cards[d], Q)
          BY <3>1
    <3>3. LastOnly(f, Q)
          BY DEF LastOnly
    <3>4. Q \cup {} = Q
          OBVIOUS
    <3> QED BY <3>2, <3>3, <3>4 DEF Shaped
  <2> QED BY <2>3, <2>4, <2>5 DEF Opens
<1>9. CASE ~(k >= Cardinality(f.cards[c].lits))
  <2>1. k < Cardinality(f.cards[c].lits)
        BY <1>6, <1>7, <1>9
  <2>2. Grew(f, h, c, k, w)
        BY <1>a, <1>b, <1>c, <1>5, <1>6, <1>9, SoftOutputGrew
  <2>3. CardOK(h)
    <3>1. Extended(f, h, {})
          BY <1>a, <1>b, <1>c, <1>5, <1>6, SoftOutput
    <3> QED BY <3>1 DEF Extended
  <2>4. PICK n : n = Len(f.poids) + 1
        OBVIOUS
  <2>a. w \in Nat \ {0} /\ k \notin DOMAIN f.cards[c].outs /\ k \in Nat
        BY <1>5, <1>6
  <2>6. /\ SameTruth(f, h) /\ n \notin DOMAIN f.poids /\ DOMAIN h.poids = DOMAIN f.poids \cup {n}
        /\ h.poids[n] = -w /\ \A u \in DOMAIN f.poids : h.poids[u] = f.poids[u]
        BY <2>a, <2>2, <2>4, GrewFacts, SMTT(60)
  <2>7. Relaxed(f, h, {n})
    <3>1. IsFormula(h) /\ h.live = f.live /\ h.cost = f.cost
          BY <2>2 DEF Grew
    <3>2. h.poids[n] < 0
          BY <2>a, <2>6
    <3> QED BY <2>3, <2>6, <3>1, <3>2 DEF Relaxed
  <2>8. Shaped(h, Q \cup {n})
        BY <2>a, <2>1, <2>2, <2>4, GrewShape
  <2>9. ASSUME NEW q, NEW bad, QueueOK(f, q), Fits(h, bad) PROVE Total(h, q, bad) = Total(f, q, bad)
        BY <1>4, <1>5, <2>1, <2>2, <2>9, GrewTotal
  <2> QED BY <2>7, <2>8, <2>9 DEF Opens
<1> QED BY <1>8, <1>9

\* relax(l), l of an open output.
LEMMA RelaxShape ==
  ASSUME NEW f, IsFormula(f), CardOK(f), NEW O, Shaped(f, O), NEW l \in LitsOf(f.poids), NEW v, v = Var(l),
         v \in O, f.card[v] # NoCard, NEW g, g = Relax(f, l)
  PROVE  Opens(f, g, O \ {v})
<1> DEFINE lc == f.card[v]
           c  == lc.card
           x  == f.cards[c]
           k  == lc.atMost + 1
           e  == WithAtMost(f, c, k)
           o  == AtMost(e, c, k)
           h  == IF o # 0 /\ e.card[Var(o)] = NoCard THEN SoftenCard(e, o, c, k, lc.initialWeight) ELSE e
<1>1. v \in DOMAIN f.poids /\ v \in DOMAIN f.card /\ DOMAIN f.card = DOMAIN f.poids
      BY Fields DEF LitsOf
<1>2. lc \in LitCard /\ c \in DOMAIN f.cards /\ Names(f, v)
      BY <1>1, Fields DEF CardOK, Shaped, OutputsOK
<1>3. lc.atMost = Paid(x)
      BY <1>1 DEF Shaped, LastOnly
<1>4. Paid(x) \in DOMAIN x.outs /\ x.outs[Paid(x)] = v /\ lc.initialWeight = x.w
      BY <1>2, <1>3 DEF Names
<1>5. k = Paid(x) + 1 /\ c \in DOMAIN f.cards /\ OutputsOK(f) /\ LastOnly(f, O)
      BY <1>2, <1>3 DEF Shaped
<1>6. g = IF Poids(h, l) = 0 THEN Release(h, v) ELSE h
      BY DEF Relax, Release
<1>7. Extended(f, g, {v})
      BY RelaxFacts
<1>8. ASSUME NEW u \in O \ {v}, u \in DOMAIN f.card, f.card[u] # NoCard PROVE f.card[u].card # c
  <2>1. Names(f, u) /\ f.card[u].atMost = Paid(f.cards[f.card[u].card])
        BY <1>8 DEF Shaped, OutputsOK, LastOnly
  <2> QED BY <1>4, <2>1 DEF Names
<1>9. ASSUME NEW d \in DOMAIN f.cards, d # c PROVE Ended(f, f.cards[d], O \ {v})
  <2>1. Ended(f, f.cards[d], O)
        BY DEF Shaped
  <2>2. \A i \in DOMAIN f.cards[d].outs : f.cards[d].outs[i] # v
    <3>1. Disjoint(f)
          BY DEF Shaped, OutputsOK
    <3> QED BY <1>2, <1>4, <1>9, <3>1 DEF Disjoint
  <2> QED BY <2>1, <2>2 DEF Ended
<1>10. \E N : /\ Relaxed(f, h, N) /\ Shaped(h, (O \ {v}) \cup N)
              /\ \A q, bad : QueueOK(f, q) /\ Fits(h, bad) => Total(h, q, bad) = Total(f, q, bad)
  <2> DEFINE w == x.w
             Q == O \ {v}
  <2>1. h = Softened(f, c, k, w)
        BY <1>4 DEF Softened
  <2>2. /\ w = f.cards[c].w /\ k = Paid(f.cards[c]) + 1
        /\ c \in DOMAIN f.cards /\ Q \in SUBSET O
        BY <1>5
  <2>3. /\ \A u \in Q : u \in DOMAIN f.card /\ f.card[u] # NoCard => f.card[u].card # c
        /\ \A d \in DOMAIN f.cards : d # c => Ended(f, f.cards[d], Q)
        BY <1>8, <1>9
  <2>4. IsFormula(f) /\ CardOK(f) /\ OutputsOK(f) /\ LastOnly(f, O)
        BY <1>5
  <2> HIDE DEF h, e, o, k, c, w, x, lc, Q
  <2>5. Opens(f, h, Q)
        BY <2>1, <2>2, <2>3, <2>4, NextOutput
  <2> QED BY <2>5 DEF Q, Opens
<1>11. PICK N : /\ Relaxed(f, h, N) /\ Shaped(h, (O \ {v}) \cup N)
                /\ \A q, bad : QueueOK(f, q) /\ Fits(h, bad) => Total(h, q, bad) = Total(f, q, bad)
       BY <1>10
<1> HIDE DEF h
<1>a. IsFormula(h) /\ CardOK(h) /\ DOMAIN h.card = DOMAIN h.poids
        BY <1>11, Fields DEF Relaxed
<1>13. /\ g.poids = h.poids /\ g.truth = h.truth /\ g.live = h.live /\ g.cost = h.cost /\ g.cards = h.cards
       /\ DOMAIN g.card = DOMAIN h.card
       /\ \A u \in DOMAIN h.card : g.card[u] # NoCard => g.card[u] = h.card[u]
  <2>1. h \in Formulas
        BY <1>a, Fields
  <2>2. h.card \in Seq(LitCard)
        BY <1>a, Fields
  <2>3. CASE g = Release(h, v)
    <3>1. /\ g.poids = h.poids /\ g.truth = h.truth /\ g.live = h.live /\ g.cost = h.cost /\ g.cards = h.cards
          /\ g.card = [h.card EXCEPT ![v] = NoCard]
          BY <2>1, <2>3 DEF Release, Formulas
    <3> QED BY <2>2, <3>1
  <2> QED BY <1>6, <2>3
<1>14. IsFormula(g) /\ CardOK(g)
       BY <1>7 DEF Extended
<1>15. Shaped(g, (O \ {v}) \cup N)
  <2>1. SameTruth(h, g)
        BY <1>13 DEF SameTruth
  <2> QED BY <1>a, <1>11, <1>13, <1>14, <2>1, ShapeKept
<1>16. ASSUME NEW q, NEW bad, QueueOK(f, q), Fits(g, bad) PROVE Total(g, q, bad) = Total(f, q, bad)
  <2>1. Fits(h, bad)
        BY <1>13, <1>16 DEF Fits
  <2>2. Total(g, q, bad) = Total(h, q, bad)
        BY <1>13 DEF Total
  <2> QED BY <1>11, <1>16, <2>1, <2>2
<1>17. Relaxed(f, g, N)
       BY <1>11, <1>13, <1>14 DEF Relaxed, SameTruth
<1> QED BY <1>15, <1>16, <1>17 DEF Opens

-----------------------------------------------------------------------------
(***************************************************************************)
(* A pending constraint is added.                                          *)
(***************************************************************************)
Inputs(C) == IsFiniteSet(C) /\ C \subseteq Int

Fresh(C, w) == [lits |-> C, w |-> w, outs |-> <<>>]

WithCard(f, C, w) == [f EXCEPT !.cards = Append(@, Fresh(C, w))]

\* A constraint without outputs.
LEMMA FreshFacts ==
  ASSUME NEW C, Inputs(C), NEW w \in Nat \ {0}
  PROVE  /\ Fresh(C, w) \in Cards /\ CardWell(Fresh(C, w)) /\ DOMAIN Fresh(C, w).outs = {}
         /\ Fresh(C, w).lits = C /\ Fresh(C, w).w = w /\ Paid(Fresh(C, w)) = 0
<1>1. DOMAIN <<>> = {} /\ <<>> \in [{} -> Nat]
      OBVIOUS
<1>2. <<>> \in Maps(Nat, Nat)
      BY <1>1 DEF Maps
<1>3. Cardinality({}) = 0 /\ 1..0 = {}
      BY FS_EmptySet
<1>4. /\ Fresh(C, w).lits = C /\ Fresh(C, w).w = w /\ Fresh(C, w).outs = <<>>
      /\ Fresh(C, w) \in Cards
      BY <1>2 DEF Fresh, Cards, Inputs
<1>5. Paid(Fresh(C, w)) = 0
      BY <1>1, <1>3, <1>4 DEF Paid
<1> QED BY <1>1, <1>3, <1>4, <1>5 DEF CardWell, Inputs

\* The formula with that constraint, before its first output.
LEMMA WithCardFacts ==
  ASSUME NEW f, IsFormula(f), CardOK(f), NEW C, Inputs(C), NEW w \in Nat \ {0},
         NEW b, b = WithCard(f, C, w), NEW c, c = Len(f.cards) + 1
  PROVE  /\ IsFormula(b) /\ CardOK(b)
         /\ b.poids = f.poids /\ b.card = f.card /\ b.truth = f.truth /\ b.live = f.live /\ b.cost = f.cost
         /\ b.cards = Append(f.cards, Fresh(C, w))
         /\ DOMAIN b.cards = DOMAIN f.cards \cup {c} /\ b.cards[c] = Fresh(C, w) /\ c \notin DOMAIN f.cards
         /\ \A d \in DOMAIN f.cards : b.cards[d] = f.cards[d]
<1> DEFINE e == Fresh(C, w)
           z == Append(f.cards, e)
<1>1. /\ f \in Formulas /\ f.cards \in Seq(Cards) /\ Len(f.card) = Len(f.poids) /\ Len(f.truth) = Len(f.poids)
      BY Fields
<1>2. e \in Cards /\ DOMAIN e.outs = {}
      BY FreshFacts
<1>3. b = [f EXCEPT !.cards = z]
      BY DEF WithCard
<1> HIDE DEF e
<1>4. /\ z \in Seq(Cards) /\ DOMAIN z = DOMAIN f.cards \cup {c} /\ z[c] = e /\ c \notin DOMAIN f.cards
      /\ \A d \in DOMAIN f.cards : z[d] = f.cards[d]
  <2>1. z \in Seq(Cards)
        BY <1>1, <1>2
  <2> QED BY <1>1, <1>2, <2>1, AppendFacts
<1>z. z = Append(f.cards, e)
      OBVIOUS
<1> HIDE DEF z
<1>6. /\ b \in Formulas /\ b.poids = f.poids /\ b.card = f.card /\ b.cards = z
      /\ b.truth = f.truth /\ b.live = f.live /\ b.cost = f.cost
      BY <1>1, <1>3, <1>4 DEF Formulas
<1>7. IsFormula(b)
      BY <1>1, <1>6 DEF IsFormula
<1>8. ASSUME NEW d \in DOMAIN b.cards, NEW i \in DOMAIN b.cards[d].outs
      PROVE  d \in DOMAIN f.cards /\ b.cards[d] = f.cards[d]
      BY <1>2, <1>4, <1>6
<1>9. CardOK(b)
  <2>1. ASSUME NEW v \in DOMAIN b.card, b.card[v] # NoCard
        PROVE  /\ b.card[v].card \in DOMAIN b.cards
               /\ b.card[v].initialWeight > 0
               /\ b.poids[v] <= 0
        BY <1>4, <1>6, <2>1 DEF CardOK
  <2>2. ASSUME NEW d \in DOMAIN b.cards, NEW i \in DOMAIN b.cards[d].outs
        PROVE  /\ b.cards[d].outs[i] \in DOMAIN b.poids
               /\ b.card[b.cards[d].outs[i]] = NoCard => b.poids[b.cards[d].outs[i]] = 0
    <3>1. d \in DOMAIN f.cards /\ b.cards[d] = f.cards[d] /\ i \in DOMAIN f.cards[d].outs
          BY <1>8
    <3> QED BY <1>6, <3>1 DEF CardOK
  <2> QED BY <2>1, <2>2 DEF CardOK
<1> QED BY <1>4, <1>6, <1>7, <1>9, <1>z DEF e

\* addCard is that, then the first output.
LEMMA AddCardIs ==
  ASSUME NEW f, IsFormula(f), CardOK(f), NEW C, Inputs(C), NEW w \in Nat \ {0},
         NEW b, b = WithCard(f, C, w), NEW c, c = Len(f.cards) + 1
  PROVE  AddCard(f, C, w) = Softened(b, c, 1, w)
<1> DEFINE g == WithAtMost(b, c, 1)
           o == AtMost(g, c, 1)
           h == IF o = 0 THEN g ELSE SoftenCard(g, o, c, 1, w)
<1>1. AddCard(f, C, w) = h
      BY DEF AddCard, WithCard, Fresh
<1>2. IsFormula(b) /\ CardOK(b) /\ c \in DOMAIN b.cards /\ b.cards[c] = Fresh(C, w)
      BY WithCardFacts
<1>3. 1 \notin DOMAIN b.cards[c].outs
  <2>1. DOMAIN Fresh(C, w).outs = {}
        BY FreshFacts
  <2> QED BY <1>2, <2>1
<1>4. o # 0 => g.card[Var(o)] = NoCard
  <2>1. CASE 1 >= Cardinality(b.cards[c].lits)
    <3>1. g = b
          BY <2>1 DEF WithAtMost
    <3> QED BY <2>1, <3>1 DEF AtMost
  <2>2. CASE ~(1 >= Cardinality(b.cards[c].lits))
    <3> DEFINE n == Len(b.poids) + 1
    <3>1. g.card = Append(b.card, NoCard) /\ o = -n
          BY <1>2, <1>3, <2>2, WithAtMostNew
    <3>2. b.card \in Seq(LitCard) /\ Len(b.card) = Len(b.poids) /\ n \in Nat \ {0}
          BY <1>2, Fields
    <3>3. Var(o) = n
          BY <3>1, <3>2 DEF Var
    <3>4. n = Len(b.card) + 1
          BY <3>2
    <3> HIDE DEF n, o, g
    <3> QED BY <3>1, <3>2, <3>3, <3>4, NoCardType, AppendFacts
  <2> QED BY <2>1, <2>2
<1>5. h = Softened(b, c, 1, w)
      BY <1>4 DEF Softened
<1> QED BY <1>1, <1>5

Over(f, C) == C \subseteq LitsOf(f.poids)

\* The shape of the outputs, but for the first output of the new constraint.
LEMMA WithCardShape ==
  ASSUME NEW f, IsFormula(f), CardOK(f), NEW O, Shaped(f, O), NEW C, Over(f, C),
         NEW w \in Nat \ {0}, NEW b, b = WithCard(f, C, w), NEW c, c = Len(f.cards) + 1
  PROVE  /\ OutputsOK(b) /\ LastOnly(b, O) /\ SameTruth(f, b)
         /\ \A v \in O : v \in DOMAIN b.card /\ b.card[v] # NoCard => b.card[v].card # c
         /\ \A d \in DOMAIN b.cards : d # c => Ended(b, b.cards[d], O)
         /\ Inputs(C)
         /\ Paid(b.cards[c]) = 0 /\ b.cards[c].w = w
<1>1. Inputs(C)
  <2>1. f.poids \in Seq(Int)
        BY Fields
  <2>2. IsFiniteSet(C)
        BY <2>1, LitsOfFinite, FS_Subset DEF Over
  <2> QED BY <2>2 DEF LitsOf, Inputs, Over
<1>2. /\ b.poids = f.poids /\ b.card = f.card /\ b.truth = f.truth /\ b.live = f.live
      /\ DOMAIN b.cards = DOMAIN f.cards \cup {c} /\ b.cards[c] = Fresh(C, w) /\ c \notin DOMAIN f.cards
      /\ \A d \in DOMAIN f.cards : b.cards[d] = f.cards[d]
      BY <1>1, WithCardFacts
<1>3. /\ CardWell(b.cards[c]) /\ DOMAIN b.cards[c].outs = {} /\ b.cards[c].lits = C
      /\ Paid(b.cards[c]) = 0 /\ b.cards[c].w = w
  <2>1. /\ CardWell(Fresh(C, w)) /\ DOMAIN Fresh(C, w).outs = {} /\ Fresh(C, w).lits = C
        /\ Paid(Fresh(C, w)) = 0 /\ Fresh(C, w).w = w
        BY <1>1, FreshFacts
  <2> QED BY <1>2, <2>1
<1>4. ASSUME NEW d \in DOMAIN b.cards, NEW i \in DOMAIN b.cards[d].outs
      PROVE  d \in DOMAIN f.cards /\ b.cards[d] = f.cards[d] /\ i \in DOMAIN f.cards[d].outs
      BY <1>2, <1>3
<1>5. SameTruth(f, b)
      BY <1>2 DEF SameTruth
<1>6. CardsWell(b.cards)
      BY <1>2, <1>3 DEF Shaped, OutputsOK, CardsWell
<1>7. CardsIn(b)
      BY <1>2, <1>3 DEF Shaped, OutputsOK, CardsIn, Over
<1>8. OutputsTrue(b)
  <2> SUFFICES ASSUME NEW d \in DOMAIN b.cards, NEW i \in DOMAIN b.cards[d].outs
               PROVE  b.truth[b.cards[d].outs[i]] = MoreThan(b, b.cards[d].lits, i)
      BY DEF OutputsTrue
  <2>1. d \in DOMAIN f.cards /\ b.cards[d] = f.cards[d] /\ i \in DOMAIN f.cards[d].outs
        BY <1>4
  <2>2. MoreThan(b, f.cards[d].lits, i) = MoreThan(f, f.cards[d].lits, i)
        BY <1>5, <2>1, SameMoreThan DEF Shaped, OutputsOK, CardsIn
  <2>3. f.truth[f.cards[d].outs[i]] = MoreThan(f, f.cards[d].lits, i)
        BY <2>1 DEF Shaped, OutputsOK, OutputsTrue
  <2> QED BY <1>2, <2>1, <2>2, <2>3
<1>9. Disjoint(b)
  <2>1. Disjoint(f)
        BY DEF Shaped, OutputsOK
  <2> QED BY <1>4, <2>1 DEF Disjoint
<1>10. ASSUME NEW v \in DOMAIN b.card, b.card[v] # NoCard
       PROVE  /\ b.card[v].card \in DOMAIN f.cards /\ b.cards[b.card[v].card] = f.cards[f.card[v].card]
              /\ Names(b, v)
  <2>1. v \in DOMAIN f.card /\ f.card[v] # NoCard /\ b.card[v] = f.card[v]
        BY <1>2, <1>10
  <2>2. f.card[v].card \in DOMAIN f.cards /\ Names(f, v)
        BY <2>1 DEF CardOK, Shaped, OutputsOK
  <2> QED BY <1>2, <2>1, <2>2 DEF Names
<1>11. LastOnly(b, O)
  <2>1. LastOnly(f, O)
        BY DEF Shaped
  <2> QED BY <1>2, <1>10, <2>1 DEF LastOnly
<1>12. ASSUME NEW d \in DOMAIN b.cards, d # c PROVE Ended(b, b.cards[d], O)
  <2>1. d \in DOMAIN f.cards /\ b.cards[d] = f.cards[d] /\ Ended(f, f.cards[d], O)
        BY <1>2, <1>12 DEF Shaped
  <2> QED BY <1>2, <2>1 DEF Ended
<1>13. OutputsOK(b)
       BY <1>6, <1>7, <1>8, <1>9, <1>10 DEF OutputsOK
<1> QED BY <1>1, <1>2, <1>3, <1>5, <1>10, <1>11, <1>12, <1>13

\* The new constraint owes for all its true literals but one.
LEMMA WithCardTotal ==
  ASSUME NEW f, IsFormula(f), CardOK(f), CardsWell(f.cards), NEW C, Over(f, C),
         NEW w \in Nat \ {0}, NEW b, b = WithCard(f, C, w), NEW q, QueueOK(f, q), NEW bad
  PROVE  /\ Total(b, q, bad) = Total(f, q, bad) + Owes(bad, C, w, 0) /\ QueueOK(b, q)
         /\ Owes(bad, C, w, 0) \in Nat
<1>1. Inputs(C)
  <2>1. f.poids \in Seq(Int)
        BY Fields
  <2>2. IsFiniteSet(C)
        BY <2>1, LitsOfFinite, FS_Subset DEF Over
  <2> QED BY <2>2 DEF LitsOf, Inputs, Over
<1>2. /\ b.poids = f.poids /\ b.cost = f.cost /\ b.cards = Append(f.cards, Fresh(C, w))
      BY <1>1, WithCardFacts
<1>3. /\ Fresh(C, w) \in Cards /\ CardWell(Fresh(C, w)) /\ Fresh(C, w).lits = C /\ Fresh(C, w).w = w
      /\ Paid(Fresh(C, w)) = 0
      BY <1>1, FreshFacts
<1>4. CardsOwe(bad, b.cards) = CardsOwe(bad, f.cards) + CardOwes(bad, Fresh(C, w))
      BY <1>2, <1>3, Fields, CardsOweAppend
<1>5. CardOwes(bad, Fresh(C, w)) = Owes(bad, C, w, 0)
      BY <1>3 DEF CardOwes
<1>6. Owes(bad, C, w, 0) \in Nat
      BY <1>1, OwesNat DEF Inputs
<1>7. Charges(f.poids, bad) \in Nat /\ CardsOwe(bad, f.cards) \in Nat /\ PendingOwe(bad, q) \in Nat /\ f.cost \in Int
      BY TotalParts
<1>8. f.cost + Charges(f.poids, bad) + (CardsOwe(bad, f.cards) + Owes(bad, C, w, 0)) + PendingOwe(bad, q)
      = f.cost + Charges(f.poids, bad) + CardsOwe(bad, f.cards) + PendingOwe(bad, q) + Owes(bad, C, w, 0)
      BY ONLY <1>6, <1>7
<1>9. Total(b, q, bad) = Total(f, q, bad) + Owes(bad, C, w, 0)
      BY <1>2, <1>4, <1>5, <1>8 DEF Total
<1>10. QueueOK(b, q)
      BY <1>2 DEF QueueOK
<1> QED BY <1>6, <1>9, <1>10

\* It has a new open output, and owes what it would have owed.
OpensCard(f, g, O, C, w) ==
    \E N : /\ Relaxed(f, g, N) /\ Shaped(g, O \cup N)
           /\ \A q, bad : QueueOK(f, q) /\ Fits(g, bad) =>
                Total(g, q, bad) = Total(f, q, bad) + Owes(bad, C, w, 0)

\* A core becomes a constraint.
LEMMA AddCardShape ==
  ASSUME NEW f, IsFormula(f), CardOK(f), NEW O, Shaped(f, O), NEW C, Over(f, C),
         NEW w \in Nat \ {0}, NEW g, g = AddCard(f, C, w)
  PROVE  OpensCard(f, g, O, C, w)
<1>1. PICK b : b = WithCard(f, C, w)
      OBVIOUS
<1>2. PICK c : c = Len(f.cards) + 1
      OBVIOUS
<1>3. /\ OutputsOK(b) /\ LastOnly(b, O) /\ SameTruth(f, b)
      /\ \A v \in O : v \in DOMAIN b.card /\ b.card[v] # NoCard => b.card[v].card # c
      /\ \A d \in DOMAIN b.cards : d # c => Ended(b, b.cards[d], O)
      /\ Inputs(C)
      /\ Paid(b.cards[c]) = 0 /\ b.cards[c].w = w
      BY <1>1, <1>2, WithCardShape
<1>4. /\ IsFormula(b) /\ CardOK(b)
      /\ b.poids = f.poids /\ b.live = f.live /\ b.cost = f.cost
      /\ c \in DOMAIN b.cards
      BY <1>1, <1>2, <1>3, WithCardFacts
<1>5. g = Softened(b, c, 1, w)
      BY <1>1, <1>2, <1>3, AddCardIs
<1>6. 1 = Paid(b.cards[c]) + 1 /\ w = b.cards[c].w /\ O \in SUBSET O
      BY <1>3
<1>7. Opens(b, g, O)
      BY <1>3, <1>4, <1>5, <1>6, NextOutput
<1>8. PICK N : /\ Relaxed(b, g, N) /\ Shaped(g, O \cup N)
               /\ \A q, bad : QueueOK(b, q) /\ Fits(g, bad) => Total(g, q, bad) = Total(b, q, bad)
      BY <1>7 DEF Opens
<1>9. Relaxed(f, g, N)
      BY <1>3, <1>4, <1>8 DEF Relaxed, SameTruth
<1>10. ASSUME NEW q, NEW bad, QueueOK(f, q), Fits(g, bad)
       PROVE  Total(g, q, bad) = Total(f, q, bad) + Owes(bad, C, w, 0)
  <2>1. Total(b, q, bad) = Total(f, q, bad) + Owes(bad, C, w, 0) /\ QueueOK(b, q)
        BY <1>1, <1>10, WithCardTotal DEF Shaped, OutputsOK
  <2> QED BY <1>8, <1>10, <2>1
<1> QED BY <1>8, <1>9, <1>10 DEF OpensCard

-----------------------------------------------------------------------------
(***************************************************************************)
(* What the steps of the search do to the cost.                            *)
(***************************************************************************)
\* The open variables, W being the literals that wait to be relaxed.
Open(f, W) == {v \in DOMAIN f.poids : f.poids[v] < 0 \/ -v \in W}

Good(f, q, W) == Sound(f) /\ Shaped(f, Open(f, W)) /\ QueueOK(f, q)

\* Every point that is left costs what it did, and no more can be paid in all.
SameCost(f, q, g, r) ==
    /\ SameTruth(f, g) /\ g.live \subseteq f.live /\ g.cost >= f.cost
    /\ \A p \in g.live : Total(g, r, Falsified(g, p)) = Total(f, q, Falsified(f, p))
    /\ Total(g, r, Int) <= Total(f, q, Int)

\* The total is at least the bound already paid.
LEMMA TotalInt ==
  ASSUME NEW f, NEW q, NEW W, Good(f, q, W), NEW bad
  PROVE  Total(f, q, bad) \in Int /\ Total(f, q, bad) >= f.cost
<1>1. Charges(f.poids, bad) \in Nat /\ CardsOwe(bad, f.cards) \in Nat /\ PendingOwe(bad, q) \in Nat /\ f.cost \in Int
      BY TotalParts DEF Good, Sound, Shaped, OutputsOK
<1> QED BY <1>1 DEF Total

\* A total looks only at literals whose truth is kept.
LEMMA TotalSame ==
  ASSUME NEW f, NEW q, NEW W, Good(f, q, W), NEW g, IsFormula(g), SameTruth(f, g), NEW p \in Points
  PROVE  Total(f, q, Falsified(g, p)) = Total(f, q, Falsified(f, p))
<1>1. IsFormula(f) /\ CardsWell(f.cards) /\ CardsIn(f) /\ QueueOK(f, q)
      BY DEF Good, Sound, Shaped, OutputsOK
<1>2. \A l \in LitsOf(f.poids) : l \in Falsified(g, p) <=> l \in Falsified(f, p)
      BY <1>1, SameFalsified
<1> QED BY <1>1, <1>2, TotalAgree

\* A pending constraint stays one.
LEMMA QueueKept ==
  ASSUME NEW f, NEW g, SameTruth(f, g), NEW q, QueueOK(f, q)
  PROVE  QueueOK(g, q)
  BY SameTrue DEF QueueOK

\* The live points are points.
LEMMA LivePoints ==
  ASSUME NEW f, IsFormula(f)
  PROVE  f.live \subseteq Points
  BY Fields

\* Only the index changes, or points go.
LEMMA CostKept ==
  ASSUME NEW f, NEW q, NEW W, Good(f, q, W), NEW g, Sound(g), g.poids = f.poids, g.truth = f.truth,
         g.card = f.card, g.cards = f.cards, g.cost = f.cost, g.live \subseteq f.live
  PROVE  Good(g, q, W) /\ SameCost(f, q, g, q)
<1>1. IsFormula(f) /\ CardOK(f) /\ IsFormula(g) /\ f.cost \in Int
      BY Fields DEF Good, Sound
<1>2. SameTruth(f, g)
      BY DEF SameTruth
<1>3. Open(g, W) = Open(f, W)
      BY DEF Open
<1>4. Shaped(g, Open(g, W))
      BY <1>1, <1>2, <1>3, ShapeKept DEF Good
<1>5. QueueOK(g, q)
      BY <1>2, QueueKept DEF Good
<1>6. \A bad : Total(g, q, bad) = Total(f, q, bad)
      BY DEF Total
<1>7. \A p \in g.live : Total(g, q, Falsified(g, p)) = Total(f, q, Falsified(f, p))
      BY <1>1, <1>2, <1>6, LivePoints, TotalSame
<1>8. Total(g, q, Int) <= Total(f, q, Int)
      BY <1>6, TotalInt
<1> QED BY <1>1, <1>2, <1>4, <1>5, <1>7, <1>8 DEF Good, SameCost

\* relax(l).
LEMMA CostRelax ==
  ASSUME NEW f, NEW q, NEW W, Good(f, q, W), NEW l \in W, Spent(f, l), NEW X, X = W \ {l},
         NEW g, g = Relax(f, l)
  PROVE  Good(g, q, X) /\ SameCost(f, q, g, q) /\ g.live = f.live /\ g.cost = f.cost
<1>1. IsFormula(f) /\ CardOK(f) /\ f.cost \in Int /\ f.poids \in Seq(Int)
      BY Fields DEF Good, Sound
<1>2. PICK v : v = Var(l)
      OBVIOUS
<1>3. l \in LitsOf(f.poids) /\ l < 0 /\ l = -v /\ v \in DOMAIN f.poids /\ f.poids[v] = 0 /\ f.card[v] # NoCard /\ v \in Int
  <2>1. l \in LitsOf(f.poids) /\ l < 0 /\ Weight(f.poids, l) = 0 /\ f.card[Var(l)] # NoCard
        BY DEF Spent
  <2>2. l \in Int /\ v = -l /\ v \in DOMAIN f.poids /\ f.poids[v] \in Int
        BY <1>1, <1>2, <2>1 DEF LitsOf, Var
  <2> QED BY <1>2, <2>1, <2>2 DEF Weight
<1>4. v \in Open(f, W)
      BY <1>3 DEF Open
<1>5. Opens(f, g, Open(f, W) \ {v})
      BY <1>1, <1>2, <1>3, <1>4, RelaxShape DEF Good
<1>6. PICK N : /\ Relaxed(f, g, N) /\ Shaped(g, (Open(f, W) \ {v}) \cup N)
               /\ \A r, bad : QueueOK(f, r) /\ Fits(g, bad) => Total(g, r, bad) = Total(f, r, bad)
      BY <1>5 DEF Opens
<1>7. IsFormula(g) /\ CardOK(g) /\ SameTruth(f, g) /\ g.live = f.live /\ g.cost = f.cost
      BY <1>6 DEF Relaxed
<1>8. Open(g, X) = (Open(f, W) \ {v}) \cup N
  <2>1. ASSUME NEW u \in DOMAIN f.poids PROVE u \in Open(g, X) <=> u \in Open(f, W) /\ u # v
    <3>1. g.poids[u] = f.poids[u] /\ u \in DOMAIN g.poids
          BY <1>6 DEF Relaxed
    <3>2. u \in Int
          BY <1>1
    <3> QED BY <1>3, <3>1, <3>2 DEF Open
  <2>2. \A u \in N : u \in Open(g, X) /\ u \notin DOMAIN f.poids
        BY <1>6 DEF Relaxed, Open
  <2>3. \A u \in Open(g, X) : u \in DOMAIN f.poids \/ u \in N
        BY <1>6 DEF Relaxed, Open
  <2>4. \A u \in Open(f, W) : u \in DOMAIN f.poids
        BY DEF Open
  <2> QED BY <2>1, <2>2, <2>3, <2>4
<1>9. Good(g, q, X)
  <2>1. Sound(g)
        BY <1>3, KeepsRelax DEF Good, Keeps
  <2>2. QueueOK(g, q)
        BY <1>7, QueueKept DEF Good
  <2> QED BY <1>6, <1>8, <2>1, <2>2 DEF Good
<1>10. \A bad : Fits(g, bad) => Total(g, q, bad) = Total(f, q, bad)
       BY <1>6 DEF Good
<1>11. OutputsOK(g)
       BY <1>9 DEF Good, Shaped
<1>12. ASSUME NEW p \in g.live PROVE Total(g, q, Falsified(g, p)) = Total(f, q, Falsified(f, p))
  <2>1. p \in Points
        BY <1>7, LivePoints
  <2>2. Fits(g, Falsified(g, p))
        BY <1>7, <1>11, <2>1, FitsPoint
  <2>3. Total(f, q, Falsified(g, p)) = Total(f, q, Falsified(f, p))
        BY <1>7, <2>1, TotalSame
  <2> QED BY <1>10, <2>2, <2>3
<1>13. Total(g, q, Int) <= Total(f, q, Int)
  <2>1. Fits(g, Int)
        BY <1>7, <1>11, FitsAll
  <2> QED BY <1>10, <2>1, TotalInt
<1> QED BY <1>1, <1>7, <1>9, <1>12, <1>13 DEF SameCost

\* The first pending constraint is added.
LEMMA CostAddCard ==
  ASSUME NEW f, NEW q, NEW W, Good(f, q, W), q # <<>>, NEW r, r = Tail(q),
         NEW g, g = AddCard(f, Head(q).lits, Head(q).w), \A l \in W : Spent(f, l)
  PROVE  Good(g, r, W) /\ SameCost(f, q, g, r) /\ g.live = f.live /\ g.cost = f.cost
<1>1. IsFormula(f) /\ CardOK(f) /\ f.cost \in Int /\ f.poids \in Seq(Int)
      BY Fields DEF Good, Sound
<1> DEFINE S == [lits : SUBSET Int, w : Nat \ {0}]
<1>2. q \in Seq(S) /\ \A i \in DOMAIN q : q[i].lits \subseteq LitsOf(f.poids)
      BY DEF Good, QueueOK, PendingCards
<1> HIDE DEF S
<1>3. /\ Head(q) \in S /\ r \in Seq(S) /\ Head(q) = q[1] /\ 1 \in DOMAIN q
      /\ \A i \in DOMAIN r : i + 1 \in DOMAIN q /\ r[i] = q[i + 1]
      BY <1>2
<1>4. PICK C, w : C = Head(q).lits /\ w = Head(q).w
      OBVIOUS
<1>5. C \in SUBSET Int /\ w \in Nat \ {0} /\ Over(f, C)
      BY <1>2, <1>3, <1>4 DEF S, Over
<1>6. QueueOK(f, r)
  <2>1. r \in PendingCards
        BY <1>3 DEF S, PendingCards
  <2> QED BY <1>2, <1>3, <2>1 DEF QueueOK
<1>7. OpensCard(f, g, Open(f, W), C, w)
      BY <1>1, <1>4, <1>5, AddCardShape DEF Good
<1>8. PICK N : /\ Relaxed(f, g, N) /\ Shaped(g, Open(f, W) \cup N)
               /\ \A s, bad : QueueOK(f, s) /\ Fits(g, bad) =>
                    Total(g, s, bad) = Total(f, s, bad) + Owes(bad, C, w, 0)
      BY <1>7 DEF OpensCard
<1>9. IsFormula(g) /\ CardOK(g) /\ SameTruth(f, g) /\ g.live = f.live /\ g.cost = f.cost
      BY <1>8 DEF Relaxed
<1>10. Open(g, W) = Open(f, W) \cup N
  <2>1. ASSUME NEW u \in DOMAIN f.poids PROVE u \in Open(g, W) <=> u \in Open(f, W)
    <3>1. g.poids[u] = f.poids[u] /\ u \in DOMAIN g.poids
          BY <1>8 DEF Relaxed
    <3> QED BY <3>1 DEF Open
  <2>2. \A u \in N : u \in Open(g, W) /\ u \notin DOMAIN f.poids
        BY <1>8 DEF Relaxed, Open
  <2>3. \A u \in Open(g, W) : u \in DOMAIN f.poids \/ u \in N
        BY <1>8 DEF Relaxed, Open
  <2>4. \A u \in Open(f, W) : u \in DOMAIN f.poids
        BY DEF Open
  <2> QED BY <2>1, <2>2, <2>3, <2>4
<1>11. Good(g, r, W)
  <2>1. Sound(g)
    <3>1. Keeps(f, g, {})
          BY <1>4, <1>5, KeepsAddCard DEF Good
    <3> QED BY <3>1 DEF Keeps
  <2>2. QueueOK(g, r)
        BY <1>6, <1>9, QueueKept
  <2> QED BY <1>8, <1>10, <2>1, <2>2 DEF Good
<1>12. ASSUME NEW bad, Fits(g, bad) PROVE Total(g, r, bad) = Total(f, q, bad)
  <2>1. Total(g, r, bad) = Total(f, r, bad) + Owes(bad, C, w, 0)
        BY <1>6, <1>8, <1>12
  <2>2. PendingOwe(bad, q) = Owes(bad, C, w, 0) + PendingOwe(bad, r)
    <3>1. QueueWell(q)
          BY <1>1, QueueFacts DEF Good
    <3> QED BY <1>2, <1>4, <3>1, PendingOweTail
  <2>3. Charges(f.poids, bad) \in Nat /\ CardsOwe(bad, f.cards) \in Nat /\ PendingOwe(bad, r) \in Nat /\ f.cost \in Int
        BY <1>1, <1>6, TotalParts DEF Good, Shaped, OutputsOK
  <2>4. Owes(bad, C, w, 0) \in Nat
    <3>1. CardsWell(f.cards)
          BY DEF Good, Shaped, OutputsOK
    <3> QED BY <1>1, <1>5, <1>6, <3>1, WithCardTotal
  <2>5. f.cost + Charges(f.poids, bad) + CardsOwe(bad, f.cards) + PendingOwe(bad, r) + Owes(bad, C, w, 0)
        = f.cost + Charges(f.poids, bad) + CardsOwe(bad, f.cards) + (Owes(bad, C, w, 0) + PendingOwe(bad, r))
        BY ONLY <2>3, <2>4
  <2> QED BY <2>1, <2>2, <2>5 DEF Total
<1>13. OutputsOK(g)
       BY <1>11 DEF Good, Shaped
<1>14. ASSUME NEW p \in g.live PROVE Total(g, r, Falsified(g, p)) = Total(f, q, Falsified(f, p))
  <2>1. p \in Points
        BY <1>9, LivePoints
  <2>2. Fits(g, Falsified(g, p))
        BY <1>9, <1>13, <2>1, FitsPoint
  <2>3. Total(f, q, Falsified(g, p)) = Total(f, q, Falsified(f, p))
        BY <1>9, <2>1, TotalSame
  <2> QED BY <1>12, <2>2, <2>3
<1>15. Total(g, r, Int) <= Total(f, q, Int)
  <2>1. Fits(g, Int)
        BY <1>9, <1>13, FitsAll
  <2> QED BY <1>12, <2>1, TotalInt
<1> QED BY <1>1, <1>9, <1>11, <1>14, <1>15 DEF SameCost

-----------------------------------------------------------------------------
(***************************************************************************)
(* Hard clauses, strata, hardening and cores.                              *)
(***************************************************************************)
\* The fields a step leaves alone.
LEMMA AddHardIs ==
  ASSUME NEW f, IsFormula(f), NEW C, NEW g, g = AddHard(f, C)
  PROVE  /\ IsFormula(g)
         /\ g.poids = f.poids /\ g.map = f.map /\ g.card = f.card /\ g.cards = f.cards
         /\ g.truth = f.truth /\ g.cost = f.cost /\ g.live = f.live \cap UNION {True(f, l) : l \in C}
<1>1. f \in Formulas
      BY Fields
<1> DEFINE T == f.live \cap UNION {True(f, l) : l \in C}
<1>2. g = [f EXCEPT !.live = T]
      BY DEF AddHard
<1> HIDE DEF T
<1>3. g.truth = f.truth /\ g.cost = f.cost /\ g.live = T
      BY <1>1, <1>2 DEF Formulas
<1>4. /\ IsFormula(g)
      /\ g.poids = f.poids /\ g.map = f.map /\ g.card = f.card /\ g.cards = f.cards
      BY AddHardFacts
<1> QED BY <1>3, <1>4 DEF T

\* Clear changes one weight,
LEMMA ClearIs ==
  ASSUME NEW f, IsFormula(f), CardOK(f), NEW l \in LitsOf(f.poids), NEW g, g = Clear(f, l)
  PROVE  /\ IsFormula(g) /\ CardOK(g)
         /\ g.poids = SetPoids(f.poids, l, 0)
         /\ g.card = f.card /\ g.cards = f.cards
         /\ g.truth = f.truth /\ g.cost = f.cost /\ g.live = f.live
<1>1. f \in Formulas
      BY Fields
<1> DEFINE T == SetPoids(f.poids, l, 0)
<1>2. g = [f EXCEPT !.poids = T]
      BY DEF Clear
<1> HIDE DEF T
<1>3. g.truth = f.truth /\ g.cost = f.cost /\ g.live = f.live
      BY <1>1, <1>2 DEF Formulas
<1> QED BY <1>3, ClearFacts

\* b is f at another price.
Repriced(f, b, c) ==
    /\ IsFormula(b) /\ CardOK(b)
    /\ b.poids = f.poids /\ b.card = f.card /\ b.cards = f.cards
    /\ b.truth = f.truth /\ b.cost = c /\ b.live = f.live

\* Reindex the map and the cost,
LEMMA ReindexIs ==
  ASSUME NEW f, IsFormula(f), CardOK(f), NEW m \in Index, NEW c \in Int, NEW g, g = Reindex(f, m, c)
  PROVE  Repriced(f, g, c) /\ g.map = m
<1>1. f \in Formulas
      BY Fields
<1>2. g.truth = f.truth /\ g.cost = c /\ g.live = f.live
      BY <1>1 DEF Formulas, Reindex
<1> QED BY <1>2, ReindexFacts DEF Repriced

\* Reweigh the weights of a set of literals,
LEMMA ReweighIs ==
  ASSUME NEW f, Sound(f), NEW C \in SUBSET LitsOf(f.poids), NEW w \in Nat \ {0}, Affords(f.poids, C, w),
         NEW g, g = Reweigh(f, C, w)
  PROVE  /\ Sound(g) /\ g.poids = Lighter(f.poids, C, w)
         /\ g.card = f.card /\ g.cards = f.cards
         /\ g.truth = f.truth /\ g.cost = f.cost /\ g.live = f.live
<1>1. f \in Formulas
      BY Fields DEF Sound
<1>2. /\ g.poids = Lighter(f.poids, C, w)
      /\ g.truth = f.truth /\ g.cost = f.cost /\ g.live = f.live
      BY <1>1 DEF Formulas, Reweigh, Lighter
<1> QED BY <1>2, ReweighFacts DEF Sound

\* and Harden the weights of the literals it hardens, and the live points.
LEMMA HardenIs ==
  ASSUME NEW f, Sound(f), DOMAIN f.map # {}, NEW mc, NEW g, g = Harden(f, mc)
  PROVE  /\ Sound(g) /\ g.poids = Freed(f.poids, HardenLits(f, mc))
         /\ \A l \in HardenLits(f, mc) : Soft(f, l)
         /\ g.card = f.card /\ g.cards = f.cards
         /\ g.truth = f.truth /\ g.cost = f.cost /\ g.live = Models(f, HardenLits(f, mc))
<1>1. f \in Formulas
      BY Fields DEF Sound
<1>2. /\ g.truth = f.truth /\ g.cost = f.cost /\ g.live = Models(f, HardenLits(f, mc))
      BY <1>1 DEF Formulas, Harden
<1>3. g.card = f.card /\ g.cards = f.cards
      BY HardenFacts DEF Sound
<1> QED BY <1>2, <1>3, KeepsHarden DEF Keeps, Soft

\* An open variable is known to _mapAssum2Card, if it is an output.
LEMMA OpenOutput ==
  ASSUME NEW f, Sound(f), NEW W, \A l \in W : Spent(f, l), NEW v \in Open(f, W), IsOutput(f, v)
  PROVE  v \in DOMAIN f.card /\ f.card[v] # NoCard
<1>1. v \in DOMAIN f.poids /\ DOMAIN f.card = DOMAIN f.poids /\ f.poids \in Seq(Int)
      BY Fields DEF Open, Sound
<1>2. CASE f.poids[v] < 0
      BY <1>1, <1>2 DEF Sound, CardOK, IsOutput
<1>3. CASE -v \in W
  <2>1. Spent(f, -v)
        BY <1>3
  <2>2. v \in Nat \ {0}
        BY <1>1
  <2>3. Var(-v) = v
        BY <2>2 DEF Var
  <2> QED BY <1>1, <2>1, <2>3 DEF Spent
<1> QED BY <1>2, <1>3 DEF Open

\* What opens, of the outputs, was open, and what is no longer open cannot be
\* true any more.
Settles(f, W, g, X) ==
    \A v \in DOMAIN f.card : f.card[v] # NoCard =>
        /\ v \in Open(g, X) => v \in Open(f, W)
        /\ v \in Open(f, W) => v \in Open(g, X) \/ g.live \cap f.truth[v] = {}

\* Weights change, or points go.
LEMMA ShapeWeights ==
  ASSUME NEW f, NEW q, NEW W, Good(f, q, W), \A l \in W : Spent(f, l), NEW g, Sound(g),
         DOMAIN g.poids = DOMAIN f.poids, g.card = f.card, g.cards = f.cards, g.truth = f.truth,
         g.live \subseteq f.live, NEW X, Settles(f, W, g, X)
  PROVE  Good(g, q, X) /\ SameTruth(f, g)
<1>1. IsFormula(f) /\ CardOK(f) /\ IsFormula(g) /\ Sound(f) /\ Shaped(f, Open(f, W))
      BY DEF Good, Sound
<1>2. SameTruth(f, g)
      BY DEF SameTruth
<1>3. ASSUME NEW v \in Open(g, X), v \in DOMAIN g.card, g.card[v] # NoCard
      PROVE  v \in Open(f, W)
      BY <1>3 DEF Settles
<1>4. ASSUME NEW d \in DOMAIN f.cards, NEW v, v = f.cards[d].outs[Paid(f.cards[d])],
             Paid(f.cards[d]) \in DOMAIN f.cards[d].outs, v \in Open(f, W)
      PROVE  v \in Open(g, X) \/ g.live \cap f.truth[v] = {}
  <2>1. IsOutput(f, v)
        BY <1>4 DEF IsOutput
  <2>2. v \in DOMAIN f.card /\ f.card[v] # NoCard
        BY <1>1, <1>4, <2>1, OpenOutput
  <2> QED BY <1>4, <2>2 DEF Settles
<1>5. \A d \in DOMAIN f.cards :
           Paid(f.cards[d]) \in DOMAIN f.cards[d].outs /\ f.cards[d].outs[Paid(f.cards[d])] \in Open(f, W) =>
             \/ f.cards[d].outs[Paid(f.cards[d])] \in Open(g, X)
             \/ Cardinality(f.cards[d].lits) <= Paid(f.cards[d]) + 1
             \/ g.live \cap f.truth[f.cards[d].outs[Paid(f.cards[d])]] = {}
      BY <1>4
<1>6. \A v \in Open(g, X) : v \in DOMAIN g.card /\ g.card[v] # NoCard => v \in Open(f, W)
      BY <1>3
<1>7. Shaped(g, Open(g, X))
      BY <1>1, <1>2, <1>5, <1>6, ShapeKept
<1>8. QueueOK(g, q)
      BY <1>2, QueueKept DEF Good
<1> QED BY <1>2, <1>7, <1>8 DEF Good

\* The total, when the constraints are the same.
LEMMA TotalMoved ==
  ASSUME NEW f, NEW q, NEW W, Good(f, q, W), NEW g, IsFormula(g), g.cards = f.cards, NEW bad, NEW d \in Int,
         g.cost + Charges(g.poids, bad) = f.cost + Charges(f.poids, bad) + d
  PROVE  Total(g, q, bad) = Total(f, q, bad) + d
<1>1. Charges(f.poids, bad) \in Nat /\ CardsOwe(bad, f.cards) \in Nat /\ PendingOwe(bad, q) \in Nat /\ f.cost \in Int
      BY TotalParts DEF Good, Sound, Shaped, OutputsOK
<1>2. g.cost \in Int /\ Charges(g.poids, bad) \in Nat
      BY Fields, ChargesNat
<1>3. g.cost + Charges(g.poids, bad) + CardsOwe(bad, f.cards) + PendingOwe(bad, q)
      = f.cost + Charges(f.poids, bad) + CardsOwe(bad, f.cards) + PendingOwe(bad, q) + d
      BY ONLY <1>1, <1>2, d \in Int, g.cost + Charges(g.poids, bad) = f.cost + Charges(f.poids, bad) + d
<1> QED BY <1>3 DEF Total

\* The weight of one variable is set to 0.
LEMMA ChargesClear ==
  ASSUME NEW poids \in Seq(Int), NEW l \in LitsOf(poids), NEW p, p = SetPoids(poids, l, 0), NEW bad,
         NEW x \in LitsOf(poids), x = l \/ x = -l, Weight(poids, x) >= 0
  PROVE  /\ x \in bad => Charges(p, bad) = Charges(poids, bad) - Weight(poids, x)
         /\ x \notin bad => Charges(p, bad) = Charges(poids, bad)
<1>1. PICK v : v = Var(l)
      OBVIOUS
<1>2. v \in DOMAIN poids /\ v = Var(x) /\ l \in Int /\ x \in Int /\ poids[v] \in Int /\ (x = v \/ x = -v) /\ v \in Nat \ {0}
      BY <1>1 DEF LitsOf, Var
<1>3. /\ p \in Seq(Int) /\ DOMAIN p = DOMAIN poids
      /\ \A u \in DOMAIN poids : p[u] = IF u = Var(l) THEN 0 ELSE poids[u]
      BY WeightClear
<1>4. p[v] = 0 /\ \A u \in DOMAIN poids \ {v} : p[u] = poids[u]
      BY <1>1, <1>2, <1>3
<1>5. Charges(p, bad) = Charges(poids, bad) + (Price(p[v], v, bad) - Price(poids[v], v, bad))
      BY <1>2, <1>3, <1>4, ChargesSet
<1>6. Price(p[v], v, bad) = 0
      BY <1>4 DEF Price
<1>7. Price(poids[v], v, bad) = IF x \in bad THEN Weight(poids, x) ELSE 0
  <2>1. CASE x = v
    <3>1. Weight(poids, x) = poids[v]
          BY <1>2, <2>1 DEF Weight
    <3> QED BY <1>2, <2>1, <3>1 DEF Price
  <2>2. CASE x = -v
    <3>1. Weight(poids, x) = -poids[v]
          BY <1>2, <2>2 DEF Weight
    <3> QED BY <1>2, <2>2, <3>1 DEF Price
  <2> QED BY <1>2, <2>1, <2>2
<1>8. Charges(poids, bad) \in Nat /\ Weight(poids, x) \in Int
      BY ChargesNat, WeightFacts
<1> QED BY <1>5, <1>6, <1>7, <1>8

\* No overflow.
LEMMA WrapSmall ==
  ASSUME NEW x \in Nat, x < MaxWeight
  PROVE  Wrap(x) = x
  BY MaxWeightAssumption DEF Wrap

\* Relaxing v, which is not to be open any more, whatever it was.
LEMMA RelaxOpens ==
  ASSUME NEW f, IsFormula(f), CardOK(f), NEW O, Shaped(f, O), NEW l \in LitsOf(f.poids), NEW v, v = Var(l),
         f.card[v] # NoCard => v \in O, IsOutput(f, v) /\ v \in O => f.card[v] # NoCard, NEW g, g = Relax(f, l)
  PROVE  Opens(f, g, O \ {v})
<1>1. CASE f.card[v] # NoCard
      BY <1>1, RelaxShape
<1>2. CASE f.card[v] = NoCard
  <2>1. g = f
        BY <1>2 DEF Relax
  <2>2. Relaxed(f, g, {})
        BY <2>1 DEF Relaxed, SameTruth
  <2>3. PICK Q : Q = (O \ {v}) \cup {}
        OBVIOUS
  <2>4. \A u \in Q : u \in DOMAIN g.card /\ g.card[u] # NoCard => u \in O
        BY <2>3
  <2>5. ASSUME NEW d \in DOMAIN f.cards, NEW u, u = f.cards[d].outs[Paid(f.cards[d])],
               Paid(f.cards[d]) \in DOMAIN f.cards[d].outs, u \in O
        PROVE  u \in Q
    <3>1. IsOutput(f, u)
          BY <2>5 DEF IsOutput
    <3> QED BY <1>2, <2>3, <2>5, <3>1
  <2>6. \A d \in DOMAIN f.cards :
           Paid(f.cards[d]) \in DOMAIN f.cards[d].outs /\ f.cards[d].outs[Paid(f.cards[d])] \in O =>
             \/ f.cards[d].outs[Paid(f.cards[d])] \in Q
             \/ Cardinality(f.cards[d].lits) <= Paid(f.cards[d]) + 1
             \/ g.live \cap f.truth[f.cards[d].outs[Paid(f.cards[d])]] = {}
        BY <2>5
  <2>7. SameTruth(f, g)
        BY <2>1 DEF SameTruth
  <2>8. Shaped(g, Q)
        BY <2>1, <2>4, <2>6, <2>7, ShapeKept
  <2>9. \A q, bad : QueueOK(f, q) /\ Fits(g, bad) => Total(g, q, bad) = Total(f, q, bad)
        BY <2>1
  <2> QED BY <2>2, <2>3, <2>8, <2>9 DEF Opens
<1> QED BY <1>1, <1>2

\* A hard unit.
UnitCost(f, q, W, g, l) ==
    Good(g, q, W) /\ SameCost(f, q, g, q) /\ g.live = f.live \cap True(f, l)

\* g is r with the weight of l gone.
Cleared(r, g, l) ==
    /\ IsFormula(g) /\ g.poids = SetPoids(r.poids, l, 0)
    /\ g.card = r.card /\ g.cards = r.cards /\ g.truth = r.truth /\ g.cost = r.cost

\* What a unit clause ends with.
LEMMA UnitClears ==
  ASSUME NEW r, IsFormula(r), CardOK(r), NEW l \in LitsOf(r.poids), NEW h, h = Clear(r, l), NEW g, g = AddHard(h, {l})
  PROVE  Cleared(r, g, l) /\ g.live = r.live \cap True(r, l)
<1>1. /\ IsFormula(h) /\ h.poids = SetPoids(r.poids, l, 0)
      /\ h.card = r.card /\ h.cards = r.cards /\ h.truth = r.truth /\ h.cost = r.cost /\ h.live = r.live
      BY ClearIs
<1> DEFINE T == UNION {True(h, y) : y \in {l}}
<1>2. T = True(r, l)
      BY <1>1 DEF True
<1>3. /\ IsFormula(g) /\ g.poids = h.poids /\ g.card = h.card /\ g.cards = h.cards
      /\ g.truth = h.truth /\ g.cost = h.cost /\ g.live = h.live \cap T
      BY <1>1, AddHardIs
<1> HIDE DEF T
<1> QED BY <1>1, <1>2, <1>3 DEF Cleared

\* The variable of l is a soft output only negatively.
LEMMA SoftOutputLit ==
  ASSUME NEW f, Sound(f), NEW x \in LitsOf(f.poids), Weight(f.poids, x) > 0, NEW v, v = Var(x)
  PROVE  /\ v \in DOMAIN f.poids /\ v \in Nat \ {0} /\ (x = v \/ x = -v) /\ DOMAIN f.card = DOMAIN f.poids
         /\ f.card[v] # NoCard => f.poids[v] < 0 /\ x = -v
<1>1. f.poids \in Seq(Int) /\ DOMAIN f.card = DOMAIN f.poids
      BY Fields DEF Sound
<1>2. v \in DOMAIN f.poids /\ v \in Nat \ {0} /\ (x = v \/ x = -v) /\ x \in Int
      BY <1>1 DEF LitsOf, Var
<1>3. ASSUME f.card[v] # NoCard PROVE f.poids[v] < 0 /\ x = -v
  <2>1. f.poids[v] <= 0 /\ f.poids[v] \in Int
        BY <1>1, <1>2, <1>3 DEF Sound, CardOK
  <2>2. x = v => Weight(f.poids, x) = f.poids[v]
        BY <1>2 DEF Weight
  <2>3. x = -v => Weight(f.poids, x) = -f.poids[v]
        BY <1>2 DEF Weight
  <2> QED BY <1>2, <2>1, <2>2, <2>3
<1> QED BY <1>1, <1>2, <1>3

\* A soft literal does not wait to be relaxed, nor does its negation.
LEMMA NotWaiting ==
  ASSUME NEW f, Sound(f), NEW W, \A y \in W : Spent(f, y), NEW x, Soft(f, x), NEW v, v = Var(x)
  PROVE  -v \notin W
<1>1. x \in LitsOf(f.poids) /\ x \in Int
      BY DEF Soft, LitsOf
<1>2. ~Spent(f, x) /\ ~Spent(f, -x)
      BY SoftFacts
<1>3. -v = x \/ -v = -x
      BY <1>1 DEF Var
<1> QED BY <1>2, <1>3

\* The constraint of the unit's output moves on to its next output.
LEMMA UnitOpens ==
  ASSUME NEW f, NEW q, NEW W, Good(f, q, W), \A y \in W : Spent(f, y), NEW l \in LitsOf(f.poids),
         NEW x, x = -l, Weight(f.poids, x) > 0, NEW c, NEW b, Repriced(f, b, c), NEW r, r = Relax(b, l),
         NEW v, v = Var(l)
  PROVE  Opens(b, r, Open(f, W) \ {v}) /\ QueueOK(b, q) /\ SameTruth(f, b)
<1>1. Sound(f) /\ IsFormula(f) /\ CardOK(f) /\ f.poids \in Seq(Int)
      BY Fields DEF Good, Sound
<1>2. x \in LitsOf(f.poids) /\ l \in Int /\ x \in Int /\ v = Var(x)
      BY <1>1, WeightFacts DEF LitsOf, Var
<1>3. PICK O : O = Open(f, W)
      OBVIOUS
<1>4. IsFormula(b) /\ CardOK(b) /\ b.poids = f.poids /\ b.card = f.card /\ b.cards = f.cards /\ b.live = f.live
      BY DEF Repriced
<1>5. SameTruth(f, b)
      BY DEF SameTruth, Repriced
<1>6. Shaped(b, O)
      BY <1>1, <1>3, <1>4, <1>5, ShapeKept DEF Good
<1>7. QueueOK(b, q)
      BY <1>5, QueueKept DEF Good
<1>8. v \in DOMAIN f.poids /\ (f.card[v] # NoCard => f.poids[v] < 0)
      BY <1>1, <1>2, SoftOutputLit
<1>9. b.card[v] # NoCard => v \in O
      BY <1>3, <1>4, <1>8 DEF Open
<1>10. IsOutput(b, v) /\ v \in O => b.card[v] # NoCard
  <2>1. IsOutput(b, v) => IsOutput(f, v)
        BY <1>4 DEF IsOutput
  <2> QED BY <1>1, <1>3, <1>4, <2>1, OpenOutput
<1>11. l \in LitsOf(b.poids)
       BY <1>4
<1>12. Opens(b, r, O \ {v})
       BY <1>4, <1>6, <1>9, <1>10, <1>11, RelaxOpens
<1> QED BY <1>3, <1>5, <1>7, <1>12

\* What a cleared formula weighs and owes.
LEMMA ClearedFacts ==
  ASSUME NEW r, IsFormula(r), NEW l \in LitsOf(r.poids), NEW g, Cleared(r, g, l), NEW v, v = Var(l)
  PROVE  /\ DOMAIN g.poids = DOMAIN r.poids /\ g.poids[v] = 0
         /\ \A u \in DOMAIN r.poids : u # v => g.poids[u] = r.poids[u]
<1>1. r.poids \in Seq(Int) /\ g.poids = SetPoids(r.poids, l, 0) /\ v \in DOMAIN r.poids
      BY Fields DEF Cleared, LitsOf
<1>2. PICK p : p = SetPoids(r.poids, l, 0)
      OBVIOUS
<1>3. DOMAIN p = DOMAIN r.poids /\ \A u \in DOMAIN r.poids : p[u] = IF u = Var(l) THEN 0 ELSE r.poids[u]
      BY <1>1, <1>2, WeightClear
<1> QED BY <1>1, <1>2, <1>3

\* Clearing a weight forgives it, to those who owe it.
LEMMA ClearedTotal ==
  ASSUME NEW r, IsFormula(r), CardsWell(r.cards), NEW q, QueueOK(r, q), NEW l \in LitsOf(r.poids),
         NEW g, Cleared(r, g, l), NEW x \in LitsOf(r.poids), Var(x) = Var(l), Weight(r.poids, x) >= 0, NEW bad
  PROVE  /\ Weight(r.poids, x) \in Nat
         /\ x \in bad => Total(g, q, bad) = Total(r, q, bad) - Weight(r.poids, x)
         /\ x \notin bad => Total(g, q, bad) = Total(r, q, bad)
<1>1. r.poids \in Seq(Int)
      BY Fields
<1>2. g.poids = SetPoids(r.poids, l, 0) /\ g.cards = r.cards /\ g.cost = r.cost /\ (x = l \/ x = -l)
      BY DEF LitsOf, Var, Cleared
<1>3. /\ x \in bad => Charges(g.poids, bad) = Charges(r.poids, bad) - Weight(r.poids, x)
      /\ x \notin bad => Charges(g.poids, bad) = Charges(r.poids, bad)
      BY <1>2, <1>1, ChargesClear
<1>4. Charges(r.poids, bad) \in Nat /\ CardsOwe(bad, r.cards) \in Nat /\ PendingOwe(bad, q) \in Nat /\ r.cost \in Int
      BY TotalParts
<1>5. Weight(r.poids, x) \in Nat
      BY <1>1, WeightFacts
<1>6. ASSUME x \in bad PROVE Total(g, q, bad) = Total(r, q, bad) - Weight(r.poids, x)
  <2>1. r.cost + (Charges(r.poids, bad) - Weight(r.poids, x)) + CardsOwe(bad, r.cards) + PendingOwe(bad, q)
        = r.cost + Charges(r.poids, bad) + CardsOwe(bad, r.cards) + PendingOwe(bad, q) - Weight(r.poids, x)
        BY ONLY <1>4, <1>5
  <2>2. Charges(g.poids, bad) = Charges(r.poids, bad) - Weight(r.poids, x)
        BY <1>3, <1>6
  <2>3. Total(g, q, bad) =
          r.cost + (Charges(r.poids, bad) - Weight(r.poids, x)) + CardsOwe(bad, r.cards) + PendingOwe(bad, q)
        BY <1>2, <2>2 DEF Total
  <2>4. Total(r, q, bad) = r.cost + Charges(r.poids, bad) + CardsOwe(bad, r.cards) + PendingOwe(bad, q)
        BY DEF Total
  <2> QED BY ONLY <1>4, <1>5, <2>1, <2>3, <2>4
<1>7. ASSUME x \notin bad PROVE Total(g, q, bad) = Total(r, q, bad)
      BY <1>2, <1>3, <1>7 DEF Total
<1> QED BY <1>5, <1>6, <1>7

\* The unit contradicts a soft literal, whose weight is paid.
LEMMA CostUnitPays ==
  ASSUME NEW f, NEW q, NEW W, Good(f, q, W), \A y \in W : Spent(f, y), NEW l \in LitsOf(f.poids),
         NEW x, x = -l, NEW w, w = Weight(f.poids, x), w > 0, NEW c, c = f.cost + w,
         NEW b, Repriced(f, b, c), NEW r, r = Relax(b, l),
         NEW g, Sound(g), Cleared(r, g, l), g.live = r.live \cap True(r, l)
  PROVE  UnitCost(f, q, W, g, l)
<1>1. Sound(f) /\ IsFormula(f) /\ f.cost \in Int /\ f.poids \in Seq(Int) /\ IsFormula(g)
      BY Fields DEF Good, Sound
<1>2. x \in LitsOf(f.poids) /\ w \in Nat \ {0} /\ l \in Int /\ x \in Int
  <2>1. x \in LitsOf(f.poids) /\ w \in Int
        BY ONLY <1>1, l \in LitsOf(f.poids), x = -l, w = Weight(f.poids, x), WeightFacts
  <2>2. l \in Int /\ x \in Int
        BY <2>1 DEF LitsOf
  <2> QED BY ONLY <2>1, <2>2, w > 0
<1>3. PICK v : v = Var(l)
      OBVIOUS
<1>4. PICK O : O = Open(f, W)
      OBVIOUS
<1>5. Opens(b, r, O \ {v}) /\ QueueOK(b, q) /\ SameTruth(f, b)
      BY <1>3, <1>4, UnitOpens
<1>6. PICK N : /\ Relaxed(b, r, N) /\ Shaped(r, (O \ {v}) \cup N)
               /\ \A s, bad : QueueOK(b, s) /\ Fits(r, bad) => Total(r, s, bad) = Total(b, s, bad)
      BY <1>5 DEF Opens
<1>7. /\ b.poids = f.poids /\ b.cards = f.cards /\ b.cost = c /\ b.live = f.live /\ IsFormula(b)
      BY DEF Repriced
<1>8. /\ IsFormula(r) /\ CardOK(r) /\ SameTruth(b, r) /\ r.live = f.live /\ r.cost = c
      /\ DOMAIN r.poids = DOMAIN f.poids \cup N
      /\ \A u \in DOMAIN f.poids : r.poids[u] = f.poids[u]
      /\ \A u \in N : u \notin DOMAIN f.poids /\ r.poids[u] < 0
      BY <1>6, <1>7 DEF Relaxed
<1>9. r.poids \in Seq(Int) /\ l \in LitsOf(r.poids) /\ x \in LitsOf(r.poids) /\ Weight(r.poids, x) = w
  <2>1. r.poids \in Seq(Int)
        BY <1>8, Fields
  <2>2. l \in LitsOf(r.poids) /\ x \in LitsOf(r.poids)
        BY <1>2, <1>8 DEF LitsOf
  <2>3. Var(x) \in DOMAIN f.poids
        BY <1>2 DEF LitsOf
  <2>4. Weight(r.poids, x) = w
        BY <1>2, <1>8, <2>3 DEF Weight, Var
  <2> QED BY <2>1, <2>2, <2>4
<1>10. g.poids = SetPoids(r.poids, l, 0) /\ g.card = r.card /\ g.cards = r.cards /\ g.truth = r.truth /\ g.cost = c
       BY <1>8 DEF Cleared
<1>11. /\ DOMAIN g.poids = DOMAIN r.poids /\ g.poids[v] = 0
       /\ \A u \in DOMAIN r.poids : u # v => g.poids[u] = r.poids[u]
  <2>1. IsFormula(r) /\ l \in LitsOf(r.poids) /\ Cleared(r, g, l)
        BY <1>8, <1>9
  <2> QED BY ONLY <1>3, <2>1, ClearedFacts
<1>12. SameTruth(r, g) /\ SameTruth(f, r) /\ SameTruth(f, g)
  <2>1. SameTruth(r, g)
        BY <1>10, <1>11 DEF SameTruth
  <2>2. SameTruth(f, r)
        BY <1>5, <1>8 DEF SameTruth
  <2> QED BY <2>1, <2>2 DEF SameTruth
<1>13. g.live = f.live \cap True(f, l)
       BY <1>8, <1>12, SameTrue
<1>14. v \in DOMAIN f.poids /\ -v \notin W
  <2>1. Soft(f, x) /\ v = Var(x)
        BY <1>2, <1>3 DEF Soft, Var
  <2>2. -v \notin W
        BY <1>1, <2>1, NotWaiting
  <2> QED BY <1>3, <2>2 DEF LitsOf
<1>15. Open(g, W) = (O \ {v}) \cup N
  <2>1. ASSUME NEW u \in DOMAIN f.poids PROVE u \in Open(g, W) <=> u \in O /\ u # v
    <3>1. u \in DOMAIN g.poids /\ r.poids[u] = f.poids[u]
          BY <1>8, <1>11
    <3>2. g.poids[u] = IF u = v THEN 0 ELSE f.poids[u]
          BY <1>8, <1>11, <3>1
    <3> QED BY <1>4, <1>14, <3>1, <3>2 DEF Open
  <2>2. ASSUME NEW u \in N PROVE u \in Open(g, W) /\ u \notin DOMAIN f.poids
    <3>1. u \in DOMAIN g.poids /\ u \notin DOMAIN f.poids /\ u # v /\ u \in DOMAIN r.poids /\ r.poids[u] < 0
          BY <1>8, <1>11, <1>14
    <3> QED BY <1>11, <3>1 DEF Open
  <2>3. \A u \in Open(g, W) : u \in DOMAIN f.poids \/ u \in N
        BY <1>8, <1>11 DEF Open
  <2>4. \A u \in O : u \in DOMAIN f.poids
        BY <1>4 DEF Open
  <2> QED BY <2>1, <2>2, <2>3, <2>4
<1>16. PICK Q : Q = (O \ {v}) \cup N
       OBVIOUS
<1>17. Shaped(g, Q)
  <2>1. \A u \in DOMAIN g.card : g.card[u] # NoCard => u \in DOMAIN r.card /\ g.card[u] = r.card[u]
        BY <1>10
  <2>2. Shaped(r, Q) /\ g.live \subseteq r.live
        BY <1>6, <1>8, <1>13, <1>16
  <2> QED BY <1>1, <1>8, <1>10, <1>12, <2>1, <2>2, ShapeKept
<1>18. QueueOK(g, q) /\ QueueOK(r, q)
       BY <1>12, QueueKept DEF Good
<1>19. Good(g, q, W)
       BY <1>15, <1>16, <1>17, <1>18 DEF Good
<1>20. OutputsOK(r) /\ CardsWell(r.cards)
       BY <1>6 DEF Shaped, OutputsOK
<1>21. ASSUME NEW bad, Fits(r, bad), x \in bad PROVE Total(g, q, bad) = Total(f, q, bad)
  <2>1. Total(r, q, bad) = Total(b, q, bad)
        BY <1>5, <1>6, <1>21
  <2>2. b.cost + Charges(b.poids, bad) = f.cost + Charges(f.poids, bad) + w
    <3>1. Charges(f.poids, bad) \in Nat
          BY <1>1, ChargesNat
    <3>2. f.cost + w + Charges(f.poids, bad) = f.cost + Charges(f.poids, bad) + w
          BY ONLY <1>1, <1>2, <3>1
    <3> QED BY <1>7, <3>2
  <2>3. Total(b, q, bad) = Total(f, q, bad) + w
        BY <1>2, <1>7, <2>2, TotalMoved
  <2>4. Weight(r.poids, x) >= 0 /\ Var(x) = Var(l)
        BY <1>2, <1>9 DEF Var
  <2>5. Total(g, q, bad) = Total(r, q, bad) - Weight(r.poids, x)
    <3>1. IsFormula(r) /\ CardsWell(r.cards) /\ QueueOK(r, q) /\ l \in LitsOf(r.poids)
          /\ Cleared(r, g, l) /\ x \in LitsOf(r.poids)
          BY <1>8, <1>9, <1>18, <1>20
    <3> QED BY ONLY <1>21, <2>4, <3>1, ClearedTotal
  <2>6. Total(f, q, bad) \in Int
        BY TotalInt
  <2> QED BY ONLY <1>2, <1>9, <2>1, <2>3, <2>5, <2>6
<1>22. ASSUME NEW p \in g.live PROVE Total(g, q, Falsified(g, p)) = Total(f, q, Falsified(f, p))
  <2>1. p \in Points
        BY <1>1, LivePoints
  <2>2. Fits(r, Falsified(r, p))
        BY <1>8, <1>20, <2>1, FitsPoint
  <2>3. Falsified(g, p) = Falsified(r, p)
        BY <1>10, <1>11 DEF Falsified, Lits, Vars, True
  <2>4. x \in Falsified(g, p)
    <3>1. p \in True(g, l) /\ l \in LitsOf(g.poids)
          BY <1>12, <1>13, SameTrue
    <3> QED BY <1>1, <2>1, <3>1, FalsifiedFacts
  <2>5. Total(g, q, Falsified(g, p)) = Total(f, q, Falsified(g, p))
        BY <1>21, <2>2, <2>3, <2>4
  <2>6. Total(f, q, Falsified(g, p)) = Total(f, q, Falsified(f, p))
        BY <1>1, <1>12, <2>1, TotalSame
  <2> QED BY <2>5, <2>6
<1>23. Total(g, q, Int) <= Total(f, q, Int)
  <2>1. Fits(r, Int)
        BY <1>8, <1>20, FitsAll
  <2> QED BY <1>2, <1>21, <2>1, TotalInt
<1>24. g.cost >= f.cost /\ g.live \subseteq f.live
       BY <1>1, <1>2, <1>10, <1>13
<1> QED BY <1>12, <1>13, <1>19, <1>22, <1>23, <1>24 DEF UnitCost, SameCost

\* The unit is a soft literal, which is soft no more.
LEMMA CostUnitDrops ==
  ASSUME NEW f, NEW q, NEW W, Good(f, q, W), \A y \in W : Spent(f, y), NEW l \in LitsOf(f.poids),
         Weight(f.poids, l) > 0, NEW g, Sound(g), Cleared(f, g, l), g.live = f.live \cap True(f, l)
  PROVE  UnitCost(f, q, W, g, l)
<1>1. Sound(f) /\ IsFormula(f) /\ f.cost \in Int /\ f.poids \in Seq(Int) /\ IsFormula(g) /\ QueueOK(f, q)
      /\ CardsWell(f.cards) /\ l \in Int
      BY Fields DEF Good, Sound, Shaped, OutputsOK, LitsOf
<1>2. PICK v : v = Var(l)
      OBVIOUS
<1>3. /\ DOMAIN g.poids = DOMAIN f.poids /\ g.poids[v] = 0
      /\ \A u \in DOMAIN f.poids : u # v => g.poids[u] = f.poids[u]
      BY ONLY <1>1, <1>2, l \in LitsOf(f.poids), Cleared(f, g, l), ClearedFacts
<1>4. g.card = f.card /\ g.cards = f.cards /\ g.truth = f.truth /\ g.cost = f.cost
      BY DEF Cleared
<1>5. /\ v \in DOMAIN f.poids /\ v \in Nat \ {0} /\ DOMAIN f.card = DOMAIN f.poids
      /\ f.card[v] # NoCard => f.poids[v] < 0 /\ l = -v
      BY <1>1, <1>2, SoftOutputLit
<1>6. Settles(f, W, g, W)
  <2> SUFFICES ASSUME NEW u \in DOMAIN f.card, f.card[u] # NoCard
               PROVE  /\ u \in Open(g, W) => u \in Open(f, W)
                      /\ u \in Open(f, W) => u \in Open(g, W) \/ g.live \cap f.truth[u] = {}
      BY DEF Settles
  <2>1. CASE u = v
    <3>1. l = -v /\ f.poids[v] < 0 /\ -l = v /\ l < 0
          BY <1>5, <2>1
    <3>2. True(f, l) = Points \ f.truth[v]
          BY <3>1 DEF True
    <3>3. v \in Open(f, W)
          BY <1>5, <3>1 DEF Open
    <3> QED BY <2>1, <3>2, <3>3
  <2>2. CASE u # v
    <3>1. g.poids[u] = f.poids[u]
          BY <1>3, <1>5, <2>2
    <3> QED BY <1>3, <3>1 DEF Open
  <2> QED BY <2>1, <2>2
<1>7. Good(g, q, W) /\ SameTruth(f, g)
  <2>1. g.live \subseteq f.live
        OBVIOUS
  <2> QED BY <1>3, <1>4, <1>6, <2>1, ShapeWeights
<1>8. ASSUME NEW p \in g.live PROVE Total(g, q, Falsified(g, p)) = Total(f, q, Falsified(f, p))
  <2>1. p \in Points /\ p \in True(f, l)
        BY <1>1, LivePoints
  <2>2. l \notin Falsified(f, p)
        BY <1>1, <2>1, FalsifiedFacts
  <2>3. Total(g, q, Falsified(f, p)) = Total(f, q, Falsified(f, p))
    <3>1. Weight(f.poids, l) >= 0
          BY <1>1, WeightFacts
    <3> QED BY ONLY <1>1, <2>2, <3>1, l \in LitsOf(f.poids), Cleared(f, g, l), ClearedTotal
  <2>4. Falsified(g, p) = Falsified(f, p)
        BY <1>3, <1>4 DEF Falsified, Lits, Vars, True
  <2> QED BY <2>3, <2>4
<1>9. Total(g, q, Int) <= Total(f, q, Int)
  <2>1. Weight(f.poids, l) >= 0
        BY <1>1, WeightFacts
  <2>2. Weight(f.poids, l) \in Nat /\ Total(g, q, Int) = Total(f, q, Int) - Weight(f.poids, l)
        BY ONLY <1>1, <2>1, l \in LitsOf(f.poids), Cleared(f, g, l), ClearedTotal
  <2>3. Total(f, q, Int) \in Int
        BY TotalInt
  <2> QED BY ONLY <2>2, <2>3
<1> QED BY <1>1, <1>4, <1>7, <1>8, <1>9 DEF UnitCost, SameCost

\* addClause({l}) of a hard unit.
LEMMA CostHardUnit ==
  ASSUME NEW f, NEW q, NEW W, Good(f, q, W), \A y \in W : Spent(f, y), f.cost \in Nat, Total(f, q, Int) < MaxWeight,
         NEW l \in LitsOf(f.poids), NEW g, g = HardUnit(f, l)
  PROVE  UnitCost(f, q, W, g, l)
<1>1. /\ Sound(f) /\ IsFormula(f) /\ CardOK(f) /\ f.cost \in Int /\ f.poids \in Seq(Int) /\ f.map \in Index
      /\ QueueOK(f, q) /\ CardsWell(f.cards)
      BY Fields DEF Good, Sound, Shaped, OutputsOK
<1>2. PICK x : x = -l
      OBVIOUS
<1>3. PICK w : w = Weight(f.poids, x)
      OBVIOUS
<1>4. x \in LitsOf(f.poids) /\ w \in Int /\ Weight(f.poids, l) = -w /\ l \in Int \ {0} /\ x \in Int \ {0}
      BY <1>1, <1>2, <1>3, WeightFacts DEF LitsOf
<1>5. Sound(g)
      BY <1>1, KeepsHardUnit DEF Keeps
<1>6. w = Poids(f, -l)
      BY <1>2, <1>3 DEF Poids
<1>7. CASE w > 0
  <2>1. PICK c : c = f.cost + w
        OBVIOUS
  <2>2. Wrap(f.cost + w) = c /\ c \in Int
    <3>1. w <= Charges(f.poids, Int)
          BY <1>1, <1>3, <1>4, <1>7, ChargesTerm
    <3>2. Charges(f.poids, Int) \in Nat /\ CardsOwe(Int, f.cards) \in Nat /\ PendingOwe(Int, q) \in Nat
          BY <1>1, TotalParts
    <3>3. f.cost + Charges(f.poids, Int) + CardsOwe(Int, f.cards) + PendingOwe(Int, q) < MaxWeight
          BY DEF Total
    <3>4. c \in Nat /\ c < MaxWeight
          BY ONLY <1>4, <1>7, <2>1, <3>1, <3>2, <3>3, MaxWeightAssumption, f.cost \in Nat
    <3> QED BY <2>1, <3>4, WrapSmall
  <2>3. PICK m : m = Erase(f.map, w, x)
        OBVIOUS
  <2>4. m \in Index
        BY <1>1, <1>4, <1>7, <2>3, InsertType
  <2>5. PICK b : b = Reindex(f, m, c)
        OBVIOUS
  <2>6. PICK r : r = Relax(b, l)
        OBVIOUS
  <2>7. PICK h : h = Clear(r, l)
        OBVIOUS
  <2>8. g = AddHard(h, {l})
    <3>1. w > 0 /\ ~(w = 0) /\ w = Poids(f, -l)
          BY <1>4, <1>6, <1>7
    <3> QED BY <1>2, <2>2, <2>3, <2>5, <2>6, <2>7, <3>1, Zenon DEF HardUnit, Clear, Reindex
  <2>9. Repriced(f, b, c)
        BY ONLY <1>1, <2>2, <2>4, <2>5, ReindexIs
  <2>10. IsFormula(r) /\ CardOK(r) /\ l \in LitsOf(r.poids)
    <3>1. IsFormula(b) /\ CardOK(b) /\ l \in LitsOf(b.poids)
          BY <2>9 DEF Repriced
    <3>2. Extended(b, r, {Var(l)})
          BY <2>6, <3>1, RelaxFacts
    <3> QED BY <3>1, <3>2, MoreLits DEF Extended
  <2>11. Cleared(r, g, l) /\ g.live = r.live \cap True(r, l)
        BY <2>7, <2>8, <2>10, UnitClears
  <2> QED BY ONLY Good(f, q, W), \A y \in W : Spent(f, y), l \in LitsOf(f.poids), <1>2, <1>3, <1>5, <1>7, <2>1, <2>6, <2>9, <2>11,
             CostUnitPays
<1>8. CASE w < 0
  <2>1. PICK m : m = Erase(f.map, -w, l)
        OBVIOUS
  <2>2. m \in Index
        BY <1>1, <1>4, <1>8, <2>1, InsertType
  <2>3. PICK b : b = [f EXCEPT !.map = m]
        OBVIOUS
  <2>4. b = Reindex(f, m, f.cost)
        BY <1>1, <2>2, <2>3, ReindexOnly
  <2>5. PICK h : h = Clear(b, l)
        OBVIOUS
  <2>6. g = AddHard(h, {l})
    <3>1. ~(w > 0) /\ w < 0 /\ ~(w = 0) /\ w = Poids(f, -l)
          BY <1>4, <1>6, <1>8
    <3> QED BY <2>1, <2>3, <2>5, <3>1, Zenon DEF HardUnit, Clear
  <2>7. /\ IsFormula(b) /\ CardOK(b) /\ b.poids = f.poids /\ b.card = f.card /\ b.cards = f.cards
        /\ b.truth = f.truth /\ b.cost = f.cost /\ b.live = f.live
    <3>1. Repriced(f, b, f.cost)
          BY ONLY <1>1, <2>2, <2>4, ReindexIs
    <3> QED BY <3>1 DEF Repriced
  <2>8. Cleared(b, g, l) /\ g.live = b.live \cap True(b, l)
        BY <2>5, <2>6, <2>7, UnitClears
  <2>9. Cleared(f, g, l) /\ g.live = f.live \cap True(f, l)
        BY <2>7, <2>8 DEF Cleared, True
  <2>10. Weight(f.poids, l) > 0
        BY <1>4, <1>8
  <2> QED BY ONLY Good(f, q, W), \A y \in W : Spent(f, y), l \in LitsOf(f.poids), <1>5, <2>9, <2>10, CostUnitDrops
<1>9. CASE w = 0
  <2>1. g = AddHard(f, {l})
        BY <1>6, <1>9 DEF HardUnit
  <2>2. /\ g.poids = f.poids /\ g.card = f.card /\ g.cards = f.cards
        /\ g.truth = f.truth /\ g.cost = f.cost /\ g.live = f.live \cap UNION {True(f, y) : y \in {l}}
        BY <1>1, <2>1, AddHardIs
  <2>3. UNION {True(f, y) : y \in {l}} = True(f, l)
        OBVIOUS
  <2>4. g.live = f.live \cap True(f, l) /\ g.live \subseteq f.live
        BY <2>2, <2>3
  <2>5. Good(g, q, W) /\ SameCost(f, q, g, q)
        BY <1>5, <2>2, <2>4, CostKept
  <2> QED BY <2>4, <2>5 DEF UnitCost
<1> QED BY <1>4, <1>7, <1>8, <1>9

\* addClause(C) of a hard clause.
LEMMA CostHard ==
  ASSUME NEW f, NEW q, NEW W, Good(f, q, W), \A y \in W : Spent(f, y), f.cost \in Nat, Total(f, q, Int) < MaxWeight,
         NEW C, Over(f, C), NEW g, g = AddHardClause(f, C)
  PROVE  Good(g, q, W) /\ SameCost(f, q, g, q) /\ g.live = f.live \cap UNION {True(f, l) : l \in C}
<1>1. IsFormula(f) /\ f.poids \in Seq(Int) /\ Sound(f)
      BY Fields DEF Good, Sound
<1>2. CASE Cardinality(C) = 1
  <2>1. IsFiniteSet(C)
        BY <1>1, LitsOfFinite, FS_Subset DEF Over
  <2>2. PICK l : C = {l}
        BY <1>2, <2>1, FS_Singleton
  <2>3. (CHOOSE y \in C : TRUE) = l
        BY <2>2
  <2>4. l \in LitsOf(f.poids) /\ g = HardUnit(f, l)
        BY <1>2, <2>2, <2>3 DEF Over, AddHardClause
  <2>5. UnitCost(f, q, W, g, l)
        BY <2>4, CostHardUnit
  <2>6. UNION {True(f, y) : y \in C} = True(f, l)
        BY <2>2
  <2> QED BY <2>5, <2>6 DEF UnitCost
<1>3. CASE Cardinality(C) # 1
  <2>1. g = AddHard(f, C)
        BY <1>3 DEF AddHardClause
  <2> DEFINE T == UNION {True(f, l) : l \in C}
  <2>2. /\ IsFormula(g)
        /\ g.poids = f.poids /\ g.map = f.map /\ g.card = f.card /\ g.cards = f.cards
        /\ g.truth = f.truth /\ g.cost = f.cost /\ g.live = f.live \cap T
        BY <1>1, <2>1, AddHardIs
  <2> HIDE DEF T
  <2>3. Sound(g)
        BY <1>1, <2>2 DEF Sound, CardOK, IndexOK
  <2>4. Good(g, q, W) /\ SameCost(f, q, g, q)
        BY <2>2, <2>3, CostKept
  <2> QED BY <2>2, <2>4 DEF T
<1> QED BY <1>2, <1>3

\* Choosing a stratum.
LEMMA CostStratum ==
  ASSUME NEW f, NEW q, NEW W, Good(f, q, W), NEW m, NEW c \in ChooseNextMinWeight(f.map, m),
         NEW g, g = [f EXCEPT !.map = c.map]
  PROVE  Good(g, q, W) /\ SameCost(f, q, g, q) /\ g.live = f.live /\ g.cost = f.cost /\ g.poids = f.poids
<1>1. Sound(f) /\ f \in Formulas
      BY Fields DEF Good, Sound
<1>2. Sound(g)
  <2>1. Keeps(f, g, {})
        BY <1>1, KeepsStratum
  <2> QED BY <2>1 DEF Keeps
<1>3. /\ g.poids = f.poids /\ g.card = f.card /\ g.cards = f.cards
      /\ g.truth = f.truth /\ g.cost = f.cost /\ g.live = f.live
      BY <1>1 DEF Formulas
<1> QED BY <1>2, <1>3, CostKept

\* harden().
LEMMA CostHarden ==
  ASSUME NEW f, NEW q, NEW W, Good(f, q, W), \A y \in W : Spent(f, y), DOMAIN f.map # {}, NEW mc,
         NEW g, g = Harden(f, mc)
  PROVE  Good(g, q, W) /\ SameCost(f, q, g, q) /\ g.live = Models(f, HardenLits(f, mc)) /\ g.cost = f.cost
<1>1. IsFormula(f) /\ f.poids \in Seq(Int) /\ Sound(f) /\ f.cost \in Int
      BY Fields DEF Good, Sound
<1>2. PICK H : H = HardenLits(f, mc)
      OBVIOUS
<1>3. /\ Sound(g) /\ g.poids = Freed(f.poids, H)
      /\ \A l \in H : Soft(f, l)
      /\ g.card = f.card /\ g.cards = f.cards
      /\ g.truth = f.truth /\ g.cost = f.cost /\ g.live = Models(f, H)
      BY <1>1, <1>2, HardenIs
<1>4. H \in SUBSET LitsOf(f.poids) /\ IsFormula(g)
      BY <1>3 DEF Soft, Sound
<1>5. DOMAIN g.poids = DOMAIN f.poids /\ \A v \in DOMAIN f.poids : g.poids[v] = IF v \in H \/ -v \in H THEN 0 ELSE f.poids[v]
      BY <1>3 DEF Freed
<1>6. g.live \subseteq f.live /\ \A p \in g.live : \A l \in H : p \in True(f, l)
      BY <1>3 DEF Models
<1>7. Settles(f, W, g, W)
  <2> SUFFICES ASSUME NEW u \in DOMAIN f.card, f.card[u] # NoCard
               PROVE  /\ u \in Open(g, W) => u \in Open(f, W)
                      /\ u \in Open(f, W) => u \in Open(g, W) \/ g.live \cap f.truth[u] = {}
      BY DEF Settles
  <2>1. u \in DOMAIN f.poids /\ u \in Nat \ {0} /\ f.poids[u] \in Int /\ f.poids[u] <= 0
        BY <1>1, Fields DEF Sound, CardOK
  <2>2. CASE -u \in H
    <3>1. True(f, -u) = Points \ f.truth[u]
      <4>1. -u < 0 /\ -(-u) = u
            BY <2>1
      <4> QED BY <4>1 DEF True
    <3>2. Weight(f.poids, -u) > 0
          BY <1>3, <2>2 DEF Soft
    <3>3. Weight(f.poids, -u) = -f.poids[u]
          BY <2>1 DEF Weight
    <3>4. f.poids[u] < 0
          BY <2>1, <3>2, <3>3
    <3>5. u \in Open(f, W)
          BY <2>1, <3>4 DEF Open
    <3> QED BY <1>6, <2>2, <3>1, <3>5
  <2>3. CASE u \in H
    <3>1. Weight(f.poids, u) > 0
          BY <1>3, <2>3 DEF Soft
    <3> QED BY <2>1, <3>1 DEF Weight
  <2>4. CASE -u \notin H /\ u \notin H
    <3>1. g.poids[u] = f.poids[u]
          BY <1>5, <2>1, <2>4
    <3> QED BY <1>5, <3>1 DEF Open
  <2> QED BY <2>2, <2>3, <2>4
<1>8. Good(g, q, W) /\ SameTruth(f, g)
      BY <1>3, <1>5, <1>6, <1>7, ShapeWeights
<1>9. ASSUME NEW p \in g.live PROVE Total(g, q, Falsified(g, p)) = Total(f, q, Falsified(f, p))
  <2>1. p \in Points
        BY <1>4, LivePoints
  <2>2. PICK bad : bad = Falsified(f, p)
        OBVIOUS
  <2>3. \A l \in H : Weight(f.poids, l) >= 0 /\ l \notin bad
    <3> SUFFICES ASSUME NEW l \in H PROVE Weight(f.poids, l) >= 0 /\ l \notin bad
        OBVIOUS
    <3>1. l \in LitsOf(f.poids) /\ Weight(f.poids, l) > 0 /\ Weight(f.poids, l) \in Int
          BY <1>1, <1>3, WeightFacts DEF Soft
    <3> QED BY <1>1, <1>6, <2>1, <2>2, <3>1, FalsifiedFacts
  <2>4. Charges(g.poids, bad) = Charges(f.poids, bad)
        BY <1>1, <1>3, <1>4, <2>3, ChargesFreed
  <2>5. Total(g, q, bad) = Total(f, q, bad)
        BY <1>3, <2>4 DEF Total
  <2>6. Falsified(g, p) = Falsified(f, p)
        BY <1>3, <1>5 DEF Falsified, Lits, Vars, True
  <2> QED BY <2>2, <2>5, <2>6
<1>10. Total(g, q, Int) <= Total(f, q, Int)
  <2>1. Charges(g.poids, Int) <= Charges(f.poids, Int)
        BY <1>1, <1>3, <1>4, ChargesFreed
  <2>2. Charges(f.poids, Int) \in Nat /\ CardsOwe(Int, f.cards) \in Nat /\ PendingOwe(Int, q) \in Nat
        BY <1>1, TotalParts DEF Good, Shaped, OutputsOK
  <2>3. Charges(g.poids, Int) \in Nat
        BY <1>4, Fields, ChargesNat
  <2>4. f.cost + Charges(g.poids, Int) + CardsOwe(Int, f.cards) + PendingOwe(Int, q) <=
        f.cost + Charges(f.poids, Int) + CardsOwe(Int, f.cards) + PendingOwe(Int, q)
        BY ONLY <1>1, <2>1, <2>2, <2>3
  <2> QED BY <1>3, <2>4 DEF Total
<1> QED BY <1>1, <1>2, <1>3, <1>6, <1>8, <1>9, <1>10 DEF SameCost

\* Every literal of C pays w; X are the outputs that then wait, besides W.
Takes(f, C, w) == C \in SUBSET LitsOf(f.poids) /\ Affords(f.poids, C, w)

Lightened(f, C, w, g) ==
    /\ Sound(g) /\ g.poids = Lighter(f.poids, C, w)
    /\ g.card = f.card /\ g.cards = f.cards /\ g.truth = f.truth /\ g.live = f.live

Zeros(f, C, g) == {l \in C : Weight(g.poids, l) = 0 /\ f.card[Var(l)] # NoCard}

\* Taking weight from literals keeps the shape, the spent outputs being noted.
LEMMA ReweighGood ==
  ASSUME NEW f, NEW q, NEW W, Good(f, q, W), \A y \in W : Spent(f, y), NEW C,
         NEW w \in Nat \ {0}, Takes(f, C, w), NEW g, Lightened(f, C, w, g), NEW X, X = W \cup Zeros(f, C, g)
  PROVE  /\ Good(g, q, X) /\ SameTruth(f, g)
         /\ DOMAIN g.poids = DOMAIN f.poids
<1>a. PICK Z : Z = {l \in C : Weight(g.poids, l) = 0 /\ f.card[Var(l)] # NoCard}
      OBVIOUS
<1>2. /\ C \in SUBSET LitsOf(f.poids) /\ Affords(f.poids, C, w) /\ Sound(g) /\ g.poids = Lighter(f.poids, C, w)
      /\ g.card = f.card /\ g.cards = f.cards /\ g.truth = f.truth /\ g.live = f.live /\ X = W \cup Z
      BY <1>a DEF Takes, Lightened, Zeros
<1>3. IsFormula(f) /\ f.poids \in Seq(Int) /\ Sound(f) /\ IsFormula(g)
  <2>1. IsFormula(f) /\ Sound(f) /\ IsFormula(g)
        BY <1>2 DEF Good, Sound
  <2> QED BY ONLY <2>1, Fields
<1>4. /\ DOMAIN g.poids = DOMAIN f.poids
      /\ \A v \in DOMAIN f.poids : g.poids[v] =
           IF v \in C THEN f.poids[v] - w ELSE IF -v \in C THEN f.poids[v] + w ELSE f.poids[v]
      BY <1>2 DEF Lighter
<1>5. Settles(f, W, g, X)
  <2> SUFFICES ASSUME NEW u \in DOMAIN f.card, f.card[u] # NoCard
               PROVE  /\ u \in Open(g, X) => u \in Open(f, W)
                      /\ u \in Open(f, W) => u \in Open(g, X)
      BY DEF Settles
  <2>1. u \in DOMAIN f.poids /\ u \in Nat \ {0} /\ f.poids[u] \in Int /\ f.poids[u] <= 0 /\ Var(-u) = u
        BY <1>3, Fields DEF Sound, CardOK, Var
  <2>2. u \notin C
    <3>1. SUFFICES ASSUME u \in C PROVE FALSE
          OBVIOUS
    <3>2. Weight(f.poids, u) >= w
          BY <1>2, <3>1 DEF Affords
    <3>3. Weight(f.poids, u) = f.poids[u]
          BY <2>1 DEF Weight
    <3> QED BY <2>1, <3>2, <3>3
  <2>3. Weight(g.poids, -u) = -g.poids[u] /\ Weight(f.poids, -u) = -f.poids[u]
        BY <2>1 DEF Weight
  <2>4. CASE -u \in C
    <3>1. g.poids[u] = f.poids[u] + w
          BY <1>4, <2>1, <2>2, <2>4
    <3>2. Weight(f.poids, -u) >= w
          BY <1>2, <2>4 DEF Affords
    <3>3. f.poids[u] < 0 /\ g.poids[u] \in Int /\ g.poids[u] <= 0
          BY <2>1, <2>3, <3>1, <3>2
    <3>4. u \in Open(f, W)
          BY <2>1, <3>3 DEF Open
    <3>5. g.poids[u] = 0 => -u \in Z
          BY <1>a, <2>1, <2>3, <2>4, <3>3
    <3>6. u \in Open(g, X)
          BY <1>2, <1>4, <2>1, <3>3, <3>5 DEF Open
    <3> QED BY <3>4, <3>6
  <2>5. CASE -u \notin C
    <3>1. g.poids[u] = f.poids[u]
          BY <1>4, <2>1, <2>2, <2>5
    <3>2. -u \in X <=> -u \in W
          BY <1>2, <1>a, <2>5
    <3> QED BY <1>4, <2>1, <3>1, <3>2 DEF Open
  <2> QED BY <2>4, <2>5
<1>6. Good(g, q, X) /\ SameTruth(f, g)
      BY <1>2, <1>4, <1>5, ShapeWeights
<1> QED BY <1>4, <1>6

\* The number of literals of C that are false, counted by their negations.
LEMMA CountNegated ==
  ASSUME NEW C \in SUBSET Int, IsFiniteSet(C), NEW N, N = {-l : l \in C}, NEW bad
  PROVE  /\ Count(bad, N) = Cardinality(C \cap bad) /\ IsFiniteSet(N)
         /\ Cardinality(C \cap bad) \in Nat
<1>1. PICK S : S = C \cap bad
      OBVIOUS
<1>2. IsFiniteSet(S) /\ Cardinality(S) \in Nat
      BY <1>1, FS_Subset, FS_CardinalityType
<1>3. PICK T : T = {y \in N : -y \in bad}
      OBVIOUS
<1> DEFINE g == [l \in S |-> -l]
<1>4. g \in [S -> T] /\ (\A x, y \in S : g[x] = g[y] => x = y) /\ \A y \in T : \E x \in S : g[x] = y
  <2>1. \A l \in Int : -(-l) = l
        OBVIOUS
  <2>2. ASSUME NEW l \in S PROVE -l \in T
    <3>1. l \in C /\ l \in bad /\ l \in Int
          BY <1>1
    <3>2. -l \in N
          BY <3>1
    <3> QED BY <1>3, <2>1, <3>1, <3>2
  <2>3. ASSUME NEW y \in T PROVE \E x \in S : -x = y
    <3>1. y \in N /\ -y \in bad
          BY <1>3
    <3>2. PICK x \in C : y = -x
          BY <3>1
    <3>3. x \in S
          BY <1>1, <2>1, <3>1, <3>2
    <3> QED BY <3>2, <3>3
  <2>4. \A x, y \in Int : -x = -y => x = y
        OBVIOUS
  <2>5. \A x, y \in S : -x = -y => x = y
        BY <1>1, <2>4
  <2> QED BY <2>2, <2>3, <2>5
<1> HIDE DEF g
<1>5. Cardinality(T) = Cardinality(S)
      BY <1>2, <1>4, SameSize
<1>6. IsFiniteSet(N)
  <2> DEFINE h == [l \in C |-> -l]
  <2>1. h \in [C -> N] /\ (\A x, y \in C : h[x] = h[y] => x = y) /\ \A y \in N : \E x \in C : h[x] = y
    <3>1. \A x, y \in C : -x = -y => x = y
          OBVIOUS
    <3> QED BY <3>1
  <2> HIDE DEF h
  <2> QED BY <2>1, SameSize
<1> QED BY <1>1, <1>2, <1>3, <1>5, <1>6 DEF Count

\* A constraint for the core C is queued.
Core1(C, w) == [lits |-> {-l : l \in C}, w |-> w]

\* What taking w from the literals of C is worth.
Share(C, w, bad) == w * Cardinality(C \cap bad)

Queued(q, C, w, r) == r = Append(q, Core1(C, w))

\* The constraint queued for a core owes for the core, but for the weight paid.
LEMMA QueueCore ==
  ASSUME NEW f, f.poids \in Seq(Int), NEW q, QueueOK(f, q), NEW C, Over(f, C), NEW w \in Nat \ {0},
         NEW r, Queued(q, C, w, r), NEW bad
  PROVE  /\ QueueOK(f, r) /\ Share(C, w, bad) \in Nat /\ PendingOwe(bad, q) \in Nat
         /\ C \cap bad # {} => PendingOwe(bad, r) = PendingOwe(bad, q) + (Share(C, w, bad) - w)
<1> DEFINE S == [lits : SUBSET Int, w : Nat \ {0}]
<1>1. q \in Seq(S) /\ QueueWell(q)
      BY QueueFacts DEF QueueOK, PendingCards
<1>2. PICK N : N = {-l : l \in C}
      OBVIOUS
<1>3. PICK x : x = Core1(C, w)
      OBVIOUS
<1>4. x.lits = N /\ x.w = w
      BY <1>2, <1>3 DEF Core1
<1>5. C \in SUBSET Int /\ IsFiniteSet(C)
  <2>1. IsFiniteSet(C)
        BY LitsOfFinite, FS_Subset DEF Over
  <2> QED BY <2>1 DEF Over, LitsOf
<1>6. N \in SUBSET Int /\ x \in S /\ \A y \in N : y \in LitsOf(f.poids)
  <2>1. \A l \in C : -l \in LitsOf(f.poids) /\ -l \in Int
        BY WeightFacts DEF Over, LitsOf
  <2>2. N \in SUBSET Int /\ \A y \in N : y \in LitsOf(f.poids)
        BY <1>2, <2>1
  <2> QED BY <1>2, <1>3, <2>2 DEF Core1
<1>7. Count(bad, N) = Cardinality(C \cap bad) /\ IsFiniteSet(N) /\ Cardinality(C \cap bad) \in Nat
      BY <1>2, <1>5, CountNegated
<1>8. PendingWell(x)
      BY <1>4, <1>7 DEF PendingWell
<1> HIDE DEF S
<1>9. /\ r \in Seq(S) /\ \A i \in DOMAIN r : (i \in DOMAIN q /\ r[i] = q[i]) \/ r[i] = x
      BY <1>1, <1>3, <1>6 DEF Queued
<1>10. PendingOwe(bad, r) = PendingOwe(bad, q) + Owes(bad, N, w, 0) /\ PendingOwe(bad, q) \in Nat
  <2>1. r = Append(q, x)
        BY <1>3 DEF Queued
  <2> QED BY ONLY <1>1, <1>4, <1>6, <1>8, <2>1, PendingOweAppend, PendingOweNat
<1>11. QueueOK(f, r)
  <2>1. r \in PendingCards
        BY <1>9 DEF S, PendingCards
  <2>2. ASSUME NEW i \in DOMAIN r PROVE r[i].lits \subseteq LitsOf(f.poids)
    <3>1. CASE i \in DOMAIN q /\ r[i] = q[i]
          BY <3>1 DEF QueueOK
    <3>2. CASE r[i] = x
          BY <1>4, <1>6, <3>2
    <3> QED BY <1>9, <3>1, <3>2
  <2> QED BY <2>1, <2>2 DEF QueueOK
<1>12. ASSUME C \cap bad # {}
       PROVE  Owes(bad, N, w, 0) = Share(C, w, bad) - w
  <2>1. PICK n \in Nat : n = Cardinality(C \cap bad)
        BY <1>7
  <2>2. n > 0
    <3>1. PICK D : D = C \cap bad
          OBVIOUS
    <3>2. IsFiniteSet(D) /\ D # {} /\ Cardinality(D) = n
          BY <1>5, <1>12, <2>1, <3>1, FS_Subset
    <3> QED BY ONLY <3>2, n \in Nat, FS_EmptySet
  <2>3. n - 1 - 0 > 0 => w * (n - 1 - 0) = w * n - w
        BY ONLY <2>2, n \in Nat, w \in Nat \ {0}
  <2>4. ~(n - 1 - 0 > 0) => 0 = w * n - w
    <3>1. SUFFICES ASSUME ~(n - 1 - 0 > 0) PROVE 0 = w * n - w
          OBVIOUS
    <3>2. n = 1
          BY ONLY <2>2, <3>1, n \in Nat
    <3> QED BY ONLY <3>2, w \in Nat \ {0}
  <2> QED BY <1>7, <2>1, <2>3, <2>4 DEF Owes, Share
<1>13. Share(C, w, bad) \in Nat
       BY <1>7 DEF Share
<1> QED BY <1>7, <1>10, <1>11, <1>12, <1>13

\* A change of the cost alone.
LEMMA CostIs ==
  ASSUME NEW f, Sound(f), NEW c \in Int, NEW g, g = [f EXCEPT !.cost = c]
  PROVE  /\ Sound(g) /\ g.poids = f.poids /\ g.card = f.card /\ g.cards = f.cards
         /\ g.truth = f.truth /\ g.cost = c /\ g.live = f.live /\ g.map = f.map
<1>1. Sound(g)
      BY KeepsCost DEF Keeps
<1>2. f \in Formulas
      BY Fields DEF Sound
<1> QED BY <1>1, <1>2 DEF Formulas

\* What the lighter literals charge less.
LEMMA ShareCharges ==
  ASSUME NEW f, Sound(f), NEW C, NEW w \in Nat \ {0}, Takes(f, C, w), NEW g, Lightened(f, C, w, g), NEW bad
  PROVE  Charges(f.poids, bad) = Charges(g.poids, bad) + Share(C, w, bad) /\ Share(C, w, bad) \in Nat
<1>1. f.poids \in Seq(Int)
      BY Fields DEF Sound
<1>2. C \in SUBSET LitsOf(f.poids) /\ Affords(f.poids, C, w) /\ g.poids = Lighter(f.poids, C, w)
      BY DEF Takes, Lightened
<1>3. /\ Charges(f.poids, bad) = Charges(Lighter(f.poids, C, w), bad) + w * Cardinality(C \cap bad)
      /\ IsFiniteSet(C \cap bad) /\ Cardinality(C \cap bad) \in Nat
      BY ONLY <1>1, <1>2, w \in Nat \ {0}, ChargesLighter
<1>4. w * Cardinality(C \cap bad) \in Nat
      BY <1>3
<1> QED BY <1>2, <1>3, <1>4 DEF Share

\* There is enough to take w from.
LEMMA TakesCost ==
  ASSUME NEW f, NEW q, NEW W, Good(f, q, W), f.cost \in Nat, NEW C, C # {}, NEW w \in Nat \ {0}, Takes(f, C, w)
  PROVE  f.cost + w <= Total(f, q, Int) /\ f.cost + w \in Nat
<1>1. /\ IsFormula(f) /\ CardsWell(f.cards) /\ QueueOK(f, q) /\ f.poids \in Seq(Int)
      BY Fields DEF Good, Sound, Shaped, OutputsOK
<1>2. C \in SUBSET LitsOf(f.poids) /\ Affords(f.poids, C, w)
      BY DEF Takes
<1>3. w <= Charges(f.poids, Int) /\ Charges(f.poids, Int) \in Nat
  <2>1. PICK l \in C : TRUE
        OBVIOUS
  <2>2. l \in LitsOf(f.poids) /\ l \in Int /\ Weight(f.poids, l) >= w /\ Weight(f.poids, l) \in Int
        BY <1>1, <1>2, <2>1, WeightFacts DEF Affords, LitsOf
  <2>3. Weight(f.poids, l) > 0
        BY <2>2
  <2>4. Weight(f.poids, l) <= Charges(f.poids, Int) /\ Charges(f.poids, Int) \in Nat
        BY <1>1, <2>2, <2>3, ChargesTerm, ChargesNat
  <2> QED BY <2>2, <2>4
<1>4. CardsOwe(Int, f.cards) \in Nat /\ PendingOwe(Int, q) \in Nat
      BY <1>1, TotalParts
<1> QED BY ONLY <1>3, <1>4, f.cost \in Nat, w \in Nat \ {0} DEF Total

\* A point falsifies the same literals when the truths are the same.
LEMMA FalsifiedAlike ==
  ASSUME NEW f, NEW g, DOMAIN g.poids = DOMAIN f.poids, g.truth = f.truth, NEW p
  PROVE  Falsified(g, p) = Falsified(f, p)
  BY DEF Falsified, Lits, Vars, True

\* A core is paid and becomes a pending constraint.
LEMMA CostPay ==
  ASSUME NEW f, NEW q, NEW W, Good(f, q, W), \A y \in W : Spent(f, y), f.cost \in Nat,
         NEW C, C # {}, ~Sat(f, C), NEW w \in Nat \ {0}, Takes(f, C, w),
         NEW g, Lightened(f, C, w, g), g.cost = f.cost + w, NEW r, Queued(q, C, w, r),
         NEW X, X = W \cup Zeros(f, C, g)
  PROVE  Good(g, r, X) /\ SameCost(f, q, g, r) /\ g.live = f.live
<1>1. /\ Sound(f) /\ IsFormula(f) /\ CardsWell(f.cards) /\ QueueOK(f, q) /\ f.poids \in Seq(Int)
      BY Fields DEF Good, Sound, Shaped, OutputsOK
<1>2. /\ Sound(g) /\ IsFormula(g) /\ g.card = f.card /\ g.cards = f.cards
      /\ g.truth = f.truth /\ g.live = f.live
      BY DEF Sound, Lightened
<1>3. Good(g, q, X) /\ SameTruth(f, g) /\ DOMAIN g.poids = DOMAIN f.poids
      BY ReweighGood
<1>4. Over(f, C) /\ Over(g, C) /\ g.poids \in Seq(Int)
      BY <1>2, <1>3, Fields DEF Over, LitsOf, Takes
<1>5. Good(g, r, X)
  <2>1. QueueOK(g, r)
        BY <1>3, <1>4, QueueCore DEF Good
  <2> QED BY <1>3, <2>1 DEF Good
<1>6. ASSUME NEW bad, C \cap bad # {} PROVE Total(g, r, bad) = Total(f, q, bad)
  <2>1. Charges(f.poids, bad) = Charges(g.poids, bad) + Share(C, w, bad) /\ Share(C, w, bad) \in Nat
        BY <1>1, ShareCharges
  <2>2. PendingOwe(bad, r) = PendingOwe(bad, q) + (Share(C, w, bad) - w)
        BY <1>1, <1>4, <1>6, QueueCore
  <2>3. Charges(g.poids, bad) \in Nat /\ CardsOwe(bad, f.cards) \in Nat /\ PendingOwe(bad, q) \in Nat
        BY <1>1, <1>4, TotalParts, ChargesNat
  <2> QED BY ONLY <1>2, <2>1, <2>2, <2>3, w \in Nat \ {0}, g.cost = f.cost + w, f.cost \in Nat DEF Total
<1>7. ASSUME NEW p \in g.live PROVE Total(g, r, Falsified(g, p)) = Total(f, q, Falsified(f, p))
  <2>1. p \in Points /\ p \in f.live
        BY <1>1, <1>2, LivePoints
  <2>2. Falsified(g, p) = Falsified(f, p)
        BY <1>2, <1>3, FalsifiedAlike
  <2>3. C \cap Falsified(f, p) # {}
    <3>1. PICK l \in C : p \notin True(f, l)
          BY <2>1 DEF Sat, Models
    <3>2. l \in Falsified(f, p)
          BY <1>1, <1>4, <2>1, <3>1, FalsifiedFacts DEF Over
    <3> QED BY <3>2
  <2> QED BY <1>6, <2>2, <2>3
<1>8. Total(g, r, Int) <= Total(f, q, Int)
  <2>1. C \cap Int # {}
        BY DEF LitsOf, Takes
  <2> QED BY <1>6, <2>1, TotalInt
<1> QED BY <1>2, <1>3, <1>5, <1>7, <1>8 DEF SameCost

\* The same weight is taken from the literals of a clique, for the time being.
\* What f is after the weight w has been taken from every literal of C.
Reduced(f, q, C, w, g, X) ==
    /\ Good(g, q, X) /\ SameTruth(f, g) /\ g.live = f.live
    /\ \A bad : Total(g, q, bad) + Share(C, w, bad) = Total(f, q, bad)
    /\ \A p : Falsified(g, p) = Falsified(f, p)

\* Taking a weight from every literal of C leaves the total less the share of C.
LEMMA CostReduce ==
  ASSUME NEW f, NEW q, NEW W, Good(f, q, W), \A y \in W : Spent(f, y), NEW C, NEW w \in Nat \ {0}, Takes(f, C, w),
         NEW g, Lightened(f, C, w, g), g.cost = f.cost, NEW X, X = W \cup Zeros(f, C, g)
  PROVE  Reduced(f, q, C, w, g, X)
<1>1. /\ Sound(f) /\ IsFormula(f) /\ CardsWell(f.cards) /\ QueueOK(f, q) /\ f.poids \in Seq(Int)
      BY Fields DEF Good, Sound, Shaped, OutputsOK
<1>2. /\ Sound(g) /\ IsFormula(g) /\ g.card = f.card /\ g.cards = f.cards
      /\ g.truth = f.truth /\ g.live = f.live /\ g.poids \in Seq(Int)
      BY Fields DEF Sound, Lightened
<1>3. Good(g, q, X) /\ SameTruth(f, g) /\ DOMAIN g.poids = DOMAIN f.poids
      BY ReweighGood
<1>4. ASSUME NEW bad PROVE Total(g, q, bad) + Share(C, w, bad) = Total(f, q, bad)
  <2>1. Charges(f.poids, bad) = Charges(g.poids, bad) + Share(C, w, bad) /\ Share(C, w, bad) \in Nat
        BY <1>1, ShareCharges
  <2>2. Charges(g.poids, bad) \in Nat /\ CardsOwe(bad, f.cards) \in Nat /\ PendingOwe(bad, q) \in Nat /\ f.cost \in Int
        BY <1>1, <1>2, TotalParts, ChargesNat
  <2> QED BY ONLY <1>2, <2>1, <2>2, g.cost = f.cost DEF Total
<1>5. \A p : Falsified(g, p) = Falsified(f, p)
      BY <1>2, <1>3, FalsifiedAlike
<1> QED BY <1>2, <1>3, <1>4, <1>5 DEF Reduced

-----------------------------------------------------------------------------
(***************************************************************************)
(* Cliques.                                                                *)
(***************************************************************************)
\* No point satisfies two literals of C.
Exclusive(g, C) == \A a, b \in C : a # b => \A p \in g.live : ~(p \in True(g, a) /\ p \in True(g, b))

NextVar(f) == Len(f.poids) + 1

\* softVar => clause, at weight w.
SoftAdded(f, S, w, g) ==
    /\ Sound(g) /\ g.poids = Append(f.poids, w) /\ g.card = Append(f.card, NoCard)
    /\ g.truth = Append(f.truth, UNION {True(f, l) : l \in S})
    /\ g.cards = f.cards /\ g.live = f.live

OneMore(f, g, n, w) ==
    /\ SameTruth(f, g) /\ n \in Nat \ {0} /\ n \notin DOMAIN f.poids /\ DOMAIN g.poids = DOMAIN f.poids \cup {n}
    /\ g.poids[n] = w /\ \A v \in DOMAIN f.poids : g.poids[v] = f.poids[v]
    /\ g.card[n] = NoCard /\ \A v \in DOMAIN f.poids : g.card[v] = f.card[v]
    /\ DOMAIN g.card = DOMAIN g.poids /\ DOMAIN f.card = DOMAIN f.poids

\* The variable of a new soft clause.
LEMMA SoftAddedFacts ==
  ASSUME NEW f, Sound(f), NEW S, NEW w \in Nat \ {0}, NEW g, SoftAdded(f, S, w, g), NEW n, n = NextVar(f)
  PROVE  OneMore(f, g, n, w) /\ \A p : p \in g.truth[n] <=> \E l \in S : p \in True(f, l)
<1>1. /\ f.poids \in Seq(Int) /\ f.card \in Seq(LitCard) /\ f.truth \in Seq(SUBSET Points)
      /\ Len(f.card) = Len(f.poids) /\ Len(f.truth) = Len(f.poids)
      /\ DOMAIN f.card = DOMAIN f.poids /\ DOMAIN f.truth = DOMAIN f.poids
      BY Fields DEF Sound
<1>2. PICK T : T = UNION {True(f, l) : l \in S}
      OBVIOUS
<1>3. /\ g.poids = Append(f.poids, w) /\ g.card = Append(f.card, NoCard) /\ g.truth = Append(f.truth, T)
      /\ g.truth \in Seq(SUBSET Points) /\ DOMAIN g.card = DOMAIN g.poids
      BY <1>2, Fields DEF SoftAdded, Sound
<1>4. n \in Nat \ {0} /\ n \notin DOMAIN f.poids /\ DOMAIN g.poids = DOMAIN f.poids \cup {n}
      /\ g.poids[n] = w /\ \A v \in DOMAIN f.poids : g.poids[v] = f.poids[v]
  <2>1. n = Len(f.poids) + 1
        BY DEF NextVar
  <2> QED BY ONLY <1>1, <1>3, <2>1, w \in Nat \ {0}
<1>5. g.card[n] = NoCard /\ \A v \in DOMAIN f.poids : g.card[v] = f.card[v]
      BY <1>1, <1>3, NoCardType, AppendFacts DEF NextVar
<1>6. g.truth[n] = T /\ \A v \in DOMAIN f.poids : g.truth[v] = f.truth[v]
      BY <1>1, <1>3, <1>4 DEF NextVar
<1>7. \A p : p \in g.truth[n] <=> \E l \in S : p \in True(f, l)
      BY <1>2, <1>6
<1> QED BY <1>1, <1>3, <1>4, <1>5, <1>6, <1>7 DEF SameTruth, OneMore

\* A new soft clause disturbs no constraint.
LEMMA SoftGood ==
  ASSUME NEW f, NEW q, NEW W, Good(f, q, W), NEW S, NEW w \in Nat \ {0}, NEW g, SoftAdded(f, S, w, g)
  PROVE  Good(g, q, W) /\ SameTruth(f, g)
<1>1. Sound(f) /\ IsFormula(f) /\ CardOK(f) /\ f.poids \in Seq(Int) /\ Shaped(f, Open(f, W))
      BY Fields DEF Good, Sound
<1>2. PICK n : n = NextVar(f)
      OBVIOUS
<1>3. /\ SameTruth(f, g) /\ n \in Nat \ {0} /\ n \notin DOMAIN f.poids /\ DOMAIN g.poids = DOMAIN f.poids \cup {n}
      /\ \A v \in DOMAIN f.poids : g.poids[v] = f.poids[v]
      /\ g.card[n] = NoCard /\ \A v \in DOMAIN f.poids : g.card[v] = f.card[v]
      /\ DOMAIN g.card = DOMAIN g.poids /\ DOMAIN f.card = DOMAIN f.poids
  <2>1. OneMore(f, g, n, w)
        BY <1>1, <1>2, SoftAddedFacts
  <2> QED BY <2>1 DEF OneMore
<1>4. Sound(g) /\ IsFormula(g) /\ g.cards = f.cards /\ g.live \subseteq f.live
      BY DEF SoftAdded, Sound
<1>5. \A v \in DOMAIN g.card : g.card[v] # NoCard => v \in DOMAIN f.card /\ g.card[v] = f.card[v]
      BY <1>3
<1>6. \A v \in Open(g, W) : v \in DOMAIN g.card /\ g.card[v] # NoCard => v \in Open(f, W)
      BY <1>3 DEF Open
<1>7. \A v \in Open(f, W) : v \in Open(g, W)
      BY <1>3 DEF Open
<1>8. Shaped(g, Open(g, W))
      BY <1>1, <1>3, <1>4, <1>5, <1>6, <1>7, ShapeKept
<1>9. QueueOK(g, q)
      BY <1>3, QueueKept DEF Good
<1> QED BY <1>3, <1>4, <1>8, <1>9 DEF Good

\* At a live point, at most one literal of a clique holds.
LEMMA CliqueShare ==
  ASSUME NEW f, Sound(f), NEW S, Over(f, S), Exclusive(f, S), NEW w \in Nat \ {0}, NEW p \in f.live,
         NEW F, F = Falsified(f, p), NEW k, k = Cardinality(S)
  PROVE  /\ k \in Nat
         /\ S \subseteq F => Share(S, w, F) = w * (k - 1) + w
         /\ ~(S \subseteq F) => Share(S, w, F) = w * (k - 1)
<1>1. IsFormula(f) /\ f.poids \in Seq(Int) /\ p \in Points /\ S \in SUBSET LitsOf(f.poids)
      BY LivePoints, Fields DEF Sound, Over
<1>2. IsFiniteSet(S) /\ k \in Nat
      BY <1>1, LitsOfFinite, FS_Subset, FS_CardinalityType
<1>3. \A l \in S : l \in F <=> p \notin True(f, l)
      BY <1>1, FalsifiedFacts
<1>4. CASE S \subseteq F
  <2>1. S \cap F = S
        BY <1>4
  <2>2. w * k = w * (k - 1) + w
        BY ONLY <1>2, w \in Nat \ {0}
  <2> QED BY <1>2, <1>4, <2>1, <2>2 DEF Share
<1>5. CASE ~(S \subseteq F)
  <2>1. PICK l \in S : l \notin F
        BY <1>5
  <2>2. S \cap F = S \ {l}
    <3>1. ASSUME NEW x \in S, x # l PROVE x \in F
          BY <1>3, <2>1, <3>1 DEF Exclusive
    <3> QED BY <2>1, <3>1
  <2>3. Cardinality(S \ {l}) = k - 1
        BY <1>2, <2>1, FS_RemoveElement
  <2> QED BY <1>2, <1>5, <2>2, <2>3 DEF Share
<1> QED BY <1>2, <1>4, <1>5

\* The share of a set all of whose literals are false.
LEMMA ShareAll ==
  ASSUME NEW f, f.poids \in Seq(Int), NEW S, Over(f, S), NEW w \in Nat \ {0}, NEW k, k = Cardinality(S)
  PROVE  /\ k \in Nat /\ Share(S, w, Int) = w * (k - 1) + w /\ w * (k - 1) \in Int
         /\ S # {} => w * (k - 1) \in Nat
<1>1. IsFiniteSet(S) /\ k \in Nat /\ S \cap Int = S
      BY LitsOfFinite, FS_Subset, FS_CardinalityType DEF Over, LitsOf
<1>2. w * k = w * (k - 1) + w /\ w * (k - 1) \in Int
      BY ONLY <1>1, w \in Nat \ {0}
<1>3. S # {} => w * (k - 1) \in Nat
  <2>1. SUFFICES ASSUME S # {} PROVE w * (k - 1) \in Nat
        OBVIOUS
  <2>2. k # 0
        BY ONLY <1>1, <2>1, k = Cardinality(S), FS_EmptySet
  <2>3. k - 1 \in Nat
        BY ONLY <1>1, <2>2
  <2> QED BY ONLY <2>3, w \in Nat \ {0}
<1> QED BY <1>1, <1>2, <1>3 DEF Share

\* What the new soft variable charges.
LEMMA SoftTotal ==
  ASSUME NEW f, NEW q, NEW W, Good(f, q, W), NEW S, NEW w \in Nat \ {0}, NEW d \in Int,
         NEW g, SoftAdded(f, S, w, g), g.cost = f.cost + d, NEW n, n = NextVar(f), NEW bad
  PROVE  /\ n \in bad => Total(g, q, bad) = Total(f, q, bad) + (d + w)
         /\ n \notin bad => Total(g, q, bad) = Total(f, q, bad) + d
<1>1. Sound(f) /\ IsFormula(f) /\ f.poids \in Seq(Int) /\ f.cost \in Int /\ n \in Nat
      BY Fields DEF Good, Sound, NextVar
<1>2. IsFormula(g) /\ g.poids = Append(f.poids, w) /\ g.cards = f.cards
      BY DEF SoftAdded, Sound
<1>3. Charges(g.poids, bad) = Charges(f.poids, bad) + Price(w, n, bad) /\ Charges(f.poids, bad) \in Nat
      BY <1>1, <1>2, ChargesAppend, ChargesNat DEF NextVar
<1>4. Charges(f.poids, bad) \in Nat /\ CardsOwe(bad, f.cards) \in Nat /\ PendingOwe(bad, q) \in Nat /\ g.cards = f.cards
      BY <1>1, <1>2, TotalParts DEF Good, Shaped, OutputsOK
<1>5. (n \in bad => Price(w, n, bad) = w) /\ (n \notin bad => Price(w, n, bad) = 0)
      BY DEF Price
<1>6. PICK a \in Int : a = Charges(f.poids, bad)
      BY <1>4
<1>7. PICK b \in Int : b = CardsOwe(bad, f.cards)
      BY <1>4
<1>8. PICK z \in Int : z = PendingOwe(bad, q)
      BY <1>4
<1>9. Total(f, q, bad) = f.cost + a + b + z
      BY <1>6, <1>7, <1>8 DEF Total
<1>10. Total(g, q, bad) = (f.cost + d) + (a + Price(w, n, bad)) + b + z
       BY <1>3, <1>4, <1>6, <1>7, <1>8 DEF Total
<1>11. \A c, y \in Int : (c + d) + (a + y) + b + z = (c + a + b + z) + (d + y)
       OBVIOUS
<1>12. n \in bad => Total(g, q, bad) = Total(f, q, bad) + (d + w)
       BY ONLY <1>1, <1>5, <1>9, <1>10, <1>11, w \in Nat \ {0}
<1>13. n \notin bad => Total(g, q, bad) = Total(f, q, bad) + (d + 0)
       BY ONLY <1>1, <1>5, <1>9, <1>10, <1>11
<1>14. d + 0 = d
       OBVIOUS
<1> QED BY ONLY <1>12, <1>13, <1>14

\* The literals of a clique are merged: the soft clause and the cost charge
\* what was taken from the literals.
\* The clique S is paid for, all literals but one, and its clause is soft.
PaidFor(f, S, w, g) == SoftAdded(f, S, w, g) /\ g.cost = f.cost + w * (Cardinality(S) - 1)

Merged(f, q, W, S, w, g) ==
    /\ Good(g, q, W) /\ SameTruth(f, g) /\ g.live = f.live
    /\ \A p \in f.live : Total(g, q, Falsified(g, p)) = Total(f, q, Falsified(f, p)) + Share(S, w, Falsified(f, p))
    /\ Total(g, q, Int) = Total(f, q, Int) + Share(S, w, Int)

\* That gives back the share of the clique, at every point left.
LEMMA CostSoft ==
  ASSUME NEW f, NEW q, NEW W, Good(f, q, W), NEW S, Over(f, S), Exclusive(f, S), NEW w \in Nat \ {0},
         NEW g, PaidFor(f, S, w, g)
  PROVE  Merged(f, q, W, S, w, g)
<1>1. SoftAdded(f, S, w, g) /\ g.cost = f.cost + w * (Cardinality(S) - 1)
      BY DEF PaidFor
<1>2. Sound(f) /\ IsFormula(f) /\ f.poids \in Seq(Int)
      BY Fields DEF Good, Sound
<1>3. Good(g, q, W) /\ SameTruth(f, g) /\ g.live = f.live /\ IsFormula(g) /\ g.poids \in Seq(Int)
  <2>1. Good(g, q, W) /\ SameTruth(f, g)
        BY <1>1, SoftGood
  <2> QED BY <1>1, <2>1, Fields DEF SoftAdded, Good, Sound
<1>4. PICK n : n = NextVar(f)
      OBVIOUS
<1>5. n \in LitsOf(g.poids) /\ n \in Nat \ {0} /\ \A p : p \in g.truth[n] <=> \E l \in S : p \in True(f, l)
  <2>1. OneMore(f, g, n, w) /\ \A p : p \in g.truth[n] <=> \E l \in S : p \in True(f, l)
        BY <1>1, <1>2, <1>4, SoftAddedFacts
  <2>2. n \in Nat \ {0} /\ n \in DOMAIN g.poids
        BY <2>1 DEF OneMore
  <2> QED BY <2>1, <2>2 DEF LitsOf, Var
<1>6. PICK k : k = Cardinality(S)
      OBVIOUS
<1>7. k \in Nat /\ Share(S, w, Int) = w * (k - 1) + w /\ w * (k - 1) \in Int
      BY <1>2, <1>6, ShareAll
<1>8. PICK d \in Int : d = w * (k - 1)
      BY <1>7
<1>9. g.cost = f.cost + d
      BY <1>1, <1>6, <1>8
<1>10. ASSUME NEW bad
       PROVE  /\ n \in bad => Total(g, q, bad) = Total(f, q, bad) + (d + w)
              /\ n \notin bad => Total(g, q, bad) = Total(f, q, bad) + d
       BY ONLY <1>1, <1>4, <1>9, SoftTotal, Good(f, q, W), w \in Nat \ {0}, d \in Int
<1>11. ASSUME NEW p \in f.live
       PROVE  Total(g, q, Falsified(g, p)) = Total(f, q, Falsified(f, p)) + Share(S, w, Falsified(f, p))
  <2>1. p \in Points
        BY <1>2, LivePoints
  <2>2. PICK F : F = Falsified(f, p)
        OBVIOUS
  <2>3. /\ S \subseteq F => Share(S, w, F) = d + w
        /\ ~(S \subseteq F) => Share(S, w, F) = d
    <3>1. /\ S \subseteq F => Share(S, w, F) = w * (k - 1) + w
          /\ ~(S \subseteq F) => Share(S, w, F) = w * (k - 1)
          BY ONLY <1>2, <1>6, <2>2, CliqueShare, Over(f, S), Exclusive(f, S), w \in Nat \ {0}, p \in f.live
    <3> QED BY <1>8, <3>1
  <2>4. n \in Falsified(g, p) <=> S \subseteq F
    <3>1. n \in Falsified(g, p) <=> p \notin True(g, n)
          BY <1>3, <1>5, <2>1, FalsifiedFacts
    <3>2. True(g, n) = g.truth[n]
          BY <1>5 DEF True
    <3>3. \A l \in S : l \in F <=> p \notin True(f, l)
          BY <1>2, <2>1, <2>2, FalsifiedFacts DEF Over
    <3> QED BY <1>5, <3>1, <3>2, <3>3
  <2>5. Total(f, q, Falsified(g, p)) = Total(f, q, F)
        BY <1>3, <2>1, <2>2, TotalSame
  <2>6. CASE S \subseteq F
        BY <1>10, <2>2, <2>3, <2>4, <2>5, <2>6
  <2>7. CASE ~(S \subseteq F)
        BY <1>10, <2>2, <2>3, <2>4, <2>5, <2>7
  <2> QED BY <2>6, <2>7
<1>12. Total(g, q, Int) = Total(f, q, Int) + Share(S, w, Int)
  <2>1. n \in Int
        BY <1>5
  <2> QED BY <1>7, <1>8, <1>10, <2>1
<1> QED BY <1>3, <1>11, <1>12 DEF Merged


\* A soft variable is added at the end.
EndsSoft(f, w, T, g) ==
    /\ g.poids = Append(f.poids, w) /\ g.card = Append(f.card, NoCard) /\ g.truth = Append(f.truth, T)
    /\ g.cards = f.cards /\ g.live = f.live /\ g.cost = f.cost

\* That is what newSoftVar does.
LEMMA SoftVarIs ==
  ASSUME NEW f, Sound(f), NEW T \in SUBSET Points, NEW w \in Nat \ {0}, NEW g, g = NewSoftVar(f, TRUE, w, T)
  PROVE  EndsSoft(f, w, T, g)
<1>1. f \in Formulas
      BY Fields DEF Sound
<1>2. ~(w < 0)
      OBVIOUS
<1>3. PICK m : m = Insert(f.map, w, Len(f.poids) + 1)
      OBVIOUS
<1>4. g = [f EXCEPT !.poids = Append(@, w), !.card = Append(@, NoCard), !.map = m, !.truth = Append(@, T)]
      BY <1>2, <1>3 DEF NewSoftVar
<1> QED BY <1>1, <1>4 DEF Formulas, EndsSoft

\* processAtMostOne makes the clause of a clique soft.
Merging(f, S, w, g) ==
    g = SoftClause([f EXCEPT !.cost = Wrap(f.cost + w * (Cardinality(S) - 1))], S, w)

\* The bound does not overflow there.
LEMMA MergingPays ==
  ASSUME NEW f, NEW q, NEW W, Good(f, q, W), f.cost \in Nat, NEW S, Over(f, S), S # {}, NEW w \in Nat \ {0},
         Total(f, q, Int) + Share(S, w, Int) < MaxWeight, NEW g, Merging(f, S, w, g), Sound(g)
  PROVE  PaidFor(f, S, w, g)
<1>1. Sound(f) /\ IsFormula(f) /\ f.poids \in Seq(Int)
      BY Fields DEF Good, Sound
<1>2. PICK k : k = Cardinality(S)
      OBVIOUS
<1>3. /\ k \in Nat /\ Share(S, w, Int) = w * (k - 1) + w /\ w * (k - 1) \in Nat
      BY <1>1, <1>2, ShareAll
<1>4. PICK d \in Nat : d = w * (k - 1)
      BY <1>3
<1>5. Total(f, q, Int) \in Int /\ Total(f, q, Int) >= f.cost
      BY TotalInt
<1>6. PICK c \in Nat : c = f.cost + d
      OBVIOUS
<1>7. c < MaxWeight
      BY <1>3, <1>4, <1>5, <1>6, MaxWeightAssumption
<1>8. Wrap(c) = c
      BY <1>7, WrapSmall
<1>9. PICK h : h = [f EXCEPT !.cost = c]
      OBVIOUS
<1>10. g = SoftClause(h, S, w)
       BY <1>2, <1>4, <1>6, <1>8, <1>9 DEF Merging
<1>11. /\ Sound(h) /\ h.poids = f.poids /\ h.card = f.card /\ h.cards = f.cards
       /\ h.truth = f.truth /\ h.cost = c /\ h.live = f.live
  <2>1. c \in Int
        OBVIOUS
  <2> QED BY <1>1, <1>9, <2>1, CostIs
<1>12. PICK T : T = UNION {True(f, l) : l \in S}
       OBVIOUS
<1>13. \A l : True(h, l) = True(f, l)
       BY <1>11 DEF True
<1>14. UNION {True(h, l) : l \in S} = T
       BY <1>12, <1>13
<1>15. T \in SUBSET Points
  <2>1. \A l \in S : True(f, l) \in SUBSET Points
        BY <1>1, TruePoints DEF Over
  <2> QED BY <1>12, <2>1
<1>16. g = NewSoftVar(h, TRUE, w, T)
       BY <1>10, <1>14 DEF SoftClause
<1>17. /\ g.poids = Append(h.poids, w) /\ g.card = Append(h.card, NoCard) /\ g.truth = Append(h.truth, T)
       /\ g.cards = h.cards /\ g.live = h.live /\ g.cost = h.cost
  <2>1. EndsSoft(h, w, T, g)
        BY ONLY <1>11, <1>15, <1>16, w \in Nat \ {0}, SoftVarIs
  <2> QED BY <2>1 DEF EndsSoft
<1>18. SoftAdded(f, S, w, g)
       BY <1>11, <1>12, <1>17 DEF SoftAdded
<1>19. g.cost = f.cost + w * (Cardinality(S) - 1)
       BY <1>2, <1>4, <1>6, <1>11, <1>17
<1> QED BY <1>18, <1>19 DEF PaidFor

-----------------------------------------------------------------------------
(***************************************************************************)
(* Weights added later.                                                    *)
(***************************************************************************)
\* The charge of the variable of l, seen from l.
LEMMA ChargesLit ==
  ASSUME NEW poids \in Seq(Int), NEW l \in LitsOf(poids), NEW new \in Int, NEW p, p = SetPoids(poids, l, new), NEW bad
  PROVE  Charges(p, bad) = Charges(poids, bad) + (Price(new, l, bad) - Price(Weight(poids, l), l, bad))
<1>1. PICK v : v = Var(l)
      OBVIOUS
<1>2. v \in DOMAIN poids /\ l \in Int /\ poids[v] \in Int /\ (l = v \/ l = -v) /\ v \in Nat \ {0}
      BY <1>1 DEF LitsOf, Var
<1>3. p \in Seq(Int) /\ DOMAIN p = DOMAIN poids
      BY WeightSet
<1>4. \A u \in DOMAIN poids \ {v} : p[u] = poids[u]
      BY <1>1, SetOther
<1>5. Charges(p, bad) = Charges(poids, bad) + (Price(p[v], v, bad) - Price(poids[v], v, bad))
      BY <1>2, <1>3, <1>4, ChargesSet
<1>6. CASE l = v
  <2>1. p[v] = new /\ Weight(poids, l) = poids[v]
        BY <1>1, <1>2, <1>6 DEF SetPoids, Weight
  <2> QED BY <1>5, <1>6, <2>1
<1>7. CASE l = -v
  <2>1. p[v] = -new /\ Weight(poids, l) = -poids[v]
        BY <1>1, <1>2, <1>7 DEF SetPoids, Weight
  <2>2. \A x \in Int : Price(-x, v, bad) = Price(x, l, bad)
        BY <1>2, <1>7 DEF Price
  <2>3. poids[v] = -Weight(poids, l) /\ Weight(poids, l) \in Int
        BY <1>2, <2>1
  <2> QED BY <1>5, <2>1, <2>2, <2>3
<1> QED BY <1>2, <1>6, <1>7

\* What opposite weights cost whatever happens.
Cancelled(old, w) == IF old < 0 THEN IF w <= -old THEN w ELSE -old ELSE 0

SignedLit(lit, weight) == IF weight < 0 THEN -lit ELSE lit

Size(weight) == IF weight < 0 THEN -weight ELSE weight

\* addWeight(lit, weight) seen from the literal that gains.
Weighted(f, l, w, g) ==
    /\ Sound(g) /\ g.poids = SetPoids(f.poids, l, Weight(f.poids, l) + w)
    /\ g.card = f.card /\ g.cards = f.cards /\ g.truth = f.truth /\ g.live = f.live
    /\ g.cost = f.cost + Cancelled(Weight(f.poids, l), w)

\* The literal is not an output of a constraint.
Free(f, l) == l \in LitsOf(f.poids) /\ f.card[Var(l)] = NoCard /\ ~IsOutput(f, Var(l))

\* A negative weight is a weight of the opposite literal.
LEMMA SizeFacts ==
  ASSUME NEW f, NEW lit, Free(f, lit), NEW weight \in Int, NEW l, l = SignedLit(lit, weight), NEW w, w = Size(weight)
  PROVE  Free(f, l) /\ w \in Nat /\ Var(l) = Var(lit)
<1>1. l \in LitsOf(f.poids) /\ Var(l) = Var(lit) /\ w \in Nat
      BY DEF LitsOf, Var, Free, SignedLit, Size
<1> QED BY <1>1 DEF Free

\* The cancelled weight was there to pay.
LEMMA CancelledSmall ==
  ASSUME NEW f, NEW q, NEW W, Good(f, q, W), f.cost \in Nat, Total(f, q, Int) < MaxWeight,
         NEW l \in LitsOf(f.poids), NEW w \in Nat, NEW old, old = Weight(f.poids, l)
  PROVE  /\ old \in Int /\ Cancelled(old, w) \in Nat /\ f.cost + Cancelled(old, w) < MaxWeight
         /\ old < 0 => Min({w, -old}) = Cancelled(old, w)
<1>1. /\ IsFormula(f) /\ CardsWell(f.cards) /\ QueueOK(f, q) /\ f.poids \in Seq(Int)
      BY Fields DEF Good, Sound, Shaped, OutputsOK
<1>2. old \in Int /\ -l \in LitsOf(f.poids) /\ Weight(f.poids, -l) = -old
      BY <1>1, WeightFacts
<1>3. Cancelled(old, w) \in Nat /\ (old < 0 => Cancelled(old, w) <= -old) /\ (~(old < 0) => Cancelled(old, w) = 0)
      BY <1>2 DEF Cancelled
<1>4. Charges(f.poids, Int) \in Nat /\ CardsOwe(Int, f.cards) \in Nat /\ PendingOwe(Int, q) \in Nat
      BY <1>1, TotalParts
<1>5. f.cost + Charges(f.poids, Int) + CardsOwe(Int, f.cards) + PendingOwe(Int, q) < MaxWeight
      BY DEF Total
<1>6. CASE old < 0
  <2>1. -old > 0 /\ -l \in Int
        BY <1>2, <1>6 DEF LitsOf
  <2>2. -old <= Charges(f.poids, Int)
        BY <1>1, <1>2, <2>1, ChargesTerm
  <2>3. f.cost + Cancelled(old, w) < MaxWeight
        BY ONLY <1>2, <1>3, <1>4, <1>5, <1>6, <2>2, f.cost \in Nat, MaxWeightAssumption
  <2>4. Min({w, -old}) = Cancelled(old, w)
    <3>1. PICK x \in Nat : x = -old
          BY <1>2, <1>6
    <3>2. {w, x} \in SUBSET Nat /\ {w, x} # {}
          OBVIOUS
    <3>3. Min({w, x}) \in {w, x} /\ \A y \in {w, x} : Min({w, x}) <= y
          BY <3>2, MinFacts
    <3>4. Min({w, x}) = IF w <= x THEN w ELSE x
          BY <3>3
    <3> QED BY <1>6, <3>1, <3>4 DEF Cancelled
  <2> QED BY <1>2, <1>3, <2>3, <2>4
<1>7. CASE ~(old < 0)
  <2>1. f.cost + Cancelled(old, w) < MaxWeight
        BY ONLY <1>3, <1>4, <1>5, <1>7, f.cost \in Nat, MaxWeightAssumption
  <2> QED BY <1>2, <1>3, <1>7, <2>1
<1> QED BY <1>6, <1>7

\* Replace changes weights, map and cost.
LEMMA ReplaceIs ==
  ASSUME NEW f, IsFormula(f), NEW p, NEW m, NEW c, NEW g, g = Replace(f, p, c, m)
  PROVE  /\ g.poids = p /\ g.cost = c /\ g.card = f.card /\ g.cards = f.cards
         /\ g.truth = f.truth /\ g.live = f.live
<1>1. f \in Formulas
      BY Fields
<1> QED BY <1>1 DEF Replace, Formulas

\* addWeight on a literal of the user: the opposite weight is cancelled and paid.
LEMMA AddWeightIs ==
  ASSUME NEW f, NEW q, NEW W, Good(f, q, W), f.cost \in Nat, Total(f, q, Int) < MaxWeight,
         NEW lit, Free(f, lit), NEW weight \in Int, Weighs(f, lit, weight), NEW g, g = AddWeight(f, lit, weight),
         NEW l, l = SignedLit(lit, weight), NEW w, w = Size(weight)
  PROVE  Weighted(f, l, w, g)
<1>1. Sound(f) /\ IsFormula(f) /\ f.poids \in Seq(Int) /\ f.cost \in Int
      BY Fields DEF Good, Sound
<1>2. Free(f, l) /\ w \in Nat /\ Var(l) = Var(lit)
      BY SizeFacts
<1>3. l \in LitsOf(f.poids) /\ lit \in LitsOf(f.poids) /\ f.card[Var(l)] = NoCard /\ f.card[Var(lit)] = NoCard /\ ~IsOutput(f, Var(lit))
      BY <1>2 DEF Free
<1>4. PICK old : old = Weight(f.poids, l)
      OBVIOUS
<1>5. /\ old \in Int /\ Cancelled(old, w) \in Nat /\ f.cost + Cancelled(old, w) < MaxWeight
      /\ old < 0 => Min({w, -old}) = Cancelled(old, w)
      BY <1>2, <1>3, <1>4, CancelledSmall
<1>6. PICK c : c = f.cost + Cancelled(old, w)
      OBVIOUS
<1>7. c = IF old < 0 THEN Wrap(f.cost + Min({w, -old})) ELSE f.cost
  <2>1. CASE old < 0
    <3>1. f.cost + Cancelled(old, w) \in Nat
          BY <1>5
    <3>2. Wrap(f.cost + Cancelled(old, w)) = f.cost + Cancelled(old, w)
          BY <1>5, <3>1, WrapSmall
    <3> QED BY <1>5, <1>6, <2>1, <3>2
  <2>2. CASE ~(old < 0)
        BY <1>1, <1>6, <2>2 DEF Cancelled
  <2> QED BY <2>1, <2>2
<1>8. PICK m : m = Given(Taken(f.map, l, -l, old), l, -l, old + w)
      OBVIOUS
<1>9. PICK p : p = SetPoids(f.poids, l, old + w)
      OBVIOUS
<1>10. PICK h : h = Replace(f, p, c, m)
      OBVIOUS
<1>11. g = IF old + w = 0 THEN Relax(h, l) ELSE h
  <2>1. h = [f EXCEPT !.poids = SetPoids(@, l, old + w),
                      !.cost  = IF old < 0 THEN Wrap(@ + Min({w, -old})) ELSE @,
                      !.map   = Given(Taken(f.map, l, -l, old), l, -l, old + w)]
        BY <1>7, <1>8, <1>9, <1>10, Zenon DEF Replace
  <2>2. /\ l = IF weight < 0 THEN -lit ELSE lit
        /\ w = IF weight < 0 THEN -weight ELSE weight
        BY DEF SignedLit, Size
  <2>3. old = 0 => w > 0
        BY <1>2, <1>4, <2>2 DEF Weighs
  <2>4. (old = 0 \/ old + w > 0 <=> old + w > 0) /\ (old # 0 /\ old + w = 0 <=> old + w = 0)
        BY <1>2, <1>5, <2>3
  <2>5. NewVars(f, Var(l)) = f
        BY <1>1, <1>3, NewVarsSame
  <2>6. PICK t : t = Taken(f.map, l, -l, old)
        OBVIOUS
  <2>7. PICK r : r = [f EXCEPT !.poids = SetPoids(@, l, old + w),
                               !.cost  = IF old < 0 THEN Wrap(@ + Min({w, -old})) ELSE @,
                               !.map   = IF old = 0 \/ old + w > 0 THEN Insert(t, old + w, l)
                                         ELSE IF old + w < 0 THEN Insert(t, -(old + w), -l) ELSE t]
        OBVIOUS
  <2>8. g = IF old # 0 /\ old + w = 0 THEN Relax(r, l) ELSE r
        BY <1>4, <2>2, <2>5, <2>6, <2>7, ZenonT(60) DEF AddWeight, Poids, Taken
  <2>9. r = h
        BY <2>1, <2>4, <2>6, <2>7, Zenon DEF Given
  <2> QED BY <2>4, <2>8, <2>9, Zenon
<1>12. /\ h.poids = p /\ h.cost = c /\ h.card = f.card /\ h.cards = f.cards
       /\ h.truth = f.truth /\ h.live = f.live
       BY <1>1, <1>10, ReplaceIs
<1>13. Relax(h, l) = h
       BY <1>3, <1>12 DEF Relax
<1>14. Sound(g)
  <2>1. Keeps(f, g, {lit, -lit})
        BY <1>1, <1>3, KeepsAddWeight
  <2> QED BY <2>1 DEF Keeps
<1>15. g = h
       BY <1>11, <1>13
<1> QED BY <1>4, <1>6, <1>9, <1>12, <1>14, <1>15 DEF Weighted

\* That disturbs no constraint,
LEMMA WeightedGood ==
  ASSUME NEW f, NEW q, NEW W, Good(f, q, W), \A y \in W : Spent(f, y), NEW l, Free(f, l), NEW w \in Nat,
         NEW g, Weighted(f, l, w, g)
  PROVE  Good(g, q, W) /\ SameTruth(f, g) /\ DOMAIN g.poids = DOMAIN f.poids
<1>1. Sound(f) /\ IsFormula(f) /\ f.poids \in Seq(Int) /\ DOMAIN f.card = DOMAIN f.poids
      BY Fields DEF Good, Sound
<1>2. l \in LitsOf(f.poids) /\ f.card[Var(l)] = NoCard
      BY DEF Free
<1>3. PICK new \in Int : new = Weight(f.poids, l) + w
  <2>1. Weight(f.poids, l) \in Int
        BY <1>1, <1>2, WeightFacts
  <2> QED BY <2>1
<1>4. /\ Sound(g) /\ g.poids = SetPoids(f.poids, l, new) /\ g.card = f.card /\ g.cards = f.cards
      /\ g.truth = f.truth /\ g.live \subseteq f.live
      BY <1>3 DEF Weighted
<1>5. DOMAIN g.poids = DOMAIN f.poids /\ \A v \in DOMAIN f.poids \ {Var(l)} : g.poids[v] = f.poids[v]
      BY ONLY <1>1, <1>2, <1>3, <1>4, new \in Int, WeightSet, SetOther
<1>6. Settles(f, W, g, W)
  <2> SUFFICES ASSUME NEW v \in DOMAIN f.card, f.card[v] # NoCard PROVE v \in Open(g, W) <=> v \in Open(f, W)
      BY DEF Settles
  <2>1. v \in DOMAIN f.poids /\ v # Var(l)
        BY <1>1, <1>2
  <2> QED BY <1>5, <2>1 DEF Open
<1>7. Good(g, q, W) /\ SameTruth(f, g)
      BY <1>4, <1>5, <1>6, ShapeWeights
<1> QED BY <1>5, <1>7

\* and charges the weight to those who falsify the literal.
LEMMA WeightedTotal ==
  ASSUME NEW f, NEW q, NEW W, Good(f, q, W), NEW l \in LitsOf(f.poids), NEW w \in Nat, NEW g, Weighted(f, l, w, g), NEW bad
  PROVE  /\ l \in bad /\ -l \notin bad => Total(g, q, bad) = Total(f, q, bad) + w
         /\ l \notin bad /\ -l \in bad => Total(g, q, bad) = Total(f, q, bad)
         /\ l \in bad /\ -l \in bad => Total(g, q, bad) <= Total(f, q, bad) + w
<1>1. /\ IsFormula(f) /\ f.poids \in Seq(Int) /\ CardsWell(f.cards) /\ QueueOK(f, q)
      BY Fields DEF Good, Sound, Shaped, OutputsOK
<1>2. PICK old \in Int : old = Weight(f.poids, l)
      BY <1>1, WeightFacts
<1>3. PICK new \in Int : new = old + w
      BY <1>2
<1>4. g.poids = SetPoids(f.poids, l, new) /\ g.cards = f.cards /\ g.cost = f.cost + Cancelled(old, w)
      BY <1>2, <1>3 DEF Weighted
<1>5. Charges(g.poids, bad) = Charges(f.poids, bad) + (Price(new, l, bad) - Price(old, l, bad))
      BY <1>1, <1>2, <1>4, ChargesLit
<1>6. Charges(f.poids, bad) \in Nat /\ CardsOwe(bad, f.cards) \in Nat /\ PendingOwe(bad, q) \in Nat /\ f.cost \in Int
      BY <1>1, TotalParts
<1>7. PICK d : d = Price(new, l, bad) - Price(old, l, bad)
      OBVIOUS
<1>8. PICK c : c = Cancelled(old, w)
      OBVIOUS
<1>9. /\ c \in Nat /\ d \in Int
      /\ l \in bad /\ -l \notin bad => c + d = w
      /\ l \notin bad /\ -l \in bad => c + d = 0
      /\ l \in bad /\ -l \in bad => c + d <= w
      BY ONLY <1>3, <1>7, <1>8, old \in Int, w \in Nat DEF Price, Cancelled
<1>10. Total(g, q, bad) = Total(f, q, bad) + (c + d) /\ Total(f, q, bad) \in Int
  <2>1. g.cost = f.cost + c /\ Charges(g.poids, bad) = Charges(f.poids, bad) + d /\ g.cards = f.cards
        BY <1>4, <1>5, <1>7, <1>8
  <2> QED BY ONLY <1>6, <1>9, <2>1 DEF Total
<1> QED BY ONLY <1>9, <1>10, w \in Nat

\* addWeight: the literal that gains costs w more where it is false.
LEMMA CostAddWeight ==
  ASSUME NEW f, NEW q, NEW W, Good(f, q, W), \A y \in W : Spent(f, y), NEW l, Free(f, l), NEW w \in Nat,
         NEW g, Weighted(f, l, w, g)
  PROVE  /\ Good(g, q, W) /\ SameTruth(f, g) /\ g.live = f.live /\ DOMAIN g.poids = DOMAIN f.poids
         /\ \A p : Falsified(g, p) = Falsified(f, p)
         /\ \A p \in Points : Total(g, q, Falsified(g, p)) =
              Total(f, q, Falsified(f, p)) + IF p \in True(f, l) THEN 0 ELSE w
         /\ Total(g, q, Int) <= Total(f, q, Int) + w
<1>1. Good(g, q, W) /\ SameTruth(f, g) /\ DOMAIN g.poids = DOMAIN f.poids
      BY WeightedGood
<1>2. IsFormula(f) /\ f.poids \in Seq(Int) /\ l \in LitsOf(f.poids) /\ l \in Int /\ -l \in Int
      BY Fields DEF Good, Sound, Free, LitsOf
<1>3. g.live = f.live /\ g.truth = f.truth
      BY DEF Weighted
<1>4. \A p : Falsified(g, p) = Falsified(f, p)
      BY <1>1, <1>3, FalsifiedAlike
<1>5. ASSUME NEW p \in Points
      PROVE  Total(g, q, Falsified(g, p)) = Total(f, q, Falsified(f, p)) + IF p \in True(f, l) THEN 0 ELSE w
  <2>1. PICK F : F = Falsified(f, p)
        OBVIOUS
  <2>2. (l \in F <=> p \notin True(f, l)) /\ (-l \in F <=> p \in True(f, l))
        BY <1>2, <2>1, FalsifiedFacts
  <2>3. /\ l \in F /\ -l \notin F => Total(g, q, F) = Total(f, q, F) + w
        /\ l \notin F /\ -l \in F => Total(g, q, F) = Total(f, q, F)
        BY <1>2, WeightedTotal
  <2>4. Total(f, q, F) \in Int
        BY TotalInt
  <2> QED BY <1>4, <2>1, <2>2, <2>3, <2>4
<1>6. Total(g, q, Int) <= Total(f, q, Int) + w
      BY <1>2, WeightedTotal
<1> QED BY <1>1, <1>3, <1>4, <1>5, <1>6

\* Cancelling weights only raises the bound.
LEMMA WeightedCost ==
  ASSUME NEW g, Sound(g), g.cost \in Nat, NEW l, Free(g, l), NEW w \in Nat, NEW h, Weighted(g, l, w, h)
  PROVE  h.cost \in Nat /\ h.cost >= g.cost
<1>1. Weight(g.poids, l) \in Int
      BY Fields, WeightFacts DEF Sound, Free
<1>2. Cancelled(Weight(g.poids, l), w) \in Nat
      BY <1>1 DEF Cancelled
<1>3. h.cost = g.cost + Cancelled(Weight(g.poids, l), w)
      BY DEF Weighted
<1> QED BY <1>2, <1>3

\* More calls, more added.
LEMMA ProductMore ==
  ASSUME NEW m \in Int, NEW n \in Int, m <= n, NEW w \in Nat
  PROVE  m * w <= n * w
<1>1. PICK k \in Nat : n = m + k
      OBVIOUS
<1>2. n * w = m * w + k * w
      BY ONLY <1>1, m \in Int, k \in Nat, w \in Nat
<1>3. k * w \in Nat
      OBVIOUS
<1>4. m * w \in Int
      OBVIOUS
<1> QED BY ONLY <1>2, <1>3, <1>4

\* There is room below MaxWeight for n more of each of A.
RoomFor(A, t, n) == \A w \in A : t + n * w < MaxWeight

\* Adding one of them leaves room for one less.
LEMMA RoomForAdd ==
  ASSUME NEW A \in SUBSET Nat, NEW t \in Int, NEW n \in Nat \ {0}, RoomFor(A, t, n), NEW w \in A, NEW s \in Int, s <= t + w,
         NEW m, m = n - 1
  PROVE  RoomFor(A, s, m)
<1> SUFFICES ASSUME NEW x \in A PROVE s + m * x < MaxWeight
    BY DEF RoomFor
<1>1. w \in Nat /\ x \in Nat /\ m \in Nat
      OBVIOUS
<1>2. t + n * w < MaxWeight /\ t + n * x < MaxWeight
      BY DEF RoomFor
<1>3. n * w = m * w + w /\ n * x = m * x + x
      BY <1>1
<1>4. m * w \in Int /\ m * x \in Int
      BY <1>1
<1>5. CASE x <= w
  <2>1. m * x <= m * w
    <3>1. x * m <= w * m
          BY <1>1, <1>5, ProductMore
    <3>2. x * m = m * x /\ w * m = m * w
          BY <1>1
    <3> QED BY ONLY <3>1, <3>2
  <2> QED BY ONLY <1>1, <1>2, <1>3, <1>4, <2>1, s \in Int, t \in Int, s <= t + w, MaxWeightAssumption
<1>6. CASE w <= x
      BY ONLY <1>1, <1>2, <1>3, <1>4, <1>6, s \in Int, t \in Int, s <= t + w, MaxWeightAssumption
<1> QED BY <1>1, <1>5, <1>6

-----------------------------------------------------------------------------
(***************************************************************************)
(* A formula as the interface builds it, before any cardinality            *)
(* constraint: what newVar, newSoftVar and addClause do to its index and   *)
(* to its cost.                                                            *)
(***************************************************************************)
Plain(h) ==
    /\ IsFormula(h) /\ IndexOK(h)
    /\ h.cards = <<>>
    /\ \A v \in DOMAIN h.card : h.card[v] = NoCard

\* What a formula charges for a clause that is falsified outside of T.
Fee(T, w, p) == IF w < 0 THEN (IF p \in T THEN -w ELSE 0) ELSE (IF p \in T THEN 0 ELSE w)

\* g charges w more than h does.
Accounts(h, g, T, w) ==
    /\ g.live = h.live /\ g.cost \in Nat /\ SameTruth(h, g)
    /\ \A p \in Points :
         Total(g, <<>>, Falsified(g, p)) = Total(h, <<>>, Falsified(h, p)) + Fee(T, w, p)
    /\ Total(g, <<>>, Int) <= Total(h, <<>>, Int) + Size(w)

\* What a variable of signed weight x, true at T, charges.
PriceAt(T, x, p) == IF x > 0 /\ p \notin T THEN x ELSE IF x < 0 /\ p \in T THEN -x ELSE 0

\* The formula has one more variable, and nothing else.
EndsWith(h, x, T, g) ==
    /\ g.poids = Append(h.poids, x) /\ g.truth = Append(h.truth, T)
    /\ g.live = h.live /\ g.cost = h.cost

\* What the operations need to know about such a formula.
LEMMA PlainFacts ==
  ASSUME NEW h, Plain(h)
  PROVE  /\ IsFormula(h) /\ h \in Formulas /\ CardOK(h) /\ IndexOK(h) /\ \A v : ~IsOutput(h, v)
         /\ h.poids \in Seq(Int) /\ DOMAIN h.card = DOMAIN h.poids
         /\ \A l \in LitsOf(h.poids) : Free(h, l)
<1>1. h.poids \in Seq(Int) /\ DOMAIN h.card = DOMAIN h.poids /\ h \in Formulas
      BY Fields DEF Plain
<1>2. CardOK(h) /\ \A v : ~IsOutput(h, v)
      BY DEF Plain, CardOK, IsOutput
<1>3. ASSUME NEW l \in LitsOf(h.poids)
      PROVE  Free(h, l)
  <2>1. Var(l) \in DOMAIN h.card
        BY <1>1 DEF LitsOf
  <2> QED BY <1>2, <2>1 DEF Free, Plain
<1> QED BY <1>1, <1>2, <1>3 DEF Plain

\* The empty formula.
LEMMA PlainEmpty == Plain(Empty)
<1>1. PICK h : h = Empty
      OBVIOUS
<1>2. h = [poids |-> <<>>, map |-> <<>>, cost |-> 0, card |-> <<>>, cards |-> <<>>,
           truth |-> <<>>, live |-> Points]
      BY <1>1 DEF Empty
<1>3. <<>> \in Index
  <2>1. <<>> \in [{} -> SUBSET (Int \ {0})] /\ {} \subseteq Nat \ {0} /\ Bounded({})
        BY DEF Bounded
  <2> QED BY <2>1, IndexIntro
<1>4. /\ <<>> \in Seq(Int) /\ <<>> \in Seq(LitCard) /\ <<>> \in Seq(Cards)
      /\ <<>> \in Seq(SUBSET Points)
      OBVIOUS
<1>5. h \in Formulas
      BY <1>2, <1>3, <1>4 DEF Formulas
<1>6. IsFormula(h)
      BY <1>2, <1>5 DEF IsFormula
<1>7. IndexOK(h)
      BY <1>2 DEF IndexOK, Indexed
<1> QED BY <1>1, <1>2, <1>6, <1>7 DEF Plain

\* It is in good shape, and its total is its cost.
LEMMA PlainGood ==
  ASSUME NEW h, Plain(h)
  PROVE  /\ Good(h, <<>>, {})
         /\ \A bad : Total(h, <<>>, bad) \in Int
         /\ \A bad : Total(h, <<>>, bad) = h.cost + Charges(h.poids, bad)
<1>1. IsFormula(h) /\ CardOK(h) /\ IndexOK(h) /\ h.cards = <<>>
      BY PlainFacts DEF Plain
<1>2. /\ \A bad : Total(h, <<>>, bad) = h.cost + Charges(h.poids, bad)
      /\ QueueOK(h, <<>>) /\ \A O : Shaped(h, O)
      BY <1>1, TotalPlain
<1>3. Good(h, <<>>, {})
      BY <1>1, <1>2 DEF Good, Sound
<1> QED BY <1>1, <1>2, <1>3, TotalInt

\* One more variable that is no output.
LEMMA PlainGrown ==
  ASSUME NEW h, Plain(h), NEW g, IsFormula(g), IndexOK(g), g.cards = h.cards, g.card = Append(h.card, NoCard)
  PROVE  Plain(g)
<1>1. h.card \in Seq(LitCard) /\ NoCard \in LitCard
      BY Fields, NoCardType DEF Plain
<1>2. ASSUME NEW v \in DOMAIN g.card
      PROVE  g.card[v] = NoCard
      BY <1>1 DEF Plain
<1> QED BY <1>2 DEF Plain

\* newVar.
LEMMA PlainNewVar ==
  ASSUME NEW h, Plain(h), NEW T \in SUBSET Points, NEW g, g = NewVar(h, T)
  PROVE  Plain(g) /\ EndsWith(h, 0, T, g) /\ Len(g.poids) = Len(h.poids) + 1
<1>1. IsFormula(h) /\ h \in Formulas /\ IndexOK(h) /\ h.poids \in Seq(Int)
      BY PlainFacts
<1>2. /\ IsFormula(g) /\ SameWeights(h, g) /\ g.cards = h.cards
      /\ g.card = Append(h.card, NoCard) /\ g.poids = Append(h.poids, 0)
      BY <1>1, NewVarFacts
<1>3. IndexOK(g)
      BY <1>1, <1>2, GrownIndexed DEF Grown
<1>4. Len(g.poids) = Len(h.poids) + 1
      BY <1>1, <1>2
<1>5. EndsWith(h, 0, T, g)
      BY <1>1 DEF EndsWith, NewVar, Formulas
<1> QED BY <1>2, <1>3, <1>4, <1>5, PlainGrown

\* newSoftVar.
LEMMA PlainNewSoftVar ==
  ASSUME NEW h, Plain(h), NEW T \in SUBSET Points, NEW value \in BOOLEAN, NEW w \in Int \ {0},
         NEW g, g = NewSoftVar(h, value, w, T)
  PROVE  Plain(g) /\ Len(g.poids) = Len(h.poids) + 1
<1>1. IsFormula(h) /\ IndexOK(h)
      BY PlainFacts
<1>2. /\ IsFormula(g) /\ IndexOK(g) /\ g.cards = h.cards
      /\ g.card = Append(h.card, NoCard) /\ Len(g.poids) = Len(h.poids) + 1
      BY <1>1, NewSoftVarFacts
<1> QED BY <1>2, PlainGrown

\* The value and the sign of the weight it is given with.
LEMMA SoftVarEnds ==
  ASSUME NEW h, h \in Formulas, NEW value \in BOOLEAN, NEW w \in Int, NEW T, NEW g, g = NewSoftVar(h, value, w, T),
         NEW x, x = IF value THEN w ELSE -w
  PROVE  EndsWith(h, x, T, g)
<1>1. g.truth = Append(h.truth, T) /\ g.live = h.live /\ g.cost = h.cost
      BY DEF NewSoftVar, Formulas
<1>2. g.poids = Append(h.poids, IF (IF w < 0 THEN ~value ELSE value) THEN (IF w < 0 THEN -w ELSE w)
                                ELSE -(IF w < 0 THEN -w ELSE w))
      BY DEF NewSoftVar, Formulas
<1>3. CASE value = TRUE
      BY <1>1, <1>2, <1>3 DEF EndsWith
<1>4. CASE value = FALSE
      BY <1>1, <1>2, <1>4 DEF EndsWith
<1> QED BY <1>1, <1>3, <1>4

\* A hard unit on a variable that is no output creates no output.
LEMMA HardUnitPlain ==
  ASSUME NEW g, IsFormula(g), NEW l \in LitsOf(g.poids), g.card[Var(l)] = NoCard
  PROVE  HardUnit(g, l).card = g.card /\ HardUnit(g, l).cards = g.cards
<1> DEFINE w == Poids(g, -l)
           e == [g EXCEPT !.map = Erase(g.map, w, -l), !.cost = Wrap(g.cost + w)]
           d == [g EXCEPT !.map = Erase(g.map, -w, l)]
           h == IF w > 0 THEN e ELSE IF w < 0 THEN d ELSE g
           k == IF w = 0 THEN h ELSE [h EXCEPT !.poids = SetPoids(h.poids, l, 0)]
<1>1. g \in Formulas
      BY Fields
<1>2. e.card = g.card /\ e.cards = g.cards /\ d.card = g.card /\ d.cards = g.cards
      BY <1>1 DEF Formulas
<1>3. Relax(e, l) = e
      BY <1>2 DEF Relax
<1>4. HardUnit(g, l) = AddHard(k, {l})
      BY <1>3, Zenon DEF HardUnit
<1>5. DOMAIN g = {"poids", "map", "cost", "card", "cards", "truth", "live"}
      BY <1>1 DEF Formulas
<1>6. /\ DOMAIN h = {"poids", "map", "cost", "card", "cards", "truth", "live"}
      /\ h.card = g.card /\ h.cards = g.cards
      BY <1>2, <1>5
<1> HIDE DEF h, w
<1>7. /\ DOMAIN k = {"poids", "map", "cost", "card", "cards", "truth", "live"}
      /\ k.card = g.card /\ k.cards = g.cards
      BY <1>6
<1> HIDE DEF k
<1>8. AddHard(k, {l}).card = k.card /\ AddHard(k, {l}).cards = k.cards
      BY <1>7 DEF AddHard
<1> QED BY <1>4, <1>7, <1>8


\* addClause of a hard clause.
LEMMA PlainAddHard ==
  ASSUME NEW h, Plain(h), NEW C, Over(h, C), NEW g, g = AddHardClause(h, C)
  PROVE  Plain(g) /\ DOMAIN h.poids \subseteq DOMAIN g.poids
<1>1. /\ IsFormula(h) /\ IndexOK(h) /\ CardOK(h) /\ h.poids \in Seq(Int)
      /\ g = IF Cardinality(C) = 1 THEN HardUnit(h, CHOOSE l \in C : TRUE) ELSE AddHard(h, C)
      BY PlainFacts DEF AddHardClause
<1>2. CASE Cardinality(C) = 1
  <2>1. PICK l : l = CHOOSE y \in C : TRUE
        OBVIOUS
  <2>2. C # {}
        BY <1>2, FS_EmptySet
  <2>3. l \in C /\ l \in LitsOf(h.poids) /\ g = HardUnit(h, l)
        BY <1>1, <1>2, <2>1, <2>2 DEF Over
  <2>4. Settled1(h, g, l)
        BY <1>1, <2>3, HardUnitFacts
  <2>5. g.card = h.card /\ g.cards = h.cards
        BY <1>1, <2>3, PlainFacts, HardUnitPlain DEF Free
  <2>6. IsFormula(g) /\ IndexOK(g) /\ DOMAIN h.poids \subseteq DOMAIN g.poids
        BY <2>4 DEF Settled1
  <2> QED BY <2>5, <2>6 DEF Plain
<1>3. CASE Cardinality(C) # 1
  <2>1. /\ IsFormula(g)
        /\ g.poids = h.poids /\ g.map = h.map /\ g.card = h.card /\ g.cards = h.cards
        BY <1>1, <1>3, AddHardFacts
  <2>2. IndexOK(g)
        BY <1>1, <2>1 DEF IndexOK
  <2> QED BY <2>1, <2>2 DEF Plain
<1> QED BY <1>2, <1>3

\* addWeight.
LEMMA PlainAddWeight ==
  ASSUME NEW h, Plain(h), NEW l \in LitsOf(h.poids), NEW w \in Int, Weighs(h, l, w), NEW g, g = AddWeight(h, l, w)
  PROVE  Plain(g) /\ DOMAIN h.poids = DOMAIN g.poids
<1>1. /\ IsFormula(h) /\ IndexOK(h) /\ CardOK(h)
      /\ h.card[Var(l)] = NoCard /\ ~IsOutput(h, Var(l))
      BY PlainFacts DEF Free
<1>2. Moved(h, g, l)
      BY <1>1, AddWeightFacts
<1> QED BY <1>2 DEF Moved, Plain

\* addClause of a soft clause.
LEMMA PlainAddSoft ==
  ASSUME NEW h, Plain(h), NEW C, Over(h, C), NEW w \in Int, NEW g, g = AddSoft(h, C, w)
  PROVE  Plain(g) /\ DOMAIN h.poids \subseteq DOMAIN g.poids
<1>1. /\ IsFormula(h) /\ h \in Formulas /\ IndexOK(h) /\ CardOK(h) /\ h.poids \in Seq(Int)
      /\ h.cost \in Int /\ h.map \in Index
      BY PlainFacts, Fields
<1>2. \A l \in C : True(h, l) \in SUBSET Points
      BY <1>1, TruePoints DEF Over
<1>3. ASSUME NEW T \in SUBSET Points, NEW x \in Int \ {0}, g = NewSoftVar(h, TRUE, x, T)
      PROVE  Plain(g) /\ DOMAIN h.poids \subseteq DOMAIN g.poids
  <2>1. Plain(g) /\ Len(g.poids) = Len(h.poids) + 1 /\ TRUE \in BOOLEAN
        BY <1>3, PlainNewSoftVar
  <2>2. g.poids \in Seq(Int)
        BY <2>1, PlainFacts
  <2> QED BY <1>1, <2>1, <2>2
<1>4. CASE w = 0
  <2>1. g = h
        BY <1>4 DEF AddSoft
  <2> QED BY <2>1
<1>5. CASE w # 0 /\ Cardinality(C) > 1 /\ w > 0
  <2>1. PICK T : T = UNION {True(h, l) : l \in C}
        OBVIOUS
  <2>2. g = NewSoftVar(h, TRUE, w, T)
        BY <1>5, <2>1, Zenon DEF AddSoft, SoftClause
  <2>3. T \in SUBSET Points
        BY <1>2, <2>1
  <2> QED BY <1>3, <1>5, <2>2, <2>3
<1>6. CASE w # 0 /\ Cardinality(C) > 1 /\ ~(w > 0)
  <2>1. PICK T : T = {p \in Points : \A l \in C : p \in True(h, l)}
        OBVIOUS
  <2>2. PICK n : n = -w
        OBVIOUS
  <2>3. g = NewSoftVar(h, TRUE, n, T)
        BY <1>6, <2>1, <2>2, Zenon DEF AddSoft, NegativeClause
  <2>4. T \in SUBSET Points /\ n \in Int \ {0}
        BY <1>6, <2>1, <2>2
  <2> QED BY <1>3, <2>3, <2>4
<1>7. CASE w # 0 /\ ~(Cardinality(C) > 1) /\ C # {}
  <2>1. PICK l : l = CHOOSE y \in C : TRUE
        OBVIOUS
  <2>2. g = AddWeight(h, l, w) /\ l \in C
        BY <1>7, <2>1, Zenon DEF AddSoft
  <2>3. l \in LitsOf(h.poids) /\ Weighs(h, l, w)
        BY <1>7, <2>2 DEF Over, Weighs
  <2> QED BY <2>2, <2>3, PlainAddWeight
<1>8. CASE w # 0 /\ ~(Cardinality(C) > 1) /\ C = {}
  <2>1. PICK c : c = Wrap(h.cost + w)
        OBVIOUS
  <2>2. g = [h EXCEPT !.cost = c]
        BY <1>8, <2>1, Zenon DEF AddSoft
  <2>3. c \in Int
        BY <1>1, <2>1, WrapType
  <2>4. g = Reindex(h, h.map, c)
        BY <1>1, <2>2, <2>3 DEF Reindex, Formulas
  <2>5. /\ IsFormula(g)
        /\ g.map = h.map /\ g.poids = h.poids /\ g.card = h.card /\ g.cards = h.cards
        BY <1>1, <2>3, <2>4, ReindexFacts
  <2>6. IndexOK(g)
        BY <1>1, <2>5 DEF IndexOK
  <2> QED BY <2>5, <2>6 DEF Plain
<1> QED BY <1>4, <1>5, <1>6, <1>7, <1>8

\* It charges what that variable does.
LEMMA NewCharges ==
  ASSUME NEW h, Plain(h), NEW g, Plain(g), NEW x \in Int, NEW T \in SUBSET Points, EndsWith(h, x, T, g)
  PROVE  /\ \A p \in Points :
              Total(g, <<>>, Falsified(g, p)) = Total(h, <<>>, Falsified(h, p)) + PriceAt(T, x, p)
         /\ Total(g, <<>>, Int) = Total(h, <<>>, Int) + Size(x)
         /\ SameTruth(h, g)
<1>1. /\ IsFormula(h) /\ IsFormula(g) /\ h.poids \in Seq(Int) /\ h.cost \in Int /\ h.truth \in Seq(SUBSET Points)
      /\ DOMAIN h.truth = DOMAIN h.poids /\ DOMAIN g.truth = DOMAIN g.poids
      BY Fields, PlainFacts
<1>2. PICK n \in Nat : n = Len(h.poids) + 1
      BY <1>1
<1>3. /\ DOMAIN g.poids = DOMAIN h.poids \cup {n} /\ n \notin DOMAIN h.poids /\ n > 0
      /\ g.truth[n] = T /\ \A v \in DOMAIN h.poids : g.truth[v] = h.truth[v]
      BY <1>1, <1>2, SMTT(30) DEF EndsWith
<1>4. SameTruth(h, g)
      BY <1>3 DEF SameTruth
<1>5. n \in LitsOf(g.poids) /\ True(g, n) = T
      BY <1>3 DEF LitsOf, Var, True
<1>6. \A bad : Charges(g.poids, bad) = Charges(h.poids, bad) + Price(x, n, bad)
      BY <1>1, <1>2, ChargesAppend DEF EndsWith
<1>7. \A bad : Charges(h.poids, bad) \in Nat
      BY <1>1, ChargesNat
<1>8. ASSUME NEW p \in Points
      PROVE  Total(g, <<>>, Falsified(g, p)) = Total(h, <<>>, Falsified(h, p)) + PriceAt(T, x, p)
  <2>1. Charges(h.poids, Falsified(g, p)) = Charges(h.poids, Falsified(h, p))
        BY <1>1, <1>4, SameFalsified, ChargesAgree
  <2>2. n \in Falsified(g, p) <=> p \notin T
        BY <1>1, <1>5, FalsifiedFacts
  <2>3. -n \in Falsified(g, p) <=> p \in T
        BY <1>1, <1>5, FalsifiedFacts
  <2>4. Price(x, n, Falsified(g, p)) = PriceAt(T, x, p)
        BY <2>2, <2>3 DEF Price, PriceAt
  <2>5. PriceAt(T, x, p) \in Int
        BY DEF PriceAt
  <2>6. g.cost = h.cost
        BY DEF EndsWith
  <2> QED BY <1>1, <1>6, <1>7, <2>1, <2>4, <2>5, <2>6, PlainGood
<1>9. Total(g, <<>>, Int) = Total(h, <<>>, Int) + Size(x)
  <2>1. Price(x, n, Int) = Size(x) /\ Size(x) \in Int
        BY DEF Price, Size
  <2>2. g.cost = h.cost
        BY DEF EndsWith
  <2> QED BY <1>1, <1>6, <1>7, <2>1, <2>2, PlainGood
<1> QED BY <1>4, <1>8, <1>9

\* k is h with more variables, and none of them costs anything.
Idle(h, k) ==
    /\ Plain(k) /\ k.live = h.live /\ k.cost = h.cost /\ SameTruth(h, k)
    /\ \A p \in Points : Total(k, <<>>, Falsified(k, p)) = Total(h, <<>>, Falsified(h, p))
    /\ Total(k, <<>>, Int) = Total(h, <<>>, Int)

\* So is a formula itself, and one with another variable.
LEMMA IdleNewVar ==
  ASSUME NEW h, Plain(h)
  PROVE  /\ Idle(h, h)
         /\ \A k : Idle(h, k) => \A T \in SUBSET Points : Idle(h, NewVar(k, T))
<1>1. Idle(h, h)
      BY DEF Idle, SameTruth
<1>2. ASSUME NEW k, Idle(h, k), NEW T \in SUBSET Points
      PROVE  Idle(h, NewVar(k, T))
  <2>1. PICK g : g = NewVar(k, T)
        OBVIOUS
  <2>2. Plain(k) /\ Plain(g) /\ EndsWith(k, 0, T, g)
        BY <1>2, <2>1, PlainNewVar DEF Idle
  <2>3. /\ \A p \in Points : Total(g, <<>>, Falsified(g, p)) = Total(k, <<>>, Falsified(k, p)) + PriceAt(T, 0, p)
        /\ Total(g, <<>>, Int) = Total(k, <<>>, Int) + Size(0)
        /\ SameTruth(k, g)
        BY <2>2, NewCharges
  <2>4. Size(0) = 0 /\ \A p : PriceAt(T, 0, p) = 0
        BY DEF Size, PriceAt
  <2>5. \A bad : Total(k, <<>>, bad) \in Int
        BY <2>2, PlainGood
  <2>6. SameTruth(h, g)
        BY <1>2, <2>3 DEF Idle, SameTruth
  <2>7. g.live = h.live /\ g.cost = h.cost
        BY <1>2, <2>2 DEF Idle, EndsWith
  <2>8. Total(g, <<>>, Int) = Total(h, <<>>, Int)
        BY <1>2, <2>3, <2>4, <2>5 DEF Idle
  <2>9. \A p \in Points : Total(g, <<>>, Falsified(g, p)) = Total(h, <<>>, Falsified(h, p))
        BY <1>2, <2>3, <2>4, <2>5 DEF Idle
  <2> QED BY <2>1, <2>2, <2>6, <2>7, <2>8, <2>9 DEF Idle
<1> QED BY <1>1, <1>2

\* A new soft variable, made so that the clause costs w outside of T.
LEMMA NewAccounts ==
  ASSUME NEW h, Plain(h), NEW g, Plain(g), h.cost \in Nat, NEW x \in Int, NEW T \in SUBSET Points, EndsWith(h, x, T, g),
         NEW w \in Int, NEW U, \A p \in Points : PriceAt(T, x, p) = Fee(U, w, p), Size(x) = Size(w)
  PROVE  Accounts(h, g, U, w)
<1>1. g.live = h.live /\ g.cost \in Nat
      BY DEF EndsWith
<1>2. Total(g, <<>>, Int) \in Int
      BY PlainGood
<1> QED BY <1>1, <1>2, NewCharges DEF Accounts

\* addWeight: the user's price for the literal goes up by the weight.
LEMMA WeightAccounts ==
  ASSUME NEW h, Plain(h), h.cost \in Nat, NEW c \in LitsOf(h.poids), NEW w \in Int, Weighs(h, c, w),
         Total(h, <<>>, Int) < MaxWeight, NEW g, Plain(g), g = AddWeight(h, c, w),
         NEW T, T = True(h, c)
  PROVE  Accounts(h, g, T, w)
<1>1. IsFormula(h) /\ Good(h, <<>>, {}) /\ Free(h, c) /\ Sound(h)
      BY PlainFacts, PlainGood DEF Good
<1>2. PICK l : l = SignedLit(c, w)
      OBVIOUS
<1>3. PICK n : n = Size(w)
      OBVIOUS
<1>4. Free(h, l) /\ n \in Nat
      BY <1>1, <1>2, <1>3, SizeFacts
<1>5. Weighted(h, l, n, g)
      BY <1>1, <1>2, <1>3, AddWeightIs
<1>6. /\ g.live = h.live /\ SameTruth(h, g)
      /\ \A p \in Points : Total(g, <<>>, Falsified(g, p)) =
           Total(h, <<>>, Falsified(h, p)) + IF p \in True(h, l) THEN 0 ELSE n
      /\ Total(g, <<>>, Int) <= Total(h, <<>>, Int) + n
  <2>1. \A y \in {} : Spent(h, y)
        OBVIOUS
  <2> QED BY <1>1, <1>4, <1>5, <2>1, CostAddWeight
<1>7. ASSUME NEW p \in Points
      PROVE  Fee(T, w, p) = IF p \in True(h, l) THEN 0 ELSE n
  <2>1. CASE w < 0
    <3>1. l = -c /\ n = -w
          BY <1>2, <1>3, <2>1 DEF SignedLit, Size
    <3>2. p \in True(h, -c) <=> p \notin True(h, c)
          BY <1>1, FalsifiedFacts DEF Free
    <3> QED BY <2>1, <3>1, <3>2 DEF Fee
  <2>2. CASE ~(w < 0)
    <3>1. l = c /\ n = w
          BY <1>2, <1>3, <2>2 DEF SignedLit, Size
    <3> QED BY <2>2, <3>1 DEF Fee
  <2> QED BY <2>1, <2>2
<1>8. g.cost \in Nat
      BY ONLY <1>1, <1>4, <1>5, h.cost \in Nat, WeightedCost
<1>9. \A p \in Points : Total(g, <<>>, Falsified(g, p)) = Total(h, <<>>, Falsified(h, p)) + Fee(T, w, p)
      BY <1>6, <1>7, Zenon
<1>10. Total(g, <<>>, Int) <= Total(h, <<>>, Int) + Size(w) /\ g.live = h.live /\ SameTruth(h, g)
       BY <1>3, <1>6
<1> QED BY <1>8, <1>9, <1>10 DEF Accounts

\* addClause of a soft clause: a soft variable, a weight on a literal, or a cost.
LEMMA SoftAccounts ==
  ASSUME NEW h, Plain(h), h.cost \in Nat, NEW C, Over(h, C), NEW w \in Int,
         Total(h, <<>>, Int) + Size(w) < MaxWeight, C = {} \/ Cardinality(C) > 1 => w >= 0,
         NEW g, Plain(g), g = AddSoft(h, C, w),
         NEW T, T = UNION {True(h, l) : l \in C}
  PROVE  Accounts(h, g, T, w)
<1>1. /\ h \in Formulas /\ IsFormula(h) /\ Size(w) \in Nat /\ h.poids \in Seq(Int)
      /\ C \subseteq LitsOf(h.poids) /\ Good(h, <<>>, {}) /\ Sound(h)
      BY PlainFacts, PlainGood DEF Size, Over, Good
<1>2. \A bad : Total(h, <<>>, bad) \in Int /\ h.cost <= Total(h, <<>>, bad)
      BY <1>1, TotalInt
<1>3. Total(h, <<>>, Int) < MaxWeight
      BY <1>1, <1>2, MaxWeightAssumption
<1>4. T \in SUBSET Points
  <2>1. \A l \in C : True(h, l) \in SUBSET Points
        BY <1>1, TruePoints
  <2> QED BY <2>1
<1>5. CASE w = 0
  <2>1. g = h
        BY <1>5 DEF AddSoft
  <2>2. \A p : Fee(T, 0, p) = 0
        BY DEF Fee
  <2>3. Size(0) = 0
        BY DEF Size
  <2> QED BY <1>2, <1>5, <2>1, <2>2, <2>3 DEF Accounts, SameTruth
<1>6. CASE w # 0 /\ Cardinality(C) > 1
  <2>1. w > 0 /\ TRUE \in BOOLEAN
        BY <1>1, <1>6
  <2>2. g = NewSoftVar(h, TRUE, w, T)
        BY <1>6, <2>1, Zenon DEF AddSoft, SoftClause
  <2>3. EndsWith(h, w, T, g)
        BY <1>1, <2>1, <2>2, SoftVarEnds
  <2>4. \A p \in Points : PriceAt(T, w, p) = Fee(T, w, p)
        BY <2>1 DEF PriceAt, Fee
  <2> QED BY <1>4, <2>3, <2>4, NewAccounts
<1>7. CASE w # 0 /\ ~(Cardinality(C) > 1) /\ C # {}
  <2>1. PICK c : c = CHOOSE y \in C : TRUE
        OBVIOUS
  <2>2. g = AddWeight(h, c, w) /\ c \in C /\ Weighs(h, c, w)
        BY <1>7, <2>1, Zenon DEF AddSoft, Weighs
  <2>3. T = True(h, c)
    <3>1. IsFiniteSet(C)
      <4>1. IsFiniteSet(LitsOf(h.poids)) /\ C \subseteq LitsOf(h.poids)
            BY <1>1, LitsOfFinite
      <4> QED BY <4>1, FS_Subset
    <3>2. Cardinality(C) = 1
      <4>1. Cardinality(C) \in Nat /\ Cardinality(C) # 0
            BY <1>7, <3>1, FS_CardinalityType, FS_EmptySet
      <4> QED BY <1>7, <4>1
    <3>3. PICK z : C = {z}
          BY <3>1, <3>2, FS_Singleton
    <3>4. C = {c}
          BY <2>2, <3>3
    <3> QED BY <3>4
  <2> QED BY <1>1, <1>3, <2>2, <2>3, WeightAccounts
<1>8. CASE w # 0 /\ ~(Cardinality(C) > 1) /\ C = {}
  <2>1. w \in Nat /\ Size(w) = w
        BY <1>1, <1>8 DEF Size
  <2>2. g = [h EXCEPT !.cost = Wrap(h.cost + w)]
        BY <1>8, Zenon DEF AddSoft
  <2>3. Wrap(h.cost + w) = h.cost + w
    <3>1. h.cost + w \in Nat /\ h.cost + w < MaxWeight
          BY <1>2, <2>1, MaxWeightAssumption
    <3> QED BY <3>1, WrapSmall
  <2>4. /\ g.poids = h.poids /\ g.truth = h.truth /\ g.live = h.live /\ g.cost = h.cost + w
        BY <1>1, <2>2, <2>3 DEF Formulas
  <2>5. \A p : Falsified(g, p) = Falsified(h, p)
        BY <2>4 DEF Falsified, Lits, Vars, True
  <2>6. \A bad : Total(g, <<>>, bad) = Total(h, <<>>, bad) + w
    <3> TAKE bad
    <3>1. Charges(h.poids, bad) \in Nat
          BY <1>1, ChargesNat
    <3>2. Total(h, <<>>, bad) = h.cost + Charges(h.poids, bad) /\ Total(g, <<>>, bad) = g.cost + Charges(g.poids, bad)
          BY PlainGood
    <3> QED BY <1>1, <2>1, <2>4, <3>1, <3>2
  <2>7. T = {} /\ \A p : Fee(T, w, p) = w
        BY <1>8, <2>1 DEF Fee
  <2> QED BY <1>2, <2>1, <2>4, <2>5, <2>6, <2>7 DEF Accounts, SameTruth
<1> QED BY <1>5, <1>6, <1>7, <1>8
=============================================================================
