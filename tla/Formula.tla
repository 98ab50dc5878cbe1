------------------------------ MODULE Formula ------------------------------
(***************************************************************************)
(* The representation of the MaxSAT formula inside class EvalMaxSAT and    *)
(* the member functions that rewrite it (EvalMaxSAT.h).  A formula is a    *)
(* record f:                                                               *)
(*                                                                         *)
(*   f.poids  _poids: poids[v] is the signed weight of variable v; the     *)
(*            literal whose signed weight is positive is soft.             *)
(*   f.map    _mapWeight2Assum: weight -> set of soft literals.  As with   *)
(*            std::map, a key may remain with an empty set.                *)
(*   f.cost   cost: the lower bound the rewriting has paid for so far.     *)
(*   f.card   _mapAssum2Card: per variable, the cardinality constraint it  *)
(*            is an output of (or NoCard).                                 *)
(*   f.cards  the CardIncremental_Lazy objects: their inputs, their        *)
(*            weight, and the outputs created so far (outs[k] is the       *)
(*            variable of "more than k inputs are true").                  *)
(*   f.truth, f.live  what the SAT solver holds, by its meaning: Points    *)
(*            are the assignments of the input variables, truth[v] the     *)
(*            points at which v is (in its tightest reading) true, live    *)
(*            the points that satisfy every clause added so far.           *)
(*                                                                         *)
(* A literal is a non-zero integer, -l is the negation of l.  The helper   *)
(* variables inside a totalizer carry no weight and are left to module     *)
(* Totalizer, so variables are numbered without them here.                 *)
(***************************************************************************)
EXTENDS Integers, Sequences, FiniteSets, FiniteSetsExt

CONSTANTS Points,     \* the assignments of the input variables
          MaxWeight   \* numeric_limits<t_weight>::max()

ASSUME MaxWeightAssumption == MaxWeight \in Nat \ {0}

ASSUME PointsAssumption == Points # {}

NoCard == [card |-> 0, atMost |-> 0, initialWeight |-> 0]

(***************************************************************************)
(* Literals, weights, and unsigned arithmetic.                             *)
(***************************************************************************)
Var(l) == IF l < 0 THEN -l ELSE l

Vars(f) == DOMAIN f.poids

Lits(f) == Vars(f) \cup {-v : v \in Vars(f)}

Weight(poids, l) == IF l < 0 THEN -poids[-l] ELSE poids[l]

Poids(f, l) == Weight(f.poids, l)

SetPoids(poids, l, w) == [poids EXCEPT ![Var(l)] = IF l < 0 THEN -w ELSE w]

Wrap(x) == x % (MaxWeight + 1)

(***************************************************************************)
(* std::map: m[w].insert(l) and m[w].erase(l) create the key w.            *)
(***************************************************************************)
At(m, w) == IF w \in DOMAIN m THEN m[w] ELSE {}

Put(m, w, S) == [k \in DOMAIN m \cup {w} |-> IF k = w THEN S ELSE m[k]]

Insert(m, w, l) == Put(m, w, At(m, w) \cup {l})

Erase(m, w, l) == Put(m, w, At(m, w) \ {l})

Top(m) == Max(DOMAIN m)

(***************************************************************************)
(* What the solver knows.                                                  *)
(***************************************************************************)
True(f, l) == IF l < 0 THEN Points \ f.truth[-l] ELSE f.truth[l]

Models(f, A) == {p \in f.live : \A l \in A : p \in True(f, l)}

Sat(f, A) == Models(f, A) # {}

SoftLits(f) == {l \in Lits(f) : Poids(f, l) > 0}

(***************************************************************************)
(* Adding variables and clauses.                                           *)
(***************************************************************************)
\* Faulty variant: the slot of _mapAssum2Card is forgotten.
NewVarNoSlot(f, T) == [f EXCEPT !.poids = Append(@, 0), !.truth = Append(@, T)]

NewVar(f, T) ==
    [f EXCEPT !.poids = Append(@, 0),
              !.card  = Append(@, NoCard),
              !.truth = Append(@, T)]

NewSoftVar(f, value, weight, T) ==
    LET val == IF weight < 0 THEN ~value ELSE value
        w   == IF weight < 0 THEN -weight ELSE weight
        var == Len(f.poids) + 1
    IN  [f EXCEPT !.poids = Append(@, IF val THEN w ELSE -w),
                  !.card  = Append(@, NoCard),
                  !.map   = Insert(@, w, IF val THEN var ELSE -var),
                  !.truth = Append(@, T)]

AddHard(f, C) == [f EXCEPT !.live = @ \cap UNION {True(f, l) : l \in C}]

\* A soft clause of several literals and a positive weight: softVar => clause.
SoftClause(f, C, w) == NewSoftVar(f, TRUE, w, UNION {True(f, l) : l \in C})

(***************************************************************************)
(* Cardinality constraints.  atMost(k) is 0 when k inputs or more cannot   *)
(* be exceeded, else the negation of the output k, created on first use.   *)
(***************************************************************************)
NbTrue(f, C, p) == Cardinality({l \in C : p \in True(f, l)})

MoreThan(f, C, k) == {p \in Points : NbTrue(f, C, p) > k}

WithAtMost(f, c, k) ==
    IF k >= Cardinality(f.cards[c].lits) \/ k \in DOMAIN f.cards[c].outs
    THEN f
    ELSE [NewVar(f, MoreThan(f, f.cards[c].lits, k)) EXCEPT
            !.cards[c].outs = Put(@, k, Len(f.poids) + 1)]

AtMost(f, c, k) ==
    IF k >= Cardinality(f.cards[c].lits) THEN 0 ELSE -f.cards[c].outs[k]

\* l becomes soft as the output atMost of card c.
SoftenCard(f, l, c, atMost, w) ==
    [f EXCEPT !.poids = SetPoids(@, l, w),
              !.map   = Insert(@, w, l),
              !.card[Var(l)] = [card |-> c, atMost |-> atMost, initialWeight |-> w]]

\* A core becomes a cardinality constraint whose first output is soft.
AddCard(f, C, w) ==
    LET c == Len(f.cards) + 1
        g == WithAtMost([f EXCEPT !.cards = Append(@, [lits |-> C, w |-> w, outs |-> <<>>])],
                        c, 1)
    IN  IF AtMost(g, c, 1) = 0 THEN g ELSE SoftenCard(g, AtMost(g, c, 1), c, 1, w)

\* The output after the one l stands for becomes soft; l is let go once its
\* weight is spent.
Relax(f, l) ==
    LET lc == f.card[Var(l)]
        g  == WithAtMost(f, lc.card, lc.atMost + 1)
        o  == AtMost(g, lc.card, lc.atMost + 1)
        h  == IF o # 0 /\ g.card[Var(o)] = NoCard
              THEN SoftenCard(g, o, lc.card, lc.atMost + 1, lc.initialWeight)
              ELSE g
    IN  IF lc = NoCard THEN f
        ELSE IF Poids(h, l) = 0 THEN [h EXCEPT !.card[Var(l)] = NoCard] ELSE h

(***************************************************************************)
(* addClause({l}) of a hard unit, and addWeight.                           *)
(***************************************************************************)
\* Faulty variant: a unit that satisfies a soft literal leaves it in the index.
HardUnitKeepsIndex(f, l) ==
    LET w == Poids(f, -l)
        g == IF w > 0 THEN Relax([f EXCEPT !.map = Erase(@, w, -l), !.cost = Wrap(@ + w)], l) ELSE f
    IN  AddHard([g EXCEPT !.poids = SetPoids(@, l, 0)], {l})

HardUnit(f, l) ==
    LET w == Poids(f, -l)
        g == IF w > 0 THEN Relax([f EXCEPT !.map  = Erase(@, w, -l),
                                           !.cost = Wrap(@ + w)], l)
             ELSE IF w < 0 THEN [f EXCEPT !.map = Erase(@, -w, l)]
             ELSE f
    IN  AddHard(IF w = 0 THEN g ELSE [g EXCEPT !.poids = SetPoids(@, l, 0)], {l})

\* newVar until variable n exists.
NewVars(g, n) ==
    LET a == Len(g.poids)
        h[v \in a..n] == IF v = a THEN g ELSE NewVar(h[v - 1], {p \in Points : v \in p})
    IN  IF n <= a THEN g ELSE h[n]

\* Faulty variant: opposite weights cost their new weight, not their minimum.
AddWeightNoMin(f, lit, weight) ==
    LET l   == IF weight < 0 THEN -lit ELSE lit
        w   == IF weight < 0 THEN -weight ELSE weight
        g   == NewVars(f, Var(l))
        old == Poids(g, l)
        new == old + w
        m   == IF old = 0 THEN g.map
               ELSE IF old > 0 THEN Erase(g.map, old, l) ELSE Erase(g.map, -old, -l)
    IN  [g EXCEPT !.poids = SetPoids(@, l, new),
                  !.cost  = IF old < 0 THEN Wrap(@ + w) ELSE @,
                  !.map   = IF old = 0 \/ new > 0 THEN Insert(m, new, l)
                            ELSE IF new < 0 THEN Insert(m, -new, -l) ELSE m]

\* A literal without weight goes into the index whatever it gets, 0 included:
\* the assertion that calls weight 0 "not an error" is not compiled.
AddWeight(f, lit, weight) ==
    LET l   == IF weight < 0 THEN -lit ELSE lit
        w   == IF weight < 0 THEN -weight ELSE weight
        g   == NewVars(f, Var(l))
        old == Poids(g, l)
        new == old + w
        m   == IF old = 0 THEN g.map
               ELSE IF old > 0 THEN Erase(g.map, old, l) ELSE Erase(g.map, -old, -l)
        h   == [g EXCEPT !.poids = SetPoids(@, l, new),
                         !.cost  = IF old < 0 THEN Wrap(@ + Min({w, -old})) ELSE @,
                         !.map   = IF old = 0 \/ new > 0 THEN Insert(m, new, l)
                                   ELSE IF new < 0 THEN Insert(m, -new, -l) ELSE m]
    IN  IF old # 0 /\ new = 0 THEN Relax(h, l) ELSE h

(***************************************************************************)
(* addClause as a whole: hard, and soft of any size and sign.              *)
(***************************************************************************)
Empty ==
    [poids |-> <<>>, map |-> <<>>, cost |-> 0, card |-> <<>>, cards |-> <<>>,
     truth |-> <<>>, live |-> Points]

AddHardClause(g, C) ==
    IF Cardinality(C) = 1 THEN HardUnit(g, CHOOSE l \in C : TRUE) ELSE AddHard(g, C)

\* The soft variable of a clause of several literals and a negative weight
\* implies every literal of the clause.
NegativeClause(g, C, w) ==
    NewSoftVar(g, TRUE, -w, {p \in Points : \A l \in C : p \in True(g, l)})

\* Faulty variant: a clause of several literals is made soft at weight 0 too.
AddSoftAtZero(g, C, w) ==
    IF Cardinality(C) > 1
    THEN IF w >= 0 THEN SoftClause(g, C, w) ELSE NegativeClause(g, C, w)
    ELSE IF C # {} THEN AddWeight(g, CHOOSE l \in C : TRUE, w)
    ELSE [g EXCEPT !.cost = Wrap(@ + w)]

\* Weight 0 is ignored, an empty clause only costs.
AddSoft(g, C, w) ==
    IF w = 0 THEN g
    ELSE IF Cardinality(C) > 1
    THEN IF w > 0 THEN SoftClause(g, C, w) ELSE NegativeClause(g, C, w)
    ELSE IF C # {} THEN AddWeight(g, CHOOSE l \in C : TRUE, w)
    ELSE [g EXCEPT !.cost = Wrap(@ + w)]

(***************************************************************************)
(* The weight w is taken from every literal of C (a core, or a clique of   *)
(* pairwise incompatible literals), each moving down in the map.           *)
(***************************************************************************)
\* Faulty variant: a literal that keeps some weight is not put back.
ReweighNoInsert(f, C, w) ==
    [f EXCEPT
      !.poids = [v \in DOMAIN @ |->
                   IF v \in C THEN @[v] - w ELSE IF -v \in C THEN @[v] + w ELSE @[v]],
      !.map   = [k \in DOMAIN @ |-> @[k] \ C]]

Reweigh(f, C, w) ==
    LET new(l) == Poids(f, l) - w
    IN  [f EXCEPT
          !.poids = [v \in DOMAIN @ |->
                       IF v \in C THEN @[v] - w ELSE IF -v \in C THEN @[v] + w ELSE @[v]],
          !.map   = [k \in DOMAIN @ \cup {new(l) : l \in {x \in C : new(x) # 0}} |->
                       (At(@, k) \ C) \cup {l \in C : new(l) = k}]]

(***************************************************************************)
(* initAssum, harden and chooseNextMinWeight.                              *)
(***************************************************************************)
InitAssum(f, minWeight) == UNION {f.map[k] : k \in {x \in DOMAIN f.map : x >= minWeight}}

\* harden returns at once in these cases.
HardenSkips(f, incremental) ==
    \/ incremental
    \/ DOMAIN f.map = {}
    \/ DOMAIN f.map = {1}

HardenLits(f, maxCostLit) == InitAssum(f, maxCostLit)

\* Every literal too heavy to be falsified becomes hard; emptied keys go,
\* except the last one.
Harden(f, maxCostLit) ==
    LET H    == {k \in DOMAIN f.map : k >= maxCostLit}
        hard == HardenLits(f, maxCostLit)
        keys == IF H = DOMAIN f.map THEN {Min(H)} ELSE DOMAIN f.map \ H
    IN  [f EXCEPT
          !.poids = [v \in DOMAIN @ |-> IF v \in hard \/ -v \in hard THEN 0 ELSE @[v]],
          !.map   = [k \in keys |-> @[k] \ hard],
          !.live  = Models(f, hard)]

\* The strata below m, from the heaviest down: the first weight whose next
\* lighter key is less than half of m.  Empty keys met on the way are erased.
\* Decrementing begin() is undefined; the tree either yields end() or the
\* same element, hence a choice at the lightest key.
ChooseNextMinWeight(map, m) ==
    LET below == {k \in DOMAIN map : k < m}
        next(k) == {j \in DOMAIN map : j < k}
        stops == {k \in below : /\ map[k] # {}
                                /\ next(k) = {} \/ 2 * Max(next(k)) < m}
        stop  == Max(stops)
        empty == {k \in below : map[k] = {} /\ (stops = {} \/ k > stop)}
        gone  == IF empty = DOMAIN map THEN empty \ {Min(empty)} ELSE empty
        left  == [k \in DOMAIN map \ gone |-> map[k]]
    IN  IF Cardinality(DOMAIN map) <= 1 THEN {[min |-> 1, map |-> map]}
        ELSE IF stops = {} \/ (gone # {} /\ Cardinality(DOMAIN left) <= 1)
             THEN {[min |-> 1, map |-> left]}
        ELSE IF next(stop) # {} THEN {[min |-> stop, map |-> left]}
        ELSE {[min |-> w, map |-> left] : w \in {1} \cup {x \in {stop} : 2 * x < m}}

(***************************************************************************)
(* The meaning of a formula: what every point costs.                       *)
(***************************************************************************)
Falsified(f, p) == {l \in Lits(f) : p \notin True(f, l)}

\* What the variable v costs, and what all variables cost, when the literals
\* of bad are false.
Charged(poids, bad, v) ==
    IF poids[v] > 0 /\ v \in bad THEN poids[v]
    ELSE IF poids[v] < 0 /\ -v \in bad THEN -poids[v] ELSE 0

Charges(poids, bad) ==
    SumFunctionOnSet([v \in DOMAIN poids |-> Charged(poids, bad, v)], DOMAIN poids)

SoftCost(f, p) == Charges(f.poids, Falsified(f, p))

\* What is owed for C being violated beyond its first `paid` outputs.
Owed(f, C, w, paid, p) ==
    LET n == NbTrue(f, C, p) - 1 - paid IN IF n > 0 THEN w * n ELSE 0

\* What a point costs beyond f.cost, cards still to be added included.
Residual(f, pending, p) ==
    SoftCost(f, p)
    + SumFunctionOnSet([c \in DOMAIN f.cards |->
                          Owed(f, f.cards[c].lits, f.cards[c].w,
                               Cardinality(DOMAIN f.cards[c].outs), p)], DOMAIN f.cards)
    + SumFunctionOnSet([i \in DOMAIN pending |->
                          Owed(f, pending[i].lits, pending[i].w, 0, p)], DOMAIN pending)

CostOf(f, p) == f.cost + SoftCost(f, p)

\* The index map and the weights poids tell the same story.
Indexed(poids, map) ==
    /\ \A k \in DOMAIN map : \A l \in map[k] : Var(l) \in DOMAIN poids /\ Weight(poids, l) = k
    /\ \A v \in DOMAIN poids :
         /\ poids[v] > 0 => poids[v] \in DOMAIN map /\ v \in map[poids[v]]
         /\ poids[v] < 0 => -poids[v] \in DOMAIN map /\ -v \in map[-poids[v]]

IndexOK(f) == Indexed(f.poids, f.map)

\* A formula as the interface leaves it (module FormulaApi): no cardinality
\* constraints yet, and the index agrees with the weights.
UserFormula(g) ==
    /\ g = [poids |-> g.poids, map |-> g.map, cost |-> g.cost,
            card |-> [v \in DOMAIN g.poids |-> NoCard], cards |-> <<>>,
            truth |-> g.truth, live |-> g.live]
    /\ g.poids \in Seq(Int)
    /\ g.map = [k \in DOMAIN g.map |-> g.map[k]]
    /\ DOMAIN g.map \subseteq 1..MaxWeight
    /\ \A k \in DOMAIN g.map : g.map[k] \subseteq Lits(g)
    /\ g.cost \in 0..MaxWeight
    /\ g.truth \in Seq(SUBSET Points) /\ Len(g.truth) = Len(g.poids)
    /\ g.live \subseteq Points
    /\ IndexOK(g)

\* The shape of a formula.  The variables of cardinality outputs are soft
\* only negatively, and only while _mapAssum2Card knows them.
LitCard == [card : Nat, atMost : Nat, initialWeight : Nat]

FormulaOK(f) ==
    /\ f.poids \in Seq(Int)
    /\ f.card \in Seq(LitCard) /\ Len(f.card) = Len(f.poids)
    /\ f.truth \in Seq(SUBSET Points) /\ Len(f.truth) = Len(f.poids)
    /\ f.live \in SUBSET Points
    /\ f.cost \in 0..MaxWeight
    /\ DOMAIN f.map \subseteq Nat \ {0}
    /\ \A v \in DOMAIN f.card : f.card[v] # NoCard =>
         /\ f.card[v].card \in DOMAIN f.cards
         /\ f.card[v].initialWeight > 0
         /\ f.poids[v] <= 0
    /\ \A c \in DOMAIN f.cards : \A k \in DOMAIN f.cards[c].outs :
         LET o == f.cards[c].outs[k] IN
         /\ o \in DOMAIN f.poids
         /\ f.card[o] = NoCard => f.poids[o] = 0
=============================================================================
