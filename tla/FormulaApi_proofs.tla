------------------------- MODULE FormulaApi_proofs -------------------------
(***************************************************************************)
(* What every sequence of calls of the public interface does to the        *)
(* formula, for any number of variables, any clauses and any weights that  *)
(* ApiWeightsAssumption admits, 0 among them: the index of the soft        *)
(* literals stays consistent but for the key 0, that key holds only        *)
(* literals the user gave weight 0, and the formula means what the calls   *)
(* asked for.                                                              *)
(*                                                                         *)
(* The lemmas of Formula_proofs are about an index without the key 0.      *)
(* They apply to Proper, the formula without that key: what an operation   *)
(* does to f, it does to Proper, save that a weight of 0 is not seen there.*)
(***************************************************************************)
EXTENDS FormulaApi, Formula_proofs

\* A formula, field by field.
Form(p, m, c, a, d, t, v) ==
    [poids |-> p, map |-> m, cost |-> c, card |-> a, cards |-> d, truth |-> t, live |-> v]

Formed(h) == h = Form(h.poids, h.map, h.cost, h.card, h.cards, h.truth, h.live)

\* The index and the formula without the key 0.
Positive(m) == [k \in DOMAIN m \ {0} |-> m[k]]

Clean(h) == Form(h.poids, Positive(h.map), h.cost, h.card, h.cards, h.truth, h.live)

\* The key 0 holds the same.
SameZero(m, n) == (0 \in DOMAIN n <=> 0 \in DOMAIN m) /\ At(n, 0) = At(m, 0)

\* The operation that leads from h to g leads from Clean(h) to k.
Follows(h, g, k) == Formed(g) /\ Clean(g) = k /\ SameZero(h.map, g.map)

\* The fields of a formula,
LEMMA FormFields ==
  ASSUME NEW p, NEW m, NEW c, NEW a, NEW d, NEW t, NEW v, NEW h, h = Form(p, m, c, a, d, t, v)
  PROVE  /\ h.poids = p /\ h.map = m /\ h.cost = c /\ h.card = a /\ h.cards = d /\ h.truth = t /\ h.live = v
         /\ Formed(h)
  BY DEF Form, Formed

\* and those of Clean(h).
LEMMA CleanFields ==
  ASSUME NEW h, NEW k, k = Clean(h)
  PROVE  /\ k.poids = h.poids /\ k.map = Positive(h.map) /\ k.cost = h.cost /\ k.card = h.card
         /\ k.cards = h.cards /\ k.truth = h.truth /\ k.live = h.live
         /\ Formed(k)
         /\ \A l : True(k, l) = True(h, l)
<1>1. /\ k.poids = h.poids /\ k.map = Positive(h.map) /\ k.cost = h.cost /\ k.card = h.card
      /\ k.cards = h.cards /\ k.truth = h.truth /\ k.live = h.live
      /\ Formed(k)
      BY FormFields DEF Clean
<1> QED BY <1>1 DEF True

\* What is written under another key does not meet the key 0.
LEMMA PositivePut ==
  ASSUME NEW m, NEW w, w # 0, NEW S
  PROVE  /\ Positive(Put(m, w, S)) = Put(Positive(m), w, S)
         /\ At(Positive(m), w) = At(m, w)
         /\ SameZero(m, Put(m, w, S))
<1>1. \A k \in (DOMAIN m \cup {w}) \ {0} : Put(m, w, S)[k] = IF k = w THEN S ELSE m[k]
      BY DEF Put
<1>2. DOMAIN Put(m, w, S) = DOMAIN m \cup {w} /\ DOMAIN Positive(m) = DOMAIN m \ {0}
      BY DEF Put, Positive
<1>3. Positive(Put(m, w, S)) = [k \in (DOMAIN m \cup {w}) \ {0} |-> IF k = w THEN S ELSE m[k]]
      BY <1>1, <1>2 DEF Positive
<1>4. Put(Positive(m), w, S) = [k \in (DOMAIN m \cup {w}) \ {0} |-> IF k = w THEN S ELSE m[k]]
  <2>1. (DOMAIN m \ {0}) \cup {w} = (DOMAIN m \cup {w}) \ {0}
        OBVIOUS
  <2>2. \A k \in (DOMAIN m \ {0}) \cup {w} :
           (IF k = w THEN S ELSE Positive(m)[k]) = (IF k = w THEN S ELSE m[k])
        BY DEF Positive
  <2> QED BY <1>2, <2>1, <2>2 DEF Put
<1>5. At(Positive(m), w) = At(m, w)
      BY DEF Positive, At
<1>6. SameZero(m, Put(m, w, S))
      BY <1>2 DEF SameZero, At, Put
<1> QED BY <1>3, <1>4, <1>5, <1>6

\* So for insert and erase.
LEMMA PositiveMove ==
  ASSUME NEW m, NEW w, w # 0, NEW l
  PROVE  /\ Positive(Insert(m, w, l)) = Insert(Positive(m), w, l) /\ SameZero(m, Insert(m, w, l))
         /\ Positive(Erase(m, w, l)) = Erase(Positive(m), w, l) /\ SameZero(m, Erase(m, w, l))
  BY PositivePut DEF Insert, Erase

\* What is written under the key 0 is not seen.
LEMMA PositiveZero ==
  ASSUME NEW m, NEW l
  PROVE  /\ Positive(Insert(m, 0, l)) = Positive(m)
         /\ 0 \in DOMAIN Insert(m, 0, l) /\ Insert(m, 0, l)[0] = At(m, 0) \cup {l}
<1>1. /\ DOMAIN Insert(m, 0, l) = DOMAIN m \cup {0}
      /\ \A k \in DOMAIN m \ {0} : Insert(m, 0, l)[k] = m[k]
      /\ Insert(m, 0, l)[0] = At(m, 0) \cup {l}
      BY DEF Insert, Put
<1> QED BY <1>1 DEF Positive

\* Two formulas that differ by the key 0 of their index only.
LEMMA FollowsForm ==
  ASSUME NEW h, NEW p, NEW m, NEW c, NEW a, NEW d, NEW t, NEW v, SameZero(h.map, m),
         NEW g, g = Form(p, m, c, a, d, t, v), NEW k, k = Form(p, Positive(m), c, a, d, t, v)
  PROVE  Follows(h, g, k)
  BY FormFields DEF Follows, Clean

\* The same index.
LEMMA ZeroSame ==
  ASSUME NEW m
  PROVE  SameZero(m, m)
  BY DEF SameZero

-----------------------------------------------------------------------------
(***************************************************************************)
(* Each operation on f and on the formula without the key 0.               *)
(***************************************************************************)
\* newVar, field by field.
LEMMA NewVarForm ==
  ASSUME NEW h, Formed(h), NEW T
  PROVE  NewVar(h, T) = Form(Append(h.poids, 0), h.map, h.cost, Append(h.card, NoCard), h.cards,
                             Append(h.truth, T), h.live)
<1>1. PICK p : p = Append(h.poids, 0)
      OBVIOUS
<1>2. PICK a : a = Append(h.card, NoCard)
      OBVIOUS
<1>3. PICK t : t = Append(h.truth, T)
      OBVIOUS
<1>4. NewVar(h, T) = [h EXCEPT !.poids = p, !.card = a, !.truth = t]
      BY <1>1, <1>2, <1>3, Zenon DEF NewVar
<1>5. NewVar(h, T) = Form(p, h.map, h.cost, a, h.cards, t, h.live)
      BY <1>4 DEF Formed, Form
<1> QED BY <1>1, <1>2, <1>3, <1>5

\* newVar.
LEMMA FollowsNewVar ==
  ASSUME NEW h, Formed(h), NEW T
  PROVE  Follows(h, NewVar(h, T), NewVar(Clean(h), T)) /\ NewVar(h, T).map = h.map
<1>1. PICK k : k = Clean(h)
      OBVIOUS
<1>2. NewVar(k, T) = Form(Append(h.poids, 0), Positive(h.map), h.cost, Append(h.card, NoCard), h.cards,
                          Append(h.truth, T), h.live)
      BY <1>1, CleanFields, NewVarForm
<1>3. Follows(h, NewVar(h, T), NewVar(k, T))
      BY <1>2, NewVarForm, FollowsForm, ZeroSame
<1> QED BY <1>1, <1>3, NewVarForm, FormFields

\* newSoftVar, field by field.
LEMMA NewSoftVarForm ==
  ASSUME NEW h, Formed(h), NEW value \in BOOLEAN, NEW weight \in Int, NEW T,
         NEW val, val = IF weight < 0 THEN ~value ELSE value, NEW w, w = IF weight < 0 THEN -weight ELSE weight,
         NEW var, var = Len(h.poids) + 1
  PROVE  NewSoftVar(h, value, weight, T) =
           Form(Append(h.poids, IF val THEN w ELSE -w), Insert(h.map, w, IF val THEN var ELSE -var), h.cost,
                Append(h.card, NoCard), h.cards, Append(h.truth, T), h.live)
<1>1. NewSoftVar(h, value, weight, T) =
        [h EXCEPT !.poids = Append(h.poids, IF val THEN w ELSE -w),
                  !.card  = Append(h.card, NoCard),
                  !.map   = Insert(h.map, w, IF val THEN var ELSE -var),
                  !.truth = Append(h.truth, T)]
      BY Zenon DEF NewSoftVar
<1> QED BY <1>1 DEF Formed, Form

\* newSoftVar of a weight that is not 0.
LEMMA FollowsNewSoftVar ==
  ASSUME NEW h, Formed(h), NEW value \in BOOLEAN, NEW weight \in Int \ {0}, NEW T
  PROVE  Follows(h, NewSoftVar(h, value, weight, T), NewSoftVar(Clean(h), value, weight, T))
<1>1. PICK k : k = Clean(h)
      OBVIOUS
<1>2. PICK val : val = IF weight < 0 THEN ~value ELSE value
      OBVIOUS
<1>3. PICK w : w = IF weight < 0 THEN -weight ELSE weight
      OBVIOUS
<1>4. PICK var : var = Len(h.poids) + 1
      OBVIOUS
<1>5. PICK l : l = IF val THEN var ELSE -var
      OBVIOUS
<1>6. PICK g : g = NewSoftVar(h, value, weight, T)
      OBVIOUS
<1>7. g = Form(Append(h.poids, IF val THEN w ELSE -w), Insert(h.map, w, l), h.cost,
               Append(h.card, NoCard), h.cards, Append(h.truth, T), h.live)
      BY <1>2, <1>3, <1>4, <1>5, <1>6, NewSoftVarForm
<1>8. NewSoftVar(k, value, weight, T) =
        Form(Append(h.poids, IF val THEN w ELSE -w), Insert(Positive(h.map), w, l), h.cost,
             Append(h.card, NoCard), h.cards, Append(h.truth, T), h.live)
      BY <1>1, <1>2, <1>3, <1>4, <1>5, CleanFields, NewSoftVarForm
<1>9. w # 0
      BY <1>3
<1>10. Insert(Positive(h.map), w, l) = Positive(Insert(h.map, w, l)) /\ SameZero(h.map, Insert(h.map, w, l))
       BY <1>9, PositiveMove
<1> QED BY <1>1, <1>6, <1>7, <1>8, <1>10, FollowsForm

\* newSoftVar of weight 0 is newVar but for the key 0.
LEMMA ZeroNewSoftVar ==
  ASSUME NEW h, Formed(h), NEW value \in BOOLEAN, NEW T, NEW g, g = NewSoftVar(h, value, 0, T)
  PROVE  /\ Formed(g) /\ Clean(g) = NewVar(Clean(h), T)
         /\ g.map = Insert(h.map, 0, IF value THEN Len(h.poids) + 1 ELSE -(Len(h.poids) + 1))
<1>1. PICK k : k = Clean(h)
      OBVIOUS
<1>2. PICK l : l = IF value THEN Len(h.poids) + 1 ELSE -(Len(h.poids) + 1)
      OBVIOUS
<1>3. g = Form(Append(h.poids, 0), Insert(h.map, 0, l), h.cost,
               Append(h.card, NoCard), h.cards, Append(h.truth, T), h.live)
      BY <1>2, NewSoftVarForm
<1>4. Formed(g) /\ g.map = Insert(h.map, 0, l)
      BY <1>3, FormFields
<1>5. Clean(g) = Form(Append(h.poids, 0), Positive(h.map), h.cost,
                      Append(h.card, NoCard), h.cards, Append(h.truth, T), h.live)
      BY <1>3, FormFields, PositiveZero DEF Clean
<1>6. NewVar(k, T) = Form(Append(h.poids, 0), Positive(h.map), h.cost,
                          Append(h.card, NoCard), h.cards, Append(h.truth, T), h.live)
      BY <1>1, CleanFields, NewVarForm
<1> QED BY <1>1, <1>2, <1>4, <1>5, <1>6

\* A hard clause.
LEMMA AddHardForm ==
  ASSUME NEW h, Formed(h), NEW C
  PROVE  AddHard(h, C) = Form(h.poids, h.map, h.cost, h.card, h.cards, h.truth, h.live \cap UNION {True(h, l) : l \in C})
  BY DEF AddHard, Formed, Form

\* What a hard unit on a variable without constraint leaves,
UnitForm(h, l) ==
    LET w == Poids(h, -l)
    IN  Form(IF w = 0 THEN h.poids ELSE SetPoids(h.poids, l, 0),
             IF w > 0 THEN Erase(h.map, w, -l) ELSE IF w < 0 THEN Erase(h.map, -w, l) ELSE h.map,
             IF w > 0 THEN Wrap(h.cost + w) ELSE h.cost,
             h.card, h.cards, h.truth, h.live \cap UNION {True(h, y) : y \in {l}})

\* field by field.
LEMMA HardUnitForm ==
  ASSUME NEW h, Formed(h), NEW l, h.card[Var(l)] = NoCard
  PROVE  HardUnit(h, l) = UnitForm(h, l)
<1> DEFINE w == Poids(h, -l)
<1>1. PICK p : p = IF w = 0 THEN h.poids ELSE SetPoids(h.poids, l, 0)
      OBVIOUS
<1>2. PICK m : m = IF w > 0 THEN Erase(h.map, w, -l) ELSE IF w < 0 THEN Erase(h.map, -w, l) ELSE h.map
      OBVIOUS
<1>3. PICK c : c = IF w > 0 THEN Wrap(h.cost + w) ELSE h.cost
      OBVIOUS
<1>4. PICK e : e = [h EXCEPT !.map = Erase(h.map, w, -l), !.cost = Wrap(h.cost + w)]
      OBVIOUS
<1>5. PICK d : d = [h EXCEPT !.map = Erase(h.map, -w, l)]
      OBVIOUS
<1>6. PICK g : g = IF w > 0 THEN e ELSE IF w < 0 THEN d ELSE h
      OBVIOUS
<1>7. PICK k : k = IF w = 0 THEN g ELSE [g EXCEPT !.poids = SetPoids(g.poids, l, 0)]
      OBVIOUS
<1>8. Relax(e, l) = e
  <2>1. e.card = h.card
        BY <1>4 DEF Formed, Form
  <2> QED BY <2>1 DEF Relax
<1>9. HardUnit(h, l) = AddHard(k, {l})
      BY <1>4, <1>5, <1>6, <1>7, <1>8, ZenonT(60) DEF HardUnit, w
<1> HIDE DEF w
<1>10. g = Form(h.poids, m, c, h.card, h.cards, h.truth, h.live)
       BY <1>2, <1>3, <1>4, <1>5, <1>6 DEF Formed, Form
<1>11. k = Form(p, m, c, h.card, h.cards, h.truth, h.live)
       BY <1>1, <1>7, <1>10 DEF Form
<1>12. /\ Formed(k) /\ k.poids = p /\ k.map = m /\ k.cost = c /\ k.card = h.card /\ k.cards = h.cards
       /\ k.truth = h.truth /\ k.live = h.live /\ \A y : True(k, y) = True(h, y)
  <2>1. /\ Formed(k) /\ k.poids = p /\ k.map = m /\ k.cost = c /\ k.card = h.card /\ k.cards = h.cards
        /\ k.truth = h.truth /\ k.live = h.live
        BY <1>11, FormFields
  <2> QED BY <2>1 DEF True
<1>13. AddHard(k, {l}) = Form(p, m, c, h.card, h.cards, h.truth, h.live \cap UNION {True(k, y) : y \in {l}})
       BY <1>12, AddHardForm
<1> QED BY <1>1, <1>2, <1>3, <1>9, <1>12, <1>13 DEF UnitForm, w

\* It erases under a key that is not 0.
LEMMA FollowsHardUnit ==
  ASSUME NEW h, Formed(h), NEW l, h.card[Var(l)] = NoCard, Poids(h, -l) \in Int
  PROVE  Follows(h, HardUnit(h, l), HardUnit(Clean(h), l))
<1>1. PICK k : k = Clean(h)
      OBVIOUS
<1>2. PICK w \in Int : w = Poids(h, -l)
      OBVIOUS
<1>3. /\ Formed(k) /\ k.poids = h.poids /\ k.map = Positive(h.map) /\ k.cost = h.cost /\ k.card = h.card
      /\ k.cards = h.cards /\ k.truth = h.truth /\ k.live = h.live /\ \A y : True(k, y) = True(h, y)
      BY <1>1, CleanFields
<1>4. w = Poids(k, -l)
      BY <1>2, <1>3 DEF Poids
<1>5. PICK p : p = IF w = 0 THEN h.poids ELSE SetPoids(h.poids, l, 0)
      OBVIOUS
<1>6. PICK c : c = IF w > 0 THEN Wrap(h.cost + w) ELSE h.cost
      OBVIOUS
<1>7. PICK m : m = IF w > 0 THEN Erase(h.map, w, -l) ELSE IF w < 0 THEN Erase(h.map, -w, l) ELSE h.map
      OBVIOUS
<1>8. PICK n : n = IF w > 0 THEN Erase(k.map, w, -l) ELSE IF w < 0 THEN Erase(k.map, -w, l) ELSE k.map
      OBVIOUS
<1>9. PICK v : v = h.live \cap UNION {True(h, y) : y \in {l}}
      OBVIOUS
<1>10. HardUnit(h, l) = Form(p, m, c, h.card, h.cards, h.truth, v)
       BY <1>2, <1>5, <1>6, <1>7, <1>9, HardUnitForm DEF UnitForm
<1>11. v = k.live \cap UNION {True(k, y) : y \in {l}}
       BY <1>3, <1>9
<1>12. HardUnit(k, l) = Form(p, n, c, k.card, k.cards, k.truth, v)
  <2>1. HardUnit(k, l) = UnitForm(k, l)
        BY <1>3, HardUnitForm
  <2> QED BY <1>3, <1>4, <1>5, <1>6, <1>8, <1>11, <2>1 DEF UnitForm
<1>13. n = Positive(m) /\ SameZero(h.map, m)
  <2>1. CASE w > 0
        BY <1>3, <1>7, <1>8, <2>1, PositiveMove
  <2>2. CASE w < 0
    <3>1. -w # 0
          BY <2>2
    <3> QED BY <1>3, <1>7, <1>8, <2>2, <3>1, PositiveMove
  <2>3. CASE w = 0
        BY <1>3, <1>7, <1>8, <2>3, ZeroSame
  <2> QED BY <2>1, <2>2, <2>3
<1> QED BY <1>1, <1>3, <1>10, <1>12, <1>13, FollowsForm

\* addClause of a hard clause.
LEMMA FollowsAddHard ==
  ASSUME NEW h, Formed(h), Plain(Clean(h)), NEW C, Over(h, C)
  PROVE  Follows(h, AddHardClause(h, C), AddHardClause(Clean(h), C))
<1>1. PICK k : k = Clean(h)
      OBVIOUS
<1>2. /\ Formed(k) /\ k.poids = h.poids /\ k.map = Positive(h.map) /\ k.cost = h.cost /\ k.card = h.card
      /\ k.cards = h.cards /\ k.truth = h.truth /\ k.live = h.live /\ \A y : True(k, y) = True(h, y)
      BY <1>1, CleanFields
<1>3. CASE Cardinality(C) = 1
  <2>1. PICK l : l = CHOOSE y \in C : TRUE
        OBVIOUS
  <2>2. C # {}
        BY <1>3, FS_EmptySet
  <2>3. l \in LitsOf(h.poids) /\ AddHardClause(h, C) = HardUnit(h, l) /\ AddHardClause(k, C) = HardUnit(k, l)
        BY <1>3, <2>1, <2>2 DEF AddHardClause, Over
  <2>4. h.card[Var(l)] = NoCard /\ h.poids \in Seq(Int)
        BY <1>1, <1>2, <2>3, PlainFacts DEF Free
  <2>5. Poids(h, -l) \in Int
        BY <2>3, <2>4, WeightFacts DEF Poids
  <2> QED BY <1>1, <2>3, <2>4, <2>5, FollowsHardUnit
<1>4. CASE Cardinality(C) # 1
  <2>1. AddHardClause(h, C) = AddHard(h, C) /\ AddHardClause(k, C) = AddHard(k, C)
        BY <1>4 DEF AddHardClause
  <2>2. PICK v : v = h.live \cap UNION {True(h, y) : y \in C}
        OBVIOUS
  <2>3. v = k.live \cap UNION {True(k, y) : y \in C}
        BY <1>2, <2>2
  <2>4. AddHard(h, C) = Form(h.poids, h.map, h.cost, h.card, h.cards, h.truth, v)
        BY <2>2, AddHardForm
  <2>5. AddHard(k, C) = Form(h.poids, Positive(h.map), h.cost, h.card, h.cards, h.truth, v)
        BY <1>2, <2>3, AddHardForm
  <2> QED BY <1>1, <2>1, <2>4, <2>5, FollowsForm, ZeroSame
<1> QED BY <1>3, <1>4

\* What addWeight on a variable there is, without constraint, leaves,
WeightForm(h, l, w) ==
    LET old == Weight(h.poids, l)
        new == old + w
        t   == Taken(h.map, l, -l, old)
    IN  Form(SetPoids(h.poids, l, new),
             IF old = 0 \/ new > 0 THEN Insert(t, new, l) ELSE IF new < 0 THEN Insert(t, -new, -l) ELSE t,
             IF old < 0 THEN Wrap(h.cost + Min({w, -old})) ELSE h.cost,
             h.card, h.cards, h.truth, h.live)

\* field by field.
LEMMA AddWeightForm ==
  ASSUME NEW h, Formed(h), h.poids \in Seq(Int), NEW lit \in LitsOf(h.poids), h.card[Var(lit)] = NoCard,
         NEW weight \in Int
  PROVE  AddWeight(h, lit, weight) = WeightForm(h, SignedLit(lit, weight), Size(weight))
<1>1. PICK l : l = SignedLit(lit, weight)
      OBVIOUS
<1>2. PICK w : w = Size(weight)
      OBVIOUS
<1>3. PICK old : old = Weight(h.poids, l)
      OBVIOUS
<1>4. PICK new : new = old + w
      OBVIOUS
<1>5. PICK c : c = IF old < 0 THEN Wrap(h.cost + Min({w, -old})) ELSE h.cost
      OBVIOUS
<1>6. PICK t : t = Taken(h.map, l, -l, old)
      OBVIOUS
<1>7. PICK m : m = IF old = 0 \/ new > 0 THEN Insert(t, new, l) ELSE IF new < 0 THEN Insert(t, -new, -l) ELSE t
      OBVIOUS
<1>8. l \in LitsOf(h.poids) /\ Var(l) = Var(lit)
      BY <1>1 DEF LitsOf, Var, SignedLit
<1>9. NewVars(h, Var(l)) = h
      BY <1>8, NewVarsSame
<1>10. PICK g : g = [h EXCEPT !.poids = SetPoids(h.poids, l, new), !.cost = c, !.map = m]
       OBVIOUS
<1>11. g = Form(SetPoids(h.poids, l, new), m, c, h.card, h.cards, h.truth, h.live)
       BY <1>10 DEF Formed, Form
<1>12. Relax(g, l) = g
  <2>1. g.card[Var(l)] = NoCard
        BY <1>8, <1>11, FormFields
  <2> QED BY <2>1 DEF Relax
<1>13. AddWeight(h, lit, weight) = IF old # 0 /\ new = 0 THEN Relax(g, l) ELSE g
  <2>1. l = (IF weight < 0 THEN -lit ELSE lit) /\ w = (IF weight < 0 THEN -weight ELSE weight)
        BY <1>1, <1>2 DEF SignedLit, Size
  <2> QED BY <1>9, <1>10, <1>3, <1>4, <1>5, <1>6, <1>7, <2>1, ZenonT(60) DEF AddWeight, Poids, Taken
<1> QED BY <1>1, <1>2, <1>3, <1>4, <1>5, <1>6, <1>7, <1>11, <1>12, <1>13 DEF WeightForm

\* It moves the literal between keys that are not 0,
LEMMA FollowsAddWeight ==
  ASSUME NEW h, Formed(h), h.poids \in Seq(Int), NEW lit \in LitsOf(h.poids), h.card[Var(lit)] = NoCard,
         NEW weight \in Int, Weighs(h, lit, weight)
  PROVE  Follows(h, AddWeight(h, lit, weight), AddWeight(Clean(h), lit, weight))
<1>1. PICK k : k = Clean(h)
      OBVIOUS
<1>2. /\ Formed(k) /\ k.poids = h.poids /\ k.map = Positive(h.map) /\ k.cost = h.cost /\ k.card = h.card
      /\ k.cards = h.cards /\ k.truth = h.truth /\ k.live = h.live
      BY <1>1, CleanFields
<1>3. PICK l : l = SignedLit(lit, weight)
      OBVIOUS
<1>4. PICK w : w = Size(weight)
      OBVIOUS
<1>5. l \in LitsOf(h.poids) /\ w \in Nat
      BY <1>3, <1>4 DEF LitsOf, Var, SignedLit, Size
<1>6. PICK old \in Int : old = Weight(h.poids, l)
      BY <1>5, WeightFacts
<1>7. PICK new \in Int : new = old + w
      BY <1>5
<1>8. old = 0 => new > 0
      BY <1>3, <1>4, <1>5, <1>6, <1>7 DEF Weighs, SignedLit, Size
<1>9. PICK c : c = IF old < 0 THEN Wrap(h.cost + Min({w, -old})) ELSE h.cost
      OBVIOUS
<1>10. PICK t : t = Taken(h.map, l, -l, old)
       OBVIOUS
<1>11. PICK u : u = Taken(k.map, l, -l, old)
       OBVIOUS
<1>12. PICK m : m = IF old = 0 \/ new > 0 THEN Insert(t, new, l) ELSE IF new < 0 THEN Insert(t, -new, -l) ELSE t
       OBVIOUS
<1>13. PICK n : n = IF old = 0 \/ new > 0 THEN Insert(u, new, l) ELSE IF new < 0 THEN Insert(u, -new, -l) ELSE u
       OBVIOUS
<1>14. AddWeight(h, lit, weight) = Form(SetPoids(h.poids, l, new), m, c, h.card, h.cards, h.truth, h.live)
  <2>1. AddWeight(h, lit, weight) = WeightForm(h, l, w)
        BY <1>3, <1>4, AddWeightForm
  <2> QED BY <1>6, <1>7, <1>9, <1>10, <1>12, <2>1 DEF WeightForm
<1>15. AddWeight(k, lit, weight) = Form(SetPoids(h.poids, l, new), n, c, h.card, h.cards, h.truth, h.live)
  <2>1. AddWeight(k, lit, weight) = WeightForm(k, l, w)
        BY <1>2, <1>3, <1>4, AddWeightForm
  <2> QED BY <1>2, <1>6, <1>7, <1>9, <1>11, <1>13, <2>1 DEF WeightForm
<1>16. u = Positive(t) /\ SameZero(h.map, t)
  <2>1. CASE old > 0
        BY <1>2, <1>10, <1>11, <2>1, PositiveMove DEF Taken
  <2>2. CASE old < 0
    <3>1. -old # 0 /\ old # 0 /\ ~(old > 0)
          BY <2>2
    <3> QED BY <1>2, <1>10, <1>11, <3>1, PositiveMove DEF Taken
  <2>3. CASE old = 0
        BY <1>2, <1>10, <1>11, <2>3, ZeroSame DEF Taken
  <2> QED BY <2>1, <2>2, <2>3
<1>17. n = Positive(m) /\ SameZero(t, m)
  <2>1. CASE new > 0
        BY <1>12, <1>13, <1>16, <2>1, PositiveMove
  <2>2. CASE new < 0
    <3>1. -new # 0 /\ old # 0 /\ ~(new > 0)
          BY <1>8, <2>2
    <3> QED BY <1>12, <1>13, <1>16, <2>2, <3>1, PositiveMove
  <2>3. CASE new = 0
    <3>1. old # 0 /\ ~(new > 0) /\ ~(new < 0)
          BY <1>8, <2>3
    <3> QED BY <1>12, <1>13, <1>16, <3>1, ZeroSame
  <2> QED BY <2>1, <2>2, <2>3
<1>18. SameZero(h.map, m)
       BY <1>16, <1>17 DEF SameZero
<1> QED BY <1>1, <1>14, <1>15, <1>17, <1>18, FollowsForm

\* but a weight of 0 for a literal without weight goes under the key 0, and
\* changes nothing else.
LEMMA ZeroAddWeight ==
  ASSUME NEW h, Formed(h), h.poids \in Seq(Int), NEW lit \in LitsOf(h.poids), h.card[Var(lit)] = NoCard,
         NEW weight \in Int, ~Weighs(h, lit, weight), NEW g, g = AddWeight(h, lit, weight)
  PROVE  Formed(g) /\ Clean(g) = Clean(h) /\ g.map = Insert(h.map, 0, lit)
<1>1. weight = 0 /\ Weight(h.poids, lit) = 0
      BY DEF Weighs
<1>2. lit = SignedLit(lit, weight) /\ 0 = Size(weight)
      BY <1>1 DEF SignedLit, Size
<1>3. PICK m : m = Insert(h.map, 0, lit)
      OBVIOUS
<1>4. g = Form(SetPoids(h.poids, lit, 0), m, h.cost, h.card, h.cards, h.truth, h.live)
  <2>1. g = WeightForm(h, lit, 0)
        BY <1>2, AddWeightForm
  <2> QED BY <1>1, <1>3, <2>1 DEF WeightForm, Taken
<1>5. SetPoids(h.poids, lit, 0) = h.poids
  <2>1. h.poids[Var(lit)] = 0 /\ Var(lit) \in DOMAIN h.poids
        BY <1>1 DEF Weight, Var, LitsOf
  <2>2. SetPoids(h.poids, lit, 0) = [h.poids EXCEPT ![Var(lit)] = 0]
        BY DEF SetPoids
  <2> QED BY <2>1, <2>2
<1>6. /\ Formed(g) /\ g.map = m /\ g.poids = h.poids /\ g.cost = h.cost /\ g.card = h.card /\ g.cards = h.cards
      /\ g.truth = h.truth /\ g.live = h.live
      BY <1>4, <1>5, FormFields
<1>7. Clean(g) = Clean(h)
      BY <1>3, <1>6, PositiveZero DEF Clean
<1> QED BY <1>3, <1>6, <1>7

\* addClause of a soft clause: weight 0 is ignored.
LEMMA FollowsAddSoft ==
  ASSUME NEW h, Formed(h), Plain(Clean(h)), NEW C, Over(h, C), NEW w \in Int
  PROVE  Follows(h, AddSoft(h, C, w), AddSoft(Clean(h), C, w))
<1>1. PICK k : k = Clean(h)
      OBVIOUS
<1>2. /\ Formed(k) /\ k.poids = h.poids /\ k.map = Positive(h.map) /\ k.cost = h.cost /\ k.card = h.card
      /\ k.cards = h.cards /\ k.truth = h.truth /\ k.live = h.live /\ \A y : True(k, y) = True(h, y)
      BY <1>1, CleanFields
<1>3. CASE w = 0
  <2>1. AddSoft(h, C, w) = h /\ AddSoft(k, C, w) = k
        BY <1>3 DEF AddSoft
  <2> QED BY <1>1, <2>1, ZeroSame DEF Follows
<1>4. CASE w # 0 /\ Cardinality(C) > 1 /\ w > 0
  <2>1. PICK T : T = UNION {True(h, l) : l \in C}
        OBVIOUS
  <2>2. T = UNION {True(k, l) : l \in C}
        BY <1>2, <2>1
  <2>3. AddSoft(h, C, w) = NewSoftVar(h, TRUE, w, T) /\ AddSoft(k, C, w) = NewSoftVar(k, TRUE, w, T)
        BY <1>4, <2>1, <2>2, Zenon DEF AddSoft, SoftClause
  <2>4. w \in Int \ {0} /\ TRUE \in BOOLEAN
        BY <1>4
  <2> QED BY <1>1, <2>3, <2>4, FollowsNewSoftVar
<1>5. CASE w # 0 /\ Cardinality(C) > 1 /\ ~(w > 0)
  <2>1. PICK T : T = {p \in Points : \A l \in C : p \in True(h, l)}
        OBVIOUS
  <2>2. T = {p \in Points : \A l \in C : p \in True(k, l)}
        BY <1>2, <2>1
  <2>3. PICK n : n = -w
        OBVIOUS
  <2>4. AddSoft(h, C, w) = NewSoftVar(h, TRUE, n, T) /\ AddSoft(k, C, w) = NewSoftVar(k, TRUE, n, T)
        BY <1>5, <2>1, <2>2, <2>3, Zenon DEF AddSoft, NegativeClause
  <2>5. n \in Int \ {0} /\ TRUE \in BOOLEAN
        BY <1>5, <2>3
  <2> QED BY <1>1, <2>4, <2>5, FollowsNewSoftVar
<1>6. CASE w # 0 /\ ~(Cardinality(C) > 1) /\ C # {}
  <2>1. PICK l : l = CHOOSE y \in C : TRUE
        OBVIOUS
  <2>2. l \in C /\ AddSoft(h, C, w) = AddWeight(h, l, w) /\ AddSoft(k, C, w) = AddWeight(k, l, w)
        BY <1>6, <2>1, Zenon DEF AddSoft
  <2>3. l \in LitsOf(h.poids) /\ h.poids \in Seq(Int) /\ h.card[Var(l)] = NoCard /\ Weighs(h, l, w)
        BY <1>1, <1>2, <1>6, <2>2, PlainFacts DEF Over, Free, Weighs
  <2> QED BY <1>1, <2>2, <2>3, FollowsAddWeight
<1>7. CASE w # 0 /\ ~(Cardinality(C) > 1) /\ C = {}
  <2>1. PICK c : c = Wrap(h.cost + w)
        OBVIOUS
  <2>2. AddSoft(h, C, w) = [h EXCEPT !.cost = c] /\ AddSoft(k, C, w) = [k EXCEPT !.cost = c]
        BY <1>2, <1>7, <2>1, Zenon DEF AddSoft
  <2>3. AddSoft(h, C, w) = Form(h.poids, h.map, c, h.card, h.cards, h.truth, h.live)
        BY <2>2 DEF Formed, Form
  <2>4. AddSoft(k, C, w) = Form(h.poids, Positive(h.map), c, h.card, h.cards, h.truth, h.live)
        BY <1>2, <2>2 DEF Formed, Form
  <2> QED BY <1>1, <2>3, <2>4, FollowsForm, ZeroSame
<1> QED BY <1>3, <1>4, <1>5, <1>6, <1>7

-----------------------------------------------------------------------------
(***************************************************************************)
(* The index stays consistent, and the key 0 is the user's.                *)
(***************************************************************************)
Proper == Clean(f)

\* Before solve() there are no cardinality constraints, and until every variable
\* of the user exists the formula has no other.
ApiInv ==
    /\ Formed(f) /\ Plain(Proper)
    /\ ZeroKeyIsAsked
    /\ inputs \in 0..NInputs /\ inputs <= Len(f.poids)
    /\ inputs < NInputs => Len(f.poids) = inputs

\* What the user names are literals of the formula.
LEMMA ApiFacts ==
  ASSUME ApiInv
  PROVE  /\ Proper.poids = f.poids /\ Proper.cost = f.cost /\ Proper.live = f.live
         /\ \A l : True(Proper, l) = True(f, l)
         /\ f.poids \in Seq(Int) /\ Len(f.poids) \in Nat /\ inputs \in Nat
         /\ \A C \in SUBSET InputLits : Over(f, C) /\ Over(Proper, C)
<1>1. PICK k : k = Proper
      OBVIOUS
<1>2. k.poids = f.poids /\ k.cost = f.cost /\ k.live = f.live /\ \A l : True(k, l) = True(f, l)
      BY <1>1, CleanFields DEF Proper
<1>3. f.poids \in Seq(Int)
      BY <1>1, <1>2, PlainFacts DEF ApiInv
<1>4. Len(f.poids) \in Nat /\ DOMAIN f.poids = 1..Len(f.poids) /\ inputs \in Nat
      BY <1>3 DEF ApiInv
<1>5. InputLits \subseteq LitsOf(f.poids)
      BY <1>4 DEF InputLits, LitsUpTo, LitsOf, Var, ApiInv
<1>6. \A C \in SUBSET InputLits : Over(f, C) /\ Over(k, C)
      BY <1>2, <1>5 DEF Over
<1> QED BY <1>1, <1>2, <1>3, <1>4, <1>6

\* The key 0 is left alone, and the user may have asked for more;
LEMMA ZeroKept ==
  ASSUME ZeroKeyIsAsked, SameZero(f.map, f'.map), zeros \subseteq zeros'
  PROVE  ZeroKeyIsAsked'
  BY DEF ZeroKeyIsAsked, SameZero, At

\* or a literal comes under it that was given weight 0.
LEMMA ZeroAsked ==
  ASSUME ZeroKeyIsAsked, NEW l, f'.map = Insert(f.map, 0, l), zeros' = zeros \cup {l}
  PROVE  ZeroKeyIsAsked'
<1>1. f'.map[0] = At(f.map, 0) \cup {l}
      BY PositiveZero
<1>2. At(f.map, 0) \subseteq zeros
      BY DEF ZeroKeyIsAsked, At
<1> QED BY <1>1, <1>2 DEF ZeroKeyIsAsked

\* The empty formula.
LEMMA ApiInit ==
  ASSUME Init
  PROVE  ApiInv /\ Proper = Empty
<1>1. PICK h : h = Empty
      OBVIOUS
<1>2. h = Form(<<>>, <<>>, 0, <<>>, <<>>, <<>>, Points)
      BY <1>1 DEF Empty, Form
<1>3. Formed(h) /\ h.poids = <<>> /\ h.map = <<>>
      BY <1>2, FormFields
<1>4. Clean(h) = h
  <2>1. Positive(<<>>) = <<>>
        BY DEF Positive
  <2> QED BY <1>3, <2>1 DEF Clean, Formed
<1>5. f = h /\ Plain(h) /\ inputs = 0 /\ Len(h.poids) = 0 /\ 0 \in 0..NInputs
      BY <1>1, <1>3, PlainEmpty, ApiWeightsAssumption DEF Init
<1>6. ZeroKeyIsAsked
      BY <1>3, <1>5 DEF ZeroKeyIsAsked
<1> QED BY <1>1, <1>3, <1>4, <1>5, <1>6 DEF ApiInv, Proper

\* What is enough when the variable after the last one is new.
LEMMA ApiGrown ==
  ASSUME ApiInv, Formed(f'), Plain(Proper'), ZeroKeyIsAsked', Len(Proper'.poids) = Len(Proper.poids) + 1,
         inputs < NInputs, inputs' = inputs + 1
  PROVE  ApiInv'
<1>1. Proper'.poids = f'.poids /\ Proper.poids = f.poids
      BY CleanFields DEF Proper
<1>2. Len(f.poids) = inputs /\ Len(f'.poids) = inputs + 1 /\ inputs \in 0..NInputs /\ NInputs \in Nat
      BY <1>1, ApiWeightsAssumption DEF ApiInv
<1> QED BY <1>2 DEF ApiInv

\* newVar.
LEMMA ApiNewVar ==
  ASSUME ApiInv, CallNewVar
  PROVE  ApiInv' /\ Proper' = NewVar(Proper, NextTruth)
<1>1. NextTruth \in SUBSET Points /\ zeros' = zeros /\ inputs < NInputs /\ inputs' = inputs + 1
      BY DEF NextTruth, CallNewVar
<1>2. Follows(f, f', NewVar(Proper, NextTruth))
      BY FollowsNewVar DEF CallNewVar, ApiInv, Proper
<1>3. Formed(f') /\ Proper' = NewVar(Proper, NextTruth) /\ ZeroKeyIsAsked'
      BY <1>1, <1>2, ZeroKept DEF Follows, ApiInv, Proper
<1>4. Plain(Proper') /\ Len(Proper'.poids) = Len(Proper.poids) + 1
      BY <1>1, <1>3, PlainNewVar DEF ApiInv
<1> QED BY <1>1, <1>3, <1>4, ApiGrown

\* newSoftVar: at weight 0 it is newVar but for the key 0.
LEMMA ApiNewSoftVar ==
  ASSUME VarWeights \subseteq Int, ApiInv, CallNewSoftVar, NEW value \in BOOLEAN, NEW w \in VarWeights,
         f' = NewSoftVar(f, value, w, NextTruth),
         zeros' = IF w = 0 THEN zeros \cup {IF value THEN inputs + 1 ELSE -(inputs + 1)} ELSE zeros
  PROVE  /\ ApiInv'
         /\ Proper' = IF w = 0 THEN NewVar(Proper, NextTruth) ELSE NewSoftVar(Proper, value, w, NextTruth)
<1>1. NextTruth \in SUBSET Points /\ inputs < NInputs /\ inputs' = inputs + 1 /\ Len(f.poids) = inputs
      BY DEF NextTruth, CallNewSoftVar, ApiInv
<1>2. Formed(f) /\ Plain(Proper) /\ ZeroKeyIsAsked /\ Proper = Clean(f) /\ Proper' = Clean(f')
      BY DEF ApiInv, Proper
<1>3. CASE w = 0
  <2>1. PICK l : l = IF value THEN inputs + 1 ELSE -(inputs + 1)
        OBVIOUS
  <2>2. /\ Formed(f') /\ Clean(f') = NewVar(Clean(f), NextTruth) /\ f'.map = Insert(f.map, 0, l)
        BY <1>1, <1>2, <1>3, <2>1, ZeroNewSoftVar
  <2>3. ZeroKeyIsAsked' /\ Proper' = NewVar(Proper, NextTruth)
        BY <1>2, <1>3, <2>1, <2>2, ZeroAsked
  <2>4. Plain(Proper') /\ Len(Proper'.poids) = Len(Proper.poids) + 1
        BY <1>1, <1>2, <2>3, PlainNewVar
  <2> QED BY <1>1, <1>3, <2>2, <2>3, <2>4, ApiGrown
<1>4. CASE w # 0
  <2>1. w \in Int \ {0}
        BY <1>4
  <2>2. Follows(f, f', NewSoftVar(Proper, value, w, NextTruth))
        BY <1>2, <2>1, FollowsNewSoftVar
  <2>3. Formed(f') /\ Proper' = NewSoftVar(Proper, value, w, NextTruth) /\ ZeroKeyIsAsked'
        BY <1>2, <1>4, <2>2, ZeroKept DEF Follows
  <2>4. Plain(Proper') /\ Len(Proper'.poids) = Len(Proper.poids) + 1
        BY <1>1, <1>2, <2>1, <2>3, PlainNewSoftVar
  <2> QED BY <1>1, <1>4, <2>3, <2>4, ApiGrown
<1> QED BY <1>3, <1>4

\* The variables addWeight makes cost nothing and are not in the index.
LEMMA ApiMissing ==
  ASSUME ApiInv, NEW m \in Nat, NEW n, n = NewVars(f, m)
  PROVE  /\ Formed(n) /\ Idle(Proper, Clean(n)) /\ n.map = f.map
         /\ Len(n.poids) = IF m <= Len(f.poids) THEN Len(f.poids) ELSE m
<1>1. PICK mp : mp = f.map
      OBVIOUS
<1>2. PICK F : F = {Form(x.poids, mp, x.cost, x.card, x.cards, x.truth, x.live) :
                      x \in {y \in Formulas : Idle(Proper, y) /\ y.map = Positive(mp)}}
      OBVIOUS
<1>3. ASSUME NEW k \in F
      PROVE  Formed(k) /\ k.map = mp /\ Idle(Proper, Clean(k))
  <2>1. PICK x \in Formulas : /\ Idle(Proper, x) /\ x.map = Positive(mp)
                              /\ k = Form(x.poids, mp, x.cost, x.card, x.cards, x.truth, x.live)
        BY <1>2
  <2>2. Clean(k) = Form(x.poids, x.map, x.cost, x.card, x.cards, x.truth, x.live)
        BY <2>1, FormFields DEF Clean
  <2>3. Clean(k) = x
        BY <2>2 DEF Formulas, Form
  <2> QED BY <2>1, <2>3, FormFields
<1>4. ASSUME NEW k, Formed(k), k.map = mp, Idle(Proper, Clean(k))
      PROVE  k \in F
  <2>1. PICK x : x = Clean(k)
        OBVIOUS
  <2>2. x \in Formulas /\ Idle(Proper, x)
        BY <1>4, <2>1, PlainFacts DEF Idle
  <2>3. /\ x.map = Positive(mp) /\ x.poids = k.poids /\ x.cost = k.cost /\ x.card = k.card
        /\ x.cards = k.cards /\ x.truth = k.truth /\ x.live = k.live
        BY <1>4, <2>1, CleanFields
  <2>4. k = Form(x.poids, mp, x.cost, x.card, x.cards, x.truth, x.live)
        BY <1>4, <2>3 DEF Formed
  <2> QED BY <1>2, <2>2, <2>3, <2>4
<1>5. NewVarStays(F)
  <2> SUFFICES ASSUME NEW k \in F
               PROVE  /\ k.poids \in Seq(Int)
                      /\ \A T \in SUBSET Points : NewVar(k, T) \in F /\ Len(NewVar(k, T).poids) = Len(k.poids) + 1
      BY DEF NewVarStays
  <2>1. Formed(k) /\ k.map = mp /\ Idle(Proper, Clean(k)) /\ Plain(Proper)
        BY <1>3 DEF ApiInv
  <2>2. PICK c : c = Clean(k)
        OBVIOUS
  <2>3. Plain(c) /\ c.poids = k.poids
        BY <2>1, <2>2, CleanFields DEF Idle
  <2>4. k.poids \in Seq(Int)
        BY <2>3, PlainFacts
  <2>5. ASSUME NEW T \in SUBSET Points
        PROVE  NewVar(k, T) \in F /\ Len(NewVar(k, T).poids) = Len(k.poids) + 1
    <3>1. PICK b : b = NewVar(k, T)
          OBVIOUS
    <3>2. Formed(b) /\ Clean(b) = NewVar(c, T) /\ b.map = mp
          BY <2>1, <2>2, <3>1, FollowsNewVar DEF Follows
    <3>3. Idle(Proper, Clean(b))
          BY <2>1, <2>2, <3>2, IdleNewVar
    <3>4. Clean(b).poids = b.poids
          BY CleanFields
    <3>5. Len(b.poids) = Len(k.poids) + 1
          BY <2>3, <3>2, <3>4, PlainNewVar
    <3> QED BY <1>4, <3>1, <3>2, <3>3, <3>5
  <2> QED BY <2>4, <2>5
<1>6. f \in F
  <2>1. Idle(Proper, Clean(f))
        BY IdleNewVar DEF ApiInv, Proper
  <2> QED BY <1>1, <1>4, <2>1 DEF ApiInv
<1>7. n \in F /\ Len(n.poids) = IF m <= Len(f.poids) THEN Len(f.poids) ELSE m
      BY ONLY <1>5, <1>6, m \in Nat, n = NewVars(f, m), NewVarsClosed
<1> QED BY <1>1, <1>3, <1>7

\* A variable is made before the weight is added, or it is there.
LEMMA WeightAfterVars ==
  ASSUME NEW h, NEW lit \in Int, NEW weight \in Int, NEW n, n = NewVars(h, Var(lit)), n.poids \in Seq(Int),
         lit \in LitsOf(n.poids)
  PROVE  AddWeight(h, lit, weight) = AddWeight(n, lit, weight)
<1>1. PICK l : l = IF weight < 0 THEN -lit ELSE lit
      OBVIOUS
<1>2. Var(l) = Var(lit)
      BY <1>1 DEF Var
<1>3. NewVars(n, Var(l)) = NewVars(h, Var(l))
      BY <1>2, NewVarsSame
<1> QED BY <1>1, <1>3, ZenonT(60) DEF AddWeight

\* addWeight, whether the variable is there or not: a weight that is not lost
\* goes to the proper formula, one that is goes under the key 0.
LEMMA ApiWeighed ==
  ASSUME ApiInv, NEW lit \in LitsUpTo(NInputs), NEW w \in Int, NEW n, n = NewVars(f, Var(lit)),
         NEW g, g = AddWeight(f, lit, w)
  PROVE  /\ Idle(Proper, Clean(n)) /\ lit \in LitsOf(n.poids) /\ Clean(n).poids = n.poids
         /\ True(Clean(n), lit) = True(n, lit)
         /\ Formed(g) /\ Plain(Clean(g)) /\ Len(g.poids) = Len(n.poids)
         /\ Len(n.poids) = IF Var(lit) <= Len(f.poids) THEN Len(f.poids) ELSE Var(lit)
         /\ IF Weighs(n, lit, w)
            THEN Clean(g) = AddWeight(Clean(n), lit, w) /\ SameZero(f.map, g.map)
            ELSE Clean(g) = Clean(n) /\ g.map = Insert(f.map, 0, lit) /\ w = 0
<1>1. /\ lit \in Int \ {0} /\ Var(lit) \in Nat \ {0} /\ Var(lit) <= NInputs
      BY ApiWeightsAssumption DEF LitsUpTo, Var
<1>2. PICK k : k = Clean(n)
      OBVIOUS
<1>3. /\ Formed(n) /\ Idle(Proper, k) /\ n.map = f.map
      /\ Len(n.poids) = IF Var(lit) <= Len(f.poids) THEN Len(f.poids) ELSE Var(lit)
      BY <1>1, <1>2, ApiMissing
<1>4. Plain(k) /\ k.poids = n.poids /\ k.card = n.card /\ \A l : True(k, l) = True(n, l)
      BY <1>2, <1>3, CleanFields DEF Idle
<1>5. n.poids \in Seq(Int) /\ Len(f.poids) \in Nat /\ DOMAIN n.poids = 1..Len(n.poids)
      BY <1>4, PlainFacts, ApiFacts
<1>6. Var(lit) \in DOMAIN n.poids
      BY <1>1, <1>3, <1>5
<1>7. lit \in LitsOf(n.poids) /\ n.card[Var(lit)] = NoCard
  <2>1. lit \in LitsOf(k.poids)
        BY <1>1, <1>4, <1>6 DEF LitsOf
  <2> QED BY <1>4, <2>1, PlainFacts DEF Free
<1>8. g = AddWeight(n, lit, w)
      BY <1>1, <1>5, <1>7, WeightAfterVars
<1>9. CASE Weighs(n, lit, w)
  <2>1. Follows(n, g, AddWeight(k, lit, w))
        BY <1>2, <1>3, <1>5, <1>7, <1>8, <1>9, FollowsAddWeight
  <2>2. Formed(g) /\ Clean(g) = AddWeight(k, lit, w) /\ SameZero(f.map, g.map)
        BY <1>3, <2>1 DEF Follows
  <2>3. Weighs(k, lit, w)
        BY <1>4, <1>9 DEF Weighs
  <2>4. Plain(Clean(g)) /\ DOMAIN k.poids = DOMAIN Clean(g).poids
        BY <1>4, <1>7, <2>2, <2>3, PlainAddWeight
  <2>5. Clean(g).poids = g.poids /\ g.poids \in Seq(Int)
        BY <2>4, CleanFields, PlainFacts
  <2>6. Len(g.poids) = Len(n.poids)
        BY <1>4, <1>5, <2>4, <2>5
  <2> QED BY <1>2, <1>3, <1>4, <1>7, <1>9, <2>2, <2>4, <2>6
<1>10. CASE ~Weighs(n, lit, w)
  <2>1. Formed(g) /\ Clean(g) = k /\ g.map = Insert(f.map, 0, lit)
        BY <1>2, <1>3, <1>5, <1>7, <1>8, <1>10, ZeroAddWeight
  <2>2. g.poids = n.poids
        BY <1>4, <2>1, CleanFields
  <2>3. w = 0
        BY <1>10 DEF Weighs
  <2> QED BY <1>2, <1>3, <1>4, <1>7, <1>10, <2>1, <2>2, <2>3
<1> QED BY <1>9, <1>10

\* The larger of two numbers.
LEMMA MaxTwo ==
  ASSUME NEW a \in Nat, NEW b \in Nat, NEW m, m = Max({a, b})
  PROVE  m = IF b <= a THEN a ELSE b
<1>1. PICK S \in SUBSET Nat : S = {a, b}
      OBVIOUS
<1>2. Bounded(S)
  <2>1. a + b \in Nat /\ \A k \in S : k <= a + b
        BY <1>1
  <2> QED BY <2>1 DEF Bounded
<1>3. m \in S /\ \A y \in S : y <= m
      BY <1>1, <1>2, MaxFacts
<1> QED BY <1>1, <1>3

\* addWeight.
LEMMA ApiAddWeight ==
  ASSUME Weights \subseteq Int, ApiInv, CallAddWeight
  PROVE  ApiInv'
<1>1. PICK lit \in LitsUpTo(NInputs), w \in Weights :
        /\ f' = AddWeight(f, lit, w)
        /\ zeros' = IF w = 0 THEN zeros \cup {lit} ELSE zeros
        /\ inputs' = Max({inputs, Var(lit)})
      BY DEF CallAddWeight
<1>2. w \in Int
      OBVIOUS
<1>3. PICK n : n = NewVars(f, Var(lit))
      OBVIOUS
<1>4. /\ Formed(f') /\ Plain(Proper') /\ Len(f'.poids) = Len(n.poids)
      /\ Len(n.poids) = IF Var(lit) <= Len(f.poids) THEN Len(f.poids) ELSE Var(lit)
      /\ IF Weighs(n, lit, w) THEN SameZero(f.map, f'.map) ELSE f'.map = Insert(f.map, 0, lit) /\ w = 0
  <2>1. PICK g : g = f'
        OBVIOUS
  <2>2. /\ Formed(g) /\ Plain(Clean(g)) /\ Len(g.poids) = Len(n.poids)
        /\ Len(n.poids) = IF Var(lit) <= Len(f.poids) THEN Len(f.poids) ELSE Var(lit)
        /\ IF Weighs(n, lit, w) THEN SameZero(f.map, g.map) ELSE g.map = Insert(f.map, 0, lit) /\ w = 0
        BY <1>1, <1>2, <1>3, <2>1, ApiWeighed
  <2> QED BY <2>1, <2>2 DEF Proper
<1>5. ZeroKeyIsAsked'
  <2>1. CASE Weighs(n, lit, w)
        BY <1>1, <1>4, <2>1, ZeroKept DEF ApiInv
  <2>2. CASE ~Weighs(n, lit, w)
        BY <1>1, <1>4, <2>2, ZeroAsked DEF ApiInv
  <2> QED BY <2>1, <2>2
<1>6. Var(lit) \in Nat /\ Var(lit) <= NInputs /\ inputs \in Nat /\ inputs <= NInputs /\ NInputs \in Nat
      BY ApiWeightsAssumption DEF LitsUpTo, Var, ApiInv
<1>7. inputs' = IF Var(lit) <= inputs THEN inputs ELSE Var(lit)
      BY <1>1, <1>6, MaxTwo
<1>8. Len(f.poids) \in Nat /\ inputs <= Len(f.poids) /\ (inputs < NInputs => Len(f.poids) = inputs)
      BY ApiFacts DEF ApiInv
<1>9. /\ inputs' \in 0..NInputs /\ inputs' <= Len(f'.poids)
      /\ inputs' < NInputs => Len(f'.poids) = inputs'
      BY ONLY <1>4, <1>6, <1>7, <1>8
<1> QED BY <1>4, <1>5, <1>9 DEF ApiInv

\* A clause, of variables that all exist.
LEMMA ApiClause ==
  ASSUME ApiInv, NEW g, Follows(f, f', g), Plain(g), DOMAIN f.poids \subseteq DOMAIN g.poids, Operation,
         UNCHANGED <<inputs, zeros>>
  PROVE  ApiInv' /\ Proper' = g
<1>1. Formed(f') /\ Proper' = g /\ ZeroKeyIsAsked'
      BY ZeroKept DEF Follows, ApiInv, Proper
<1>2. f'.poids = g.poids
      BY <1>1, CleanFields DEF Proper
<1>3. f.poids \in Seq(Int) /\ f'.poids \in Seq(Int)
      BY <1>2, ApiFacts, PlainFacts
<1>4. Len(f.poids) <= Len(f'.poids) /\ Len(f.poids) \in Nat /\ Len(f'.poids) \in Nat
  <2>1. /\ DOMAIN f.poids = 1..Len(f.poids) /\ DOMAIN f'.poids = 1..Len(f'.poids)
        /\ Len(f.poids) \in Nat /\ Len(f'.poids) \in Nat
        BY <1>3
  <2>2. 1..Len(f.poids) \subseteq 1..Len(f'.poids)
        BY <1>2, <2>1
  <2> QED BY ONLY <2>1, <2>2
<1>5. inputs' = NInputs /\ inputs \in 0..NInputs /\ NInputs \in Nat /\ inputs <= Len(f.poids) /\ inputs' = inputs
      BY ApiWeightsAssumption DEF ApiInv, Operation
<1>6. inputs' <= Len(f'.poids) /\ ~(inputs' < NInputs) /\ inputs' \in 0..NInputs
      BY ONLY <1>4, <1>5
<1> QED BY <1>1, <1>6 DEF ApiInv

\* addClause of a hard clause.
LEMMA ApiAddHard ==
  ASSUME ApiInv, CallAddHard, NEW C \in SUBSET InputLits, f' = AddHardClause(f, C)
  PROVE  ApiInv' /\ Proper' = AddHardClause(Proper, C)
<1>1. PICK g : g = AddHardClause(Proper, C)
      OBVIOUS
<1>2. Over(f, C) /\ Over(Proper, C) /\ Plain(Proper) /\ Formed(f) /\ Proper.poids = f.poids
      BY ApiFacts DEF ApiInv
<1>3. Follows(f, f', g)
      BY <1>1, <1>2, FollowsAddHard DEF Proper
<1>4. Plain(g) /\ DOMAIN f.poids \subseteq DOMAIN g.poids
      BY <1>1, <1>2, PlainAddHard
<1>5. Operation /\ UNCHANGED <<inputs, zeros>>
      BY DEF CallAddHard
<1> QED BY <1>1, <1>3, <1>4, <1>5, ApiClause

\* addClause of a soft clause.
LEMMA ApiAddSoft ==
  ASSUME Weights \subseteq Int, ApiInv, CallAddSoft, NEW C \in SUBSET InputLits, NEW w \in Weights,
         f' = AddSoft(f, C, w)
  PROVE  ApiInv' /\ Proper' = AddSoft(Proper, C, w)
<1>1. PICK g : g = AddSoft(Proper, C, w)
      OBVIOUS
<1>2. Over(f, C) /\ Over(Proper, C) /\ Plain(Proper) /\ Formed(f) /\ Proper.poids = f.poids /\ w \in Int
      BY ApiFacts DEF ApiInv
<1>3. Follows(f, f', g)
      BY <1>1, <1>2, FollowsAddSoft DEF Proper
<1>4. Plain(g) /\ DOMAIN f.poids \subseteq DOMAIN g.poids
      BY <1>1, <1>2, PlainAddSoft
<1>5. Operation /\ UNCHANGED <<inputs, zeros>>
      BY DEF CallAddSoft
<1> QED BY <1>1, <1>3, <1>4, <1>5, ApiClause

\* ApiInv is an invariant.
THEOREM ApiInvariant ==
  ASSUME Weights \subseteq Int, VarWeights \subseteq Int
  PROVE  Spec => []ApiInv
<1>1. Init => ApiInv
      BY ApiInit
<1>2. ApiInv /\ [Next]_apiVars => ApiInv'
  <2> SUFFICES ASSUME ApiInv, [Next]_apiVars
               PROVE  ApiInv'
      OBVIOUS
  <2>1. CASE CallNewVar
        BY <2>1, ApiNewVar
  <2>2. CASE CallNewSoftVar
    <3>1. PICK value \in BOOLEAN, w \in VarWeights :
            /\ f' = NewSoftVar(f, value, w, NextTruth)
            /\ zeros' = IF w = 0 THEN zeros \cup {IF value THEN inputs + 1 ELSE -(inputs + 1)} ELSE zeros
          BY <2>2 DEF CallNewSoftVar
    <3> QED BY <2>2, <3>1, ApiNewSoftVar
  <2>3. CASE CallAddWeight
        BY <2>3, ApiAddWeight
  <2>4. CASE CallAddHard
    <3>1. PICK C \in SUBSET InputLits : f' = AddHardClause(f, C)
          BY <2>4 DEF CallAddHard
    <3> QED BY <2>4, <3>1, ApiAddHard
  <2>5. CASE CallAddSoft
    <3>1. PICK C \in SUBSET InputLits, w \in Weights : f' = AddSoft(f, C, w)
          BY <2>5 DEF CallAddSoft
    <3> QED BY <2>5, <3>1, ApiAddSoft
  <2>6. CASE Done \/ UNCHANGED apiVars
    <3>1. UNCHANGED <<f, inputs, zeros>>
          BY <2>6 DEF Done, apiVars
    <3> QED BY <3>1 DEF ApiInv, Proper, ZeroKeyIsAsked
  <2> QED BY <2>1, <2>2, <2>3, <2>4, <2>5, <2>6 DEF Next
<1> QED BY <1>1, <1>2, PTL DEF Spec

\* _mapWeight2Assum holds exactly the soft literals, each under its weight,
\* after any sequence of newVar, newSoftVar, addClause and addWeight; what is
\* under the key 0 is no part of it.
THEOREM ApiIndexConsistent ==
  ASSUME Weights \subseteq Int, VarWeights \subseteq Int
  PROVE  Spec => []ApiIndexOK
<1>1. ApiInv => ApiIndexOK
  <2> SUFFICES ASSUME ApiInv PROVE ApiIndexOK
      OBVIOUS
  <2>1. IndexOK(Proper) /\ Proper.poids = f.poids /\ Proper.map = Positive(f.map)
        BY PlainFacts, CleanFields DEF ApiInv, Proper
  <2> QED BY <2>1 DEF IndexOK, ApiIndexOK, Positive
<1> QED BY <1>1, ApiInvariant, PTL

\* The assert(w != 0) of adapt_am1_exact is about every key of _mapWeight2Assum.
\* A key 0 comes only from newSoftVar or addWeight being called with weight 0,
\* and holds only literals given that: neither weights that cancel, nor hard units,
\* nor addClause of weight 0, nor the variables addWeight makes leave one behind.
THEOREM ApiZeroKeyIsAsked ==
  ASSUME Weights \subseteq Int, VarWeights \subseteq Int
  PROVE  Spec => []ZeroKeyIsAsked
<1>1. ApiInv => ZeroKeyIsAsked
      BY DEF ApiInv
<1> QED BY <1>1, ApiInvariant, PTL

-----------------------------------------------------------------------------
(***************************************************************************)
(* The formula means what was asked for.                                   *)
(***************************************************************************)
\* The weights a call may bring, and how many calls are left.
Calls == {0} \cup {Size(w) : w \in Weights \cup VarWeights}

Left == (NInputs - inputs) + (MaxOps - ops)

\* Nothing overflows.
Room(t, n) == \A w \in Calls : t + n * w < MaxWeight

\* Proper costs what f does.
AskInv ==
    /\ ops \in 0..MaxOps
    /\ Proper.cost \in Nat /\ Room(Total(Proper, <<>>, Int), Left)
    /\ Proper.live = feas /\ offset \in Int /\ want \in [Points -> Int]
    /\ \A p \in feas : want[p] = Total(Proper, <<>>, Falsified(Proper, p)) + offset

\* The formula before a call is in good shape.
LEMMA ApiGood ==
  ASSUME ApiInv
  PROVE  /\ Good(Proper, <<>>, {}) /\ IsFormula(Proper)
         /\ \A bad : Total(Proper, <<>>, bad) \in Int
         /\ \A bad : Total(Proper, <<>>, bad) = Proper.cost + Charges(Proper.poids, bad)
  BY PlainGood, PlainFacts DEF ApiInv

\* The same of the formula after the call.
LEMMA ApiGoodNext ==
  ASSUME ApiInv'
  PROVE  /\ Good(Proper', <<>>, {}) /\ IsFormula(Proper')
         /\ \A bad : Total(Proper', <<>>, bad) \in Int
         /\ \A bad : Total(Proper', <<>>, bad) = Proper'.cost + Charges(Proper'.poids, bad)
<1>1. Plain(Proper')
      BY DEF ApiInv
<1> QED BY <1>1, PlainGood, PlainFacts

\* A call is made.
Called == inputs <= inputs' /\ ops <= ops' /\ ops' <= MaxOps /\ inputs + ops < inputs' + ops' /\ ops' \in Int

\* What is left of N and M when more of them is used.
LEMMA FewerLeft ==
  ASSUME NEW N \in Nat, NEW M \in Nat, NEW i \in 0..N, NEW j \in 0..N, NEW o \in 0..M, NEW p \in Int,
         i <= j, o <= p, p <= M, i + o < j + p,
         NEW a, a = (N - i) + (M - o), NEW b, b = (N - j) + (M - p)
  PROVE  p \in 0..M /\ a \in Nat \ {0} /\ b \in Nat /\ b < a
<1>1. PICK x \in Nat : x = N - i
      OBVIOUS
<1>2. PICK y \in Nat : y = M - o
      OBVIOUS
<1>3. PICK z \in Nat : z = N - j
      OBVIOUS
<1>4. PICK u \in Nat : u = M - p
      OBVIOUS
<1>5. z <= x /\ u <= y /\ z + u < x + y
      BY <1>1, <1>2, <1>3, <1>4
<1>6. a = x + y /\ b = z + u
      BY <1>1, <1>2, <1>3, <1>4
<1>7. p \in 0..M
      OBVIOUS
<1> QED BY ONLY <1>5, <1>6, <1>7

\* One call more, and no variable less.
LEMMA SumGrows ==
  ASSUME NEW i \in Int, NEW j \in Int, NEW o \in Int, NEW p \in Int, i <= j, o < p
  PROVE  i + o < j + p
  OBVIOUS

\* There are fewer to come, by more than one when addWeight makes several variables.
LEMMA CallsLeft ==
  ASSUME ApiInv, ApiInv', AskInv, Called
  PROVE  ops' \in 0..MaxOps /\ Left \in Nat \ {0} /\ Left' \in Nat /\ Left' < Left
<1>1. NInputs \in Nat /\ MaxOps \in Nat
      BY ApiWeightsAssumption
<1>2. inputs \in 0..NInputs /\ inputs' \in 0..NInputs
      BY DEF ApiInv
<1>3. ops \in 0..MaxOps
      BY DEF AskInv
<1>4. Left = (NInputs - inputs) + (MaxOps - ops) /\ Left' = (NInputs - inputs') + (MaxOps - ops')
      BY DEF Left
<1>5. inputs <= inputs' /\ ops <= ops' /\ ops' <= MaxOps /\ inputs + ops < inputs' + ops' /\ ops' \in Int
      BY DEF Called
<1> QED BY ONLY <1>1, <1>2, <1>3, <1>4, <1>5, FewerLeft

\* Room for the calls that are left.
LEMMA RoomAdd ==
  ASSUME NEW t \in Int, NEW n \in Nat \ {0}, Room(t, n), NEW w \in Calls, NEW s \in Int, s <= t + w,
         Calls \subseteq Nat, NEW m \in Nat, m < n
  PROVE  Room(s, m)
<1>1. PICK k \in Nat : k = n - 1
      OBVIOUS
<1>2. RoomFor(Calls, s, k)
      BY <1>1, RoomForAdd DEF Room, RoomFor
<1> SUFFICES ASSUME NEW x \in Calls PROVE s + m * x < MaxWeight
    BY DEF Room
<1>3. m * x <= k * x
      BY <1>1, ProductMore
<1>4. s + k * x < MaxWeight
      BY <1>2 DEF RoomFor
<1>5. m * x \in Int /\ k * x \in Int
      OBVIOUS
<1> QED BY ONLY <1>3, <1>4, <1>5, s \in Int, MaxWeightAssumption

\* A call that the formula accounts for as the user does.
LEMMA AskCharged ==
  ASSUME Weights \subseteq Int, VarWeights \subseteq Int, ApiInv, ApiInv', AskInv,
         NEW T, NEW w \in Int, Size(w) \in Calls, Accounts(Proper, Proper', T, w), Charge(T, w), UNCHANGED feas,
         Called
  PROVE  AskInv'
<1>1. /\ Size(w) \in Calls /\ Calls \subseteq Nat /\ w \in Int /\ Size(w) \in Nat
      BY DEF Calls, Size
<1>2. PICK a : a = Proper
      OBVIOUS
<1>3. PICK b : b = Proper'
      OBVIOUS
<1>4. ops' \in 0..MaxOps /\ Left \in Nat \ {0} /\ Left' \in Nat /\ Left' < Left
      BY CallsLeft
<1>5. \A bad : Total(a, <<>>, bad) \in Int /\ Total(b, <<>>, bad) \in Int
      BY <1>2, <1>3, ApiGood, ApiGoodNext
<1>6. PICK t \in Int : t = Total(a, <<>>, Int)
      BY <1>5
<1>7. PICK s \in Int : s = Total(b, <<>>, Int)
      BY <1>5
<1>8. Accounts(a, b, T, w) /\ a.live = feas
      BY <1>2, <1>3 DEF AskInv
<1>9. Room(t, Left) /\ s <= t + Size(w)
      BY <1>2, <1>6, <1>7, <1>8 DEF AskInv, Accounts
<1>10. Room(s, Left')
       BY ONLY <1>1, <1>4, <1>9, t \in Int, s \in Int, RoomAdd
<1>11. /\ offset' \in Int /\ want' \in [Points -> Int]
       /\ offset' = offset + IF w < 0 THEN w ELSE 0
       /\ \A p \in Points : want'[p] = want[p] + IF p \in T THEN 0 ELSE w
       BY <1>1 DEF Charge, AskInv
<1>12. ASSUME NEW p \in feas
       PROVE  want'[p] = Total(b, <<>>, Falsified(b, p)) + offset'
  <2>1. p \in Points
        BY ApiGood, LivePoints DEF AskInv
  <2>2. PICK c \in Int : c = Total(a, <<>>, Falsified(a, p))
        BY <1>5
  <2>3. want[p] = c + offset /\ offset \in Int /\ want[p] \in Int
        BY <1>2, <2>1, <2>2 DEF AskInv
  <2>4. Total(b, <<>>, Falsified(b, p)) = c + Fee(T, w, p)
        BY <1>8, <2>1, <2>2 DEF Accounts
  <2>5. /\ want'[p] = want[p] + IF p \in T THEN 0 ELSE w
        /\ offset' = offset + IF w < 0 THEN w ELSE 0
        BY <1>11, <2>1
  <2>6. CASE p \in T
        BY <1>1, <2>3, <2>4, <2>5, <2>6 DEF Fee
  <2>7. CASE p \notin T
        BY <1>1, <2>3, <2>4, <2>5, <2>7 DEF Fee
  <2> QED BY <2>6, <2>7
<1>13. b.cost \in Nat /\ b.live = feas' /\ feas' = feas
       BY <1>8 DEF Accounts
<1>14. Room(Total(b, <<>>, Int), Left')
       BY <1>7, <1>10
<1> QED BY <1>3, <1>4, <1>11, <1>12, <1>13, <1>14 DEF AskInv, Room, Calls

\* There is room for what may still come.
LEMMA AskFacts ==
  ASSUME ApiInv, AskInv
  PROVE  /\ Total(Proper, <<>>, Int) < MaxWeight /\ Proper.cost \in Nat
         /\ \A n \in Calls : Left > 0 /\ n \in Nat => Total(Proper, <<>>, Int) + n < MaxWeight
<1>1. PICK t \in Int : t = Total(Proper, <<>>, Int)
      BY ApiGood
<1>2. Room(t, Left) /\ Proper.cost \in Nat
      BY <1>1 DEF AskInv
<1>3. Left \in Nat
      BY ApiWeightsAssumption DEF ApiInv, AskInv, Left
<1>4. t < MaxWeight
  <2>1. 0 \in Calls
        BY DEF Calls
  <2>2. t + Left * 0 < MaxWeight
        BY <1>2, <2>1 DEF Room
  <2> QED BY <1>1, <1>3, <2>2
<1>5. ASSUME NEW n \in Calls, Left > 0, n \in Nat
      PROVE  t + n < MaxWeight
  <2>1. t + Left * n < MaxWeight
        BY <1>2 DEF Room
  <2>2. 1 * n <= Left * n
        BY <1>3, <1>5, ProductMore
  <2>3. Left * n \in Int /\ 1 * n = n
        BY <1>3, <1>5
  <2> QED BY ONLY <2>1, <2>2, <2>3, t \in Int, n \in Nat, MaxWeightAssumption
<1> QED BY <1>1, <1>2, <1>4, <1>5

\* Init: nothing is asked for.
LEMMA AskInit ==
  ASSUME Init, Weights \subseteq Int, VarWeights \subseteq Int
  PROVE  AskInv
<1>1. ApiInv /\ Proper = Empty /\ inputs = 0 /\ ops = 0 /\ feas = Points /\ offset = 0 /\ want = [p \in Points |-> 0]
      BY ApiInit DEF Init
<1>2. Proper.cost = 0 /\ Proper.poids = <<>> /\ Proper.live = Points
      BY <1>1 DEF Empty
<1>3. \A bad : Total(Proper, <<>>, bad) = 0
  <2>1. \A bad : Charges(Proper.poids, bad) = 0
        BY <1>2, SumEmpty DEF Charges
  <2> QED BY <1>1, <1>2, <2>1, ApiGood
<1>4. Left = NInputs + MaxOps /\ ops \in 0..MaxOps
      BY <1>1, ApiWeightsAssumption DEF Left
<1>5. Room(0, Left)
  <2> SUFFICES ASSUME NEW n \in Calls PROVE 0 + (NInputs + MaxOps) * n < MaxWeight
      BY <1>4 DEF Room
  <2>1. CASE n = 0
        BY <2>1, ApiWeightsAssumption, MaxWeightAssumption
  <2>2. CASE n # 0
    <3>1. PICK w \in Weights \cup VarWeights : n = IF w < 0 THEN -w ELSE w
          BY <2>2 DEF Calls, Size
    <3>2. (NInputs + MaxOps) * n < MaxWeight /\ n \in Int
          BY <3>1, ApiWeightsAssumption
    <3>3. (NInputs + MaxOps) * n \in Int
          BY <3>2, ApiWeightsAssumption
    <3> QED BY <3>2, <3>3
  <2> QED BY <2>1, <2>2
<1> QED BY <1>1, <1>2, <1>3, <1>4, <1>5 DEF AskInv

\* newVar, and newSoftVar of weight 0.
LEMMA AskVar ==
  ASSUME Weights \subseteq Int, VarWeights \subseteq Int, ApiInv, ApiInv', AskInv, NEW T \in SUBSET Points,
         Proper' = NewVar(Proper, T), NEW U, Charge(U, 0), UNCHANGED feas, Called
  PROVE  AskInv'
<1>1. Plain(Proper) /\ Plain(Proper')
      BY DEF ApiInv
<1>2. EndsWith(Proper, 0, T, Proper')
      BY <1>1, PlainNewVar
<1>3. \A p \in Points : PriceAt(T, 0, p) = Fee(U, 0, p)
      BY DEF PriceAt, Fee
<1>4. Size(0) = 0 /\ 0 \in Calls /\ Proper.cost \in Nat
      BY DEF Size, Calls, AskInv
<1>5. Accounts(Proper, Proper', U, 0)
      BY <1>1, <1>2, <1>3, <1>4, NewAccounts
<1> QED BY <1>4, <1>5, AskCharged

\* newVar.
LEMMA AskNewVar ==
  ASSUME Weights \subseteq Int, VarWeights \subseteq Int, ApiInv, ApiInv', AskInv, CallNewVar
  PROVE  AskInv'
<1>1. NextTruth \in SUBSET Points /\ Proper' = NewVar(Proper, NextTruth)
      BY ApiNewVar DEF NextTruth
<1>2. inputs' = inputs + 1 /\ UNCHANGED <<ops, want, feas, offset>>
      BY DEF CallNewVar
<1>3. inputs \in Int /\ ops \in Int /\ ops <= MaxOps
      BY ApiWeightsAssumption DEF ApiInv, AskInv
<1>4. Called
      BY <1>2, <1>3 DEF Called
<1>5. Charge(Points, 0)
      BY <1>2 DEF Charge, AskInv
<1> QED BY <1>1, <1>2, <1>4, <1>5, AskVar

\* newSoftVar: the sign of the weight and the value it is given for both matter.
LEMMA AskNewSoftVar ==
  ASSUME Weights \subseteq Int, VarWeights \subseteq Int, ApiInv, ApiInv', AskInv, CallNewSoftVar
  PROVE  AskInv'
<1>1. PICK value \in BOOLEAN, w \in VarWeights :
        /\ f' = NewSoftVar(f, value, w, NextTruth)
        /\ Charge(IF value THEN NextTruth ELSE Points \ NextTruth, w)
        /\ zeros' = IF w = 0 THEN zeros \cup {IF value THEN inputs + 1 ELSE -(inputs + 1)} ELSE zeros
      BY DEF CallNewSoftVar
<1>2. /\ Proper' = IF w = 0 THEN NewVar(Proper, NextTruth) ELSE NewSoftVar(Proper, value, w, NextTruth)
      /\ NextTruth \in SUBSET Points
      BY <1>1, ApiNewSoftVar DEF NextTruth
<1>3. /\ Proper \in Formulas /\ Plain(Proper) /\ Plain(Proper') /\ w \in Int
      /\ inputs' = inputs + 1 /\ UNCHANGED <<ops, feas>>
      BY PlainFacts DEF CallNewSoftVar, ApiInv
<1>4. Called
  <2>1. inputs \in Int /\ ops \in Int /\ ops <= MaxOps
        BY ApiWeightsAssumption DEF ApiInv, AskInv
  <2> QED BY <1>3, <2>1 DEF Called
<1>5. PICK U : U = IF value THEN NextTruth ELSE Points \ NextTruth
      OBVIOUS
<1>6. CASE w = 0
      BY <1>1, <1>2, <1>3, <1>4, <1>5, <1>6, AskVar
<1>7. CASE w # 0
  <2>1. PICK x \in Int : x = IF value THEN w ELSE -w
        BY <1>3
  <2>2. EndsWith(Proper, x, NextTruth, Proper')
        BY <1>2, <1>3, <1>7, <2>1, SoftVarEnds
  <2>3. \A p \in Points : PriceAt(NextTruth, x, p) = Fee(U, w, p)
    <3> TAKE p \in Points
    <3>1. CASE value = TRUE
          BY <1>3, <1>5, <2>1, <3>1 DEF PriceAt, Fee
    <3>2. CASE value = FALSE
      <4>1. x = -w /\ (p \in U <=> p \notin NextTruth)
            BY <1>5, <2>1, <3>2
      <4> QED BY <1>3, <4>1 DEF PriceAt, Fee
    <3> QED BY <3>1, <3>2
  <2>4. Size(x) = Size(w) /\ Size(w) \in Calls
        BY <1>3, <2>1 DEF Size, Calls
  <2>5. Accounts(Proper, Proper', U, w)
        BY <1>2, <1>3, <2>2, <2>3, <2>4, NewAccounts DEF AskInv
  <2> QED BY <1>1, <1>3, <1>4, <1>5, <2>4, <2>5, AskCharged
<1> QED BY <1>6, <1>7

\* addWeight: the variables it makes cost nothing, and a weight that is lost
\* is 0.
LEMMA AskAddWeight ==
  ASSUME Weights \subseteq Int, VarWeights \subseteq Int, ApiInv, ApiInv', AskInv, CallAddWeight
  PROVE  AskInv'
<1>1. PICK lit \in LitsUpTo(NInputs), w \in Weights :
        /\ f' = AddWeight(f, lit, w)
        /\ Charge(True(NewVars(f, Var(lit)), lit), w)
        /\ inputs' = Max({inputs, Var(lit)})
      BY DEF CallAddWeight
<1>2. w \in Int /\ Size(w) \in Calls
      BY DEF Calls
<1>3. PICK n : n = NewVars(f, Var(lit))
      OBVIOUS
<1>4. PICK T : T = True(n, lit)
      OBVIOUS
<1>5. PICK a : a = Proper
      OBVIOUS
<1>6. PICK k : k = Clean(n)
      OBVIOUS
<1>7. PICK b : b = Proper'
      OBVIOUS
<1>8. /\ Idle(a, k) /\ lit \in LitsOf(k.poids) /\ T = True(k, lit) /\ Plain(b)
      /\ IF Weighs(n, lit, w) THEN b = AddWeight(k, lit, w) ELSE b = k /\ w = 0
      /\ Weighs(n, lit, w) <=> Weighs(k, lit, w)
  <2>1. PICK g : g = f'
        OBVIOUS
  <2>2. /\ Idle(Proper, Clean(n)) /\ lit \in LitsOf(n.poids) /\ Clean(n).poids = n.poids
        /\ True(Clean(n), lit) = True(n, lit) /\ Plain(Clean(g))
        /\ IF Weighs(n, lit, w) THEN Clean(g) = AddWeight(Clean(n), lit, w) ELSE Clean(g) = Clean(n) /\ w = 0
        BY <1>1, <1>2, <1>3, <2>1, ApiWeighed
  <2>3. b = Clean(g)
        BY <1>7, <2>1 DEF Proper
  <2> QED BY <1>4, <1>5, <1>6, <2>2, <2>3 DEF Weighs
<1>9. /\ Plain(k) /\ k.live = a.live /\ k.cost = a.cost /\ SameTruth(a, k)
      /\ \A p \in Points : Total(k, <<>>, Falsified(k, p)) = Total(a, <<>>, Falsified(a, p))
      /\ Total(k, <<>>, Int) = Total(a, <<>>, Int)
      BY <1>8 DEF Idle
<1>10. a.cost \in Nat /\ Total(a, <<>>, Int) < MaxWeight /\ \A bad : Total(a, <<>>, bad) \in Int
       BY <1>5, AskFacts, ApiGood
<1>11. Accounts(a, b, T, w)
  <2>1. CASE Weighs(n, lit, w)
    <3>1. Accounts(k, b, T, w)
          BY <1>2, <1>8, <1>9, <1>10, <2>1, WeightAccounts
    <3> QED BY <1>9, <3>1 DEF Accounts, SameTruth
  <2>2. CASE ~Weighs(n, lit, w)
    <3>1. b = k /\ w = 0 /\ Size(w) = 0 /\ \A p : Fee(T, w, p) = 0
          BY <1>8, <2>2 DEF Size, Fee
    <3> QED BY <1>9, <1>10, <3>1 DEF Accounts
  <2> QED BY <2>1, <2>2
<1>12. Called
  <2>1. inputs \in Nat /\ ops \in Int /\ MaxOps \in Nat
        BY ApiWeightsAssumption DEF ApiInv, AskInv
  <2>2. Var(lit) \in Nat
    <3>1. lit \in Int /\ (lit < 0 => -lit \in Nat)
          BY ApiWeightsAssumption DEF LitsUpTo
    <3> QED BY ONLY <3>1 DEF Var
  <2>3. inputs <= inputs' /\ inputs' \in Int
        BY <1>1, <2>1, <2>2, MaxTwo
  <2>4. ops < MaxOps /\ ops' = ops + 1
        BY DEF CallAddWeight
  <2>5. ops \in Int /\ MaxOps \in Int /\ inputs \in Int /\ inputs' \in Int
        BY ONLY <2>1, <2>3
  <2>6. ops <= ops' /\ ops < ops' /\ ops' <= MaxOps /\ ops' \in Int
        BY ONLY <2>4, <2>5
  <2>7. inputs + ops < inputs' + ops'
        BY ONLY <2>3, <2>5, <2>6, SumGrows
  <2> QED BY ONLY <2>3, <2>6, <2>7 DEF Called
<1>13. UNCHANGED feas /\ Charge(T, w)
       BY <1>1, <1>3, <1>4 DEF CallAddWeight
<1> QED BY <1>2, <1>5, <1>7, <1>11, <1>12, <1>13, AskCharged

\* A clause is called for after all variables.
LEMMA ClauseCalled ==
  ASSUME ApiInv, AskInv, Operation, UNCHANGED inputs
  PROVE  Called /\ Left > 0
<1>1. inputs \in Int /\ ops \in Int /\ ops < MaxOps /\ ops' = ops + 1 /\ MaxOps \in Nat /\ NInputs \in Nat /\ inputs = NInputs
      BY ApiWeightsAssumption DEF ApiInv, AskInv, Operation
<1> QED BY <1>1 DEF Called, Left

\* A hard clause; a unit may pay for a soft literal, or cancel it.
LEMMA AskAddHard ==
  ASSUME Weights \subseteq Int, VarWeights \subseteq Int, ApiInv, ApiInv', AskInv, CallAddHard
  PROVE  AskInv'
<1>1. PICK C \in SUBSET InputLits : /\ f' = AddHardClause(f, C)
                                    /\ feas' = feas \cap UNION {True(f, l) : l \in C}
      BY DEF CallAddHard
<1>2. UNCHANGED <<inputs, want, offset>> /\ Called
      BY ClauseCalled DEF CallAddHard
<1>3. PICK a : a = Proper
      OBVIOUS
<1>4. PICK b : b = Proper'
      OBVIOUS
<1>5. Over(a, C) /\ b = AddHardClause(a, C) /\ \A l : True(f, l) = True(a, l)
      BY <1>1, <1>3, <1>4, ApiFacts, ApiAddHard
<1>6. /\ Good(a, <<>>, {}) /\ a.cost \in Nat /\ Total(a, <<>>, Int) < MaxWeight /\ \A y \in {} : Spent(a, y)
      BY <1>3, ApiGood, AskFacts
<1>7. SameCost(a, <<>>, b, <<>>) /\ b.live = a.live \cap UNION {True(a, l) : l \in C}
      BY ONLY <1>5, <1>6, CostHard
<1>8. a.live = feas /\ \A p \in feas : want[p] = Total(a, <<>>, Falsified(a, p)) + offset
      BY <1>3 DEF AskInv
<1>9. feas' = b.live /\ b.live \subseteq feas /\ want' = want /\ offset' = offset
  <2>1. {True(f, l) : l \in C} = {True(a, l) : l \in C}
        BY <1>5
  <2> QED BY <1>1, <1>2, <1>7, <1>8, <2>1
<1>10. \A p \in feas' : want'[p] = Total(b, <<>>, Falsified(b, p)) + offset'
       BY <1>7, <1>8, <1>9 DEF SameCost
<1>11. b.cost \in Nat
  <2>1. b.cost \in Int
        BY <1>4, ApiGoodNext, Fields
  <2> QED BY <1>6, <1>7, <2>1 DEF SameCost
<1>12. ops' \in 0..MaxOps /\ Left \in Nat \ {0} /\ Left' \in Nat /\ Left' < Left
       BY <1>2, CallsLeft
<1>13. Room(Total(b, <<>>, Int), Left')
  <2>1. PICK t \in Int : t = Total(a, <<>>, Int)
        BY <1>3, ApiGood
  <2>2. PICK s \in Int : s = Total(b, <<>>, Int)
        BY <1>4, ApiGoodNext
  <2>3. Room(t, Left) /\ s <= t + 0
        BY <1>3, <1>7, <2>1, <2>2 DEF AskInv, SameCost
  <2>4. 0 \in Calls /\ Calls \subseteq Nat
        BY DEF Calls, Size
  <2>5. Room(s, Left')
        BY ONLY <1>12, <2>3, <2>4, t \in Int, s \in Int, RoomAdd
  <2> QED BY <2>2, <2>5
<1>14. offset' \in Int /\ want' \in [Points -> Int]
       BY <1>2 DEF AskInv
<1> QED BY <1>4, <1>9, <1>10, <1>11, <1>12, <1>13, <1>14 DEF AskInv, Room, Calls

\* addClause of a soft clause.
LEMMA AskAddSoft ==
  ASSUME Weights \subseteq Int, VarWeights \subseteq Int, ~NegativeClauses, ApiInv, ApiInv', AskInv, CallAddSoft
  PROVE  AskInv'
<1>1. PICK C \in SUBSET InputLits, w \in Weights :
         /\ C = {} => w > 0
         /\ Cardinality(C) > 1 /\ w < 0 => NegativeClauses
         /\ f' = AddSoft(f, C, w)
         /\ Charge(UNION {True(f, l) : l \in C}, w)
      BY DEF CallAddSoft
<1>2. UNCHANGED feas /\ Called /\ Left > 0
      BY ClauseCalled DEF CallAddSoft
<1>3. PICK T : T = UNION {True(f, l) : l \in C}
      OBVIOUS
<1>4. w \in Int /\ Size(w) \in Calls /\ Size(w) \in Nat
      BY DEF Calls, Size
<1>5. PICK a : a = Proper
      OBVIOUS
<1>6. PICK b : b = Proper'
      OBVIOUS
<1>7. Over(a, C) /\ b = AddSoft(a, C, w) /\ Plain(a) /\ Plain(b) /\ \A l : True(f, l) = True(a, l)
      BY <1>1, <1>5, <1>6, ApiFacts, ApiAddSoft DEF ApiInv
<1>8. T = UNION {True(a, l) : l \in C}
  <2>1. {True(f, l) : l \in C} = {True(a, l) : l \in C}
        BY <1>7
  <2> QED BY <1>3, <2>1
<1>9. Accounts(a, b, T, w)
  <2>1. Total(a, <<>>, Int) + Size(w) < MaxWeight /\ a.cost \in Nat
        BY <1>2, <1>4, <1>5, AskFacts
  <2>2. C = {} \/ Cardinality(C) > 1 => w >= 0
        BY <1>1, <1>4
  <2> QED BY <1>4, <1>7, <1>8, <2>1, <2>2, SoftAccounts
<1> QED BY <1>1, <1>2, <1>3, <1>4, <1>5, <1>6, <1>9, AskCharged

\* MeansWhatWasAsked, for any number of variables and any clauses: the formula
\* built through the public interface has the assignments asked for, at the
\* costs asked for, up to the constant of the negative weights, whatever weights
\* newSoftVar and addWeight are called with; clauses of several literals must not
\* be negative (run ApiNegative shows what happens then).
THEOREM ApiMeansWhatWasAsked ==
  ASSUME Weights \subseteq Int, VarWeights \subseteq Int, ~NegativeClauses
  PROVE  Spec => []MeansWhatWasAsked
<1>1. Init => AskInv
      BY AskInit
<1>2. ApiInv /\ ApiInv' /\ AskInv /\ [Next]_apiVars => AskInv'
  <2> SUFFICES ASSUME ApiInv, ApiInv', AskInv, [Next]_apiVars
               PROVE  AskInv'
      OBVIOUS
  <2>1. CASE CallNewVar
        BY <2>1, AskNewVar
  <2>2. CASE CallNewSoftVar
        BY <2>2, AskNewSoftVar
  <2>3. CASE CallAddWeight
        BY <2>3, AskAddWeight
  <2>4. CASE CallAddHard
        BY <2>4, AskAddHard
  <2>5. CASE CallAddSoft
        BY <2>5, AskAddSoft
  <2>6. CASE Done \/ UNCHANGED apiVars
        BY <2>6 DEF Done, apiVars, AskInv, Left, Room, Calls, Proper
  <2> QED BY <2>1, <2>2, <2>3, <2>4, <2>5, <2>6 DEF Next
<1>3. ApiInv /\ AskInv => MeansWhatWasAsked
  <2> SUFFICES ASSUME ApiInv, AskInv
               PROVE  MeansWhatWasAsked
      OBVIOUS
  <2>1. PICK a : a = Proper
        OBVIOUS
  <2>2. a.cost = f.cost /\ a.poids = f.poids /\ a.live = f.live /\ a.truth = f.truth
        BY <2>1, CleanFields DEF Proper
  <2>3. \A p : Falsified(f, p) = Falsified(a, p)
        BY <2>2, FalsifiedAlike
  <2>4. \A p : CostOf(f, p) = Total(a, <<>>, Falsified(a, p))
        BY <2>1, <2>2, <2>3, ApiGood DEF CostOf, SoftCost
  <2>5. a.live = feas /\ \A p \in feas : want[p] = Total(a, <<>>, Falsified(a, p)) + offset
        BY <2>1 DEF AskInv
  <2> QED BY <2>2, <2>4, <2>5 DEF MeansWhatWasAsked
<1> QED BY <1>1, <1>2, <1>3, ApiInvariant, PTL DEF Spec
=============================================================================
