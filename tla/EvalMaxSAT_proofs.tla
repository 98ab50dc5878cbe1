------------------------- MODULE EvalMaxSAT_proofs -------------------------
(***************************************************************************)
(* For any formula, any weights, any answers of the solver and any number  *)
(* of calls: the index and the weights agree at every step of solve(), a   *)
(* literal that waits to be relaxed is a spent output, and the assumptions *)
(* are those of the stratum whenever the solver is called.                 *)
(***************************************************************************)
EXTENDS EvalMaxSAT, Formula_proofs

\* The variables of clauses added later are among the first n.
UserLits(n) ==
    /\ \A e \in Extra : Var(e.lit) \in 1..n /\ e.lit \in Int \ {0} /\ e.w \in Int \ {0}
    /\ \A C \in ExtraHard : \A l \in C : Var(l) \in 1..n /\ l \in Int \ {0}

FormulaInv == Sound(f) /\ \E n \in Nat : InputsFree(f, n) /\ UserLits(n)

ListInv ==
    /\ \A l \in litToRelax : Spent(f, l)
    /\ cardToAdd \in PendingCards

AmStates ==
    [pc : {"idle", "test", "scan", "pair", "reduce", "relax"},
     by : {"none", "exact", "fast", "veryFast"}, var : Nat, todo : SUBSET Int, active : SUBSET Int,
     clause : SUBSET Int, saved : SUBSET Int, w : Nat, zeros : SUBSET Int, newAssum : SUBSET Int,
     found : BOOLEAN]

\* processAtMostOne works on soft literals; those it has made, and those
\* adapt_am1_exact still holds, are others.
CliqueOK(g, a) ==
    /\ \A l \in a.clause : Soft(g, l)
    /\ \A l \in a.newAssum : Soft(g, l)
    /\ a.clause \cap a.newAssum = {}
    /\ a.active \cap a.clause = {} /\ a.active \cap a.newAssum = {}
    /\ a.by = "veryFast" => a.var \in DOMAIN g.poids

\* A rewriting under way.
AmOK(g, a) ==
    /\ a.todo \subseteq LitsOf(g.poids)
    /\ \A l \in a.active : Soft(g, l)
    /\ a.by # "exact" => a.active = {}
    /\ a.pc = "test" => a.by = "exact" /\ a.todo \cap a.active = {} /\ \A l \in a.todo : Soft(g, l)
    /\ a.pc \in {"scan", "pair"} => a.by # "exact"
    /\ a.pc = "pair" => a.var \in DOMAIN g.poids /\ g.poids[a.var] # 0
    /\ a.pc \in {"reduce", "relax"} => CliqueOK(g, a)
    /\ a.pc = "reduce" => a.clause # {}
    /\ a.pc = "relax" => /\ a.saved \subseteq LitsOf(g.poids) /\ a.w \in Nat \ {0}
                         /\ \A l \in a.zeros : Spent(g, l)

\* The rewriting harden calls, which must own up to its changes in found.
VeryFastOK(a) ==
    a.pc # "idle" => /\ a.by = "veryFast" /\ a.pc # "test"
                     /\ a.pc \in {"reduce", "relax"} => a.found

AmInv ==
    /\ am \in AmStates
    /\ am.pc # "idle" => pc \in {"am1", "veryFast"} /\ AmOK(f, am)
    /\ am.pc = "relax" => am.zeros \cap litToRelax = {}
    /\ pc = "veryFast" => VeryFastOK(am)

\* Where the assumptions must be those of the stratum: in the loop, and in
\* the calls made from it until something changes that is repaired later.
Synced ==
    \/ pc \in {"top", "core", "coreEnd", "limited", "sat", "tail"}
    \/ pc = "harden" /\ then # "choose"
    \/ pc = "veryFast" /\ ~am.found /\ then # "choose"

SyncInv ==
    /\ minW \in Nat \ {0}
    /\ Synced => assum = Heavy(f.poids, minW)

SearchInv == FormulaInv /\ ListInv /\ AmInv /\ SyncInv

\* The first state.
LEMMA SearchInit ==
  ASSUME Init
  PROVE  SearchInv
<1>1. Sound(f) /\ InputsFree(f, Len(f.poids)) /\ Len(f.poids) \in Nat /\ f \in Instances
      BY InstancesAssumption, UserSound DEF Init
<1>2. UserLits(Len(f.poids))
  <2>1. DOMAIN f.poids = 1..Len(f.poids)
        BY <1>1, Fields DEF Sound
  <2>2. \A l \in Lits(f) : Var(l) \in 1..Len(f.poids) /\ l \in Int \ {0}
        BY <1>1, <2>1 DEF Lits, Vars, Var
  <2> QED BY <1>1, <2>2, ExtraAssumption DEF UserLits
<1>3. FormulaInv
      BY <1>1, <1>2 DEF FormulaInv
<1>4. ListInv
      BY DEF Init, ListInv, PendingCards
<1>5. AmInv
      BY DEF Init, AmInv, AmIdle, AmStates
<1>6. SyncInv
      BY DEF Init, SyncInv, Synced
<1> QED BY <1>3, <1>4, <1>5, <1>6 DEF SearchInv

\* The formula, after a step.
LEMMA FormulaKept ==
  ASSUME FormulaInv, NEW X, Keeps(f, f', X)
  PROVE  FormulaInv'
<1>1. PICK n \in Nat : InputsFree(f, n) /\ UserLits(n)
      BY DEF FormulaInv
<1>2. InputsFree(f', n) /\ Sound(f')
      BY <1>1 DEF Keeps
<1> QED BY <1>1, <1>2 DEF FormulaInv, UserLits

\* A step outside the rewriting.
LEMMA IdleStep ==
  ASSUME SearchInv, NEW X, Keeps(f, f', X), am' \in AmStates, am'.pc = "idle",
         \A l \in litToRelax' : Spent(f', l), cardToAdd' \in PendingCards, minW' \in Nat \ {0},
         Synced' => assum' = Heavy(f'.poids, minW')
  PROVE  SearchInv'
<1>1. FormulaInv'
      BY FormulaKept DEF SearchInv
<1>2. ListInv'
      BY DEF ListInv, PendingCards
<1>3. AmInv'
      BY DEF AmInv, VeryFastOK, AmStates
<1>4. SyncInv'
      BY DEF SyncInv
<1> QED BY <1>1, <1>2, <1>3, <1>4 DEF SearchInv

\* A step that only moves on.
LEMMA MoveStep ==
  ASSUME SearchInv, am.pc = "idle", UNCHANGED <<f, am, search>>, Synced' => Synced
  PROVE  SearchInv'
<1>1. Keeps(f, f', {})
      BY KeepsAll DEF SearchInv, FormulaInv
<1>2. am' \in AmStates /\ am'.pc = "idle"
      BY DEF SearchInv, AmInv
<1>3. (\A l \in litToRelax' : Spent(f', l)) /\ cardToAdd' \in PendingCards /\ minW' \in Nat \ {0}
      BY DEF SearchInv, ListInv, SyncInv, search
<1>4. Synced' => assum' = Heavy(f'.poids, minW')
      BY DEF SearchInv, SyncInv, search
<1> QED BY <1>1, <1>2, <1>3, <1>4, IdleStep

-----------------------------------------------------------------------------
\* What the invariant says where no rewriting is under way.
LEMMA SearchFacts ==
  ASSUME SearchInv
  PROVE  /\ Sound(f) /\ IsFormula(f) /\ IndexOK(f) /\ f.poids \in Seq(Int)
         /\ am \in AmStates /\ minW \in Nat \ {0} /\ cardToAdd \in PendingCards
         /\ pc \notin {"am1", "veryFast"} => am.pc = "idle"
  BY Fields DEF SearchInv, FormulaInv, Sound, ListInv, AmInv, SyncInv

\* The idle state of the rewriting.
LEMMA IdleFacts == AmIdle \in AmStates /\ AmIdle.pc = "idle" /\ AmIdle.found = FALSE
  BY DEF AmIdle, AmStates

\* The actions that only move on.
LEMMA Moves ==
  ASSUME SearchInv,
         \/ Solve \/ SolveHard \/ HardenFirst \/ BoundsMeet \/ TopSatLast \/ TopUnsat
         \/ CoreEmpty \/ CoreBoundsMeet \/ CoreHarden \/ CoreEnd \/ LimitedUnsat \/ LimitedSat
         \/ SatOptimize \/ SatSkip \/ TailDone \/ Again
  PROVE  SearchInv'
<1>1. pc \notin {"am1", "veryFast"} => am.pc = "idle"
      BY SearchFacts
<1>2. am.pc = "idle"
      BY <1>1 DEF Solve, SolveHard, HardenFirst, BoundsMeet, TopSatLast, TopUnsat, CoreEmpty, CoreBoundsMeet,
         CoreHarden, CoreEnd, LimitedUnsat, LimitedSat, SatOptimize, SatSkip, TailDone, Again, Goto
<1>3. UNCHANGED <<f, am, search>>
      BY DEF Solve, SolveHard, HardenFirst, BoundsMeet, TopSatLast, TopUnsat, CoreEmpty, CoreBoundsMeet,
         CoreHarden, CoreEnd, LimitedUnsat, LimitedSat, SatOptimize, SatSkip, TailDone, Again
<1>4. CASE Solve \/ SolveHard \/ HardenFirst \/ Again
  <2>1. ~Synced'
        BY <1>4 DEF Solve, SolveHard, HardenFirst, Again, Goto, Return, Synced
  <2> QED BY <1>2, <1>3, <2>1, MoveStep
<1>5. CASE \/ BoundsMeet \/ TopSatLast \/ TopUnsat \/ CoreEmpty \/ CoreBoundsMeet \/ CoreHarden \/ CoreEnd
           \/ LimitedUnsat \/ LimitedSat \/ SatOptimize \/ SatSkip \/ TailDone
  <2>1. Synced
        BY <1>5 DEF BoundsMeet, TopSatLast, TopUnsat, CoreEmpty, CoreBoundsMeet, CoreHarden, CoreEnd,
           LimitedUnsat, LimitedSat, SatOptimize, SatSkip, TailDone, Goto, Synced
  <2> QED BY <1>2, <1>3, <2>1, MoveStep
<1> QED BY <1>4, <1>5

\* Relaxing an output that waits.
LEMMA Relaxes ==
  ASSUME SearchInv, LeftoverRelax \/ SatRelax \/ TailRelax
  PROVE  SearchInv'
<1>1. PICK l \in litToRelax : f' = Relax(f, l) /\ litToRelax' = litToRelax \ {l}
      BY DEF LeftoverRelax, SatRelax, TailRelax
<1>2. am' = am /\ am.pc = "idle" /\ minW' = minW /\ cardToAdd' = cardToAdd
      BY SearchFacts DEF LeftoverRelax, SatRelax, TailRelax
<1>3. Spent(f, l) /\ l \in LitsOf(f.poids) /\ l < 0
      BY DEF SearchInv, ListInv, Spent
<1>4. Keeps(f, f', {l}) /\ Grown(f, f')
      BY <1>1, <1>3, SearchFacts, KeepsRelax
<1>5. ASSUME NEW x \in litToRelax'
      PROVE  Spent(f', x)
  <2>1. Spent(f, x) /\ x \notin {l}
        BY <1>1 DEF SearchInv, ListInv
  <2> QED BY <1>4, <2>1, KeepsSpent
<1>6. Synced' => assum' = Heavy(f'.poids, minW')
  <2>1. CASE LeftoverRelax
        BY <2>1 DEF LeftoverRelax, Synced
  <2>2. CASE SatRelax \/ TailRelax
    <3>1. assum = Heavy(f.poids, minW) /\ minW \in Nat \ {0}
          BY <2>2 DEF SatRelax, TailRelax, SearchInv, SyncInv, Synced
    <3>2. assum' = Join(f')
          BY <2>2 DEF SatRelax, TailRelax
    <3>3. IsFormula(f) /\ IsFormula(f')
          BY <1>4, SearchFacts DEF Keeps, Sound
    <3>4. Heavy(f'.poids, minW) = Heavy(f.poids, minW) \cup {x \in SoftLits(f') \ SoftLits(f) : Poids(f', x) >= minW}
          BY <1>4, <3>1, <3>3, HeavyGrown
    <3> QED BY <1>2, <3>1, <3>2, <3>4 DEF Join
  <2> QED BY <2>1, <2>2
<1> QED BY <1>2, <1>4, <1>5, <1>6, SearchFacts, IdleStep

\* The parts of a sequence.
LEMMA HeadTail ==
  ASSUME NEW S, NEW s \in Seq(S), s # <<>>
  PROVE  Head(s) \in S /\ Tail(s) \in Seq(S)
  OBVIOUS

\* Adding a pending cardinality constraint.
LEMMA AddsCard ==
  ASSUME SearchInv, LeftoverCard \/ TailCard
  PROVE  SearchInv'
<1> DEFINE C == Head(cardToAdd).lits
           w == Head(cardToAdd).w
<1>1. /\ f' = AddCard(f, C, w) /\ cardToAdd # <<>> /\ cardToAdd' = Tail(cardToAdd)
      /\ am' = am /\ minW' = minW /\ litToRelax' = litToRelax
      BY DEF LeftoverCard, TailCard
<1>2. am.pc = "idle"
      BY SearchFacts DEF LeftoverCard, TailCard
<1>3. C \in SUBSET Int /\ w \in Nat \ {0} /\ cardToAdd' \in PendingCards
  <2>1. cardToAdd \in PendingCards
        BY SearchFacts
  <2>2. Head(cardToAdd) \in [lits : SUBSET Int, w : Nat \ {0}] /\ cardToAdd' \in PendingCards
        BY <1>1, <2>1, HeadTail DEF PendingCards
  <2> QED BY <2>2
<1> HIDE DEF C, w
<1>4. Keeps(f, f', {}) /\ Grown(f, f')
      BY <1>1, <1>3, SearchFacts, KeepsAddCard
<1>5. ASSUME NEW x \in litToRelax'
      PROVE  Spent(f', x)
  <2>1. Spent(f, x) /\ x \notin {}
        BY <1>1 DEF SearchInv, ListInv
  <2> QED BY <1>4, <2>1, KeepsSpent
<1>6. Synced' => assum' = Heavy(f'.poids, minW')
  <2>1. CASE LeftoverCard
        BY <2>1 DEF LeftoverCard, Synced
  <2>2. CASE TailCard
    <3>1. assum = Heavy(f.poids, minW) /\ minW \in Nat \ {0}
          BY <2>2 DEF TailCard, SearchInv, SyncInv, Synced
    <3>2. assum' = Join(f')
          BY <2>2 DEF TailCard
    <3>3. IsFormula(f) /\ IsFormula(f')
          BY <1>4, SearchFacts DEF Keeps, Sound
    <3>4. Heavy(f'.poids, minW) = Heavy(f.poids, minW) \cup {x \in SoftLits(f') \ SoftLits(f) : Poids(f', x) >= minW}
          BY <1>4, <3>1, <3>3, HeavyGrown
    <3> QED BY <1>1, <3>1, <3>2, <3>4 DEF Join
  <2> QED BY <2>1, <2>2
<1> QED BY <1>1, <1>2, <1>3, <1>4, <1>5, <1>6, SearchFacts, IdleStep

\* A stratum is chosen.
LEMMA Strata ==
  ASSUME SearchInv, FirstStratum \/ TopSat
  PROVE  SearchInv'
<1>1. \E m : \E c \in ChooseNextMinWeight(f.map, m) :
        f' = [f EXCEPT !.map = c.map] /\ minW' = c.min /\ assum' = InitAssum(f', c.min)
      BY DEF FirstStratum, TopSat, NextStratum
<1>2. am' = am /\ am.pc = "idle" /\ cardToAdd' = cardToAdd /\ litToRelax' = litToRelax
      BY SearchFacts DEF FirstStratum, TopSat, Goto
<1>3. PICK m : \E d \in ChooseNextMinWeight(f.map, m) :
        f' = [f EXCEPT !.map = d.map] /\ minW' = d.min /\ assum' = InitAssum(f', d.min)
      BY <1>1
<1>4. PICK c \in ChooseNextMinWeight(f.map, m) :
        f' = [f EXCEPT !.map = c.map] /\ minW' = c.min /\ assum' = InitAssum(f', c.min)
      BY <1>3
<1>5. Keeps(f, f', {}) /\ c.min \in Nat \ {0}
      BY <1>4, SearchFacts, KeepsStratum
<1>6. ASSUME NEW x \in litToRelax'
      PROVE  Spent(f', x)
  <2>1. Spent(f, x) /\ x \notin {}
        BY <1>2 DEF SearchInv, ListInv
  <2> QED BY <1>5, <2>1, KeepsSpent
<1>7. assum' = Heavy(f'.poids, minW')
  <2>1. IsFormula(f') /\ IndexOK(f')
        BY <1>5 DEF Keeps, Sound
  <2> QED BY <1>4, <1>5, <2>1, HeavyInit
<1> QED BY <1>2, <1>4, <1>5, <1>6, <1>7, SearchFacts, IdleStep

\* The limited solve times out in the last stratum.
LEMMA Timeout ==
  ASSUME SearchInv, LimitedTimeout
  PROVE  SearchInv'
<1>1. /\ f' = f /\ am' = am /\ cardToAdd' = cardToAdd /\ litToRelax' = litToRelax
      /\ minW' = 1 /\ assum' = InitAssum(f, 1) /\ am.pc = "idle"
      BY SearchFacts DEF LimitedTimeout, Goto
<1>2. Keeps(f, f', {})
      BY <1>1, SearchFacts, KeepsAll
<1>3. assum' = Heavy(f'.poids, minW') /\ minW' \in Nat \ {0}
      BY <1>1, SearchFacts, HeavyInit
<1>4. \A l \in litToRelax' : Spent(f', l)
      BY <1>1 DEF SearchInv, ListInv
<1> QED BY <1>1, <1>2, <1>3, <1>4, SearchFacts, IdleStep

\* A core is paid.
LEMMA Pays ==
  ASSUME SearchInv, Core
  PROVE  SearchInv'
<1>1. PICK C \in (SUBSET assum) \ {{}} : PayCore(C)
      BY DEF Core
<1> DEFINE w == MinPoids(C)
           h == Reweigh(f, C, w)
           c == Wrap(h.cost + w)
<1>2. am' = am /\ minW' = minW /\ am.pc = "idle"
      BY SearchFacts DEF Core, Goto
<1>3. assum = Heavy(f.poids, minW) /\ minW \in Nat \ {0}
      BY DEF Core, Goto, SearchInv, SyncInv, Synced
<1>4. \A l \in C : l \in LitsOf(f.poids) /\ Weight(f.poids, l) >= minW
      BY <1>3 DEF Heavy
<1>5. C \in SUBSET LitsOf(f.poids) /\ \A l \in C : Soft(f, l) /\ Weight(f.poids, l) \in Nat \ {0}
  <2>1. \A l \in C : Weight(f.poids, l) \in Int
        BY <1>4, SearchFacts, WeightFacts
  <2> QED BY <1>3, <1>4, <2>1 DEF Soft
<1>6. w \in Nat \ {0} /\ Affords(f.poids, C, w)
  <2> DEFINE S == {Poids(f, l) : l \in C}
  <2>1. S \in SUBSET (Nat \ {0}) /\ S # {}
        BY <1>1, <1>5 DEF Poids
  <2>2. w = Min(S)
        BY DEF MinPoids
  <2>3. \A l \in C : Weight(f.poids, l) \in S
        BY DEF Poids
  <2> HIDE DEF S, w
  <2>4. Min(S) \in S /\ \A y \in S : Min(S) <= y
        BY <2>1, MinFacts
  <2> QED BY <2>1, <2>2, <2>3, <2>4 DEF Affords
<1>7. /\ f' = [h EXCEPT !.cost = c]
      /\ litToRelax' = litToRelax \cup {l \in C : Poids(f', l) = 0 /\ f.card[Var(l)] # NoCard}
      /\ cardToAdd' = Append(cardToAdd, [lits |-> {-l : l \in C}, w |-> w])
      /\ assum' = assum \ {l \in C : Poids(f', l) < minW}
      BY <1>1 DEF PayCore
<1> HIDE DEF w
<1>8. /\ Keeps(f, h, C) /\ h.card = f.card
      BY <1>5, <1>6, SearchFacts, KeepsReweigh
<1>9. Sound(h) /\ c \in Int
  <2>1. Sound(h)
        BY <1>8 DEF Keeps
  <2>2. h.cost \in Int
        BY <2>1, Fields DEF Sound
  <2> QED BY <1>6, <2>1, <2>2, WrapType
<1> HIDE DEF c
<1>10. Keeps(h, f', {}) /\ f'.poids = h.poids /\ f'.card = h.card
  <2> HIDE DEF h
  <2> QED BY <1>7, <1>9, KeepsCost
<1>11. Keeps(f, f', C)
  <2> HIDE DEF h
  <2> QED BY <1>8, <1>10, SearchFacts, KeepsThen
<1>12. ASSUME NEW x \in litToRelax'
       PROVE  Spent(f', x)
  <2>1. CASE x \in litToRelax
    <3>1. Spent(f, x)
          BY <2>1 DEF SearchInv, ListInv
    <3>2. x \notin C
          BY <1>5, <3>1 DEF Soft, Spent
    <3> QED BY <1>11, <3>1, <3>2, KeepsSpent
  <2>2. CASE x \in C /\ Poids(f', x) = 0 /\ f.card[Var(x)] # NoCard
    <3>1. x < 0
          BY <1>5, <2>2, SearchFacts, SoftFacts
    <3>2. x \in LitsOf(f'.poids)
          BY <1>5, <1>11, <2>2 DEF Keeps
    <3>3. f'.card = f.card
          BY <1>8, <1>10
    <3> QED BY <2>2, <3>1, <3>2, <3>3 DEF Spent, Poids
  <2> QED BY <1>7, <2>1, <2>2
<1>13. cardToAdd' \in PendingCards
  <2>1. {-l : l \in C} \in SUBSET Int
        BY <1>5 DEF LitsOf
  <2>2. [lits |-> {-l : l \in C}, w |-> w] \in [lits : SUBSET Int, w : Nat \ {0}]
        BY <1>6, <2>1
  <2> QED BY <1>7, <2>2, SearchFacts DEF PendingCards
<1>14. assum' = Heavy(f'.poids, minW')
  <2>1. h = Reweigh(f, C, w)
        OBVIOUS
  <2> HIDE DEF h
  <2>2. Heavy(h.poids, minW) = Heavy(f.poids, minW) \ {l \in C : Weight(h.poids, l) < minW}
        BY <1>3, <1>5, <1>6, <2>1, SearchFacts, ReweighHeavy
  <2> QED BY <1>2, <1>3, <1>7, <1>10, <2>2 DEF Poids
<1> QED BY <1>2, <1>3, <1>11, <1>12, <1>13, <1>14, SearchFacts, IdleStep

\* Heavy literals become hard, and the very fast rewriting starts.
LEMMA Hardens ==
  ASSUME SearchInv, HardenNothing \/ HardenSome
  PROVE  SearchInv'
<1> DEFINE mc == MaxCostLit
<1>1. /\ cardToAdd' = cardToAdd /\ litToRelax' = litToRelax /\ minW' = minW
      /\ am.pc = "idle" /\ pc = "harden"
      BY SearchFacts DEF HardenNothing, HardenSome, Goto, search
<1>2. \A l \in litToRelax : Spent(f, l)
      BY DEF SearchInv, ListInv
<1>3. pc = "harden" /\ then # "choose" => assum = Heavy(f.poids, minW)
      BY DEF SearchInv, SyncInv, Synced
<1>4. CASE HardenNothing /\ HardenSkips(f, opt.incremental)
  <2>1. f' = f /\ am' = am /\ assum' = assum /\ pc' = then /\ then' = "none"
        BY <1>4 DEF HardenNothing, Goto, search
  <2>2. Synced' => assum' = Heavy(f'.poids, minW')
        BY <1>1, <1>3, <2>1 DEF Synced
  <2>3. Keeps(f, f', {})
        BY <2>1, SearchFacts, KeepsAll
  <2> QED BY <1>1, <1>2, <2>1, <2>2, <2>3, SearchFacts, IdleStep
<1>5. CASE HardenSome \/ (HardenNothing /\ ~HardenSkips(f, opt.incremental))
  <2>1. f' = Harden(f, mc) /\ DOMAIN f.map # {}
        BY <1>5 DEF HardenNothing, HardenSome, HardenSkips
  <2> HIDE DEF mc
  <2>2. /\ Keeps(f, f', HardenLits(f, mc)) /\ f'.poids = Freed(f.poids, HardenLits(f, mc))
        /\ \A l \in HardenLits(f, mc) : l \in LitsOf(f.poids) /\ Weight(f.poids, l) > 0
        BY <2>1, SearchFacts, KeepsHarden
  <2>3. ASSUME NEW l \in litToRelax'
        PROVE  Spent(f', l)
    <3>1. Spent(f, l)
          BY <1>1, <1>2
    <3>2. l \notin HardenLits(f, mc)
          BY <2>2, <3>1 DEF Spent
    <3> QED BY <2>2, <3>1, <3>2, KeepsSpent
  <2>4. Heavy(f'.poids, minW) = Heavy(f.poids, minW) \ HardenLits(f, mc)
        BY <2>2, SearchFacts, HeavyHarden
  <2>5. CASE HardenNothing /\ ~HardenSkips(f, opt.incremental)
    <3>1. /\ am' = am /\ assum' = assum /\ pc' = then /\ then' = "none"
          /\ HardenLits(f, mc) = {}
          BY <2>5 DEF HardenNothing, Goto, search, mc
    <3>2. Synced' => assum' = Heavy(f'.poids, minW')
          BY <1>1, <1>3, <2>4, <3>1 DEF Synced
    <3> QED BY <1>1, <2>2, <2>3, <3>1, <3>2, SearchFacts, IdleStep
  <2>6. CASE HardenSome
    <3>1. /\ am' = StartScan("veryFast") /\ assum' = assum \ HardenLits(f, mc) /\ then' = then
          /\ pc' = "veryFast"
          BY <2>6 DEF HardenSome, Goto, mc
    <3>2. /\ am' \in AmStates /\ am'.pc = "scan" /\ am'.by = "veryFast" /\ am'.todo = {} /\ am'.active = {}
          BY <3>1 DEF StartScan, AmIdle, AmStates
    <3>3. AmInv'
      <4>1. AmOK(f', am')
            BY <3>2 DEF AmOK
      <4> QED BY <3>1, <3>2, <4>1 DEF AmInv, VeryFastOK
    <3>4. FormulaInv'
          BY <2>2, FormulaKept DEF SearchInv
    <3>5. ListInv'
          BY <1>1, <2>3, SearchFacts DEF ListInv, PendingCards
    <3>6. SyncInv'
          BY <1>1, <1>3, <2>4, <3>1, SearchFacts DEF SyncInv, Synced
    <3> QED BY <3>3, <3>4, <3>5, <3>6 DEF SearchInv
  <2> QED BY <1>5, <2>5, <2>6
<1> QED BY <1>4, <1>5

\* The very fast rewriting is over.
LEMMA VeryFastEnds ==
  ASSUME SearchInv, VeryFastDone
  PROVE  SearchInv'
<1>1. /\ f' = f /\ am' = AmIdle /\ cardToAdd' = cardToAdd /\ litToRelax' = litToRelax /\ minW' = minW
      /\ assum' = IF am.found THEN InitAssum(f, minW) ELSE assum
      /\ pc = "veryFast" /\ pc' = then /\ then' = "none"
      BY DEF VeryFastDone
<1>2. Keeps(f, f', {})
      BY <1>1, SearchFacts, KeepsAll
<1>3. \A l \in litToRelax' : Spent(f', l)
      BY <1>1 DEF SearchInv, ListInv
<1>4. ASSUME Synced'
      PROVE  assum' = Heavy(f'.poids, minW')
  <2>1. then # "choose"
        BY <1>1, <1>4 DEF Synced
  <2>2. CASE am.found
        BY <1>1, <2>2, SearchFacts, HeavyInit
  <2>3. CASE ~am.found
        BY <1>1, <2>1, <2>3 DEF SearchInv, SyncInv, Synced
  <2> QED BY <2>2, <2>3
<1> QED BY <1>1, <1>2, <1>3, <1>4, IdleFacts, SearchFacts, IdleStep

\* Between two calls, a soft unit.
LEMMA AddsSoft ==
  ASSUME SearchInv, AgainAdd
  PROVE  SearchInv'
<1>1. PICK e \in Extra : f' = AddWeight(f, e.lit, e.w)
      BY DEF AgainAdd
<1>2. /\ am' = am /\ am.pc = "idle" /\ cardToAdd' = cardToAdd /\ litToRelax' = litToRelax /\ minW' = minW
      /\ ~Synced'
      BY SearchFacts DEF AgainAdd, Goto, search, Synced
<1> DEFINE l == e.lit
           w == e.w
<1>3. PICK n \in Nat : InputsFree(f, n) /\ Var(l) \in 1..n /\ l \in Int \ {0} /\ w \in Int \ {0}
      BY DEF SearchInv, FormulaInv, UserLits
<1>4. f' = AddWeight(f, l, w)
      BY <1>1
<1> HIDE DEF l, w
<1>5. l \in LitsOf(f.poids) /\ f.card[Var(l)] = NoCard /\ ~IsOutput(f, Var(l))
  <2>1. f.poids \in Seq(Int) /\ f.cards \in Seq(Cards)
        BY SearchFacts, Fields
  <2>2. Var(l) \in DOMAIN f.poids
        BY <1>3, <2>1 DEF InputsFree
  <2>3. ~IsOutput(f, Var(l))
    <3>1. Var(l) \in Nat /\ Var(l) <= n
          BY <1>3
    <3>2. \A c \in DOMAIN f.cards : \A k \in DOMAIN f.cards[c].outs : f.cards[c].outs[k] > n
          BY <1>3 DEF InputsFree
    <3> QED BY <3>1, <3>2 DEF IsOutput
  <2> QED BY <1>3, <2>2, <2>3 DEF LitsOf, InputsFree
<1>6. Keeps(f, f', {l, -l})
  <2>1. Weighs(f, l, w)
        BY <1>3 DEF Weighs
  <2> QED BY <1>3, <1>4, <1>5, <2>1, SearchFacts, KeepsAddWeight
<1>7. ASSUME NEW x \in litToRelax'
      PROVE  Spent(f', x)
  <2>1. Spent(f, x)
        BY <1>2 DEF SearchInv, ListInv
  <2>2. x \notin {l, -l}
    <3>1. Var(-l) = Var(l)
          BY <1>3 DEF Var
    <3> QED BY <1>5, <2>1, <3>1 DEF Spent
  <2> QED BY <1>6, <2>1, <2>2, KeepsSpent
<1> QED BY <1>2, <1>6, <1>7, SearchFacts, IdleStep

\* Between two calls, a hard clause.
LEMMA AddsHard ==
  ASSUME SearchInv, AgainHard
  PROVE  SearchInv'
<1>1. PICK C \in ExtraHard : f' = AddHardClause(f, C)
      BY DEF AgainHard
<1>2. /\ am' = am /\ am.pc = "idle" /\ cardToAdd' = cardToAdd /\ litToRelax' = litToRelax /\ minW' = minW
      /\ ~Synced'
      BY SearchFacts DEF AgainHard, Goto, search, Synced
<1>3. PICK n \in Nat : InputsFree(f, n) /\ \A l \in C : Var(l) \in 1..n /\ l \in Int \ {0}
      BY DEF SearchInv, FormulaInv, UserLits
<1>4. CASE Cardinality(C) = 1
  <2> DEFINE l == CHOOSE x \in C : TRUE
  <2>1. C # {}
        BY <1>4, FS_EmptySet
  <2>2. l \in C /\ f' = HardUnit(f, l)
        BY <1>1, <1>4, <2>1 DEF AddHardClause
  <2> HIDE DEF l
  <2>3. l \in LitsOf(f.poids) /\ f.card[Var(l)] = NoCard
    <3>1. f.poids \in Seq(Int)
          BY SearchFacts
    <3>2. Var(l) \in DOMAIN f.poids
          BY <1>3, <2>2, <3>1 DEF InputsFree
    <3> QED BY <1>3, <2>2, <3>2 DEF LitsOf, InputsFree
  <2>4. Keeps(f, f', {l, -l})
        BY <2>2, <2>3, SearchFacts, KeepsHardUnit
  <2>5. ASSUME NEW x \in litToRelax'
        PROVE  Spent(f', x)
    <3>1. Spent(f, x)
          BY <1>2 DEF SearchInv, ListInv
    <3>2. x \notin {l, -l}
      <4>1. Var(-l) = Var(l)
            BY <1>3, <2>2 DEF Var
      <4> QED BY <2>3, <3>1, <4>1 DEF Spent
    <3> QED BY <2>4, <3>1, <3>2, KeepsSpent
  <2> QED BY <1>2, <2>4, <2>5, SearchFacts, IdleStep
<1>5. CASE Cardinality(C) # 1
  <2>1. f' = AddHard(f, C)
        BY <1>1, <1>5 DEF AddHardClause
  <2>2. /\ IsFormula(f')
        /\ f'.poids = f.poids /\ f'.map = f.map /\ f'.card = f.card /\ f'.cards = f.cards
        BY <2>1, SearchFacts, AddHardFacts
  <2>3. Keeps(f, f', {})
    <3>1. IndexOK(f')
          BY <2>2, SearchFacts DEF IndexOK
    <3> QED BY <2>2, <3>1, SearchFacts, KeepsSame
  <2>4. \A x \in litToRelax' : Spent(f', x)
        BY <1>2, <2>2 DEF SearchInv, ListInv, Spent
  <2> QED BY <1>2, <2>3, <2>4, SearchFacts, IdleStep
<1> QED BY <1>4, <1>5

-----------------------------------------------------------------------------
(***************************************************************************)
(* The steps of the rewriting.  What a step with the locals a -> b may do  *)
(* to the formula and to the outputs that wait to be relaxed.              *)
(***************************************************************************)
\* The literals a step may take away are none that wait elsewhere.
Spares(g, a, X) == \A l : Spent(g, l) /\ (a.pc = "relax" => l \notin a.zeros) => l \notin X

AmGood(g, h, a, b) ==
    /\ b \in AmStates
    /\ b.pc # "idle" => AmOK(h, b)
    /\ VeryFastOK(a) => VeryFastOK(b) /\ (b.found \/ (h = g /\ ~a.found))
    /\ \E X : Keeps(g, h, X) /\ Spares(g, a, X)
    /\ b.pc = "relax" => \A l \in b.zeros : (a.pc = "relax" /\ l \in a.zeros) \/ ~Spent(g, l)

\* What is enough for a step that leaves the formula alone.
LEMMA AmSame ==
  ASSUME Sound(f), f' = f, am' \in AmStates, am'.pc # "idle" => AmOK(f, am'), am'.pc # "relax",
         VeryFastOK(am) => VeryFastOK(am') /\ (am'.found \/ ~am.found)
  PROVE  AmGood(f, f', am, am')
<1>1. Keeps(f, f', {}) /\ Spares(f, am, {})
      BY KeepsAll DEF Spares
<1> QED BY <1>1 DEF AmGood

\* The literal the scan looks at is soft.
LEMMA ScanFacts ==
  ASSUME Sound(f), ScanVars # {}
  PROVE  /\ ScanVar \in DOMAIN f.poids /\ ScanVar \in Nat /\ f.poids[ScanVar] # 0
         /\ Soft(f, ScanLit)
<1>1. f.poids \in Seq(Int)
      BY Fields DEF Sound
<1>2. ScanVars \in SUBSET Nat
      BY <1>1 DEF ScanVars, Vars
<1>3. ScanVar \in ScanVars
      BY <1>2, MinFacts DEF ScanVar
<1>4. ScanVar \in DOMAIN f.poids /\ ScanVar \in Nat \ {0} /\ f.poids[ScanVar] # 0 /\ f.poids[ScanVar] \in Int
      BY <1>1, <1>3 DEF ScanVars, Vars
<1> DEFINE v == ScanVar
<1>5. ScanLit = IF f.poids[v] > 0 THEN v ELSE -v
      BY DEF ScanLit
<1> HIDE DEF v
<1>6. v \in DOMAIN f.poids /\ v \in Nat \ {0} /\ f.poids[v] # 0 /\ f.poids[v] \in Int
      BY <1>4 DEF v
<1>7. Soft(f, ScanLit)
  <2>1. CASE f.poids[v] > 0
        BY <1>5, <1>6, <2>1 DEF Soft, LitsOf, Weight, Var
  <2>2. CASE ~(f.poids[v] > 0)
    <3>1. ScanLit = -v /\ -v < 0 /\ -(-v) = v
          BY <1>5, <1>6, <2>2
    <3>2. -v \in LitsOf(f.poids) /\ Weight(f.poids, -v) = -f.poids[v]
          BY <1>6, <3>1 DEF LitsOf, Weight, Var
    <3> QED BY <1>6, <2>2, <3>1, <3>2 DEF Soft
  <2> QED BY <2>1, <2>2
<1> QED BY <1>4, <1>7

\* Refuting a soft literal.
LEMMA Refutes ==
  ASSUME Sound(f), NEW l, Soft(f, l), NEW g, g = HardUnit(f, -l)
  PROVE  Keeps(f, g, {l, -l}) /\ \A a : Spares(f, a, {l, -l})
<1>1. l \in Int /\ -l \in LitsOf(f.poids) /\ ~Spent(f, l) /\ ~Spent(f, -l)
      BY SoftFacts
<1> DEFINE x == -l
<1>2. l = -x
      BY <1>1
<1>3. x \in LitsOf(f.poids) /\ g = HardUnit(f, x)
      BY <1>1
<1> HIDE DEF x
<1>4. Keeps(f, g, {x, -x})
      BY <1>3, KeepsHardUnit
<1>5. {x, -x} = {l, -l}
      BY <1>2 DEF x
<1> QED BY <1>1, <1>4, <1>5 DEF Spares

\* A soft literal and its negation.
LEMMA OtherSoft ==
  ASSUME Sound(f), NEW l, Soft(f, l), NEW x, Soft(f, x), x # l
  PROVE  x \notin {l, -l}
<1>1. ~Soft(f, -l)
      BY SoftFacts
<1> QED BY <1>1

\* adapt_am1_exact refutes a literal.
LEMMA AmExactRefute ==
  ASSUME Sound(f), am \in AmStates, AmOK(f, am), ExactRefute
  PROVE  AmGood(f, f', am, am')
<1>1. PICK l \in am.todo : f' = HardUnit(f, -l) /\ am' = [am EXCEPT !.todo = am.todo \ {l}]
      BY DEF ExactRefute
<1>2. am.pc = "test" /\ am.by = "exact" /\ am.todo \cap am.active = {} /\ Soft(f, l)
      BY <1>1 DEF ExactRefute, AmOK
<1>3. Keeps(f, f', {l, -l}) /\ \A a : Spares(f, a, {l, -l})
      BY <1>1, <1>2, Refutes
<1>4. /\ am' \in AmStates /\ am'.pc = "test" /\ am'.by = "exact" /\ am'.todo = am.todo \ {l}
      /\ am'.active = am.active
      BY <1>1, <1>2 DEF AmStates
<1>5. ASSUME NEW x, x \in am'.todo \/ x \in am'.active
      PROVE  Soft(f', x)
  <2>1. Soft(f, x) /\ x # l
        BY <1>1, <1>2, <1>4, <1>5 DEF AmOK
  <2>2. x \notin {l, -l}
        BY <1>2, <2>1, OtherSoft
  <2> QED BY <1>3, <2>1, <2>2, KeepsSoft
<1>6. AmOK(f', am')
      BY <1>2, <1>4, <1>5 DEF AmOK, Soft
<1>7. ~VeryFastOK(am)
      BY <1>2 DEF VeryFastOK
<1> QED BY <1>3, <1>4, <1>6, <1>7 DEF AmGood

\* adapt_am1_exact keeps a literal.
LEMMA AmExactKeep ==
  ASSUME Sound(f), am \in AmStates, AmOK(f, am), ExactKeep
  PROVE  AmGood(f, f', am, am')
<1>1. PICK l \in am.todo : am' = [am EXCEPT !.todo = am.todo \ {l}, !.active = am.active \cup {l}]
      BY DEF ExactKeep
<1>2. /\ am.pc = "test" /\ am.by = "exact" /\ am.todo \cap am.active = {} /\ Soft(f, l) /\ f' = f
      /\ am.todo \in SUBSET Int
      BY <1>1 DEF ExactKeep, AmOK, AmStates
<1>3. /\ am' \in AmStates /\ am'.pc = "test" /\ am'.by = "exact" /\ am'.todo = am.todo \ {l}
      /\ am'.active = am.active \cup {l}
      BY <1>1, <1>2 DEF AmStates
<1>4. AmOK(f, am')
      BY <1>2, <1>3 DEF AmOK
<1>5. ~VeryFastOK(am)
      BY <1>2 DEF VeryFastOK
<1> QED BY <1>2, <1>3, <1>4, <1>5, AmSame

\* adapt_am1_exact merges a clique.
LEMMA AmExactClique ==
  ASSUME Sound(f), am \in AmStates, AmOK(f, am), ExactClique
  PROVE  AmGood(f, f', am, am')
<1>1. PICK C \in SUBSET am.active : Cardinality(C) > 2 /\ am' = StartClique([am EXCEPT !.active = am.active \ C], C)
      BY DEF ExactClique
<1>2. /\ am.pc = "test" /\ am.by = "exact" /\ f' = f
      /\ am.active \in SUBSET Int
      BY <1>1 DEF ExactClique, AmOK, AmStates
<1>3. /\ am' \in AmStates /\ am'.pc = "reduce" /\ am'.by = "exact" /\ am'.todo = am.todo
      /\ am'.active = am.active \ C /\ am'.clause = C /\ am'.newAssum = {}
      BY <1>1, <1>2 DEF AmStates, StartClique
<1>4. C # {}
      BY <1>1, FS_EmptySet
<1>5. CliqueOK(f, am')
      BY <1>3 DEF CliqueOK, AmOK
<1>6. AmOK(f, am')
      BY <1>3, <1>4, <1>5 DEF AmOK
<1>7. ~VeryFastOK(am)
      BY <1>2 DEF VeryFastOK
<1> QED BY <1>2, <1>3, <1>6, <1>7, AmSame

\* adapt_am1_exact ends, and the scan of the fast heuristic begins.
LEMMA AmExactStop ==
  ASSUME Sound(f), am \in AmStates, AmOK(f, am), ExactStop
  PROVE  AmGood(f, f', am, am')
<1>1. am' = StartScan("fast") /\ f' = f /\ am.pc = "test" /\ am.by = "exact"
      BY DEF ExactStop, AmOK
<1>2. am' \in AmStates /\ am'.pc = "scan" /\ am'.by = "fast" /\ am'.todo = {} /\ am'.active = {}
      BY <1>1 DEF StartScan, AmIdle, AmStates
<1>3. AmOK(f, am')
      BY <1>2 DEF AmOK
<1>4. ~VeryFastOK(am)
      BY <1>1 DEF VeryFastOK
<1> QED BY <1>1, <1>2, <1>3, <1>4, AmSame

\* A scan ends.
LEMMA AmScanDone ==
  ASSUME Sound(f), am \in AmStates, AmOK(f, am), ScanDone
  PROVE  AmGood(f, f', am, am')
<1>1. am' = [AmIdle EXCEPT !.found = (am.by = "veryFast" /\ am.found)] /\ f' = f /\ am.pc = "scan"
      BY DEF ScanDone
<1>2. am' \in AmStates /\ am'.pc = "idle" /\ am'.found = (am.by = "veryFast" /\ am.found)
      BY <1>1 DEF AmIdle, AmStates
<1>3. VeryFastOK(am) => VeryFastOK(am') /\ (am'.found \/ ~am.found)
      BY <1>1, <1>2 DEF VeryFastOK
<1> QED BY <1>1, <1>2, <1>3, AmSame

\* The next variable of a scan.
LEMMA AmNextVar ==
  ASSUME NEW a \in AmStates, NEW v \in Nat, NEW b, b = ScanNext(a, v)
  PROVE  /\ b \in AmStates /\ b.pc = "scan" /\ b.by = a.by /\ b.todo = {} /\ b.active = a.active
         /\ b.found = a.found
<1>1. b = [a EXCEPT !.pc = "scan", !.var = v + 1, !.todo = {}] /\ v + 1 \in Nat
      BY DEF ScanNext
<1>2. b \in AmStates
      BY <1>1 DEF AmStates
<1>3. b.pc = "scan" /\ b.by = a.by /\ b.todo = {} /\ b.active = a.active
      BY <1>1 DEF AmStates
<1>4. b.found = a.found
      BY <1>1 DEF AmStates
<1> QED BY <1>2, <1>3, <1>4

\* A scan refutes a literal.
LEMMA AmScanRefute ==
  ASSUME Sound(f), am \in AmStates, AmOK(f, am), ScanRefute
  PROVE  AmGood(f, f', am, am')
<1> DEFINE a == [am EXCEPT !.found = TRUE]
<1>1. /\ am.pc = "scan" /\ ScanVars # {} /\ f' = HardUnit(f, -ScanLit)
      /\ am' = ScanNext(a, ScanVar)
      BY DEF ScanRefute
<1>2. am.by # "exact" /\ am.active = {}
      BY <1>1 DEF AmOK
<1>3. a \in AmStates /\ a.by = am.by /\ a.active = am.active /\ a.found = TRUE
      BY DEF AmStates
<1> HIDE DEF a
<1>4. /\ am' \in AmStates /\ am'.pc = "scan" /\ am'.by = am.by /\ am'.todo = {} /\ am'.active = {}
      /\ am'.found = TRUE
      BY <1>1, <1>2, <1>3, ScanFacts, AmNextVar
<1>5. Keeps(f, f', {ScanLit, -ScanLit}) /\ \A b : Spares(f, b, {ScanLit, -ScanLit})
      BY <1>1, ScanFacts, Refutes
<1>6. AmOK(f', am')
      BY <1>2, <1>4 DEF AmOK
<1>7. VeryFastOK(am) => VeryFastOK(am')
      BY <1>1, <1>4 DEF VeryFastOK
<1> QED BY <1>4, <1>5, <1>6, <1>7 DEF AmGood

\* A scan finds nothing at a variable.
LEMMA AmScanNothing ==
  ASSUME Sound(f), am \in AmStates, AmOK(f, am), ScanNothing
  PROVE  AmGood(f, f', am, am')
<1>1. am.pc = "scan" /\ ScanVars # {} /\ f' = f /\ am' = ScanNext(am, ScanVar)
      BY DEF ScanNothing
<1>2. am.by # "exact" /\ am.active = {}
      BY <1>1 DEF AmOK
<1>3. /\ am' \in AmStates /\ am'.pc = "scan" /\ am'.by = am.by /\ am'.todo = {} /\ am'.active = {}
      /\ am'.found = am.found
      BY <1>1, <1>2, ScanFacts, AmNextVar
<1>4. AmOK(f, am')
      BY <1>2, <1>3 DEF AmOK
<1>5. VeryFastOK(am) => VeryFastOK(am') /\ (am'.found \/ ~am.found)
      BY <1>1, <1>3 DEF VeryFastOK
<1> QED BY <1>1, <1>3, <1>4, <1>5, AmSame

\* What is enough to start processAtMostOne from a scan.
LEMMA AmStarts ==
  ASSUME Sound(f), f' = f, NEW C, C # {}, \A l \in C : Soft(f, l), am.by # "exact", am.active = {},
         NEW v \in DOMAIN f.poids, v \in Nat,
         am' \in AmStates, am'.pc = "reduce", am'.by = am.by, am'.active = {}, am'.clause = C,
         am'.newAssum = {}, am'.var = v, am'.todo \subseteq LitsOf(f.poids), am'.found = TRUE
  PROVE  AmGood(f, f', am, am') \/ am.pc = "idle"
<1>1. CliqueOK(f, am')
      BY DEF CliqueOK
<1>2. AmOK(f, am')
      BY <1>1 DEF AmOK
<1>3. am.pc # "idle" /\ VeryFastOK(am) => VeryFastOK(am') /\ (am'.found \/ ~am.found)
      BY DEF VeryFastOK
<1> QED BY <1>2, <1>3, AmSame

\* The fast heuristic merges a clique.
LEMMA AmFastClique ==
  ASSUME Sound(f), am \in AmStates, AmOK(f, am), FastClique
  PROVE  AmGood(f, f', am, am')
<1>1. PICK D \in SUBSET Excludes(ScanLit) :
        am' = StartClique([am EXCEPT !.var = ScanVar, !.found = TRUE], D \cup {ScanLit})
      BY DEF FastClique
<1>2. am.pc = "scan" /\ am.by = "fast" /\ ScanVars # {} /\ f' = f
      BY DEF FastClique
<1>3. am.active = {} /\ am.todo \subseteq LitsOf(f.poids)
      BY <1>2 DEF AmOK
<1> DEFINE C == D \cup {ScanLit}
           v == ScanVar
<1>4. \A l \in C : Soft(f, l)
  <2>1. \A l \in SoftLits(f) : Soft(f, l)
        BY SoftLitsFacts DEF Sound, Soft
  <2>2. Soft(f, ScanLit)
        BY <1>2, ScanFacts
  <2> QED BY <2>1, <2>2 DEF Excludes
<1>5. C # {} /\ C \in SUBSET Int
      BY <1>4 DEF Soft, LitsOf
<1>6. v \in DOMAIN f.poids /\ v \in Nat
      BY <1>2, ScanFacts
<1>7. am' = StartClique([am EXCEPT !.var = v, !.found = TRUE], C)
      BY <1>1
<1> HIDE DEF C, v
<1>8. /\ am' \in AmStates /\ am'.pc = "reduce" /\ am'.by = am.by /\ am'.active = {} /\ am'.clause = C
      /\ am'.newAssum = {} /\ am'.var = v /\ am'.todo = am.todo /\ am'.found = TRUE
      BY <1>3, <1>5, <1>6, <1>7 DEF AmStates, StartClique
<1> QED BY <1>2, <1>3, <1>4, <1>5, <1>6, <1>8, AmStarts

\* The very fast heuristic lists what a literal excludes.
LEMMA AmVeryFastProp ==
  ASSUME Sound(f), am \in AmStates, AmOK(f, am), VeryFastProp
  PROVE  AmGood(f, f', am, am')
<1>1. PICK P \in SUBSET Excludes(ScanLit) : am' = [am EXCEPT !.pc = "pair", !.var = ScanVar, !.todo = P]
      BY DEF VeryFastProp
<1>2. am.pc = "scan" /\ am.by = "veryFast" /\ ScanVars # {} /\ f' = f
      BY DEF VeryFastProp
<1>3. am.active = {}
      BY <1>2 DEF AmOK
<1>4. P \subseteq LitsOf(f.poids) /\ P \in SUBSET Int
  <2>1. \A l \in SoftLits(f) : l \in LitsOf(f.poids)
        BY SoftLitsFacts DEF Sound
  <2> QED BY <2>1 DEF Excludes, LitsOf
<1>5. ScanVar \in DOMAIN f.poids /\ ScanVar \in Nat /\ f.poids[ScanVar] # 0
      BY <1>2, ScanFacts
<1>6. /\ am' \in AmStates /\ am'.pc = "pair" /\ am'.by = "veryFast" /\ am'.active = {} /\ am'.todo = P
      /\ am'.var = ScanVar /\ am'.found = am.found
      BY <1>1, <1>2, <1>3, <1>4, <1>5 DEF AmStates
<1>7. AmOK(f, am')
      BY <1>4, <1>5, <1>6 DEF AmOK
<1>8. VeryFastOK(am) => VeryFastOK(am') /\ (am'.found \/ ~am.found)
      BY <1>6 DEF VeryFastOK
<1> QED BY <1>2, <1>6, <1>7, <1>8, AmSame

\* The very fast heuristic takes the next of them.
LEMMA AmVeryFastPair ==
  ASSUME Sound(f), am \in AmStates, AmOK(f, am), VeryFastPair
  PROVE  AmGood(f, f', am, am')
<1>1. PICK l \in am.todo :
        am' = IF Poids(f, l) > 0
              THEN StartClique([[am EXCEPT !.todo = am.todo \ {l}] EXCEPT !.found = TRUE], {l, ScanLit})
              ELSE IF [am EXCEPT !.todo = am.todo \ {l}].todo = {}
                   THEN ScanNext([am EXCEPT !.todo = am.todo \ {l}], am.var)
                   ELSE [am EXCEPT !.todo = am.todo \ {l}]
      BY DEF VeryFastPair
<1> DEFINE a == [am EXCEPT !.todo = am.todo \ {l}]
           b == [a EXCEPT !.found = TRUE]
           C == {l, ScanLit}
<1>2. am.pc = "pair" /\ f' = f
      BY DEF VeryFastPair
<1>3. /\ am.active = {} /\ am.todo \subseteq LitsOf(f.poids) /\ am.by # "exact"
      /\ am.var \in DOMAIN f.poids /\ f.poids[am.var] # 0 /\ am.var \in Nat
      BY <1>2 DEF AmOK, AmStates
<1>4. /\ a \in AmStates /\ a.pc = "pair" /\ a.by = am.by /\ a.active = {} /\ a.todo = am.todo \ {l}
      /\ a.var = am.var /\ a.found = am.found
      BY <1>2, <1>3 DEF AmStates
<1>5. am' = IF Poids(f, l) > 0 THEN StartClique(b, C) ELSE IF a.todo = {} THEN ScanNext(a, am.var) ELSE a
      BY <1>1
<1> HIDE DEF a, C
<1>6. CASE Poids(f, l) > 0
  <2>1. ScanVars # {}
        BY <1>3 DEF ScanVars, Vars
  <2>2. (\A x \in C : Soft(f, x)) /\ C # {} /\ C \in SUBSET Int
    <3>1. Soft(f, l) /\ Soft(f, ScanLit)
          BY <1>3, <1>6, <2>1, ScanFacts DEF Soft, Poids
    <3> QED BY <3>1 DEF C, Soft, LitsOf
  <2>3. am' = StartClique(b, C)
        BY <1>5, <1>6
  <2>4. b \in AmStates /\ b.by = am.by /\ b.active = {} /\ b.todo = a.todo /\ b.var = am.var /\ b.found = TRUE
        BY <1>4 DEF AmStates
  <2> HIDE DEF b
  <2>5. /\ am' \in AmStates /\ am'.pc = "reduce" /\ am'.by = am.by /\ am'.active = {} /\ am'.clause = C
        /\ am'.newAssum = {} /\ am'.var = am.var /\ am'.todo = a.todo /\ am'.found = TRUE
        BY <2>2, <2>3, <2>4 DEF AmStates, StartClique
  <2>6. am'.todo \subseteq LitsOf(f.poids)
        BY <1>3, <1>4, <2>5
  <2> QED BY <1>2, <1>3, <2>2, <2>5, <2>6, AmStarts
<1>7. CASE ~(Poids(f, l) > 0) /\ a.todo = {}
  <2>1. am' = ScanNext(a, am.var)
        BY <1>5, <1>7
  <2>2. /\ am' \in AmStates /\ am'.pc = "scan" /\ am'.by = am.by /\ am'.todo = {} /\ am'.active = {}
        /\ am'.found = am.found
        BY <1>3, <1>4, <2>1, AmNextVar
  <2>3. AmOK(f, am')
        BY <1>3, <2>2 DEF AmOK
  <2>4. VeryFastOK(am) => VeryFastOK(am') /\ (am'.found \/ ~am.found)
        BY <1>2, <2>2 DEF VeryFastOK
  <2> QED BY <1>2, <2>2, <2>3, <2>4, AmSame
<1>8. CASE ~(Poids(f, l) > 0) /\ a.todo # {}
  <2>1. am' = a
        BY <1>5, <1>8
  <2>2. AmOK(f, am')
        BY <1>3, <1>4, <2>1 DEF AmOK
  <2>3. VeryFastOK(am) => VeryFastOK(am') /\ (am'.found \/ ~am.found)
        BY <1>2, <1>4, <2>1 DEF VeryFastOK
  <2> QED BY <1>2, <1>4, <2>1, <2>2, <2>3, AmSame
<1> QED BY <1>6, <1>7, <1>8

\* Variables stay.
LEMMA KeepsVar ==
  ASSUME Sound(f), NEW g, NEW X, Keeps(f, g, X), NEW v \in DOMAIN f.poids
  PROVE  v \in DOMAIN g.poids
<1>1. f.poids \in Seq(Int)
      BY Fields DEF Sound
<1>2. v \in Nat \ {0}
      BY <1>1
<1>3. v \in LitsOf(f.poids)
      BY <1>2 DEF LitsOf, Var
<1>4. v \in LitsOf(g.poids)
      BY <1>3 DEF Keeps
<1> QED BY <1>2, <1>4 DEF LitsOf, Var

\* The least weight of soft literals.
LEMMA LeastWeight ==
  ASSUME Sound(f), NEW C, C # {}, \A l \in C : Soft(f, l), NEW w, w = MinPoids(C)
  PROVE  /\ w \in Nat \ {0} /\ C \in SUBSET LitsOf(f.poids) /\ Affords(f.poids, C, w)
         /\ \A l \in C : Weight(f.poids, l) \in Nat
<1> DEFINE S == {Poids(f, l) : l \in C}
<1>1. C \in SUBSET LitsOf(f.poids) /\ \A l \in C : Weight(f.poids, l) > 0
      BY DEF Soft
<1>2. \A l \in C : Weight(f.poids, l) \in Int
      BY <1>1, Opposites
<1>3. S \in SUBSET (Nat \ {0}) /\ S # {} /\ \A l \in C : Weight(f.poids, l) \in S
      BY <1>1, <1>2 DEF Poids
<1>4. w = Min(S)
      BY DEF MinPoids
<1> HIDE DEF S
<1>5. Min(S) \in S /\ \A y \in S : Min(S) <= y
      BY <1>3, MinFacts
<1>6. Affords(f.poids, C, w)
      BY <1>3, <1>4, <1>5 DEF Affords
<1> QED BY <1>1, <1>3, <1>4, <1>5, <1>6

\* processAtMostOne takes the least weight from the clause.
LEMMA AmReduce ==
  ASSUME Sound(f), am \in AmStates, AmOK(f, am), AmoReduce
  PROVE  AmGood(f, f', am, am')
<1> DEFINE C == am.clause
           w == MinPoids(C)
           Z == {l \in C : Poids(f, l) = w}
           Y == {l \in Z : f.card[Var(l)] # NoCard}
<1>1. /\ f' = Reweigh(f, C, w)
      /\ am' = [am EXCEPT !.pc = "relax", !.saved = C, !.w = w, !.clause = C \ Z, !.zeros = Y]
      /\ am.pc = "reduce"
      BY DEF AmoReduce
<1>2. C # {} /\ CliqueOK(f, am) /\ C \in SUBSET Int
      BY <1>1 DEF AmOK, AmStates
<1>3. \A l \in C : Soft(f, l)
      BY <1>2 DEF CliqueOK
<1>4. Z \subseteq C /\ Y \subseteq Z /\ \A l \in Y : f.card[Var(l)] # NoCard
      OBVIOUS
<1>5. \A l \in C : l \in Z <=> Weight(f.poids, l) = w
      BY DEF Poids
<1>6. w = MinPoids(C)
      OBVIOUS
<1> HIDE DEF C, w, Z, Y
<1>7. /\ w \in Nat \ {0} /\ C \in SUBSET LitsOf(f.poids) /\ Affords(f.poids, C, w)
      /\ \A l \in C : Weight(f.poids, l) \in Nat
      BY <1>2, <1>3, <1>6, LeastWeight
<1>8. Keeps(f, f', C) /\ f'.card = f.card
      BY <1>1, <1>7, KeepsReweigh
<1>9. \A l \in C : Weight(f'.poids, l) = Weight(f.poids, l) - w
      BY <1>1, <1>7, KeepsReweigh
<1>10. /\ am' \in AmStates /\ am'.pc = "relax" /\ am'.by = am.by /\ am'.var = am.var /\ am'.todo = am.todo
       /\ am'.active = am.active /\ am'.clause = C \ Z /\ am'.saved = C /\ am'.w = w /\ am'.zeros = Y
       /\ am'.newAssum = am.newAssum /\ am'.found = am.found
       BY <1>1, <1>2, <1>4, <1>7 DEF AmStates
<1>11. ASSUME NEW l \in C \ Z
       PROVE  Soft(f', l)
  <2>1. Weight(f.poids, l) >= w /\ Weight(f.poids, l) # w
        BY <1>5, <1>7, <1>11 DEF Affords
  <2>2. l \in LitsOf(f'.poids)
        BY <1>7, <1>8, <1>11 DEF Keeps
  <2> QED BY <1>7, <1>9, <1>11, <2>1, <2>2 DEF Soft
<1>12. ASSUME NEW l \in Y
       PROVE  Spent(f', l)
  <2>1. l \in C /\ Weight(f.poids, l) = w /\ f.card[Var(l)] # NoCard
        BY <1>4, <1>5
  <2>2. Weight(f'.poids, l) = 0
        BY <1>7, <1>9, <2>1
  <2>3. l < 0
        BY <1>3, <2>1, SoftFacts
  <2>4. l \in LitsOf(f'.poids)
        BY <1>7, <1>8, <2>1 DEF Keeps
  <2> QED BY <1>8, <2>1, <2>2, <2>3, <2>4 DEF Spent
<1>13. ASSUME NEW l, l \in am.active \/ l \in am.newAssum
       PROVE  Soft(f', l)
  <2>1. Soft(f, l) /\ l \notin C
        BY <1>2, <1>13 DEF AmOK, CliqueOK, C
  <2> QED BY <1>8, <2>1, KeepsSoft
<1>14. CliqueOK(f', am')
  <2>1. am.by = "veryFast" => am.var \in DOMAIN f'.poids
        BY <1>2, <1>8, KeepsVar DEF CliqueOK
  <2> QED BY <1>2, <1>10, <1>11, <1>13, <2>1 DEF CliqueOK, C
<1>15. AmOK(f', am')
  <2>1. LitsOf(f.poids) \subseteq LitsOf(f'.poids)
        BY <1>8 DEF Keeps
  <2>2. am.todo \subseteq LitsOf(f.poids) /\ (am.by # "exact" => am.active = {})
        BY DEF AmOK
  <2> QED BY <1>7, <1>10, <1>12, <1>13, <1>14, <2>1, <2>2 DEF AmOK
<1>16. Spares(f, am, C) /\ \A l \in Y : ~Spent(f, l)
       BY <1>3, <1>4, SoftFacts DEF Spares
<1>17. VeryFastOK(am) => VeryFastOK(am') /\ am'.found
       BY <1>1, <1>10 DEF VeryFastOK
<1> QED BY <1>8, <1>10, <1>15, <1>16, <1>17 DEF AmGood

\* processAtMostOne relaxes an output it has spent.
LEMMA AmRelax ==
  ASSUME Sound(f), am \in AmStates, AmOK(f, am), AmoRelax
  PROVE  AmGood(f, f', am, am')
<1>1. PICK l \in am.zeros : f' = Relax(f, l) /\ am' = [am EXCEPT !.zeros = am.zeros \ {l}]
      BY DEF AmoRelax
<1>2. am.pc = "relax"
      BY DEF AmoRelax
<1>3. /\ CliqueOK(f, am) /\ am.saved \subseteq LitsOf(f.poids) /\ am.w \in Nat \ {0}
      /\ \A x \in am.zeros : Spent(f, x)
      BY <1>2 DEF AmOK
<1>4. l \in LitsOf(f.poids) /\ l < 0 /\ Spent(f, l)
      BY <1>3 DEF Spent
<1>5. Keeps(f, f', {l})
      BY <1>1, <1>4, KeepsRelax
<1>6. /\ am' \in AmStates /\ am'.pc = "relax" /\ am'.by = am.by /\ am'.var = am.var /\ am'.todo = am.todo
      /\ am'.active = am.active /\ am'.clause = am.clause /\ am'.saved = am.saved /\ am'.w = am.w
      /\ am'.zeros = am.zeros \ {l} /\ am'.newAssum = am.newAssum /\ am'.found = am.found
      BY <1>1, <1>2 DEF AmStates
<1>7. ASSUME NEW x, Soft(f, x)
      PROVE  Soft(f', x)
  <2>1. x \notin {l}
        BY <1>4, <1>7, SoftFacts
  <2> QED BY <1>5, <1>7, <2>1, KeepsSoft
<1>8. ASSUME NEW x \in am'.zeros
      PROVE  Spent(f', x)
  <2>1. Spent(f, x) /\ x \notin {l}
        BY <1>3, <1>6
  <2> QED BY <1>5, <2>1, KeepsSpent
<1>9. CliqueOK(f', am')
  <2>1. am.by = "veryFast" => am.var \in DOMAIN f'.poids
        BY <1>3, <1>5, KeepsVar DEF CliqueOK
  <2> QED BY <1>3, <1>6, <1>7, <2>1 DEF CliqueOK
<1>10. AmOK(f', am')
  <2>1. LitsOf(f.poids) \subseteq LitsOf(f'.poids)
        BY <1>5 DEF Keeps
  <2>2. /\ am.todo \subseteq LitsOf(f.poids) /\ (am.by # "exact" => am.active = {})
        /\ \A x \in am.active : Soft(f, x)
        BY DEF AmOK
  <2> QED BY <1>3, <1>6, <1>7, <1>8, <1>9, <2>1, <2>2 DEF AmOK
<1>11. Spares(f, am, {l})
       BY <1>1, <1>2 DEF Spares
<1>12. VeryFastOK(am) => VeryFastOK(am') /\ am'.found
       BY <1>2, <1>6 DEF VeryFastOK
<1> QED BY <1>2, <1>5, <1>6, <1>10, <1>11, <1>12 DEF AmGood

\* A formula has finitely many literals.
LEMMA LitsFinite ==
  ASSUME NEW poids \in Seq(Int), NEW C \in SUBSET LitsOf(poids)
  PROVE  Cardinality(C) \in Nat
<1> DEFINE n == Len(poids)
<1>1. n \in Nat /\ DOMAIN poids = 1..n
      OBVIOUS
<1>2. LitsOf(poids) \subseteq (-n)..n
      BY <1>1 DEF LitsOf, Var
<1>3. IsFiniteSet((-n)..n)
      BY <1>1, FS_Interval
<1>4. IsFiniteSet(C)
      BY <1>2, <1>3, FS_Subset
<1> QED BY <1>4, FS_CardinalityType

\* The clause becomes soft: the formula.
LEMMA SoftClauseFacts ==
  ASSUME Sound(f), NEW S, S \subseteq LitsOf(f.poids), NEW w \in Nat \ {0},
         NEW n, n = Len(f.poids) + 1,
         NEW g, g = SoftClause([f EXCEPT !.cost = Wrap(f.cost + w * (Cardinality(S) - 1))], S, w)
  PROVE  Keeps(f, g, {}) /\ Soft(g, n) /\ n \notin LitsOf(f.poids) /\ n \in Int
<1> DEFINE c == Wrap(f.cost + w * (Cardinality(S) - 1))
           h == [f EXCEPT !.cost = c]
           T == UNION {True(h, l) : l \in S}
<1>1. c \in Int
  <2>1. f.poids \in Seq(Int) /\ f.cost \in Int
        BY Fields DEF Sound
  <2>2. Cardinality(S) \in Nat
        BY <2>1, LitsFinite
  <2>3. f.cost + w * (Cardinality(S) - 1) \in Int
        BY <2>1, <2>2
  <2> QED BY <2>3, WrapType
<1>2. g = SoftVar(h, w, T)
      BY DEF SoftClause, SoftVar
<1> HIDE DEF c
<1>3. h = [f EXCEPT !.cost = c]
      OBVIOUS
<1> HIDE DEF h
<1>4. Keeps(f, h, {}) /\ h.poids = f.poids
      BY <1>1, <1>3, KeepsCost
<1>5. Sound(h) /\ IsFormula(h)
      BY <1>4 DEF Keeps, Sound
<1>6. T \in SUBSET Points
  <2>1. \A l \in S : True(h, l) \in SUBSET Points
        BY <1>4, <1>5, TruePoints
  <2> QED BY <2>1
<1> HIDE DEF T
<1>7. n = Len(h.poids) + 1
      BY <1>4
<1>8. Keeps(h, g, {}) /\ n \in LitsOf(g.poids) /\ n \notin LitsOf(h.poids) /\ Weight(g.poids, n) = w
      BY ONLY w \in Nat \ {0}, <1>2, <1>5, <1>6, <1>7, KeepsSoftVar
<1>9. Keeps(f, g, {})
      BY <1>4, <1>8, KeepsThen
<1>10. Soft(g, n)
       BY <1>8 DEF Soft
<1> QED BY <1>4, <1>8, <1>9, <1>10 DEF LitsOf

\* processAtMostOne makes the clause soft.
LEMMA AmSoft ==
  ASSUME Sound(f), am \in AmStates, AmOK(f, am), AmoSoft
  PROVE  AmGood(f, f', am, am')
<1> DEFINE n   == Len(f.poids) + 1
           new == am.newAssum \cup {n}
           a   == [am EXCEPT !.saved = {}, !.w = 0, !.clause = {}, !.newAssum = {}]
<1>1. /\ f' = SoftClause([f EXCEPT !.cost = Wrap(f.cost + am.w * (Cardinality(am.saved) - 1))], am.saved, am.w)
      /\ am' = IF Cardinality(am.clause) > 1
               THEN [am EXCEPT !.pc = "reduce", !.newAssum = new]
               ELSE Resume(f', a, new \cup am.clause)
      /\ am.pc = "relax"
      BY DEF AmoSoft
<1>2. /\ CliqueOK(f, am) /\ am.saved \subseteq LitsOf(f.poids) /\ am.w \in Nat \ {0}
      BY <1>1 DEF AmOK
<1>3. /\ am.todo \subseteq LitsOf(f.poids) /\ (am.by # "exact" => am.active = {})
      /\ \A x \in am.active : Soft(f, x)
      BY DEF AmOK
<1>4. n = Len(f.poids) + 1
      OBVIOUS
<1>5. new = am.newAssum \cup {n}
      OBVIOUS
<1> HIDE DEF n, new
<1>6. Keeps(f, f', {}) /\ Soft(f', n) /\ n \notin LitsOf(f.poids) /\ n \in Int
      BY <1>1, <1>2, <1>4, SoftClauseFacts
<1>7. ASSUME NEW x, Soft(f, x)
      PROVE  Soft(f', x) /\ x # n
  <2>1. x \notin {}
        OBVIOUS
  <2> QED BY <1>6, <1>7, <2>1, KeepsSoft DEF Soft
<1>8. /\ \A x \in new : Soft(f', x)
      /\ \A x \in am.clause : Soft(f', x) /\ x \notin new
      /\ \A x \in am.active : Soft(f', x) /\ x \notin new /\ x \notin am.clause
      BY <1>2, <1>3, <1>5, <1>6, <1>7 DEF CliqueOK
<1>9. am.by = "veryFast" => am.var \in DOMAIN f'.poids
      BY <1>2, <1>6, KeepsVar DEF CliqueOK
<1>10. am.todo \subseteq LitsOf(f'.poids)
       BY <1>3, <1>6 DEF Keeps
<1>11. new \in SUBSET Int /\ am.clause \in SUBSET Int
       BY <1>5, <1>6 DEF AmStates
<1>12. Spares(f, am, {})
       BY DEF Spares
<1>13. CASE Cardinality(am.clause) > 1
  <2>1. am' = [am EXCEPT !.pc = "reduce", !.newAssum = new]
        BY <1>1, <1>13
  <2>2. /\ am' \in AmStates /\ am'.pc = "reduce" /\ am'.by = am.by /\ am'.var = am.var /\ am'.todo = am.todo
        /\ am'.active = am.active /\ am'.clause = am.clause /\ am'.newAssum = new /\ am'.found = am.found
        BY <1>11, <2>1 DEF AmStates
  <2>3. am.clause # {}
        BY <1>13, FS_EmptySet
  <2>4. CliqueOK(f', am')
        BY <1>8, <1>9, <2>2 DEF CliqueOK
  <2>5. AmOK(f', am')
        BY <1>3, <1>8, <1>10, <2>2, <2>3, <2>4 DEF AmOK
  <2>6. VeryFastOK(am) => VeryFastOK(am') /\ am'.found
        BY <1>1, <2>2 DEF VeryFastOK
  <2> QED BY <1>6, <1>12, <2>2, <2>5, <2>6 DEF AmGood
<1>14. CASE ~(Cardinality(am.clause) > 1)
  <2> DEFINE N == new \cup am.clause
  <2>1. am' = Resume(f', a, N)
        BY <1>1, <1>14
  <2>2. /\ a \in AmStates /\ a.pc = "relax" /\ a.by = am.by /\ a.var = am.var /\ a.todo = am.todo
        /\ a.active = am.active /\ a.found = am.found
        BY <1>1 DEF AmStates
  <2>3. N \in SUBSET Int /\ \A x \in N : Soft(f', x) /\ x \notin am.active
        BY <1>8, <1>11
  <2> HIDE DEF a, N
  <2>4. CASE a.by = "exact"
    <3>1. am' = [a EXCEPT !.pc = "test", !.todo = N]
          BY <2>1, <2>4 DEF Resume
    <3>2. /\ am' \in AmStates /\ am'.pc = "test" /\ am'.by = "exact" /\ am'.todo = N /\ am'.active = am.active
          BY <2>2, <2>3, <2>4, <3>1 DEF AmStates
    <3>3. N \subseteq LitsOf(f'.poids) /\ am'.todo \cap am'.active = {}
          BY <2>3, <3>2 DEF Soft
    <3>4. AmOK(f', am')
          BY <1>8, <2>3, <3>2, <3>3 DEF AmOK
    <3>5. ~VeryFastOK(am)
          BY <1>1, <2>2, <2>4 DEF VeryFastOK
    <3> QED BY <1>6, <1>12, <3>2, <3>4, <3>5 DEF AmGood
  <2>5. CASE a.by # "exact" /\ a.by = "veryFast" /\ a.todo # {} /\ f'.poids[a.var] # 0
    <3>1. am' = [a EXCEPT !.pc = "pair"]
          BY <2>1, <2>5 DEF Resume
    <3>2. /\ am' \in AmStates /\ am'.pc = "pair" /\ am'.by = "veryFast" /\ am'.todo = am.todo
          /\ am'.active = am.active /\ am'.found = am.found /\ am'.var = am.var
          BY <2>2, <2>5, <3>1 DEF AmStates
    <3>3. AmOK(f', am')
          BY <1>3, <1>8, <1>9, <1>10, <2>2, <2>5, <3>2 DEF AmOK
    <3>4. VeryFastOK(am) => VeryFastOK(am') /\ am'.found
          BY <1>1, <3>2 DEF VeryFastOK
    <3> QED BY <1>6, <1>12, <3>2, <3>3, <3>4 DEF AmGood
  <2>6. CASE a.by # "exact" /\ ~(a.by = "veryFast" /\ a.todo # {} /\ f'.poids[a.var] # 0)
    <3>1. am' = ScanNext(a, a.var)
          BY <2>1, <2>6 DEF Resume
    <3>2. a.var \in Nat
          BY <2>2 DEF AmStates
    <3>3. /\ am' \in AmStates /\ am'.pc = "scan" /\ am'.by = am.by /\ am'.todo = {} /\ am'.active = am.active
          /\ am'.found = am.found
          BY <2>2, <3>1, <3>2, AmNextVar
    <3>4. AmOK(f', am')
          BY <1>3, <1>8, <2>2, <2>6, <3>3 DEF AmOK
    <3>5. VeryFastOK(am) => VeryFastOK(am') /\ am'.found
          BY <1>1, <3>3 DEF VeryFastOK
    <3> QED BY <1>6, <1>12, <3>3, <3>4, <3>5 DEF AmGood
  <2> QED BY <2>4, <2>5, <2>6
<1> QED BY <1>13, <1>14

\* The rewriting starts.
LEMMA StartsAM1 ==
  ASSUME SearchInv, StartAM1
  PROVE  SearchInv'
<1>1. /\ f' = f /\ am' = StartExact(f) /\ pc' = "am1" /\ minW' = minW
      /\ cardToAdd' = cardToAdd /\ litToRelax' = litToRelax
      BY DEF StartAM1, Goto
<1>2. InitAssum(f, 1) = Heavy(f.poids, 1)
      BY SearchFacts, HeavyInit
<1> DEFINE T == InitAssum(f, 1)
<1>3. T \in SUBSET Int /\ T \subseteq LitsOf(f.poids) /\ \A l \in T : Soft(f, l)
  <2>1. \A l \in LitsOf(f.poids) : Weight(f.poids, l) \in Int
        BY SearchFacts, WeightFacts
  <2> QED BY <1>2, <2>1 DEF Heavy, LitsOf, Soft
<1>4. am' = [AmIdle EXCEPT !.pc = "test", !.by = "exact", !.todo = T]
      BY <1>1 DEF StartExact
<1> HIDE DEF T
<1>5. am' \in AmStates /\ am'.pc = "test" /\ am'.by = "exact" /\ am'.todo = T /\ am'.active = {}
      BY <1>3, <1>4 DEF AmIdle, AmStates
<1>6. AmInv'
  <2>1. AmOK(f', am')
        BY <1>1, <1>3, <1>5 DEF AmOK
  <2> QED BY <1>1, <1>5, <2>1 DEF AmInv
<1>7. FormulaInv'
  <2>1. Keeps(f, f', {})
        BY <1>1, SearchFacts, KeepsAll
  <2> QED BY <2>1, FormulaKept DEF SearchInv
<1>8. ListInv'
      BY <1>1 DEF SearchInv, ListInv, PendingCards
<1>9. SyncInv'
      BY <1>1, SearchFacts DEF SyncInv, Synced
<1> QED BY <1>6, <1>7, <1>8, <1>9 DEF SearchInv

\* A step of the rewriting.
LEMMA AmSteps ==
  ASSUME SearchInv, AmStep
  PROVE  SearchInv'
<1>1. AmNext /\ UNCHANGED <<pc, then, minW, assum, cardToAdd, litToRelax>> /\ pc \in {"am1", "veryFast"}
      BY DEF AmStep, search
<1>2. am.pc # "idle"
      BY <1>1 DEF AmNext, ExactRefute, ExactKeep, ExactClique, ExactStop, ScanDone, ScanRefute, ScanNothing,
         FastClique, VeryFastProp, VeryFastPair, AmoReduce, AmoRelax, AmoSoft
<1>3. Sound(f) /\ am \in AmStates /\ AmOK(f, am)
      BY <1>2 DEF SearchInv, FormulaInv, AmInv
<1>4. AmGood(f, f', am, am')
      BY <1>1, <1>3, AmExactRefute, AmExactKeep, AmExactClique, AmExactStop, AmScanDone, AmScanRefute,
         AmScanNothing, AmFastClique, AmVeryFastProp, AmVeryFastPair, AmReduce, AmRelax, AmSoft DEF AmNext
<1>5. PICK X : Keeps(f, f', X) /\ Spares(f, am, X)
      BY <1>4 DEF AmGood
<1>6. FormulaInv'
      BY <1>5, FormulaKept DEF SearchInv
<1>7. ListInv'
  <2>1. ASSUME NEW l \in litToRelax
        PROVE  Spent(f', l)
    <3>1. Spent(f, l) /\ (am.pc = "relax" => l \notin am.zeros)
          BY DEF SearchInv, ListInv, AmInv
    <3>2. l \notin X
          BY <1>5, <3>1 DEF Spares
    <3> QED BY <1>5, <3>1, <3>2, KeepsSpent
  <2> QED BY <1>1, <2>1 DEF SearchInv, ListInv, PendingCards
<1>8. AmInv'
  <2>1. am' \in AmStates /\ (am'.pc # "idle" => AmOK(f', am')) /\ (VeryFastOK(am) => VeryFastOK(am'))
        BY <1>4 DEF AmGood
  <2>2. am'.pc = "relax" => am'.zeros \cap litToRelax = {}
    <3>1. \A l \in litToRelax : Spent(f, l)
          BY DEF SearchInv, ListInv
    <3>2. am.pc = "relax" => am.zeros \cap litToRelax = {}
          BY DEF SearchInv, AmInv
    <3> QED BY <1>4, <3>1, <3>2 DEF AmGood
  <2>3. pc = "veryFast" => VeryFastOK(am)
        BY DEF SearchInv, AmInv
  <2> QED BY <1>1, <2>1, <2>2, <2>3 DEF AmInv, VeryFastOK, AmOK, AmStates
<1>9. SyncInv'
  <2>1. minW' \in Nat \ {0}
        BY <1>1 DEF SearchInv, SyncInv
  <2>2. ASSUME Synced'
        PROVE  assum' = Heavy(f'.poids, minW')
    <3>1. pc = "veryFast" /\ ~am'.found /\ then # "choose"
          BY <1>1, <2>2 DEF Synced
    <3>2. f' = f /\ ~am.found
          BY <1>4, <3>1 DEF AmGood, SearchInv, AmInv
    <3> QED BY <1>1, <3>1, <3>2 DEF SearchInv, SyncInv, Synced
  <2> QED BY <2>1, <2>2 DEF SyncInv
<1> QED BY <1>6, <1>7, <1>8, <1>9 DEF SearchInv

-----------------------------------------------------------------------------
\* The invariant of the search: at every step the formula is sound, what waits
\* to be relaxed is spent, the rewriting works on soft literals, and the
\* assumptions are those of the stratum.
THEOREM SearchInvariant == Spec => []SearchInv
<1>1. Init => SearchInv
      BY SearchInit
<1>2. SearchInv /\ [Next]_vars => SearchInv'
  <2> SUFFICES ASSUME SearchInv, [Next]_vars
               PROVE  SearchInv'
      OBVIOUS
  <2>1. CASE \/ Solve \/ SolveHard \/ HardenFirst \/ BoundsMeet \/ TopSatLast \/ TopUnsat
             \/ CoreEmpty \/ CoreBoundsMeet \/ CoreHarden \/ CoreEnd \/ LimitedUnsat \/ LimitedSat
             \/ SatOptimize \/ SatSkip \/ TailDone \/ Again
        BY <2>1, Moves
  <2>2. CASE LeftoverRelax \/ SatRelax \/ TailRelax
        BY <2>2, Relaxes
  <2>3. CASE LeftoverCard \/ TailCard
        BY <2>3, AddsCard
  <2>4. CASE FirstStratum \/ TopSat
        BY <2>4, Strata
  <2>5. CASE LimitedTimeout
        BY <2>5, Timeout
  <2>6. CASE Core
        BY <2>6, Pays
  <2>7. CASE HardenNothing \/ HardenSome
        BY <2>7, Hardens
  <2>8. CASE VeryFastDone
        BY <2>8, VeryFastEnds
  <2>9. CASE AgainAdd
        BY <2>9, AddsSoft
  <2>10. CASE AgainHard
         BY <2>10, AddsHard
  <2>11. CASE StartAM1
         BY <2>11, StartsAM1
  <2>12. CASE AmStep
         BY <2>12, AmSteps
  <2>13. CASE Finished \/ UNCHANGED vars
    <3>1. UNCHANGED <<f, am, pc, then, assum, minW, cardToAdd, litToRelax>>
          BY <2>13 DEF Finished, vars, search
    <3> QED BY <3>1 DEF SearchInv, FormulaInv, ListInv, AmInv, SyncInv, Synced, UserLits, PendingCards,
               AmOK, CliqueOK, VeryFastOK, AmStates
  <2> QED BY <2>1, <2>2, <2>3, <2>4, <2>5, <2>6, <2>7, <2>8, <2>9, <2>10, <2>11, <2>12, <2>13 DEF Next
<1> QED BY <1>1, <1>2, PTL DEF Spec

\* _mapWeight2Assum and _poids agree at every step of solve() and between its
\* calls, and a literal waiting to be relaxed is an output whose weight is
\* spent.
THEOREM SearchIndexConsistent == Spec => []IndexConsistent
<1>1. SearchInv => IndexConsistent
      BY DEF SearchInv, FormulaInv, ListInv, Sound, Spent, IndexConsistent, Poids
<1> QED BY <1>1, SearchInvariant, PTL

\* assert( assum == initAssum(minWeightToConsider) ) holds at every call of the
\* SAT solver in the loop.
THEOREM SearchAssumInSync == Spec => []AssumInSync
<1>1. SearchInv => AssumInSync
  <2> SUFFICES ASSUME SearchInv, pc \in {"top", "core", "limited", "sat"}
               PROVE  assum = InitAssum(f, minW)
      BY DEF AssumInSync
  <2>1. assum = Heavy(f.poids, minW)
        BY DEF SearchInv, SyncInv, Synced
  <2> QED BY <2>1, SearchFacts, HeavyInit
<1> QED BY <1>1, SearchInvariant, PTL

-----------------------------------------------------------------------------
(***************************************************************************)
(* solve() keeps the user's objective and returns an optimum: the proofs   *)
(* of ObjectivePreserved, CutNotBetter, OptimalOnReturn, TypeOK, Monotone  *)
(* and ImplementsSearch.                                                   *)
(*                                                                         *)
(* The invariant follows the bound already paid plus all that is still     *)
(* owed: by falsified soft literals, by outputs not created yet, by        *)
(* constraints still pending, and by the clique being merged.              *)
(***************************************************************************)
\* The spent outputs that have not been relaxed yet.
WaitingIn(a, L) == L \cup (IF a.pc = "relax" THEN a.zeros ELSE {})

Waiting == WaitingIn(am, litToRelax)

\* What processAtMostOne has taken from the clique and not given back.
OwesIn(a, bad) == IF a.pc = "relax" THEN Share(a.saved, a.w, bad) ELSE 0

\* The points of g cost what they do in the user's formula o.
Meets(g, q, a, o) ==
    \A p \in g.live : Total(g, q, Falsified(g, p)) + OwesIn(a, Falsified(g, p)) = CostOf(o, p)

PayInv ==
    /\ Good(f, cardToAdd, Waiting) /\ f.cost \in Nat
    /\ Meets(f, cardToAdd, am, orig)

\* The formula of the user is kept apart, and holds where f does.
UserInv ==
    /\ Good(orig, <<>>, {}) /\ orig.cards = <<>> /\ orig.cost \in Nat
    /\ UserLits(Len(orig.poids))
    /\ SameTruth(orig, f) /\ f.live \subseteq orig.live

\* What the user may still add, and in how many steps.
Added == {0} \cup {Size(e.w) : e \in Extra}

Left == opt.calls - calls - (IF pc = "ready" THEN 1 ELSE 0)

\* Nothing overflows.
Room(t, n) == \A w \in Added : t + n * w < MaxWeight

RoomInv ==
    /\ opt \in Options /\ calls \in 0..opt.calls /\ (pc = "ready" => calls < opt.calls)
    /\ then # "ready"
    /\ Room(Total(f, cardToAdd, Int) + OwesIn(am, Int), Left)
    /\ Room(Total(orig, <<>>, Int), Left)

\* What is being merged is a clique; the literals the very fast heuristic has
\* still to pair exclude the literal it scans.
Excluded(g, a) ==
    \E x \in {a.var, -a.var} :
        /\ Weight(g.poids, x) >= 0
        /\ \A l \in a.todo : \A p \in g.live : ~(p \in True(g, l) /\ p \in True(g, x))

Merges(g, a) ==
    /\ a.pc = "pair" => a.by = "veryFast"
    /\ a.pc = "reduce" => Exclusive(g, a.clause)
    /\ a.pc = "relax" => Exclusive(g, a.saved) /\ a.clause \subseteq a.saved /\ a.saved # {}
    /\ a.by = "veryFast" /\ a.pc \in {"pair", "reduce", "relax"} => Excluded(g, a)

CostInv == PayInv /\ UserInv /\ RoomInv /\ Merges(f, am)

\* A step that cuts no assignment away, and one that creates no constraint.
Forward == SameTruth(f, f') /\ f'.live = f.live /\ f'.cost >= f.cost

Rewrites == Forward /\ (f.cards = <<>> => f'.cards = <<>>)

\* What the user adds makes no assignment cheaper, and hides none that was not hidden.
Grows ==
    /\ orig'.live \ f'.live \subseteq orig.live \ f.live
    /\ \A p \in orig'.live : CostOf(orig', p) >= CostOf(orig, p)

-----------------------------------------------------------------------------
(***************************************************************************)
(* Steps of the search proper.                                             *)
(***************************************************************************)
\* What the user may add is a natural number.
LEMMA AddedFacts ==
  ASSUME UserInv
  PROVE  Added \subseteq Nat /\ 0 \in Added
  BY DEF UserInv, UserLits, Added, Size

\* A smaller total with fewer calls left has room too.
LEMMA RoomLess ==
  ASSUME NEW t \in Int, NEW n \in Int, Room(t, n), NEW s \in Int, NEW m \in Int, s <= t, m <= n, Added \subseteq Nat
  PROVE  Room(s, m)
<1> SUFFICES ASSUME NEW w \in Added PROVE s + m * w < MaxWeight
    BY DEF Room
<1>1. w \in Nat /\ t + n * w < MaxWeight
      BY DEF Room
<1>2. m * w <= n * w
      BY <1>1, ProductMore
<1>3. m * w \in Int /\ n * w \in Int
      BY <1>1
<1> QED BY ONLY <1>1, <1>2, <1>3, s \in Int, t \in Int, s <= t, MaxWeightAssumption

\* The user's formula stays, and holds where f does.
LEMMA UserKept ==
  ASSUME UserInv, orig' = orig, SameTruth(f, f'), f'.live \subseteq f.live
  PROVE  UserInv'
<1>1. SameTruth(orig, f')
      BY DEF UserInv, SameTruth
<1>2. UserLits(Len(orig.poids))'
      BY DEF UserInv, UserLits
<1> QED BY <1>1, <1>2 DEF UserInv

\* The points that are left cost what they did.
LEMMA MeetsKept ==
  ASSUME NEW g, NEW q, NEW W, Good(g, q, W), NEW a, a.pc # "relax", NEW o, Meets(g, q, a, o),
         NEW h, NEW r, NEW X, Good(h, r, X), NEW b, b.pc # "relax", SameCost(g, q, h, r)
  PROVE  Meets(h, r, b, o)
<1> SUFFICES ASSUME NEW p \in h.live
             PROVE  Total(h, r, Falsified(h, p)) + OwesIn(b, Falsified(h, p)) = CostOf(o, p)
    BY DEF Meets
<1>1. p \in g.live /\ Total(h, r, Falsified(h, p)) = Total(g, q, Falsified(g, p))
      BY DEF SameCost
<1>2. Total(g, q, Falsified(g, p)) + OwesIn(a, Falsified(g, p)) = CostOf(o, p)
      BY <1>1 DEF Meets
<1>3. OwesIn(a, Falsified(g, p)) = 0 /\ OwesIn(b, Falsified(h, p)) = 0
      BY DEF OwesIn
<1> QED BY <1>1, <1>2, <1>3

\* The calls that are left.
LEMMA LeftFacts ==
  ASSUME RoomInv
  PROVE  Left \in Nat /\ calls \in Nat /\ opt.calls \in Nat
<1>1. opt.calls \in Nat \ {0} /\ calls \in 0..opt.calls /\ (pc = "ready" => calls < opt.calls)
      BY OptionsAssumption DEF RoomInv
<1> QED BY <1>1 DEF Left

\* Inside solve() no call is used up.
LEMMA LeftSame ==
  ASSUME UNCHANGED <<opt, calls>>, pc # "ready", pc' # "ready"
  PROVE  Left' = Left
  BY DEF Left

\* A step outside the merging of a clique.
LEMMA CostStep ==
  ASSUME CostInv, UNCHANGED <<orig, opt>>, am.pc # "relax", am'.pc # "relax",
         Good(f', cardToAdd', Waiting'), SameCost(f, cardToAdd, f', cardToAdd'),
         Left' \in Int, Left' <= Left, calls' \in 0..opt.calls, pc' = "ready" => calls' < opt.calls, then' # "ready",
         Merges(f', am')
  PROVE  CostInv'
<1>1. Good(f, cardToAdd, Waiting) /\ f.cost \in Nat /\ Meets(f, cardToAdd, am, orig) /\ UserInv /\ RoomInv
      BY DEF CostInv, PayInv
<1>2. SameTruth(f, f') /\ f'.live \subseteq f.live /\ f'.cost >= f.cost /\ Total(f', cardToAdd', Int) <= Total(f, cardToAdd, Int)
      BY DEF SameCost
<1>3. UserInv'
      BY <1>1, <1>2, UserKept
<1>4. f'.cost \in Nat
  <2>1. f'.cost \in Int
        BY Fields DEF Good, Sound
  <2> QED BY <1>1, <1>2, <2>1
<1>5. Meets(f', cardToAdd', am', orig')
      BY <1>1, MeetsKept
<1>6. PayInv'
      BY <1>4, <1>5 DEF PayInv
<1>7. RoomInv'
  <2>1. PICK t \in Int : t = Total(f, cardToAdd, Int)
        BY <1>1, TotalInt
  <2>2. PICK s \in Int : s = Total(f', cardToAdd', Int)
        BY <1>1, TotalInt
  <2>3. PICK u \in Int : u = Total(orig, <<>>, Int)
        BY <1>1, TotalInt DEF UserInv
  <2>4. Room(t, Left) /\ Room(u, Left) /\ Added \subseteq Nat /\ Left \in Int
    <3>1. OwesIn(am, Int) = 0 /\ t + 0 = t
          BY DEF OwesIn
    <3> QED BY <1>1, <2>1, <2>3, <3>1, LeftFacts, AddedFacts DEF RoomInv
  <2>5. s <= t
        BY <1>2, <2>1, <2>2
  <2>6. u <= u
        OBVIOUS
  <2>7. Room(s, Left') /\ Room(u, Left')
        BY ONLY <2>4, <2>5, <2>6, s \in Int, t \in Int, u \in Int, Left' \in Int, Left' <= Left, RoomLess
  <2>8. OwesIn(am', Int) = 0 /\ s + 0 = s
        BY DEF OwesIn
  <2>9. opt' \in Options /\ calls' \in 0..opt'.calls /\ (pc' = "ready" => calls' < opt'.calls) /\ then' # "ready"
        BY <1>1 DEF RoomInv
  <2>10. Room(Total(f', cardToAdd', Int) + OwesIn(am', Int), Left') /\ Room(Total(orig', <<>>, Int), Left')
         BY <2>2, <2>3, <2>7, <2>8
  <2> QED BY <2>9, <2>10 DEF RoomInv, Room, Added
<1> QED BY <1>3, <1>6, <1>7 DEF CostInv

\* Where no rewriting is under way.
LEMMA IdleGood ==
  ASSUME SearchInv, CostInv, am.pc = "idle"
  PROVE  /\ Good(f, cardToAdd, litToRelax) /\ f.cost \in Nat /\ \A l \in litToRelax : Spent(f, l)
         /\ Total(f, cardToAdd, Int) < MaxWeight /\ SameCost(f, cardToAdd, f, cardToAdd)
         /\ Left \in Nat /\ calls \in 0..opt.calls /\ then # "ready"
<1>1. Waiting = litToRelax
      BY DEF Waiting, WaitingIn
<1>2. Good(f, cardToAdd, litToRelax) /\ f.cost \in Nat /\ RoomInv /\ UserInv
      BY <1>1 DEF CostInv, PayInv
<1>3. Total(f, cardToAdd, Int) < MaxWeight
  <2>1. OwesIn(am, Int) = 0
        BY DEF OwesIn
  <2>2. Total(f, cardToAdd, Int) \in Int
        BY <1>2, TotalInt
  <2>3. Total(f, cardToAdd, Int) + 0 + Left * 0 < MaxWeight
        BY <1>2, <2>1, AddedFacts DEF RoomInv, Room
  <2>4. Left \in Nat
        BY <1>2, LeftFacts
  <2>5. Left * 0 = 0
        BY ONLY <2>4
  <2> QED BY ONLY <2>2, <2>3, <2>5, MaxWeightAssumption
<1>4. SameCost(f, cardToAdd, f, cardToAdd)
      BY <1>2, CostKept DEF Good
<1> QED BY <1>2, <1>3, <1>4, LeftFacts DEF SearchInv, ListInv, RoomInv

\* A step of the search proper that keeps every cost.
LEMMA IdleCost ==
  ASSUME SearchInv, CostInv, am.pc = "idle", am'.pc \in {"idle", "test", "scan"},
         Good(f', cardToAdd', litToRelax'), SameCost(f, cardToAdd, f', cardToAdd'),
         UNCHANGED <<orig, opt, calls>>, pc # "ready", pc' # "ready", then' # "ready"
  PROVE  CostInv'
<1>1. Waiting' = litToRelax'
      BY DEF Waiting, WaitingIn
<1>2. Left' = Left /\ Left \in Nat /\ calls \in 0..opt.calls
      BY LeftSame, IdleGood
<1>3. Merges(f', am')
      BY DEF Merges
<1>4. Good(f', cardToAdd', Waiting')
      BY <1>1
<1>5. Left' \in Int /\ Left' <= Left /\ calls' \in 0..opt.calls
      BY <1>2
<1> QED BY <1>3, <1>4, <1>5, CostStep

\* A step that leaves the formula and the lists alone.
LEMMA MoveCost ==
  ASSUME SearchInv, CostInv, am.pc = "idle", am'.pc \in {"idle", "test", "scan"},
         UNCHANGED <<f, cardToAdd, litToRelax, orig, opt, calls>>, pc # "ready", pc' # "ready", then' # "ready"
  PROVE  CostInv'
<1>1. Good(f', cardToAdd', litToRelax') /\ SameCost(f, cardToAdd, f', cardToAdd')
      BY IdleGood
<1> QED BY <1>1, IdleCost

\* The steps that only move on.
LEMMA CostMoves ==
  ASSUME SearchInv, CostInv,
         \/ SolveHard \/ HardenFirst \/ BoundsMeet \/ TopSatLast \/ TopUnsat
         \/ CoreEmpty \/ CoreBoundsMeet \/ CoreHarden \/ CoreEnd \/ LimitedUnsat \/ LimitedSat \/ LimitedTimeout
         \/ SatOptimize \/ SatSkip \/ TailDone \/ VeryFastDone \/ StartAM1
  PROVE  CostInv'
<1>1. pc \notin {"am1", "veryFast"} => am.pc = "idle"
      BY SearchFacts
<1>2. am.pc = "idle"
      BY <1>1 DEF SolveHard, HardenFirst, BoundsMeet, TopSatLast, TopUnsat, CoreEmpty, CoreBoundsMeet,
         CoreHarden, CoreEnd, LimitedUnsat, LimitedSat, LimitedTimeout, SatOptimize, SatSkip, TailDone,
         VeryFastDone, StartAM1, Goto
<1>3. then # "ready"
      BY <1>2, IdleGood
<1>4. UNCHANGED <<f, cardToAdd, litToRelax, orig, opt, calls>> /\ pc # "ready"
      BY DEF SolveHard, HardenFirst, BoundsMeet, TopSatLast, TopUnsat, CoreEmpty, CoreBoundsMeet,
         CoreHarden, CoreEnd, LimitedUnsat, LimitedSat, LimitedTimeout, SatOptimize, SatSkip, TailDone,
         VeryFastDone, StartAM1, Goto, search, frame
<1>5. pc' # "ready" /\ then' # "ready"
      BY <1>3 DEF SolveHard, HardenFirst, BoundsMeet, TopSatLast, TopUnsat, CoreEmpty, CoreBoundsMeet,
         CoreHarden, CoreEnd, LimitedUnsat, LimitedSat, LimitedTimeout, SatOptimize, SatSkip, TailDone,
         VeryFastDone, StartAM1, Goto, Return, AfterCore
<1>6. am'.pc \in {"idle", "test", "scan"}
  <2>1. CASE StartAM1
        BY <2>1 DEF StartAM1, StartExact, AmIdle
  <2>2. CASE VeryFastDone
        BY <2>2 DEF VeryFastDone, AmIdle
  <2>3. CASE ~StartAM1 /\ ~VeryFastDone
    <3>1. am' = am
          BY <2>3 DEF SolveHard, HardenFirst, BoundsMeet, TopSatLast, TopUnsat, CoreEmpty, CoreBoundsMeet,
             CoreHarden, CoreEnd, LimitedUnsat, LimitedSat, LimitedTimeout, SatOptimize, SatSkip, TailDone
    <3> QED BY <1>2, <3>1
  <2> QED BY <2>1, <2>2, <2>3
<1> QED BY <1>2, <1>4, <1>5, <1>6, MoveCost

\* A call starts, or the user adds nothing before the next one.
LEMMA CostCalls ==
  ASSUME SearchInv, CostInv, Solve \/ Again
  PROVE  CostInv'
<1>1. am.pc = "idle" /\ UNCHANGED <<f, am, cardToAdd, litToRelax, orig, opt, then>>
      BY SearchFacts DEF Solve, Again, Goto, search, frame
<1>2. /\ Good(f, cardToAdd, Waiting) /\ SameCost(f, cardToAdd, f, cardToAdd)
      /\ Left \in Nat /\ calls \in 0..opt.calls /\ then # "ready" /\ RoomInv
      BY <1>1, IdleGood DEF CostInv, PayInv
<1>3. opt.calls \in Nat /\ calls \in Nat
      BY <1>2, LeftFacts
<1>4. Left' \in Int /\ Left' <= Left /\ calls' \in 0..opt.calls /\ (pc' = "ready" => calls' < opt.calls)
  <2>1. CASE Solve
    <3>1. pc = "ready" /\ pc' = "leftover" /\ calls' = calls + 1 /\ calls < opt.calls /\ opt' = opt
          BY <1>2, <2>1 DEF Solve, Goto, RoomInv
    <3> QED BY <1>3, <3>1 DEF Left
  <2>2. CASE Again
    <3>1. pc = "done" /\ pc' = "ready" /\ calls' = calls /\ calls < opt.calls /\ opt' = opt
          BY <2>2 DEF Again, Goto, frame
    <3> QED BY <1>2, <1>3, <3>1 DEF Left
  <2> QED BY <2>1, <2>2
<1>5. Merges(f', am')
      BY <1>1 DEF Merges
<1>6. Waiting' = Waiting
      BY <1>1 DEF Waiting, WaitingIn
<1>7. Good(f', cardToAdd', Waiting') /\ SameCost(f, cardToAdd, f', cardToAdd')
      BY <1>1, <1>2, <1>6
<1> QED BY <1>1, <1>2, <1>4, <1>5, <1>7, CostStep


\* The first state.
LEMMA CostInit ==
  ASSUME Init
  PROVE  CostInv
<1>1. /\ f \in Instances /\ orig = f /\ opt \in Options /\ calls = 0 /\ am = AmIdle /\ am.pc = "idle" /\ am.by = "none"
      /\ pc = "ready" /\ then = "none" /\ cardToAdd = <<>> /\ litToRelax = {}
      BY DEF Init, AmIdle
<1>2. UserFormula(f) /\ Sound(f) /\ Len(f.poids) \in Nat
      BY <1>1, InstancesAssumption, UserSound
<1>3. f.cards = <<>> /\ f.cost \in Nat /\ f.poids \in Seq(Int)
      BY <1>2 DEF UserFormula
<1>4. IsFormula(f) /\ CardOK(f) /\ CardsIn(f)
      BY <1>2, <1>3 DEF Sound, CardsIn
<1>5. \A bad : Total(f, <<>>, bad) = f.cost + Charges(f.poids, bad)
      BY <1>3, <1>4, TotalPlain
<1>6. QueueOK(f, <<>>) /\ Good(f, <<>>, {})
      BY <1>2, <1>3, <1>4, TotalPlain DEF Good
<1>7. Waiting = {}
      BY <1>1 DEF Waiting, WaitingIn
<1>8. \A bad : OwesIn(am, bad) = 0
      BY <1>1 DEF OwesIn
<1>9. Meets(f, <<>>, am, f)
  <2> SUFFICES ASSUME NEW p \in f.live
               PROVE  Total(f, <<>>, Falsified(f, p)) + OwesIn(am, Falsified(f, p)) = CostOf(f, p)
      BY DEF Meets
  <2>1. p \in Points
        BY <1>4, LivePoints
  <2>2. CostOf(f, p) = f.cost + Charges(f.poids, Falsified(f, p))
        BY <1>4, <1>6, <2>1, TotalPoint
  <2>3. Charges(f.poids, Falsified(f, p)) \in Nat
        BY <1>3, ChargesNat
  <2> QED BY <1>3, <1>5, <1>8, <2>2, <2>3
<1>10. PayInv
       BY <1>1, <1>3, <1>6, <1>7, <1>9 DEF PayInv
<1>11. UserLits(Len(f.poids))
  <2>1. DOMAIN f.poids = 1..Len(f.poids)
        BY <1>3
  <2>2. \A l \in Lits(f) : Var(l) \in 1..Len(f.poids) /\ l \in Int \ {0}
        BY <1>2, <2>1 DEF Lits, Vars, Var
  <2> QED BY <1>1, <2>2, ExtraAssumption DEF UserLits
<1>12. SameTruth(f, f)
       BY DEF SameTruth
<1>13. UserInv
       BY <1>1, <1>3, <1>6, <1>11, <1>12 DEF UserInv
<1>14. RoomInv
  <2>1. opt.calls \in Nat \ {0}
        BY <1>1, OptionsAssumption
  <2>2. Left = opt.calls - 1
        BY <1>1, <2>1 DEF Left
  <2>3. Total(f, <<>>, Int) = TotalWeight(f)
    <3>1. \A l \in LitsOf(f.poids) : l \in Int <=> l \in Lits(f)
          BY <1>3, LitsAre DEF LitsOf
    <3>2. Charges(f.poids, Int) = Charges(f.poids, Lits(f))
          BY <1>3, <3>1, ChargesAgree
    <3> QED BY <1>5, <3>2 DEF TotalWeight
  <2>4. TotalWeight(f) \in Int
        BY <1>6, <2>3, TotalInt
  <2>5. Room(TotalWeight(f), Left)
    <3> SUFFICES ASSUME NEW w \in Added PROVE TotalWeight(f) + Left * w < MaxWeight
        BY DEF Room
    <3>1. TotalWeight(f) < MaxWeight /\ \A e \in Extra : TotalWeight(f) + (opt.calls - 1) * Size(e.w) < MaxWeight
          BY <1>1, WeightsAssumption DEF Size
    <3>2. CASE w = 0
      <4>1. Left * 0 = 0
            BY <2>1, <2>2
      <4> QED BY <2>4, <3>1, <3>2, <4>1
    <3>3. CASE \E e \in Extra : w = Size(e.w)
          BY <2>2, <3>1, <3>3
    <3> QED BY <3>2, <3>3 DEF Added
  <2>6. TotalWeight(f) + 0 = TotalWeight(f)
        BY <2>4
  <2>7. Room(Total(f, cardToAdd, Int) + OwesIn(am, Int), Left) /\ Room(Total(orig, <<>>, Int), Left)
        BY <1>1, <1>8, <2>3, <2>5, <2>6
  <2> QED BY <1>1, <2>1, <2>7 DEF RoomInv
<1>15. Merges(f, am)
       BY <1>1 DEF Merges
<1> QED BY <1>10, <1>13, <1>14, <1>15 DEF CostInv

\* Spent outputs are relaxed.
LEMMA CostRelaxes ==
  ASSUME SearchInv, CostInv, LeftoverRelax \/ SatRelax \/ TailRelax
  PROVE  CostInv' /\ Forward
<1>1. /\ am.pc = "idle" /\ UNCHANGED <<am, then, cardToAdd, orig, opt, calls>> /\ pc # "ready" /\ pc' # "ready"
      BY SearchFacts DEF LeftoverRelax, SatRelax, TailRelax, frame
<1>2. PICK l \in litToRelax : f' = Relax(f, l) /\ litToRelax' = litToRelax \ {l}
      BY DEF LeftoverRelax, SatRelax, TailRelax
<1>3. Good(f, cardToAdd, litToRelax) /\ Spent(f, l) /\ then # "ready"
      BY <1>1, <1>2, IdleGood
<1>4. Good(f', cardToAdd, litToRelax') /\ SameCost(f, cardToAdd, f', cardToAdd)
      BY <1>2, <1>3, CostRelax
<1>5. Forward
  <2>1. f'.live = f.live
        BY <1>2, <1>3, CostRelax
  <2> QED BY <1>4, <2>1 DEF Forward, SameCost
<1> QED BY <1>1, <1>3, <1>4, <1>5, IdleCost

\* A pending constraint is created.
LEMMA CostAddsCard ==
  ASSUME SearchInv, CostInv, LeftoverCard \/ TailCard
  PROVE  CostInv' /\ Forward
<1>1. /\ am.pc = "idle" /\ UNCHANGED <<am, then, litToRelax, orig, opt, calls>> /\ pc # "ready" /\ pc' # "ready"
      BY SearchFacts DEF LeftoverCard, TailCard, frame
<1>2. /\ cardToAdd # <<>> /\ f' = AddCard(f, Head(cardToAdd).lits, Head(cardToAdd).w)
      /\ cardToAdd' = Tail(cardToAdd)
      BY DEF LeftoverCard, TailCard
<1>3. Good(f, cardToAdd, litToRelax) /\ (\A l \in litToRelax : Spent(f, l)) /\ then # "ready"
      BY <1>1, IdleGood
<1>4. Good(f', cardToAdd', litToRelax) /\ SameCost(f, cardToAdd, f', cardToAdd')
      BY <1>2, <1>3, CostAddCard
<1>5. Forward
  <2>1. f'.live = f.live
        BY <1>2, <1>3, CostAddCard
  <2> QED BY <1>4, <2>1 DEF Forward, SameCost
<1> QED BY <1>1, <1>3, <1>4, <1>5, IdleCost

\* The stratum changes.
LEMMA CostStrata ==
  ASSUME SearchInv, CostInv, FirstStratum \/ TopSat
  PROVE  CostInv' /\ Forward
<1>1. /\ am.pc = "idle" /\ UNCHANGED <<am, then, cardToAdd, litToRelax, orig, opt, calls>> /\ pc # "ready" /\ pc' # "ready"
      BY SearchFacts DEF FirstStratum, TopSat, Goto, frame
<1>2. PICK m : NextStratum(m)
      BY DEF FirstStratum, TopSat
<1>3. PICK c \in ChooseNextMinWeight(f.map, m) : f' = [f EXCEPT !.map = c.map]
      BY <1>2 DEF NextStratum
<1>4. Good(f, cardToAdd, litToRelax) /\ then # "ready"
      BY <1>1, IdleGood
<1>5. Good(f', cardToAdd, litToRelax) /\ SameCost(f, cardToAdd, f', cardToAdd)
      BY ONLY <1>3, <1>4, CostStratum
<1>6. Forward
  <2>1. f'.live = f.live
        BY ONLY <1>3, <1>4, CostStratum
  <2> QED BY <1>5, <2>1 DEF Forward, SameCost
<1> QED BY <1>1, <1>4, <1>5, <1>6, IdleCost

\* Literals too heavy become hard.
LEMMA CostHardens ==
  ASSUME SearchInv, CostInv, HardenNothing \/ HardenSome
  PROVE  CostInv'
<1>1. /\ am.pc = "idle" /\ UNCHANGED <<cardToAdd, litToRelax, orig, opt, calls>> /\ pc # "ready"
      BY SearchFacts DEF HardenNothing, HardenSome, Goto, search, frame
<1>2. Good(f, cardToAdd, litToRelax) /\ (\A l \in litToRelax : Spent(f, l)) /\ then # "ready"
      /\ SameCost(f, cardToAdd, f, cardToAdd)
      BY <1>1, IdleGood
<1>3. pc' # "ready" /\ then' # "ready" /\ am'.pc \in {"idle", "scan"}
      BY <1>1, <1>2 DEF HardenNothing, HardenSome, Goto, StartScan, AmIdle
<1>4. f' = f \/ (DOMAIN f.map # {} /\ f' = Harden(f, MaxCostLit))
      BY DEF HardenNothing, HardenSome, HardenSkips
<1>5. Good(f', cardToAdd, litToRelax) /\ SameCost(f, cardToAdd, f', cardToAdd)
  <2>1. CASE f' = f
        BY <1>2, <2>1
  <2>2. CASE DOMAIN f.map # {} /\ f' = Harden(f, MaxCostLit)
        BY ONLY <1>2, <2>2, CostHarden
  <2> QED BY <1>4, <2>1, <2>2
<1> QED BY <1>1, <1>2, <1>3, <1>5, IdleCost


\* The bound rises by w.
Raised(h, w, k) == k = [h EXCEPT !.cost = Wrap(h.cost + w)]

\* Reweigh and the change of the bound, as one step.
LEMMA PayIs ==
  ASSUME NEW g, NEW q, NEW W, Good(g, q, W), g.cost \in Nat, Total(g, q, Int) < MaxWeight,
         NEW C, C # {}, NEW w \in Nat \ {0}, Takes(g, C, w),
         NEW h, h = Reweigh(g, C, w), NEW k, Raised(h, w, k)
  PROVE  Lightened(g, C, w, k) /\ k.cost = g.cost + w
<1>1. Sound(g)
      BY DEF Good
<1>2. /\ Sound(h) /\ h.poids = Lighter(g.poids, C, w) /\ h.card = g.card /\ h.cards = g.cards
      /\ h.truth = g.truth /\ h.cost = g.cost /\ h.live = g.live
      BY ONLY <1>1, Takes(g, C, w), w \in Nat \ {0}, h = Reweigh(g, C, w), ReweighIs DEF Takes
<1>3. g.cost + w <= Total(g, q, Int) /\ g.cost + w \in Nat
      BY TakesCost
<1>4. Total(g, q, Int) \in Int
      BY TotalInt
<1>5. g.cost + w < MaxWeight
      BY <1>3, <1>4, MaxWeightAssumption
<1>6. Wrap(h.cost + w) = g.cost + w
      BY ONLY <1>2, <1>3, <1>5, WrapSmall
<1>7. PICK c \in Int : c = g.cost + w
      BY <1>3
<1>8. k = [h EXCEPT !.cost = c]
      BY <1>6, <1>7 DEF Raised
<1>9. /\ Sound(k) /\ k.poids = h.poids /\ k.card = h.card /\ k.cards = h.cards
      /\ k.truth = h.truth /\ k.cost = c /\ k.live = h.live
      BY ONLY <1>2, <1>8, c \in Int, CostIs
<1> QED BY <1>2, <1>7, <1>9 DEF Lightened

\* A core is paid.
LEMMA CostCore ==
  ASSUME SearchInv, CostInv, Core
  PROVE  CostInv' /\ Forward
<1>1. PICK C \in (SUBSET assum) \ {{}} : ~Sat(f, C) /\ PayCore(C)
      BY DEF Core
<1>2. /\ am' = am /\ am.pc = "idle" /\ UNCHANGED <<then, orig, opt, calls>> /\ pc = "core" /\ pc' = "coreEnd"
      BY SearchFacts DEF Core, Goto, frame
<1>3. /\ Good(f, cardToAdd, litToRelax) /\ f.cost \in Nat /\ (\A l \in litToRelax : Spent(f, l))
      /\ Total(f, cardToAdd, Int) < MaxWeight /\ then # "ready" /\ Sound(f)
      BY <1>2, IdleGood, SearchFacts
<1>4. \A l \in C : Soft(f, l)
  <2>1. assum = Heavy(f.poids, minW) /\ minW \in Nat \ {0} /\ f.poids \in Seq(Int)
        BY <1>2, SearchFacts DEF SearchInv, SyncInv, Synced
  <2>2. \A l \in C : l \in LitsOf(f.poids) /\ Weight(f.poids, l) >= minW /\ Weight(f.poids, l) \in Int
        BY <2>1, WeightFacts DEF Heavy
  <2> QED BY <2>1, <2>2 DEF Soft
<1>5. PICK w : w = MinPoids(C)
      OBVIOUS
<1>6. w \in Nat \ {0} /\ Takes(f, C, w)
      BY ONLY <1>1, <1>3, <1>4, <1>5, LeastWeight DEF Takes
<1>7. PICK h : h = Reweigh(f, C, w)
      OBVIOUS
<1>8. /\ f' = [h EXCEPT !.cost = Wrap(h.cost + w)]
      /\ litToRelax' = litToRelax \cup {l \in C : Poids(f', l) = 0 /\ f.card[Var(l)] # NoCard}
      /\ cardToAdd' = Append(cardToAdd, [lits |-> {-l : l \in C}, w |-> w])
      BY <1>1, <1>5, <1>7 DEF PayCore
<1>9. Lightened(f, C, w, f') /\ f'.cost = f.cost + w
  <2>1. Raised(h, w, f')
        BY <1>8 DEF Raised
  <2> QED BY ONLY <1>1, <1>3, <1>6, <1>7, <2>1, PayIs
<1>10. litToRelax' = litToRelax \cup Zeros(f, C, f') /\ Queued(cardToAdd, C, w, cardToAdd')
       BY <1>8 DEF Zeros, Queued, Core1, Poids
<1>11. Good(f', cardToAdd', litToRelax') /\ SameCost(f, cardToAdd, f', cardToAdd')
       BY ONLY <1>1, <1>3, <1>6, <1>9, <1>10, CostPay
<1>12. Forward
  <2>1. f'.live = f.live
        BY <1>9 DEF Lightened
  <2> QED BY <1>11, <2>1 DEF Forward, SameCost
<1> QED BY <1>2, <1>3, <1>11, <1>12, IdleCost

\* A literal of the user is free in f and in the formula kept apart.
LEMMA UserFree ==
  ASSUME SearchInv, CostInv, NEW e \in Extra
  PROVE  Free(f, e.lit) /\ Free(orig, e.lit) /\ e.w \in Int /\ Weighs(f, e.lit, e.w) /\ Weighs(orig, e.lit, e.w)
<1>1. PICK n \in Nat : InputsFree(f, n) /\ UserLits(n)
      BY DEF SearchInv, FormulaInv
<1> DEFINE l == e.lit
<1>2. Var(l) \in 1..n /\ l \in Int \ {0} /\ e.w \in Int \ {0} /\ Var(l) \in 1..Len(orig.poids)
      BY <1>1 DEF UserLits, CostInv, UserInv
<1> HIDE DEF l
<1>3. f.poids \in Seq(Int)
      BY SearchFacts
<1>4. Var(l) \in DOMAIN f.poids /\ f.card[Var(l)] = NoCard
      BY <1>1, <1>2, <1>3 DEF InputsFree
<1>5. ~IsOutput(f, Var(l))
  <2>1. Var(l) \in Nat /\ Var(l) <= n
        BY <1>2
  <2>2. \A c \in DOMAIN f.cards : \A k \in DOMAIN f.cards[c].outs : f.cards[c].outs[k] > n
        BY <1>1 DEF InputsFree
  <2> QED BY <2>1, <2>2 DEF IsOutput
<1>6. Free(f, l)
      BY <1>2, <1>4, <1>5 DEF Free, LitsOf
<1>7. Sound(orig) /\ orig.cards = <<>> /\ orig.poids \in Seq(Int)
      BY Fields DEF CostInv, UserInv, Good, Sound
<1>8. Var(l) \in DOMAIN orig.poids
      BY <1>2, <1>7
<1>9. ~IsOutput(orig, Var(l))
      BY <1>7 DEF IsOutput
<1>10. orig.card[Var(l)] = NoCard
  <2>1. DOMAIN orig.card = DOMAIN orig.poids
        BY <1>7, Fields DEF Sound
  <2>2. orig.card[Var(l)] # NoCard => orig.card[Var(l)].card \in DOMAIN orig.cards
        BY <1>7, <1>8, <2>1 DEF Sound, CardOK
  <2> QED BY <1>7, <2>2
<1>11. Free(orig, l)
       BY <1>2, <1>8, <1>9, <1>10 DEF Free, LitsOf
<1> QED BY <1>2, <1>6, <1>11 DEF l, Weighs


\* What the user adds fits.
LEMMA RoomAdd ==
  ASSUME NEW t \in Int, NEW n \in Nat \ {0}, Room(t, n), NEW w \in Added, NEW s \in Int, s <= t + w,
         Added \subseteq Nat, NEW m, m = n - 1
  PROVE  Room(s, m)
  BY RoomForAdd DEF Room, RoomFor

\* The user's cost, as a total.
LEMMA UserCost ==
  ASSUME NEW o, Good(o, <<>>, {}), o.cards = <<>>, NEW p \in Points
  PROVE  CostOf(o, p) = Total(o, <<>>, Falsified(o, p))
<1>1. IsFormula(o) /\ CardOK(o) /\ CardsIn(o) /\ QueueOK(o, <<>>)
      BY DEF Good, Sound, CardsIn
<1>2. CostOf(o, p) = o.cost + Charges(o.poids, Falsified(o, p))
      BY ONLY <1>1, p \in Points, TotalPoint
<1>3. Total(o, <<>>, Falsified(o, p)) = o.cost + Charges(o.poids, Falsified(o, p))
      BY ONLY <1>1, o.cards = <<>>, TotalPlain
<1> QED BY <1>2, <1>3

\* The room left in the user's formula.
LEMMA UserRoom ==
  ASSUME CostInv
  PROVE  Total(orig, <<>>, Int) < MaxWeight /\ Total(orig, <<>>, Int) \in Int
<1>1. Room(Total(orig, <<>>, Int), Left) /\ 0 \in Added /\ Left \in Nat
      BY LeftFacts, AddedFacts DEF CostInv, RoomInv
<1>2. Total(orig, <<>>, Int) \in Int
      BY TotalInt DEF CostInv, UserInv
<1>3. Total(orig, <<>>, Int) + Left * 0 < MaxWeight
      BY <1>1 DEF Room
<1>4. Left * 0 = 0
      BY ONLY <1>1
<1> QED BY ONLY <1>2, <1>3, <1>4, MaxWeightAssumption

\* Between two calls, a soft clause.
LEMMA CostAddsSoft ==
  ASSUME SearchInv, CostInv, AgainAdd
  PROVE  CostInv' /\ Grows
<1>1. PICK e \in Extra : f' = AddWeight(f, e.lit, e.w) /\ orig' = AddWeight(orig, e.lit, e.w)
      BY DEF AgainAdd
<1>2. /\ am' = am /\ am.pc = "idle" /\ UNCHANGED <<cardToAdd, litToRelax, then, opt, calls>>
      /\ pc = "done" /\ pc' = "ready" /\ calls < opt.calls
      BY SearchFacts DEF AgainAdd, Goto, search
<1>3. /\ Good(f, cardToAdd, litToRelax) /\ f.cost \in Nat /\ (\A l \in litToRelax : Spent(f, l))
      /\ Total(f, cardToAdd, Int) < MaxWeight /\ Left \in Nat /\ then # "ready"
      BY <1>2, IdleGood
<1>4. /\ Good(orig, <<>>, {}) /\ orig.cards = <<>> /\ orig.cost \in Nat /\ UserLits(Len(orig.poids))
      /\ SameTruth(orig, f) /\ f.live \subseteq orig.live /\ UserInv /\ RoomInv
      BY DEF CostInv, UserInv
<1>5. Total(orig, <<>>, Int) < MaxWeight
      BY UserRoom
<1>6. PICK l : l = SignedLit(e.lit, e.w)
      OBVIOUS
<1>7. PICK w : w = Size(e.w)
      OBVIOUS
<1>8. Free(f, e.lit) /\ Free(orig, e.lit) /\ e.w \in Int /\ Weighs(f, e.lit, e.w) /\ Weighs(orig, e.lit, e.w)
      BY UserFree
<1>9. Free(f, l) /\ Free(orig, l) /\ w \in Nat
      BY ONLY <1>6, <1>7, <1>8, SizeFacts
<1>10. Weighted(f, l, w, f')
       BY ONLY <1>1, <1>3, <1>6, <1>7, <1>8, AddWeightIs
<1>11. Weighted(orig, l, w, orig')
       BY ONLY <1>1, <1>4, <1>5, <1>6, <1>7, <1>8, AddWeightIs
<1>12. /\ Good(f', cardToAdd, litToRelax) /\ SameTruth(f, f') /\ f'.live = f.live /\ DOMAIN f'.poids = DOMAIN f.poids
       /\ \A p \in Points : Total(f', cardToAdd, Falsified(f', p)) =
            Total(f, cardToAdd, Falsified(f, p)) + IF p \in True(f, l) THEN 0 ELSE w
       /\ Total(f', cardToAdd, Int) <= Total(f, cardToAdd, Int) + w
       BY ONLY <1>3, <1>9, <1>10, CostAddWeight
<1>13. /\ Good(orig', <<>>, {}) /\ SameTruth(orig, orig') /\ orig'.live = orig.live
       /\ DOMAIN orig'.poids = DOMAIN orig.poids
       /\ \A p \in Points : Total(orig', <<>>, Falsified(orig', p)) =
            Total(orig, <<>>, Falsified(orig, p)) + IF p \in True(orig, l) THEN 0 ELSE w
       /\ Total(orig', <<>>, Int) <= Total(orig, <<>>, Int) + w
  <2>1. \A y \in {} : Spent(orig, y)
        OBVIOUS
  <2> QED BY ONLY <1>4, <1>9, <1>11, <2>1, CostAddWeight
<1>14. Waiting' = litToRelax' /\ Waiting = litToRelax
       BY <1>2 DEF Waiting, WaitingIn
<1>15. \A bad : OwesIn(am, bad) = 0 /\ OwesIn(am', bad) = 0
       BY <1>2 DEF OwesIn
<1>16. orig'.cards = <<>>
       BY <1>4, <1>11 DEF Weighted
<1>17. Meets(f', cardToAdd, am', orig')
  <2> SUFFICES ASSUME NEW p \in f.live
               PROVE  Total(f', cardToAdd, Falsified(f', p)) + OwesIn(am', Falsified(f', p)) = CostOf(orig', p)
      BY <1>12 DEF Meets
  <2>1. p \in Points
        BY <1>3, LivePoints DEF Good, Sound
  <2>2. CostOf(orig', p) = Total(orig', <<>>, Falsified(orig', p)) /\ CostOf(orig, p) = Total(orig, <<>>, Falsified(orig, p))
        BY <1>4, <1>13, <1>16, <2>1, UserCost
  <2>3. True(orig, l) = True(f, l)
        BY <1>4, <1>9, SameTrue DEF Free
  <2>4. Total(f, cardToAdd, Falsified(f, p)) + OwesIn(am, Falsified(f, p)) = CostOf(orig, p)
        BY DEF CostInv, PayInv, Meets
  <2>5. Total(f, cardToAdd, Falsified(f, p)) \in Int
        BY <1>3, TotalInt
  <2>6. PICK d \in Nat : d = IF p \in True(f, l) THEN 0 ELSE w
        BY <1>9
  <2>7. /\ Total(f', cardToAdd, Falsified(f', p)) = Total(f, cardToAdd, Falsified(f, p)) + d
        /\ Total(orig', <<>>, Falsified(orig', p)) = Total(orig, <<>>, Falsified(orig, p)) + d
        BY <1>12, <1>13, <2>1, <2>3, <2>6
  <2>8. Total(f, cardToAdd, Falsified(f, p)) = CostOf(orig, p)
        BY <1>15, <2>4, <2>5
  <2>9. OwesIn(am', Falsified(f', p)) = 0
        BY <1>15
  <2> QED BY ONLY <2>2, <2>5, <2>7, <2>8, <2>9
<1>18. PayInv'
  <2>1. f'.cost \in Nat
        BY <1>3, <1>9, <1>10, WeightedCost DEF Good
  <2> QED BY <1>2, <1>12, <1>14, <1>17, <2>1 DEF PayInv
<1>19. UserInv'
  <2>1. orig'.cost \in Nat
        BY <1>4, <1>9, <1>11, WeightedCost DEF Good
  <2>2. orig.poids \in Seq(Int) /\ orig'.poids \in Seq(Int)
        BY <1>4, <1>13, Fields DEF Good, Sound
  <2>3. Len(orig'.poids) = Len(orig.poids)
        BY <1>13, <2>2
  <2>4. UserLits(Len(orig.poids))'
        BY <1>4, <2>3 DEF UserLits
  <2>5. SameTruth(orig', f')
    <3>1. orig'.truth = orig.truth /\ f'.truth = f.truth
          BY <1>10, <1>11 DEF Weighted
    <3> QED BY <1>4, <1>12, <1>13, <3>1 DEF SameTruth
  <2>6. f'.live \subseteq orig'.live
        BY <1>4, <1>12, <1>13
  <2> QED BY <1>13, <1>16, <2>1, <2>4, <2>5, <2>6 DEF UserInv
<1>20. RoomInv'
  <2>1. opt.calls \in Nat /\ calls \in Nat /\ Left \in Nat \ {0} /\ Left' = Left - 1
    <3>1. opt.calls \in Nat /\ calls \in Nat
          BY <1>4, LeftFacts
    <3>2. Left = opt.calls - calls - 0 /\ Left' = opt.calls - calls - 1
          BY <1>2 DEF Left
    <3> QED BY <1>2, <3>1, <3>2
  <2>2. PICK t \in Int : t = Total(f, cardToAdd, Int)
        BY <1>3, TotalInt
  <2>3. PICK s \in Int : s = Total(f', cardToAdd, Int)
        BY <1>12, TotalInt
  <2>4. PICK u \in Int : u = Total(orig, <<>>, Int)
        BY <1>4, TotalInt
  <2>5. PICK v \in Int : v = Total(orig', <<>>, Int)
        BY <1>13, TotalInt
  <2>6. Room(t, Left) /\ Room(u, Left) /\ Added \subseteq Nat /\ w \in Added
    <3>1. OwesIn(am, Int) = 0 /\ t + 0 = t
          BY <1>15
    <3>2. w \in Added
          BY <1>1, <1>7 DEF Added
    <3> QED BY <1>4, <2>2, <2>4, <3>1, <3>2, AddedFacts DEF RoomInv
  <2>7. s <= t + w /\ v <= u + w
        BY <1>12, <1>13, <2>2, <2>3, <2>4, <2>5
  <2>8. Room(s, Left') /\ Room(v, Left')
        BY ONLY <2>1, <2>6, <2>7, s \in Int, t \in Int, u \in Int, v \in Int, RoomAdd
  <2>9. OwesIn(am', Int) = 0 /\ s + 0 = s
        BY <1>15
  <2>10. opt' \in Options /\ calls' \in 0..opt'.calls /\ (pc' = "ready" => calls' < opt'.calls) /\ then' # "ready"
         BY <1>2, <1>4 DEF RoomInv
  <2>11. Room(Total(f', cardToAdd', Int) + OwesIn(am', Int), Left') /\ Room(Total(orig', <<>>, Int), Left')
         BY <1>2, <2>3, <2>5, <2>8, <2>9
  <2> QED BY <2>10, <2>11 DEF RoomInv, Room, Added
<1>21. Merges(f', am')
       BY <1>2 DEF Merges
<1>22. Grows
  <2>1. \A p \in orig'.live : CostOf(orig', p) >= CostOf(orig, p)
    <3> TAKE p \in orig'.live
    <3>1. p \in Points
          BY <1>4, <1>13, LivePoints DEF Good, Sound
    <3>2. CostOf(orig', p) = Total(orig', <<>>, Falsified(orig', p)) /\ CostOf(orig, p) = Total(orig, <<>>, Falsified(orig, p))
          BY <1>4, <1>13, <1>16, <3>1, UserCost
    <3>3. PICK d \in Nat : d = IF p \in True(orig, l) THEN 0 ELSE w
          BY <1>9
    <3>4. Total(orig', <<>>, Falsified(orig', p)) = Total(orig, <<>>, Falsified(orig, p)) + d
          BY <1>13, <3>1, <3>3
    <3>5. Total(orig, <<>>, Falsified(orig, p)) \in Int
          BY <1>4, TotalInt
    <3> QED BY ONLY <3>2, <3>4, <3>5, d \in Nat
  <2> QED BY <1>12, <1>13, <2>1 DEF Grows

<1> QED BY <1>18, <1>19, <1>20, <1>21, <1>22 DEF CostInv


\* A hard clause over literals that are no outputs changes no constraint.
LEMMA HardPlain ==
  ASSUME NEW o, Sound(o), o.cards = <<>>, NEW C, Over(o, C), NEW g, g = AddHardClause(o, C)
  PROVE  g.cards = <<>> /\ g.truth = o.truth /\ DOMAIN g.poids = DOMAIN o.poids
<1>1. IsFormula(o) /\ o \in Formulas /\ o.poids \in Seq(Int) /\ DOMAIN o.card = DOMAIN o.poids
      BY Fields DEF Sound
<1>2. \A v \in DOMAIN o.card : o.card[v] = NoCard
      BY DEF Sound, CardOK
<1>3. CASE Cardinality(C) # 1
      BY <1>1, <1>3 DEF AddHardClause, AddHard, Formulas
<1>4. CASE Cardinality(C) = 1
  <2>1. PICK l \in C : g = HardUnit(o, l)
    <3>1. C # {}
          BY <1>4, FS_EmptySet
    <3> QED BY <1>4, <3>1 DEF AddHardClause
  <2>2. l \in Int \ {0} /\ Var(l) \in DOMAIN o.poids
        BY DEF Over, LitsOf
  <2>3. PICK w : w = Poids(o, -l)
        OBVIOUS
  <2>4. PICK b : b = [o EXCEPT !.map = Erase(@, w, -l), !.cost = Wrap(@ + w)]
        OBVIOUS
  <2>5. b.card = o.card /\ b.cards = <<>> /\ b.truth = o.truth /\ b.poids = o.poids
        BY <1>1, <2>4 DEF Formulas
  <2>6. b.card[Var(l)] = NoCard
        BY <1>1, <1>2, <2>2, <2>5
  <2>7. Relax(b, l) = b
        BY <2>6 DEF Relax
  <2>8. PICK h : h = IF w > 0 THEN Relax(b, l) ELSE IF w < 0 THEN [o EXCEPT !.map = Erase(@, -w, l)] ELSE o
        OBVIOUS
  <2>9. h.cards = <<>> /\ h.truth = o.truth /\ h.poids = o.poids
        BY <1>1, <2>5, <2>7, <2>8 DEF Formulas
  <2>10. g = AddHard(IF w = 0 THEN h ELSE [h EXCEPT !.poids = SetPoids(@, l, 0)], {l})
         BY <2>1, <2>3, <2>4, <2>8 DEF HardUnit
  <2>11. PICK k : k = IF w = 0 THEN h ELSE [h EXCEPT !.poids = SetPoids(@, l, 0)]
         OBVIOUS
  <2>12. k.cards = <<>> /\ k.truth = o.truth /\ DOMAIN k.poids = DOMAIN o.poids
    <3>1. IsFormula(h) \/ h = o \/ h = b \/ h = [o EXCEPT !.map = Erase(@, -w, l)]
          BY <2>7, <2>8
    <3>2. DOMAIN SetPoids(h.poids, l, 0) = DOMAIN h.poids
          BY DEF SetPoids
    <3> QED BY <1>1, <2>4, <2>7, <2>8, <2>9, <2>11, <3>2 DEF Formulas
  <2>13. g = AddHard(k, {l})
         BY <2>10, <2>11
  <2> QED BY <1>1, <2>4, <2>7, <2>8, <2>11, <2>12, <2>13 DEF AddHard, Formulas
<1> QED BY <1>3, <1>4

\* Between two calls, a hard clause.
LEMMA CostAddsHard ==
  ASSUME SearchInv, CostInv, AgainHard
  PROVE  CostInv' /\ Grows
<1>1. PICK C \in ExtraHard : f' = AddHardClause(f, C) /\ orig' = AddHardClause(orig, C)
      BY DEF AgainHard
<1>2. /\ am' = am /\ am.pc = "idle" /\ UNCHANGED <<cardToAdd, litToRelax, then, opt, calls>>
      /\ pc = "done" /\ pc' = "ready" /\ calls < opt.calls
      BY SearchFacts DEF AgainHard, Goto, search
<1>3. /\ Good(f, cardToAdd, litToRelax) /\ f.cost \in Nat /\ (\A l \in litToRelax : Spent(f, l))
      /\ Total(f, cardToAdd, Int) < MaxWeight /\ Left \in Nat /\ then # "ready"
      BY <1>2, IdleGood
<1>4. /\ Good(orig, <<>>, {}) /\ orig.cards = <<>> /\ orig.cost \in Nat /\ UserLits(Len(orig.poids))
      /\ SameTruth(orig, f) /\ f.live \subseteq orig.live /\ UserInv /\ RoomInv /\ Sound(orig) /\ Sound(f)
      BY <1>3 DEF CostInv, UserInv, Good
<1>5. Total(orig, <<>>, Int) < MaxWeight
      BY UserRoom
<1>6. orig.poids \in Seq(Int)
      BY <1>4, Fields DEF Sound
<1>7. Over(orig, C) /\ Over(f, C)
  <2>1. Over(orig, C)
        BY <1>4, <1>6 DEF UserLits, Over, LitsOf
  <2> QED BY <1>4, <2>1, SameTrue DEF Over
<1>8. Good(f', cardToAdd, litToRelax) /\ SameCost(f, cardToAdd, f', cardToAdd) /\ f'.live = f.live \cap UNION {True(f, l) : l \in C}
      BY ONLY <1>1, <1>3, <1>7, CostHard
<1>9. Good(orig', <<>>, {}) /\ SameCost(orig, <<>>, orig', <<>>) /\ orig'.live = orig.live \cap UNION {True(orig, l) : l \in C}
  <2>1. \A y \in {} : Spent(orig, y)
        OBVIOUS
  <2> QED BY ONLY <1>1, <1>4, <1>5, <1>7, <2>1, CostHard
<1>10. orig'.cards = <<>> /\ orig'.truth = orig.truth /\ DOMAIN orig'.poids = DOMAIN orig.poids
       BY ONLY <1>1, <1>4, <1>7, HardPlain
<1>11. f'.live \subseteq orig'.live
  <2>1. \A l \in C : True(f, l) = True(orig, l)
        BY <1>4, <1>7, SameTrue DEF Over
  <2> QED BY <1>4, <1>8, <1>9, <2>1
<1>12. Waiting' = litToRelax' /\ Waiting = litToRelax
       BY <1>2 DEF Waiting, WaitingIn
<1>13. \A bad : OwesIn(am, bad) = 0 /\ OwesIn(am', bad) = 0
       BY <1>2 DEF OwesIn
<1>14. Meets(f', cardToAdd, am', orig')
  <2> SUFFICES ASSUME NEW p \in f'.live
               PROVE  Total(f', cardToAdd, Falsified(f', p)) + OwesIn(am', Falsified(f', p)) = CostOf(orig', p)
      BY DEF Meets
  <2>1. p \in f.live /\ p \in orig'.live /\ p \in Points
        BY <1>3, <1>8, <1>11, LivePoints DEF Good, Sound
  <2>2. CostOf(orig', p) = Total(orig', <<>>, Falsified(orig', p)) /\ CostOf(orig, p) = Total(orig, <<>>, Falsified(orig, p))
        BY <1>4, <1>9, <1>10, <2>1, UserCost
  <2>3. Total(f, cardToAdd, Falsified(f, p)) + OwesIn(am, Falsified(f, p)) = CostOf(orig, p)
        BY <2>1 DEF CostInv, PayInv, Meets
  <2>4. /\ Total(f', cardToAdd, Falsified(f', p)) = Total(f, cardToAdd, Falsified(f, p))
        /\ Total(orig', <<>>, Falsified(orig', p)) = Total(orig, <<>>, Falsified(orig, p))
        BY <1>8, <1>9, <2>1 DEF SameCost
  <2>5. OwesIn(am, Falsified(f, p)) = 0 /\ OwesIn(am', Falsified(f', p)) = 0
        BY <1>13
  <2> QED BY ONLY <2>2, <2>3, <2>4, <2>5
<1>15. PayInv'
  <2>1. f'.cost \in Nat
    <3>1. f'.cost \in Int /\ f'.cost >= f.cost
          BY <1>8, Fields DEF Good, Sound, SameCost
    <3> QED BY <1>3, <3>1
  <2> QED BY <1>2, <1>8, <1>12, <1>14, <2>1 DEF PayInv
<1>16. UserInv'
  <2>1. orig'.cost \in Nat
    <3>1. orig'.cost \in Int /\ orig'.cost >= orig.cost
          BY <1>9, Fields DEF Good, Sound, SameCost
    <3> QED BY <1>4, <3>1
  <2>2. orig'.poids \in Seq(Int)
        BY <1>9, Fields DEF Good, Sound
  <2>3. Len(orig'.poids) = Len(orig.poids)
        BY <1>6, <1>10, <2>2
  <2>4. UserLits(Len(orig.poids))'
        BY <1>4, <2>3 DEF UserLits
  <2>5. SameTruth(orig', f')
        BY <1>4, <1>8, <1>10 DEF SameTruth, SameCost
  <2> QED BY <1>9, <1>10, <1>11, <2>1, <2>4, <2>5 DEF UserInv
<1>17. RoomInv'
  <2>1. Left' \in Int /\ Left' <= Left
    <3>1. opt.calls \in Nat /\ calls \in Nat
          BY <1>4, LeftFacts
    <3>2. Left = opt.calls - calls - 0 /\ Left' = opt.calls - calls - 1
          BY <1>2 DEF Left
    <3> QED BY <1>2, <3>1, <3>2
  <2>2. PICK t \in Int : t = Total(f, cardToAdd, Int)
        BY <1>3, TotalInt
  <2>3. PICK s \in Int : s = Total(f', cardToAdd, Int)
        BY <1>8, TotalInt
  <2>4. PICK u \in Int : u = Total(orig, <<>>, Int)
        BY <1>4, TotalInt
  <2>5. PICK v \in Int : v = Total(orig', <<>>, Int)
        BY <1>9, TotalInt
  <2>6. Room(t, Left) /\ Room(u, Left) /\ Added \subseteq Nat
    <3>1. OwesIn(am, Int) = 0 /\ t + 0 = t
          BY <1>13
    <3> QED BY <1>4, <2>2, <2>4, <3>1, AddedFacts DEF RoomInv
  <2>7. s <= t /\ v <= u
        BY <1>8, <1>9, <2>2, <2>3, <2>4, <2>5 DEF SameCost
  <2>8. Room(s, Left') /\ Room(v, Left')
        BY ONLY <1>3, <2>1, <2>6, <2>7, s \in Int, t \in Int, u \in Int, v \in Int, RoomLess
  <2>9. OwesIn(am', Int) = 0 /\ s + 0 = s
        BY <1>13
  <2>10. opt' \in Options /\ calls' \in 0..opt'.calls /\ (pc' = "ready" => calls' < opt'.calls) /\ then' # "ready"
         BY <1>2, <1>4 DEF RoomInv
  <2>11. Room(Total(f', cardToAdd', Int) + OwesIn(am', Int), Left') /\ Room(Total(orig', <<>>, Int), Left')
         BY <1>2, <2>3, <2>5, <2>8, <2>9
  <2> QED BY <2>10, <2>11 DEF RoomInv, Room, Added
<1>18. Merges(f', am')
       BY <1>2 DEF Merges
<1>19. Grows
  <2>1. \A p \in orig'.live : CostOf(orig', p) >= CostOf(orig, p)
    <3> TAKE p \in orig'.live
    <3>1. p \in Points
          BY <1>9, LivePoints DEF Good, Sound
    <3>2. CostOf(orig', p) = Total(orig', <<>>, Falsified(orig', p)) /\ CostOf(orig, p) = Total(orig, <<>>, Falsified(orig, p))
          BY <1>4, <1>9, <1>10, <3>1, UserCost
    <3>3. Total(orig', <<>>, Falsified(orig', p)) = Total(orig, <<>>, Falsified(orig, p))
          BY <1>9 DEF SameCost
    <3>4. Total(orig, <<>>, Falsified(orig, p)) \in Int
          BY <1>4, TotalInt
    <3> QED BY ONLY <3>2, <3>3, <3>4
  <2>2. \A x \in C : True(f, x) = True(orig, x)
        BY <1>4, <1>7, SameTrue DEF Over
  <2>3. UNION {True(f, x) : x \in C} = UNION {True(orig, x) : x \in C}
        BY <2>2
  <2> QED BY <1>8, <1>9, <2>1, <2>3 DEF Grows

<1> QED BY <1>15, <1>16, <1>17, <1>18, <1>19 DEF CostInv


-----------------------------------------------------------------------------
(***************************************************************************)
(* Steps of the at-most-one rewriting.                                     *)
(***************************************************************************)
\* What is pairwise incompatible stays so.
LEMMA CliqueKept ==
  ASSUME NEW g, NEW D, Exclusive(g, D), Over(g, D), NEW C, C \subseteq D,
         NEW h, SameTruth(g, h), h.live \subseteq g.live
  PROVE  Exclusive(h, C)
<1>1. \A l \in D : True(h, l) = True(g, l)
      BY SameTrue DEF Over
<1> QED BY <1>1 DEF Exclusive

\* So does what excludes the literal that is scanned.
LEMMA ExcludedKept ==
  ASSUME NEW g, g.poids \in Seq(Int), NEW a, Excluded(g, a), a.var \in DOMAIN g.poids, a.todo \subseteq LitsOf(g.poids),
         NEW h, SameTruth(g, h), h.live \subseteq g.live, NEW b, b.var = a.var, b.todo \subseteq a.todo,
         \A x \in {a.var, -a.var} : Weight(g.poids, x) >= 0 => Weight(h.poids, x) >= 0
  PROVE  Excluded(h, b)
<1>1. PICK x \in {a.var, -a.var} :
        /\ Weight(g.poids, x) >= 0
        /\ \A l \in a.todo : \A p \in g.live : ~(p \in True(g, l) /\ p \in True(g, x))
      BY DEF Excluded
<1>2. x \in LitsOf(g.poids)
      BY DEF LitsOf, Var
<1>3. \A l \in LitsOf(g.poids) : True(h, l) = True(g, l)
      BY SameTrue
<1>4. Weight(h.poids, x) >= 0 /\ \A l \in b.todo : \A p \in h.live : ~(p \in True(h, l) /\ p \in True(h, x))
      BY <1>1, <1>2, <1>3
<1>5. x \in {b.var, -b.var}
      OBVIOUS
<1> QED BY <1>4, <1>5 DEF Excluded

\* While a rewriting is under way.
LEMMA AmBase ==
  ASSUME SearchInv, CostInv, AmStep
  PROVE  /\ Good(f, cardToAdd, Waiting) /\ f.cost \in Nat /\ (\A l \in Waiting : Spent(f, l)) /\ Sound(f)
         /\ am \in AmStates /\ AmOK(f, am) /\ Merges(f, am) /\ am.pc # "idle" /\ f.poids \in Seq(Int)
         /\ UNCHANGED <<pc, then, cardToAdd, litToRelax, orig, opt, calls>> /\ pc # "ready"
         /\ Left' = Left /\ Left \in Nat /\ calls \in 0..opt.calls /\ then # "ready"
<1>1. UNCHANGED <<pc, then, cardToAdd, litToRelax, orig, opt, calls>> /\ AmNext /\ pc # "ready"
      BY DEF AmStep, search, frame
<1>2. am.pc # "idle"
      BY <1>1 DEF AmNext, ExactRefute, ExactKeep, ExactClique, ExactStop, ScanDone, ScanRefute, ScanNothing,
         FastClique, VeryFastProp, VeryFastPair, AmoReduce, AmoRelax, AmoSoft
<1>3. Sound(f) /\ am \in AmStates /\ AmOK(f, am) /\ f.poids \in Seq(Int)
      BY <1>2, SearchFacts DEF SearchInv, AmInv
<1>4. ASSUME NEW l \in Waiting PROVE Spent(f, l)
  <2>1. CASE l \in litToRelax
        BY <2>1 DEF SearchInv, ListInv
  <2>2. CASE am.pc = "relax" /\ l \in am.zeros
        BY <1>3, <2>2 DEF AmOK
  <2> QED BY <1>4, <2>1, <2>2 DEF Waiting, WaitingIn
<1>5. Left' = Left /\ Left \in Nat
      BY <1>1, LeftSame, LeftFacts DEF CostInv
<1> QED BY <1>1, <1>2, <1>3, <1>4, <1>5 DEF CostInv, PayInv, RoomInv

\* A step of a driver, between two cliques.
LEMMA AmDrive ==
  ASSUME SearchInv, CostInv, AmStep, am.pc # "relax", am'.pc # "relax",
         Good(f', cardToAdd, litToRelax), SameCost(f, cardToAdd, f', cardToAdd), Merges(f', am')
  PROVE  CostInv'
<1>1. /\ UNCHANGED <<pc, then, cardToAdd, litToRelax, orig, opt, calls>> /\ pc # "ready"
      /\ Left' = Left /\ Left \in Nat /\ calls \in 0..opt.calls /\ then # "ready"
      BY AmBase
<1>2. Waiting' = litToRelax'
      BY DEF Waiting, WaitingIn
<1>3. Left' \in Int /\ Left' <= Left /\ calls' \in 0..opt.calls /\ (pc' = "ready" => calls' < opt.calls) /\ then' # "ready"
      BY <1>1
<1>4. Good(f', cardToAdd', Waiting') /\ SameCost(f, cardToAdd, f', cardToAdd')
      BY <1>1, <1>2
<1> QED BY <1>1, <1>3, <1>4, CostStep

\* The formula stays.
LEMMA AmStay ==
  ASSUME SearchInv, CostInv, AmStep, am.pc # "relax", am'.pc # "relax", f' = f, Merges(f, am')
  PROVE  CostInv' /\ Rewrites
<1>1. Good(f, cardToAdd, Waiting) /\ Sound(f)
      BY AmBase
<1>2. Waiting = litToRelax
      BY DEF Waiting, WaitingIn
<1>3. SameCost(f, cardToAdd, f, cardToAdd)
      BY <1>1, CostKept
<1>4. Rewrites
      BY <1>3 DEF Rewrites, Forward, SameCost
<1> QED BY <1>1, <1>2, <1>3, <1>4, AmDrive

\* An impossible literal is refuted.
LEMMA AmRefute ==
  ASSUME SearchInv, CostInv, AmStep, am.pc \in {"test", "scan"}, am'.pc \in {"test", "scan"},
         NEW l, Soft(f, l), ~Sat(f, {l}), f' = HardUnit(f, -l)
  PROVE  CostInv' /\ Rewrites
<1>1. Good(f, cardToAdd, Waiting) /\ (\A x \in Waiting : Spent(f, x)) /\ f.cost \in Nat /\ Sound(f)
      BY AmBase
<1>2. Waiting = litToRelax
      BY DEF Waiting, WaitingIn
<1>3. Total(f, cardToAdd, Int) < MaxWeight
  <2>1. OwesIn(am, Int) = 0
        BY DEF OwesIn
  <2>2. Total(f, cardToAdd, Int) \in Int
        BY <1>1, TotalInt
  <2>3. Total(f, cardToAdd, Int) + 0 + Left * 0 < MaxWeight
        BY <2>1, AddedFacts DEF CostInv, RoomInv, Room
  <2>4. Left \in Nat
        BY AmBase
  <2>5. Left * 0 = 0
        BY ONLY <2>4
  <2> QED BY ONLY <2>2, <2>3, <2>5, MaxWeightAssumption
<1>4. PICK m : m = -l
      OBVIOUS
<1>5. m \in LitsOf(f.poids)
      BY <1>1, <1>4, Opposites DEF Soft
<1>6. f' = HardUnit(f, m)
      BY <1>4
<1>7. UnitCost(f, cardToAdd, litToRelax, f', m)
      BY ONLY <1>1, <1>2, <1>3, <1>5, <1>6, CostHardUnit
<1>8. Good(f', cardToAdd, litToRelax) /\ SameCost(f, cardToAdd, f', cardToAdd)
      BY <1>7 DEF UnitCost
<1>9. Merges(f', am')
      BY DEF Merges
<1>10. f'.live = f.live
  <2>1. f'.live = f.live \cap True(f, m)
        BY <1>7 DEF UnitCost
  <2>2. ASSUME NEW p \in f.live PROVE p \in True(f, m)
    <3>1. p \in Points /\ IsFormula(f)
          BY <1>1, LivePoints DEF Sound
    <3>2. p \notin True(f, l)
          BY DEF Sat, Models
    <3>3. l \in Falsified(f, p) /\ (-l \in Falsified(f, p) <=> l \notin Falsified(f, p))
          BY <3>1, <3>2, FalsifiedFacts DEF Soft
    <3>4. m \in Falsified(f, p) <=> p \notin True(f, m)
          BY <1>5, <3>1, FalsifiedFacts
    <3> QED BY <1>4, <3>3, <3>4
  <2> QED BY <2>1, <2>2
<1>11. f.cards = <<>> => f'.cards = <<>>
  <2>1. Over(f, {m})
        BY <1>5 DEF Over
  <2>2. f' = AddHardClause(f, {m})
    <3>1. Cardinality({m}) = 1
          BY FS_Singleton
    <3>2. (CHOOSE x \in {m} : TRUE) = m
          OBVIOUS
    <3> QED BY <1>6, <3>1, <3>2 DEF AddHardClause
  <2> QED BY ONLY <1>1, <2>1, <2>2, HardPlain
<1>12. Rewrites
       BY <1>8, <1>10, <1>11 DEF Rewrites, Forward, SameCost
<1> QED BY <1>8, <1>9, <1>12, AmDrive


\* Incompatible literals are never true together.
LEMMA Apart ==
  ASSUME NEW a, NEW b, Incompatible(a, b)
  PROVE  \A p \in f.live : ~(p \in True(f, a) /\ p \in True(f, b))
  BY DEF Incompatible, Sat, Models

\* Refutations.
LEMMA CostRefutes ==
  ASSUME SearchInv, CostInv, AmStep, ExactRefute \/ ScanRefute
  PROVE  CostInv' /\ Rewrites
<1>1. Sound(f) /\ am \in AmStates /\ AmOK(f, am)
      BY AmBase
<1>2. CASE ExactRefute
  <2>1. PICK l \in am.todo : ~Sat(f, {l}) /\ f' = HardUnit(f, -l) /\ am' = [am EXCEPT !.todo = @ \ {l}]
        BY <1>2 DEF ExactRefute
  <2>2. am.pc = "test" /\ am'.pc = "test"
        BY <1>1, <1>2, <2>1 DEF ExactRefute, AmStates
  <2>3. Soft(f, l)
        BY <1>1, <2>1, <2>2 DEF AmOK
  <2> QED BY <2>1, <2>2, <2>3, AmRefute
<1>3. CASE ScanRefute
  <2>1. am.pc = "scan" /\ ScanVars # {} /\ f' = HardUnit(f, -ScanLit) /\ ~Sat(f, {ScanLit})
        BY <1>3 DEF ScanRefute
  <2>2. Soft(f, ScanLit)
        BY <1>1, <2>1, ScanFacts
  <2>3. am'.pc = "scan"
        BY <1>1, <1>3 DEF ScanRefute, ScanNext, AmStates
  <2> QED BY <2>1, <2>2, <2>3, AmRefute
<1> QED BY <1>2, <1>3

\* Steps of the drivers that find no clique.
LEMMA CostScans ==
  ASSUME SearchInv, CostInv, AmStep, ExactKeep \/ ExactStop \/ ScanDone \/ ScanNothing
  PROVE  CostInv' /\ Rewrites
<1>1. am \in AmStates
      BY AmBase
<1>2. f' = f /\ am.pc \in {"test", "scan"}
      BY DEF ExactKeep, ExactStop, ScanDone, ScanNothing
<1>3. am'.pc \in {"test", "scan", "idle"}
  <2>1. CASE ExactKeep
        BY <1>1, <2>1 DEF ExactKeep, AmStates
  <2>2. CASE ExactStop
        BY <2>2 DEF ExactStop, StartScan, AmIdle
  <2>3. CASE ScanDone
        BY <2>3 DEF ScanDone, AmIdle
  <2>4. CASE ScanNothing
        BY <1>1, <2>4 DEF ScanNothing, ScanNext, AmStates
  <2> QED BY <2>1, <2>2, <2>3, <2>4
<1>4. Merges(f, am')
      BY <1>3 DEF Merges
<1> QED BY <1>2, <1>3, <1>4, AmStay

\* A clique is found.
LEMMA CostCliques ==
  ASSUME SearchInv, CostInv, AmStep, ExactClique \/ FastClique
  PROVE  CostInv' /\ Rewrites
<1>1. am \in AmStates /\ AmOK(f, am)
      BY AmBase
<1>2. f' = f /\ am.pc \in {"test", "scan"}
      BY DEF ExactClique, FastClique
<1>3. am'.pc = "reduce" /\ Exclusive(f, am'.clause) /\ am'.by # "veryFast"
  <2>1. CASE ExactClique
    <3>1. PICK C \in SUBSET am.active : IsClique(C) /\ am' = StartClique([am EXCEPT !.active = @ \ C], C)
          BY <2>1 DEF ExactClique
    <3>2. am.by = "exact"
          BY <1>1, <2>1 DEF ExactClique, AmOK
    <3>3. am'.pc = "reduce" /\ am'.clause = C /\ am'.by = "exact"
          BY <1>1, <3>1, <3>2 DEF StartClique, AmStates
    <3>4. Exclusive(f, C)
          BY <3>1, Apart DEF IsClique, Exclusive
    <3> QED BY <3>3, <3>4
  <2>2. CASE FastClique
    <3>1. PICK C \in SUBSET Excludes(ScanLit) :
            IsClique(C) /\ am' = StartClique([am EXCEPT !.var = ScanVar, !.found = TRUE], C \cup {ScanLit})
          BY <2>2 DEF FastClique
    <3>2. am.by = "fast"
          BY <2>2 DEF FastClique
    <3>3. am'.pc = "reduce" /\ am'.clause = C \cup {ScanLit} /\ am'.by = "fast"
          BY <1>1, <3>1, <3>2 DEF StartClique, AmStates
    <3>4. \A b \in C : \A p \in f.live : ~(p \in True(f, ScanLit) /\ p \in True(f, b))
          BY <3>1, Apart DEF Excludes
    <3>5. \A a, b \in C : a # b => \A p \in f.live : ~(p \in True(f, a) /\ p \in True(f, b))
          BY <3>1, Apart DEF IsClique
    <3>6. Exclusive(f, C \cup {ScanLit})
          BY <3>4, <3>5 DEF Exclusive
    <3> QED BY <3>3, <3>6
  <2> QED BY <2>1, <2>2
<1>4. Merges(f, am')
      BY <1>3 DEF Merges
<1> QED BY <1>2, <1>3, <1>4, AmStay

\* The very fast heuristic propagates a literal.
LEMMA CostProps ==
  ASSUME SearchInv, CostInv, AmStep, VeryFastProp
  PROVE  CostInv' /\ Rewrites
<1>1. am \in AmStates /\ AmOK(f, am) /\ Sound(f)
      BY AmBase
<1>2. f' = f /\ am.pc = "scan" /\ am.by = "veryFast" /\ ScanVars # {}
      BY DEF VeryFastProp
<1>3. PICK P \in SUBSET Excludes(ScanLit) : am' = [am EXCEPT !.pc = "pair", !.var = ScanVar, !.todo = P]
      BY DEF VeryFastProp
<1>4. am'.pc = "pair" /\ am'.by = "veryFast" /\ am'.var = ScanVar /\ am'.todo = P
      BY <1>1, <1>2, <1>3 DEF AmStates
<1>5. ScanLit \in {ScanVar, -ScanVar} /\ Weight(f.poids, ScanLit) >= 0
  <2>1. Soft(f, ScanLit)
        BY <1>1, <1>2, ScanFacts
  <2>2. Weight(f.poids, ScanLit) \in Int
        BY <1>1, <2>1, Opposites DEF Soft
  <2> QED BY <2>1, <2>2 DEF Soft, ScanLit
<1>6. \A l \in P : \A p \in f.live : ~(p \in True(f, l) /\ p \in True(f, ScanLit))
      BY <1>3, Apart DEF Excludes
<1>7. Excluded(f, am')
      BY <1>4, <1>5, <1>6 DEF Excluded
<1>8. Merges(f, am')
      BY <1>4, <1>7 DEF Merges
<1> QED BY <1>2, <1>4, <1>8, AmStay

\* The variable under scan is the least that has a weight.
LEMMA ScanSame ==
  ASSUME Sound(f), am.var \in DOMAIN f.poids, f.poids[am.var] # 0
  PROVE  ScanVar = am.var
<1>1. f.poids \in Seq(Int)
      BY Fields DEF Sound
<1>2. ScanVars \subseteq Nat /\ am.var \in ScanVars /\ \A v \in ScanVars : am.var <= v
      BY <1>1 DEF ScanVars, Vars
<1>3. PICK S : S = ScanVars
      OBVIOUS
<1>4. S \in SUBSET Nat /\ S # {} /\ am.var \in S /\ (\A v \in S : am.var <= v) /\ ScanVar = Min(S)
      BY <1>2, <1>3 DEF ScanVar
<1>5. Min(S) \in S /\ \A y \in S : Min(S) <= y
      BY ONLY <1>4, MinFacts
<1>6. Min(S) <= am.var /\ am.var <= Min(S) /\ am.var \in Nat /\ Min(S) \in Nat
      BY <1>4, <1>5
<1> QED BY <1>4, <1>6

\* It pairs a propagated literal with the one it scans.
LEMMA CostPairs ==
  ASSUME SearchInv, CostInv, AmStep, VeryFastPair
  PROVE  CostInv' /\ Rewrites
<1>1. am \in AmStates /\ AmOK(f, am) /\ Merges(f, am) /\ Sound(f) /\ f.poids \in Seq(Int)
      BY AmBase
<1>2. f' = f /\ am.pc = "pair"
      BY DEF VeryFastPair
<1>3. am.by = "veryFast" /\ Excluded(f, am) /\ am.var \in DOMAIN f.poids /\ f.poids[am.var] # 0
      /\ am.todo \subseteq LitsOf(f.poids)
      BY <1>1, <1>2 DEF Merges, AmOK
<1>4. PICK l \in am.todo :
        am' = IF Poids(f, l) > 0
              THEN StartClique([[am EXCEPT !.todo = am.todo \ {l}] EXCEPT !.found = TRUE], {l, ScanLit})
              ELSE IF [am EXCEPT !.todo = am.todo \ {l}].todo = {}
                   THEN ScanNext([am EXCEPT !.todo = am.todo \ {l}], am.var)
                   ELSE [am EXCEPT !.todo = am.todo \ {l}]
      BY DEF VeryFastPair
<1>5. SameTruth(f, f)
      BY DEF SameTruth
<1>6. PICK x \in {am.var, -am.var} :
        /\ Weight(f.poids, x) >= 0
        /\ \A y \in am.todo : \A p \in f.live : ~(p \in True(f, y) /\ p \in True(f, x))
      BY <1>3 DEF Excluded
<1>7. x = ScanLit
  <2>1. ScanVar = am.var
        BY <1>1, <1>3, ScanSame
  <2>2. am.var \in Nat \ {0} /\ f.poids[am.var] \in Int
        BY <1>1, <1>3
  <2> QED BY <1>3, <1>6, <2>1, <2>2 DEF ScanLit, Weight
<1>8. CASE Poids(f, l) > 0
  <2>1. am'.pc = "reduce" /\ am'.clause = {l, ScanLit} /\ am'.by = am.by /\ am'.var = am.var /\ am'.todo = am.todo \ {l}
        BY <1>1, <1>4, <1>8 DEF StartClique, AmStates
  <2>2. Exclusive(f, {l, ScanLit})
        BY <1>6, <1>7 DEF Exclusive
  <2>3. Excluded(f, am')
        BY <1>1, <1>3, <1>5, <2>1, ExcludedKept
  <2>4. Merges(f, am')
        BY <2>1, <2>2, <2>3 DEF Merges
  <2> QED BY <1>2, <2>1, <2>4, AmStay
<1>9. CASE ~(Poids(f, l) > 0) /\ am.todo \ {l} = {}
  <2>1. am'.pc = "scan"
        BY <1>1, <1>4, <1>9 DEF ScanNext, AmStates
  <2>2. Merges(f, am')
        BY <2>1 DEF Merges
  <2> QED BY <1>2, <2>1, <2>2, AmStay
<1>10. CASE ~(Poids(f, l) > 0) /\ am.todo \ {l} # {}
  <2>1. am'.pc = "pair" /\ am'.by = am.by /\ am'.var = am.var /\ am'.todo = am.todo \ {l}
        BY <1>1, <1>2, <1>4, <1>10 DEF AmStates
  <2>2. Excluded(f, am')
        BY <1>1, <1>3, <1>5, <2>1, ExcludedKept
  <2>3. Merges(f, am')
        BY <1>3, <2>1, <2>2 DEF Merges
  <2> QED BY <1>2, <2>1, <2>3, AmStay
<1> QED BY <1>8, <1>9, <1>10


\* A step of processAtMostOne, with what it has taken and not given back.
Owing(g, q, a, bad) == Total(g, q, bad) + OwesIn(a, bad)

AmKeeps(g, q, a, h, b) ==
    /\ SameTruth(g, h) /\ h.live \subseteq g.live /\ h.cost \in Nat
    /\ \A p \in h.live : Owing(h, q, b, Falsified(h, p)) = Owing(g, q, a, Falsified(g, p))
    /\ Owing(h, q, b, Int) \in Int /\ Owing(g, q, a, Int) \in Int
    /\ Owing(h, q, b, Int) <= Owing(g, q, a, Int)

\* Such a step keeps the invariant.
LEMMA AmoKeeps ==
  ASSUME SearchInv, CostInv, AmStep, Good(f', cardToAdd, WaitingIn(am', litToRelax)),
         AmKeeps(f, cardToAdd, am, f', am'), Merges(f', am')
  PROVE  CostInv'
<1>1. /\ UNCHANGED <<pc, then, cardToAdd, litToRelax, orig, opt, calls>> /\ pc # "ready"
      /\ Left' = Left /\ calls \in 0..opt.calls /\ then # "ready"
      BY AmBase
<1>2. Waiting' = WaitingIn(am', litToRelax)
      BY <1>1 DEF Waiting
<1>3. Meets(f, cardToAdd, am, orig) /\ UserInv /\ RoomInv
      BY DEF CostInv, PayInv
<1>4. Meets(f', cardToAdd, am', orig)
      BY <1>3 DEF Meets, AmKeeps, Owing
<1>5. PayInv'
      BY <1>1, <1>2, <1>4 DEF PayInv, AmKeeps
<1>6. UserInv'
      BY <1>1, <1>3, UserKept DEF AmKeeps
<1>7. RoomInv'
  <2>1. Room(Owing(f', cardToAdd, am', Int), Left) /\ Room(Total(orig, <<>>, Int), Left)
    <3>1. PICK t \in Int : t = Owing(f, cardToAdd, am, Int)
          BY DEF AmKeeps
    <3>2. PICK s \in Int : s = Owing(f', cardToAdd, am', Int)
          BY DEF AmKeeps
    <3>3. s <= t
          BY <3>1, <3>2 DEF AmKeeps
    <3>4. Room(t, Left) /\ Added \subseteq Nat /\ Left \in Int /\ Left <= Left
          BY <1>3, <3>1, AddedFacts, LeftFacts DEF RoomInv, Owing
    <3>5. Room(s, Left)
          BY ONLY <3>3, <3>4, s \in Int, t \in Int, RoomLess
    <3> QED BY <1>3, <3>2, <3>5 DEF RoomInv
  <2> QED BY <1>1, <1>3, <2>1 DEF RoomInv, Room, Added, Owing
<1> QED BY <1>5, <1>6, <1>7 DEF CostInv

\* The least weight is taken from every literal of the clique.
LEMMA CostReduces ==
  ASSUME SearchInv, CostInv, AmStep, AmoReduce
  PROVE  CostInv' /\ Rewrites
<1>1. /\ Good(f, cardToAdd, Waiting) /\ f.cost \in Nat /\ (\A l \in Waiting : Spent(f, l)) /\ Sound(f)
      /\ am \in AmStates /\ AmOK(f, am) /\ Merges(f, am) /\ f.poids \in Seq(Int)
      BY AmBase
<1>2. PICK C : C = am.clause
      OBVIOUS
<1>3. PICK w : w = MinPoids(C)
      OBVIOUS
<1>4. /\ am.pc = "reduce" /\ f' = Reweigh(f, C, w)
      /\ am' = [am EXCEPT !.pc = "relax", !.saved = C, !.w = w, !.clause = C \ {l \in C : Poids(f, l) = w},
                          !.zeros = {l \in {l \in C : Poids(f, l) = w} : f.card[Var(l)] # NoCard}]
      BY <1>2, <1>3 DEF AmoReduce
<1>5. C # {} /\ (\A l \in C : Soft(f, l)) /\ Exclusive(f, C) /\ (am.by = "veryFast" => am.var \in DOMAIN f.poids /\ Excluded(f, am))
      /\ am.todo \subseteq LitsOf(f.poids)
      BY <1>1, <1>2, <1>4 DEF AmOK, CliqueOK, Merges
<1>6. w \in Nat \ {0} /\ Takes(f, C, w)
      BY ONLY <1>1, <1>3, <1>5, LeastWeight DEF Takes
<1>7. Lightened(f, C, w, f') /\ f'.cost = f.cost
      BY ONLY <1>1, <1>4, <1>6, ReweighIs DEF Takes, Lightened
<1>8. /\ am'.pc = "relax" /\ am'.saved = C /\ am'.w = w /\ am'.clause = C \ {l \in C : Poids(f, l) = w}
      /\ am'.zeros = {l \in {l \in C : Poids(f, l) = w} : f.card[Var(l)] # NoCard}
      /\ am'.by = am.by /\ am'.var = am.var /\ am'.todo = am.todo
      BY <1>1, <1>4 DEF AmStates
<1>9. \A x \in LitsOf(f.poids) : Weight(f'.poids, x) = WeightLeft(f.poids, C, w, x) /\ Weight(f.poids, x) \in Int
  <2>1. f'.poids = Lighter(f.poids, C, w) /\ C \in SUBSET LitsOf(f.poids) /\ Affords(f.poids, C, w)
        BY <1>6, <1>7 DEF Lightened, Takes
  <2> QED BY ONLY <1>1, <1>6, <2>1, ReweighWeights, WeightFacts
<1>10. C \subseteq LitsOf(f.poids)
       BY <1>6 DEF Takes
<1>11. am'.zeros = Zeros(f, C, f')
  <2>1. \A l \in C : Weight(f'.poids, l) = 0 <=> Poids(f, l) = w
        BY <1>6, <1>9, <1>10 DEF WeightLeft, Poids
  <2> QED BY <1>8, <2>1 DEF Zeros
<1>12. PICK X : X = Waiting \cup Zeros(f, C, f')
       OBVIOUS
<1>13. WaitingIn(am', litToRelax) = X
       BY <1>4, <1>8, <1>11, <1>12 DEF Waiting, WaitingIn
<1>14. /\ Good(f', cardToAdd, X) /\ SameTruth(f, f') /\ f'.live = f.live
       /\ \A bad : Total(f', cardToAdd, bad) + Share(C, w, bad) = Total(f, cardToAdd, bad)
       /\ \A p : Falsified(f', p) = Falsified(f, p)
  <2>1. Reduced(f, cardToAdd, C, w, f', X)
        BY ONLY <1>1, <1>6, <1>7, <1>12, CostReduce
  <2> QED BY <2>1 DEF Reduced
<1>15. \A bad : Owing(f', cardToAdd, am', bad) = Owing(f, cardToAdd, am, bad)
  <2> SUFFICES ASSUME NEW bad PROVE Owing(f', cardToAdd, am', bad) = Owing(f, cardToAdd, am, bad)
      OBVIOUS
  <2>1. OwesIn(am, bad) = 0 /\ OwesIn(am', bad) = Share(C, w, bad)
        BY <1>4, <1>8 DEF OwesIn
  <2>2. Total(f, cardToAdd, bad) \in Int
        BY <1>1, TotalInt
  <2> QED BY <1>14, <2>1, <2>2 DEF Owing
<1>16. AmKeeps(f, cardToAdd, am, f', am')
  <2>1. f'.cost \in Nat
        BY <1>1, <1>7
  <2>2. OwesIn(am, Int) = 0
        BY <1>4 DEF OwesIn
  <2>3. Owing(f, cardToAdd, am, Int) \in Int
        BY <1>1, <2>2, TotalInt DEF Owing
  <2> QED BY <1>14, <1>15, <2>1, <2>3 DEF AmKeeps
<1>17. Merges(f', am')
  <2>1. Exclusive(f', C)
        BY <1>5, <1>10, <1>14, CliqueKept DEF Over
  <2>2. am'.clause \subseteq C
        BY <1>8
  <2>3. am.by = "veryFast" => Excluded(f', am')
    <3> SUFFICES ASSUME am.by = "veryFast" PROVE Excluded(f', am')
        OBVIOUS
    <3>1. ASSUME NEW x \in {am.var, -am.var}, Weight(f.poids, x) >= 0 PROVE Weight(f'.poids, x) >= 0
      <4>1. am.var \in DOMAIN f.poids
            BY <1>5
      <4>2. x \in LitsOf(f.poids) /\ -x \in LitsOf(f.poids) /\ x \in Int
        <5>1. am.var \in Nat \ {0}
              BY <1>1, <4>1
        <5>2. am.var \in LitsOf(f.poids)
              BY <4>1, <5>1 DEF LitsOf, Var
        <5>3. -am.var \in LitsOf(f.poids)
              BY <1>1, <5>2, Opposites
        <5>4. -(-am.var) = am.var
              BY <5>1
        <5> QED BY <3>1, <5>1, <5>2, <5>3, <5>4
      <4>3. x \in C => Weight(f.poids, x) >= w
            BY <1>6 DEF Takes, Affords
      <4>4. Weight(f.poids, x) + w >= 0
            BY <1>6, <1>9, <3>1, <4>2
      <4>5. x \in C => Weight(f.poids, x) - w >= 0
            BY <1>6, <1>9, <4>2, <4>3
      <4>6. Weight(f'.poids, x) = WeightLeft(f.poids, C, w, x)
            BY <1>9, <4>2
      <4> QED BY <3>1, <4>4, <4>5, <4>6 DEF WeightLeft
    <3>2. am.var \in DOMAIN f.poids /\ Excluded(f, am)
          BY <1>5
    <3>3. f'.live \subseteq f.live /\ am'.todo \subseteq am.todo /\ am'.var = am.var
          BY <1>8, <1>14
    <3>4. \A x \in {am.var, -am.var} : Weight(f.poids, x) >= 0 => Weight(f'.poids, x) >= 0
          BY <3>1
    <3> QED BY ONLY <1>1, <1>5, <1>14, <3>2, <3>3, <3>4, ExcludedKept
  <2> QED BY <1>5, <1>8, <2>1, <2>2, <2>3 DEF Merges
<1>18. Rewrites
  <2>1. f'.cards = f.cards
        BY <1>7 DEF Lightened
  <2>2. f'.cost >= f.cost
        BY <1>1, <1>7
  <2> QED BY <1>14, <2>1, <2>2 DEF Rewrites, Forward
<1> QED BY <1>13, <1>14, <1>16, <1>17, <1>18, AmoKeeps

\* Relaxing a spent output leaves the weights there are.
LEMMA RelaxWeights ==
  ASSUME NEW g, NEW q, NEW W, Good(g, q, W), NEW l \in W, Spent(g, l), NEW h, h = Relax(g, l)
  PROVE  \A v \in DOMAIN g.poids : h.poids[v] = g.poids[v]
<1>1. IsFormula(g) /\ CardOK(g) /\ g.poids \in Seq(Int)
      BY Fields DEF Good, Sound
<1>2. PICK v : v = Var(l)
      OBVIOUS
<1>3. l \in LitsOf(g.poids) /\ l = -v /\ v \in DOMAIN g.poids /\ g.card[v] # NoCard
      BY <1>1, <1>2 DEF Spent, LitsOf, Var
<1>4. v \in Open(g, W)
      BY <1>3 DEF Open
<1>5. Opens(g, h, Open(g, W) \ {v})
      BY <1>1, <1>2, <1>3, <1>4, RelaxShape DEF Good
<1> QED BY <1>5 DEF Opens, Relaxed

\* A share is that of the literals there are.
LEMMA ShareKept ==
  ASSUME NEW g, Sound(g), NEW h, Sound(h), SameTruth(g, h), NEW p \in Points, NEW S, Over(g, S), NEW w
  PROVE  Share(S, w, Falsified(h, p)) = Share(S, w, Falsified(g, p))
<1>1. \A l \in S : l \in Falsified(h, p) <=> l \in Falsified(g, p)
      BY SameFalsified DEF Sound, Over
<1>2. S \cap Falsified(h, p) = S \cap Falsified(g, p)
      BY <1>1
<1> QED BY <1>2 DEF Share


\* A spent output of the clique is relaxed.
LEMMA CostRelaxesClique ==
  ASSUME SearchInv, CostInv, AmStep, AmoRelax
  PROVE  CostInv' /\ Rewrites
<1>1. /\ Good(f, cardToAdd, Waiting) /\ f.cost \in Nat /\ (\A l \in Waiting : Spent(f, l)) /\ Sound(f)
      /\ am \in AmStates /\ AmOK(f, am) /\ Merges(f, am) /\ f.poids \in Seq(Int)
      BY AmBase
<1>2. am.pc = "relax" /\ am.zeros \cap litToRelax = {}
      BY DEF AmoRelax, SearchInv, AmInv
<1>3. PICK l \in am.zeros : f' = Relax(f, l) /\ am' = [am EXCEPT !.zeros = @ \ {l}]
      BY DEF AmoRelax
<1>4. /\ am'.pc = "relax" /\ am'.zeros = am.zeros \ {l} /\ am'.saved = am.saved /\ am'.w = am.w /\ am'.clause = am.clause
      /\ am'.by = am.by /\ am'.var = am.var /\ am'.todo = am.todo
      BY <1>1, <1>2, <1>3 DEF AmStates
<1>5. l \in Waiting /\ Spent(f, l) /\ WaitingIn(am', litToRelax) = Waiting \ {l}
      BY <1>1, <1>2, <1>3, <1>4 DEF Waiting, WaitingIn
<1>6. PICK X : X = Waiting \ {l}
      OBVIOUS
<1>7. Good(f', cardToAdd, X) /\ SameCost(f, cardToAdd, f', cardToAdd) /\ f'.live = f.live /\ f'.cost = f.cost
  <2>1. Good(f, cardToAdd, Waiting) /\ l \in Waiting /\ Spent(f, l) /\ X = Waiting \ {l} /\ f' = Relax(f, l)
        BY <1>1, <1>3, <1>5, <1>6
  <2> QED BY ONLY <2>1, CostRelax
<1>8. SameTruth(f, f') /\ Sound(f')
      BY <1>7 DEF SameCost, Good
<1>9. am.saved \subseteq LitsOf(f.poids) /\ am.todo \subseteq LitsOf(f.poids)
      /\ (am.by = "veryFast" => am.var \in DOMAIN f.poids)
      BY <1>1, <1>2 DEF AmOK, CliqueOK
<1>10. AmKeeps(f, cardToAdd, am, f', am')
  <2>1. ASSUME NEW p \in f'.live
        PROVE  Owing(f', cardToAdd, am', Falsified(f', p)) = Owing(f, cardToAdd, am, Falsified(f, p))
    <3>1. p \in Points
          BY <1>8, LivePoints DEF Sound
    <3>2. Total(f', cardToAdd, Falsified(f', p)) = Total(f, cardToAdd, Falsified(f, p))
          BY <1>7 DEF SameCost
    <3>3. Share(am.saved, am.w, Falsified(f', p)) = Share(am.saved, am.w, Falsified(f, p))
          BY <1>1, <1>8, <1>9, <3>1, ShareKept DEF Over
    <3>4. OwesIn(am', Falsified(f', p)) = OwesIn(am, Falsified(f, p))
          BY <1>2, <1>4, <3>3 DEF OwesIn
    <3> QED BY <3>2, <3>4 DEF Owing
  <2>2. /\ Owing(f', cardToAdd, am', Int) \in Int /\ Owing(f, cardToAdd, am, Int) \in Int
        /\ Owing(f', cardToAdd, am', Int) <= Owing(f, cardToAdd, am, Int)
    <3>1. am.w \in Nat \ {0}
          BY <1>1, <1>2 DEF AmOK
    <3>2. PICK k : k = Cardinality(am.saved)
          OBVIOUS
    <3>3. Over(f, am.saved)
          BY <1>9 DEF Over
    <3>4. Share(am.saved, am.w, Int) = am.w * (k - 1) + am.w /\ am.w * (k - 1) \in Int
          BY ONLY <1>1, <3>1, <3>2, <3>3, ShareAll
    <3>5. PICK o \in Int : o = Share(am.saved, am.w, Int)
          BY <3>1, <3>4
    <3>6. OwesIn(am', Int) = o /\ OwesIn(am, Int) = o
          BY <1>2, <1>4, <3>5 DEF OwesIn
    <3>7. Total(f', cardToAdd, Int) <= Total(f, cardToAdd, Int)
          BY <1>7 DEF SameCost
    <3>8. Total(f', cardToAdd, Int) \in Int /\ Total(f, cardToAdd, Int) \in Int
          BY <1>1, <1>7, TotalInt
    <3> QED BY <3>6, <3>7, <3>8 DEF Owing
  <2>3. f'.cost \in Nat
        BY <1>1, <1>7
  <2> QED BY <1>7, <1>8, <2>1, <2>2, <2>3 DEF AmKeeps
<1>11. Merges(f', am')
  <2>1. Exclusive(f, am.saved) /\ am.clause \subseteq am.saved /\ am.saved # {}
        BY <1>1, <1>2 DEF Merges
  <2>2. Exclusive(f', am.saved)
        BY <1>7, <1>8, <1>9, <2>1, CliqueKept DEF Over
  <2>3. am.by = "veryFast" => Excluded(f', am')
    <3> SUFFICES ASSUME am.by = "veryFast" PROVE Excluded(f', am')
        OBVIOUS
    <3>1. Excluded(f, am) /\ am.var \in DOMAIN f.poids
          BY <1>1, <1>2, <1>9 DEF Merges
    <3>2. f'.poids[am.var] = f.poids[am.var]
      <4>1. \A v \in DOMAIN f.poids : f'.poids[v] = f.poids[v]
            BY ONLY <1>1, <1>3, <1>5, RelaxWeights
      <4> QED BY <3>1, <4>1
    <3>3. \A x \in {am.var, -am.var} : Weight(f'.poids, x) = Weight(f.poids, x)
          BY <1>1, <3>1, <3>2 DEF Weight
    <3>4. \A x \in {am.var, -am.var} : Weight(f.poids, x) >= 0 => Weight(f'.poids, x) >= 0
          BY <3>3
    <3>5. f.poids \in Seq(Int) /\ f'.live \subseteq f.live /\ am'.var = am.var /\ am'.todo \subseteq am.todo
          /\ am.todo \subseteq LitsOf(f.poids)
          BY <1>1, <1>4, <1>7, <1>9
    <3> QED BY ONLY <1>8, <3>1, <3>4, <3>5, ExcludedKept
  <2> QED BY <1>4, <2>1, <2>2, <2>3 DEF Merges
<1>12. f.cards # <<>>
  <2>1. Var(l) \in DOMAIN f.card /\ f.card[Var(l)] # NoCard
        BY <1>1, <1>5, Fields DEF Spent, LitsOf, Sound
  <2>2. f.card[Var(l)].card \in DOMAIN f.cards
        BY <1>1, <2>1 DEF Sound, CardOK
  <2> QED BY <2>2
<1>13. Rewrites
       BY <1>7, <1>12 DEF Rewrites, Forward, SameCost
<1> QED BY <1>5, <1>6, <1>7, <1>10, <1>11, <1>13, AmoKeeps


\* The clause of the clique becomes soft.
LEMMA CostMerges ==
  ASSUME SearchInv, CostInv, AmStep, AmoSoft
  PROVE  CostInv' /\ Rewrites
<1>1. /\ Good(f, cardToAdd, Waiting) /\ f.cost \in Nat /\ Sound(f) /\ am \in AmStates /\ AmOK(f, am)
      /\ Merges(f, am) /\ f.poids \in Seq(Int) /\ Left \in Nat
      BY AmBase
<1>2. PICK n : n = am.newAssum \cup {Len(f.poids) + 1}
      OBVIOUS
<1>3. PICK a : a = [am EXCEPT !.saved = {}, !.w = 0, !.clause = {}, !.newAssum = {}]
      OBVIOUS
<1>4. /\ am.pc = "relax" /\ am.zeros = {} /\ Merging(f, am.saved, am.w, f')
      /\ am' = IF Cardinality(am.clause) > 1
               THEN [am EXCEPT !.pc = "reduce", !.newAssum = n]
               ELSE Resume(f', a, n \cup am.clause)
      BY <1>2, <1>3 DEF AmoSoft, Merging
<1>5. a \in AmStates /\ a.by = am.by /\ a.var = am.var /\ a.todo = am.todo
      BY <1>1, <1>3 DEF AmStates
<1>6. /\ am.saved \subseteq LitsOf(f.poids) /\ am.w \in Nat \ {0} /\ am.todo \subseteq LitsOf(f.poids)
      /\ am.by = "veryFast" => am.var \in DOMAIN f.poids
      BY <1>1, <1>4 DEF AmOK, CliqueOK
<1>7. Exclusive(f, am.saved) /\ am.clause \subseteq am.saved /\ am.saved # {} /\ (am.by = "veryFast" => Excluded(f, am))
      BY <1>1, <1>4 DEF Merges
<1>8. /\ am'.pc # "relax"
      /\ am'.pc = "reduce" => am'.clause = am.clause
      /\ am'.pc \in {"pair", "reduce"} => am'.by = am.by /\ am'.var = am.var /\ am'.todo = am.todo
      /\ am'.pc = "pair" => am'.by = "veryFast"
  <2>1. CASE Cardinality(am.clause) > 1
        BY <1>1, <1>4, <2>1 DEF AmStates
  <2>2. CASE ~(Cardinality(am.clause) > 1)
    <3>1. PICK N : am' = Resume(f', a, N)
          BY <1>4, <2>2
    <3> QED BY <1>5, <3>1 DEF Resume, ScanNext, AmStates
  <2> QED BY <2>1, <2>2
<1>9. Waiting = litToRelax /\ WaitingIn(am', litToRelax) = litToRelax
      BY <1>4, <1>8 DEF Waiting, WaitingIn
<1>10. Sound(f')
       BY AmSteps, SearchFacts DEF SearchInv, FormulaInv
<1>11. PICK S : S = am.saved
       OBVIOUS
<1>12. PICK w \in Nat \ {0} : w = am.w
       BY <1>6
<1>13. Over(f, S) /\ S # {} /\ Exclusive(f, S) /\ Merging(f, S, w, f')
       BY <1>4, <1>6, <1>7, <1>11, <1>12 DEF Over
<1>14. \A bad : OwesIn(am, bad) = Share(S, w, bad) /\ OwesIn(am', bad) = 0
       BY <1>4, <1>8, <1>11, <1>12 DEF OwesIn
<1>15. Total(f, cardToAdd, Int) + Share(S, w, Int) < MaxWeight
  <2>1. Room(Total(f, cardToAdd, Int) + Share(S, w, Int), Left) /\ 0 \in Added
        BY <1>14, AddedFacts DEF CostInv, RoomInv
  <2>2. Total(f, cardToAdd, Int) + Share(S, w, Int) + Left * 0 < MaxWeight
        BY <2>1 DEF Room
  <2>3. Left * 0 = 0
        BY ONLY <1>1
  <2>4. Total(f, cardToAdd, Int) \in Int
        BY <1>1, TotalInt
  <2>5. PICK k : k = Cardinality(S)
        OBVIOUS
  <2>6. Share(S, w, Int) = w * (k - 1) + w /\ w * (k - 1) \in Int
        BY ONLY <1>1, <1>12, <1>13, <2>5, ShareAll
  <2>7. Share(S, w, Int) \in Int
        BY <2>6
  <2> QED BY ONLY <2>2, <2>3, <2>4, <2>7, MaxWeightAssumption
<1>16. PaidFor(f, S, w, f')
       BY ONLY <1>1, <1>10, <1>12, <1>13, <1>15, MergingPays
<1>17. Merged(f, cardToAdd, Waiting, S, w, f')
       BY ONLY <1>1, <1>12, <1>13, <1>16, CostSoft
<1>18. /\ Good(f', cardToAdd, litToRelax) /\ SameTruth(f, f') /\ f'.live = f.live
       /\ \A p \in f.live : Total(f', cardToAdd, Falsified(f', p)) =
            Total(f, cardToAdd, Falsified(f, p)) + Share(S, w, Falsified(f, p))
       /\ Total(f', cardToAdd, Int) = Total(f, cardToAdd, Int) + Share(S, w, Int)
       BY <1>9, <1>17 DEF Merged
<1>19. AmKeeps(f, cardToAdd, am, f', am')
  <2>1. \A bad : Total(f', cardToAdd, bad) \in Int
        BY <1>18, TotalInt
  <2>2. ASSUME NEW p \in f'.live
        PROVE  Owing(f', cardToAdd, am', Falsified(f', p)) = Owing(f, cardToAdd, am, Falsified(f, p))
        BY <1>14, <1>18, <2>1 DEF Owing
  <2>3. Owing(f', cardToAdd, am', Int) = Owing(f, cardToAdd, am, Int) /\ Owing(f', cardToAdd, am', Int) \in Int
        BY <1>14, <1>18, <2>1 DEF Owing
  <2>4. f'.cost \in Nat
    <3>1. PICK k : k = Cardinality(S)
          OBVIOUS
    <3>2. w * (k - 1) \in Nat
          BY ONLY <1>1, <1>12, <1>13, <3>1, ShareAll
    <3>3. f'.cost = f.cost + w * (k - 1)
          BY <1>16, <3>1 DEF PaidFor
    <3> QED BY <1>1, <3>2, <3>3
  <2> QED BY <1>18, <2>2, <2>3, <2>4 DEF AmKeeps
<1>20. Merges(f', am')
  <2>1. am'.pc = "reduce" => Exclusive(f', am'.clause)
        BY <1>7, <1>8, <1>11, <1>13, <1>18, CliqueKept
  <2>2. ASSUME am'.by = "veryFast", am'.pc \in {"pair", "reduce"}
        PROVE  Excluded(f', am')
    <3>1. am.by = "veryFast" /\ am'.var = am.var /\ am'.todo = am.todo /\ Excluded(f, am) /\ am.var \in DOMAIN f.poids
          BY <1>6, <1>7, <1>8, <2>2
    <3>2. f'.poids[am.var] = f.poids[am.var]
          BY <1>1, <1>16, <3>1 DEF PaidFor, SoftAdded
    <3>3. \A x \in {am.var, -am.var} : Weight(f'.poids, x) = Weight(f.poids, x)
          BY <1>1, <3>1, <3>2 DEF Weight
    <3>4. f'.live \subseteq f.live /\ am'.todo \subseteq am.todo /\ f.poids \in Seq(Int) /\ am.todo \subseteq LitsOf(f.poids)
          BY <1>1, <1>6, <1>18, <3>1
    <3>5. \A x \in {am.var, -am.var} : Weight(f.poids, x) >= 0 => Weight(f'.poids, x) >= 0
          BY <3>3
    <3> QED BY ONLY <1>18, <3>1, <3>4, <3>5, ExcludedKept
  <2> QED BY <1>8, <2>1, <2>2 DEF Merges
<1>21. Rewrites
  <2>1. f'.cards = f.cards
        BY <1>16 DEF PaidFor, SoftAdded
  <2>2. f'.cost >= f.cost
    <3>1. PICK k : k = Cardinality(S)
          OBVIOUS
    <3>2. w * (k - 1) \in Nat
          BY ONLY <1>1, <1>12, <1>13, <3>1, ShareAll
    <3>3. f'.cost = f.cost + w * (k - 1)
          BY <1>16, <3>1 DEF PaidFor
    <3> QED BY <1>1, <3>2, <3>3
  <2> QED BY <1>18, <2>1, <2>2 DEF Rewrites, Forward
<1> QED BY <1>9, <1>18, <1>19, <1>20, <1>21, AmoKeeps

\* A step of the rewriting.
LEMMA CostAm ==
  ASSUME SearchInv, CostInv, AmStep
  PROVE  CostInv' /\ Rewrites
  BY CostRefutes, CostScans, CostCliques, CostProps, CostPairs, CostReduces, CostRelaxesClique, CostMerges
     DEF AmStep, AmNext

-----------------------------------------------------------------------------
\* The invariant of the objective: at every step the bound paid, plus all that
\* is owed, is the user's cost of every point left, and nothing overflows.
THEOREM CostInvariant == Spec => []CostInv
<1>1. Init => CostInv
      BY CostInit
<1>2. SearchInv /\ CostInv /\ [Next]_vars => CostInv'
  <2> SUFFICES ASSUME SearchInv, CostInv, [Next]_vars
               PROVE  CostInv'
      OBVIOUS
  <2>1. CASE UNCHANGED vars
    <3>1. UNCHANGED <<f, am, pc, then, cardToAdd, litToRelax, orig, opt, calls>>
          BY <2>1 DEF vars, search, frame
    <3>2. CostInv /\ UNCHANGED <<f, am, pc, then, cardToAdd, litToRelax, orig, opt, calls>> => CostInv'
          BY DEF CostInv, PayInv, UserInv, RoomInv, Waiting, Left, Room, Added, UserLits
    <3> QED BY <3>1, <3>2
  <2>2. CASE Next
    <3>1. CASE Finished
      <4>1. UNCHANGED vars
            BY <3>1 DEF Finished
      <4> QED BY <2>1, <4>1
    <3>2. CASE Solve \/ Again
          BY <3>2, CostCalls
    <3>3. CASE AmStep
          BY <3>3, CostAm
    <3>4. CASE LeftoverRelax \/ SatRelax \/ TailRelax
          BY <3>4, CostRelaxes
    <3>5. CASE LeftoverCard \/ TailCard
          BY <3>5, CostAddsCard
    <3>6. CASE FirstStratum \/ TopSat
          BY <3>6, CostStrata
    <3>7. CASE HardenNothing \/ HardenSome
          BY <3>7, CostHardens
    <3>8. CASE Core
          BY <3>8, CostCore
    <3>9. CASE AgainAdd
          BY <3>9, CostAddsSoft
    <3>10. CASE AgainHard
           BY <3>10, CostAddsHard
    <3>11. CASE \/ SolveHard \/ HardenFirst \/ BoundsMeet \/ TopSatLast \/ TopUnsat
                \/ CoreEmpty \/ CoreBoundsMeet \/ CoreHarden \/ CoreEnd \/ LimitedUnsat \/ LimitedSat \/ LimitedTimeout
                \/ SatOptimize \/ SatSkip \/ TailDone \/ VeryFastDone \/ StartAM1
           BY <3>11, CostMoves
    <3> QED BY <2>2, <3>1, <3>2, <3>3, <3>4, <3>5, <3>6, <3>7, <3>8, <3>9, <3>10, <3>11 DEF Next
  <2> QED BY <2>1, <2>2
<1> QED BY <1>1, <1>2, SearchInvariant, PTL DEF Spec

\* ObjectivePreserved, for every formula, every setting and every number of calls:
\* no rewriting of solve() changes what an assignment costs the user.
THEOREM SearchObjectivePreserved == Spec => []ObjectivePreserved
<1>1. SearchInv /\ CostInv => ObjectivePreserved
  <2> SUFFICES ASSUME SearchInv, CostInv, Settled, NEW p \in f.live
               PROVE  GoalCost(p) = f.cost + Residual(f, cardToAdd, p)
      BY DEF ObjectivePreserved
  <2>1. Good(f, cardToAdd, Waiting) /\ Meets(f, cardToAdd, am, orig)
        BY DEF CostInv, PayInv
  <2>2. IsFormula(f) /\ CardsIn(f) /\ QueueOK(f, cardToAdd) /\ CardsWell(f.cards)
        BY <2>1 DEF Good, Sound, Shaped, OutputsOK
  <2>3. p \in Points
        BY <2>2, LivePoints
  <2>4. PICK F : F = Falsified(f, p)
        OBVIOUS
  <2>5. f.cost + Residual(f, cardToAdd, p) =
          f.cost + (Charges(f.poids, F) + CardsOwe(F, f.cards) + PendingOwe(F, cardToAdd))
        BY <2>2, <2>3, <2>4, TotalPoint
  <2>6. /\ Charges(f.poids, F) \in Nat /\ CardsOwe(F, f.cards) \in Nat
        /\ PendingOwe(F, cardToAdd) \in Nat /\ f.cost \in Int
        BY <2>2, TotalParts
  <2>7. Total(f, cardToAdd, F) = f.cost + (Charges(f.poids, F) + CardsOwe(F, f.cards) + PendingOwe(F, cardToAdd))
        BY ONLY <2>6 DEF Total
  <2>8. OwesIn(am, F) = 0
        BY DEF OwesIn, Settled
  <2>9. Total(f, cardToAdd, F) + OwesIn(am, F) = CostOf(orig, p)
        BY <2>1, <2>4 DEF Meets
  <2>10. Total(f, cardToAdd, F) \in Int
         BY <2>1, TotalInt
  <2>11. Total(f, cardToAdd, F) = CostOf(orig, p)
         BY <2>8, <2>9, <2>10
  <2> QED BY <2>5, <2>7, <2>11 DEF GoalCost
<1> QED BY <1>1, SearchInvariant, CostInvariant, PTL

-----------------------------------------------------------------------------
(*****************************************************************************)
(* Where solve() is, and what is pending there.                              *)
(*****************************************************************************)
\* Where solve() is: before its loop, or in it.
Before ==
    \/ pc \in {"leftover", "am1", "choose"}
    \/ pc \in {"harden", "veryFast"} /\ then = "choose"

InLoop ==
    \/ pc \in {"top", "core", "coreEnd", "limited", "sat", "tail"}
    \/ pc \in {"harden", "veryFast"} /\ then # "choose"

\* Nothing is left pending where it would be forgotten, and no constraint
\* exists before the loop of the first call.
FlowInv ==
    /\ pc \in Pcs /\ ret \in BOOLEAN
    /\ then \in (IF pc \in {"harden", "veryFast"} THEN {"choose", "limited", "tail"} ELSE {"none"})
    /\ calls = 0 => pc = "ready"
    /\ calls = 0 \/ (calls = 1 /\ Before) => f.cards = <<>> /\ cardToAdd = <<>>
    /\ pc \in {"am1", "choose", "top"} \/ (pc \in {"harden", "veryFast"} /\ then = "choose") =>
         cardToAdd = <<>> /\ litToRelax = {}
    /\ assum \subseteq LitsOf(f.poids)

\* Init: nothing is pending, and the formula of the user has no constraint.
LEMMA FlowInit ==
  ASSUME Init
  PROVE  FlowInv
<1>1. UserFormula(f)
      BY InstancesAssumption DEF Init
<1>2. f.cards = <<>>
      BY <1>1 DEF UserFormula
<1> QED BY <1>2 DEF Init, FlowInv, Pcs, Before

\* Without a constraint no output waits.
LEMMA NothingSpent ==
  ASSUME SearchInv, f.cards = <<>>
  PROVE  \A l : ~Spent(f, l)
<1> SUFFICES ASSUME NEW l, Spent(f, l) PROVE FALSE
    OBVIOUS
<1>1. Sound(f)
      BY SearchFacts
<1>2. Var(l) \in DOMAIN f.card /\ f.card[Var(l)] # NoCard
      BY <1>1, Fields DEF Spent, LitsOf, Sound
<1>3. f.card[Var(l)].card \in DOMAIN f.cards
      BY <1>1, <1>2 DEF Sound, CardOK
<1> QED BY <1>3

\* The assumptions, where they are computed, are literals of the formula.
LEMMA AssumType ==
  ASSUME NEW g, Sound(g), NEW m \in Nat \ {0}
  PROVE  InitAssum(g, m) \subseteq LitsOf(g.poids)
  BY HeavyInit DEF Sound, Heavy

\* So are they when new soft literals join them.
LEMMA JoinType ==
  ASSUME NEW A, NEW g, Sound(g), SameTruth(f, g), A \subseteq LitsOf(f.poids)
  PROVE  \A n : A \cup {l \in SoftLits(g) \ SoftLits(f) : Poids(g, l) >= n} \subseteq LitsOf(g.poids)
<1>1. LitsOf(f.poids) \subseteq LitsOf(g.poids)
      BY SameTrue
<1>2. SoftLits(g) \subseteq LitsOf(g.poids)
      BY SoftLitsFacts DEF Sound
<1> QED BY <1>1, <1>2

\* Steps that only move on, and the calls and returns.
LEMMA FlowMoves ==
  ASSUME SearchInv, CostInv, FlowInv,
         \/ Solve \/ Again \/ SolveHard \/ HardenFirst \/ BoundsMeet \/ TopSatLast \/ TopUnsat
         \/ CoreEmpty \/ CoreBoundsMeet \/ CoreHarden \/ CoreEnd \/ LimitedUnsat \/ LimitedSat
         \/ SatOptimize \/ SatSkip \/ TailDone
  PROVE  FlowInv'
<1>1. opt.delay \in BOOLEAN
      BY OptionsAssumption DEF CostInv, RoomInv
<1>2. calls \in Nat
      BY LeftFacts DEF CostInv
<1>3. UNCHANGED <<f, assum, cardToAdd, litToRelax>>
      BY DEF Solve, Again, SolveHard, HardenFirst, BoundsMeet, TopSatLast, TopUnsat, CoreEmpty, CoreBoundsMeet,
         CoreHarden, CoreEnd, LimitedUnsat, LimitedSat, SatOptimize, SatSkip, TailDone, search, frame
<1>4. CASE Solve
      BY <1>2, <1>3, <1>4 DEF Solve, Goto, FlowInv, Pcs, Before
<1>5. CASE Again
      BY <1>3, <1>5 DEF Again, Goto, FlowInv, Pcs, Before, bounds, frame
<1>6. CASE SolveHard \/ BoundsMeet \/ TopSatLast \/ CoreEmpty \/ CoreBoundsMeet
  <2>1. UNCHANGED <<then, calls>> /\ pc' = "done" /\ ret' \in BOOLEAN /\ pc # "ready" /\ then = "none"
        BY <1>6 DEF SolveHard, BoundsMeet, TopSatLast, CoreEmpty, CoreBoundsMeet, frame, Return, FlowInv
  <2> QED BY <1>3, <2>1 DEF FlowInv, Pcs, Before
<1>7. CASE TopUnsat \/ CoreEnd \/ LimitedUnsat \/ LimitedSat \/ SatSkip \/ TailDone
  <2>1. /\ UNCHANGED <<then, calls, ret>> /\ pc' \in {"core", "limited", "tail", "sat", "top"} /\ pc # "ready" /\ then = "none"
        /\ pc' = "top" => cardToAdd = <<>> /\ litToRelax = {}
        BY <1>7 DEF TopUnsat, CoreEnd, LimitedUnsat, LimitedSat, SatSkip, TailDone, frame, bounds, Goto, AfterCore, FlowInv
  <2> QED BY <1>3, <2>1 DEF FlowInv, Pcs, Before
<1>8. CASE HardenFirst
      BY <1>3, <1>8 DEF HardenFirst, Goto, FlowInv, Pcs, Before, bounds, frame
<1>9. CASE CoreHarden
      BY <1>3, <1>9 DEF CoreHarden, Goto, FlowInv, Pcs, Before, bounds, frame, AfterCore
<1>10. CASE SatOptimize
  <2>1. /\ UNCHANGED <<calls, ret>> /\ pc = "sat"
        /\ (pc' = "harden" /\ then' = "tail") \/ (pc' = "tail" /\ then' = then)
        BY <1>10 DEF SatOptimize, frame
  <2> QED BY <1>3, <2>1 DEF FlowInv, Pcs, Before
<1> QED BY <1>4, <1>5, <1>6, <1>7, <1>8, <1>9, <1>10

\* Steps that compute the assumptions anew and leave the formula alone.
LEMMA FlowTimeout ==
  ASSUME SearchInv, CostInv, FlowInv, LimitedTimeout \/ VeryFastDone \/ StartAM1
  PROVE  FlowInv'
<1>1. Sound(f) /\ minW \in Nat \ {0} /\ UNCHANGED <<f, cardToAdd, litToRelax, calls, ret>>
      BY SearchFacts DEF LimitedTimeout, VeryFastDone, StartAM1, bounds, frame
<1>2. CASE LimitedTimeout
  <2>1. assum' \subseteq LitsOf(f.poids)
        BY <1>1, <1>2, AssumType DEF LimitedTimeout
  <2> QED BY <1>1, <1>2, <2>1 DEF LimitedTimeout, Goto, FlowInv, Pcs, Before
<1>3. CASE VeryFastDone
  <2>1. assum' \subseteq LitsOf(f.poids)
        BY <1>1, <1>3, AssumType DEF VeryFastDone, FlowInv
  <2> QED BY <1>1, <1>3, <2>1 DEF VeryFastDone, FlowInv, Pcs, Before
<1>4. CASE StartAM1
      BY <1>1, <1>4 DEF StartAM1, Goto, FlowInv, Pcs, Before
<1> QED BY <1>2, <1>3, <1>4

\* relax() of a literal that waited: there is a constraint already.
LEMMA FlowRelaxes ==
  ASSUME SearchInv, CostInv, FlowInv, LeftoverRelax \/ SatRelax \/ TailRelax
  PROVE  FlowInv'
<1>1. Forward /\ Sound(f')
      BY CostRelaxes, Relaxes, SearchFacts DEF SearchInv, FormulaInv
<1>2. PICK l \in litToRelax : litToRelax' = litToRelax \ {l}
      BY DEF LeftoverRelax, SatRelax, TailRelax
<1>3. f.cards # <<>>
      BY <1>2, NothingSpent DEF SearchInv, ListInv
<1>4. assum' \subseteq LitsOf(f'.poids)
  <2>1. CASE LeftoverRelax
    <3>1. LitsOf(f.poids) \subseteq LitsOf(f'.poids) /\ assum' = assum
          BY <1>1, <2>1, SameTrue DEF Forward, LeftoverRelax
    <3> QED BY <3>1 DEF FlowInv
  <2>2. CASE SatRelax \/ TailRelax
    <3>1. assum' = assum \cup {x \in SoftLits(f') \ SoftLits(f) : Poids(f', x) >= minW}
          BY <2>2 DEF SatRelax, TailRelax, Join
    <3>2. assum \subseteq LitsOf(f.poids) /\ SameTruth(f, f')
          BY <1>1 DEF FlowInv, Forward
    <3> QED BY ONLY <1>1, <3>1, <3>2, JoinType
  <2> QED BY <2>1, <2>2
<1>5. /\ UNCHANGED <<then, cardToAdd, ret, calls>> /\ pc \in {"leftover", "sat", "tail"}
      /\ pc' = pc \/ (pc = "sat" /\ pc' = "limited")
      BY DEF LeftoverRelax, SatRelax, TailRelax, bounds, frame
<1> QED BY <1>3, <1>4, <1>5 DEF FlowInv, Pcs, Before

\* A pending constraint is created: something was pending.
LEMMA FlowAddsCard ==
  ASSUME SearchInv, CostInv, FlowInv, LeftoverCard \/ TailCard
  PROVE  FlowInv'
<1>1. Forward /\ Sound(f')
      BY CostAddsCard, AddsCard, SearchFacts DEF SearchInv, FormulaInv
<1>2. cardToAdd # <<>>
      BY DEF LeftoverCard, TailCard
<1>3. assum' \subseteq LitsOf(f'.poids)
  <2>1. CASE LeftoverCard
    <3>1. LitsOf(f.poids) \subseteq LitsOf(f'.poids) /\ assum' = assum
          BY <1>1, <2>1, SameTrue DEF Forward, LeftoverCard
    <3> QED BY <3>1 DEF FlowInv
  <2>2. CASE TailCard
    <3>1. assum' = assum \cup {x \in SoftLits(f') \ SoftLits(f) : Poids(f', x) >= minW}
          BY <2>2 DEF TailCard, Join
    <3>2. assum \subseteq LitsOf(f.poids) /\ SameTruth(f, f')
          BY <1>1 DEF FlowInv, Forward
    <3> QED BY ONLY <1>1, <3>1, <3>2, JoinType
  <2> QED BY <2>1, <2>2
<1>4. UNCHANGED <<then, litToRelax, ret, calls, pc>> /\ pc \in {"leftover", "tail"}
      BY DEF LeftoverCard, TailCard, bounds, frame
<1> QED BY <1>2, <1>3, <1>4 DEF FlowInv, Pcs, Before

\* chooseNextMinWeight and initAssum.
LEMMA FlowStrata ==
  ASSUME SearchInv, CostInv, FlowInv, FirstStratum \/ TopSat
  PROVE  FlowInv'
<1>1. Sound(f') /\ minW' \in Nat \ {0}
      BY Strata, SearchFacts DEF SearchInv, FormulaInv, SyncInv
<1>2. assum' = InitAssum(f', minW')
      BY DEF FirstStratum, TopSat, NextStratum
<1>3. assum' \subseteq LitsOf(f'.poids)
      BY ONLY <1>1, <1>2, AssumType
<1>4. UNCHANGED <<then, litToRelax, cardToAdd, ret, calls>> /\ pc \in {"choose", "top"} /\ pc' = "top"
      BY DEF FirstStratum, TopSat, Goto, bounds, frame
<1> QED BY <1>3, <1>4 DEF FlowInv, Pcs, Before

\* harden() creates nothing.
LEMMA FlowHardens ==
  ASSUME SearchInv, CostInv, FlowInv, HardenNothing \/ HardenSome
  PROVE  FlowInv'
<1>1. f' = f \/ (DOMAIN f.map # {} /\ f' = Harden(f, MaxCostLit))
      BY DEF HardenNothing, HardenSome, HardenSkips
<1>2. f'.cards = f.cards /\ DOMAIN f'.poids = DOMAIN f.poids
  <2>1. CASE f' = f
        BY <2>1
  <2>2. CASE DOMAIN f.map # {} /\ f' = Harden(f, MaxCostLit)
    <3>1. IsFormula(f) /\ CardOK(f) /\ IndexOK(f)
          BY SearchFacts DEF Sound
    <3> QED BY ONLY <2>2, <3>1, HardenFacts
  <2> QED BY <1>1, <2>1, <2>2
<1>3. assum' \subseteq LitsOf(f'.poids)
  <2>1. assum' \subseteq assum
        BY DEF HardenNothing, HardenSome, search
  <2> QED BY <1>2, <2>1 DEF FlowInv, LitsOf
<1>4. /\ UNCHANGED <<litToRelax, cardToAdd, ret, calls>> /\ pc = "harden"
      /\ (pc' = then /\ then' = "none") \/ (pc' = "veryFast" /\ then' = then)
      BY DEF HardenNothing, HardenSome, Goto, search, bounds, frame
<1> QED BY <1>2, <1>3, <1>4 DEF FlowInv, Pcs, Before

\* A core leaves something pending, in the loop.
LEMMA FlowCore ==
  ASSUME SearchInv, CostInv, FlowInv, Core
  PROVE  FlowInv'
<1>1. Forward
      BY CostCore
<1>2. assum' \subseteq LitsOf(f'.poids)
  <2>1. assum' \subseteq assum
        BY DEF Core, PayCore
  <2>2. LitsOf(f.poids) \subseteq LitsOf(f'.poids)
        BY <1>1, SameTrue DEF Forward
  <2> QED BY <2>1, <2>2 DEF FlowInv
<1>3. UNCHANGED <<then, ret, calls>> /\ pc = "core" /\ pc' = "coreEnd"
      BY DEF Core, Goto, bounds, frame
<1> QED BY <1>2, <1>3 DEF FlowInv, Pcs, Before

\* The at-most-one rewriting creates no constraint where there is none.
LEMMA FlowAm ==
  ASSUME SearchInv, CostInv, FlowInv, AmStep
  PROVE  FlowInv'
<1>1. Forward /\ (f.cards = <<>> => f'.cards = <<>>)
      BY CostAm DEF Rewrites
<1>2. assum' \subseteq LitsOf(f'.poids)
  <2>1. LitsOf(f.poids) \subseteq LitsOf(f'.poids) /\ assum' = assum
        BY <1>1, SameTrue DEF Forward, AmStep, search
  <2> QED BY <2>1 DEF FlowInv
<1>3. UNCHANGED <<pc, then, ret, calls, litToRelax, cardToAdd>>
      BY DEF AmStep, search, bounds, frame
<1> QED BY <1>1, <1>2, <1>3 DEF FlowInv, Pcs, Before

\* What the user adds between two calls.
LEMMA FlowAgain ==
  ASSUME SearchInv, CostInv, FlowInv, AgainAdd \/ AgainHard
  PROVE  FlowInv'
<1>1. pc = "done" /\ pc' = "ready" /\ UNCHANGED <<then, ret, calls, assum>>
      BY DEF AgainAdd, AgainHard, Goto, search, bounds
<1>2. calls # 0
      BY <1>1 DEF FlowInv
<1>3. LitsOf(f.poids) \subseteq LitsOf(f'.poids)
  <2>1. Sound(f)
        BY SearchFacts
  <2>2. CASE AgainAdd
    <3>1. PICK e \in Extra : f' = AddWeight(f, e.lit, e.w)
          BY <2>2 DEF AgainAdd
    <3>2. Free(f, e.lit) /\ e.w \in Int /\ Weighs(f, e.lit, e.w)
          BY UserFree
    <3>3. PICK X : Keeps(f, f', X)
          BY <2>1, <3>1, <3>2, KeepsAddWeight DEF Free
    <3> QED BY <3>3 DEF Keeps
  <2>3. CASE AgainHard
    <3>1. PICK C \in ExtraHard : f' = AddHardClause(f, C)
          BY <2>3 DEF AgainHard
    <3>2. PICK n \in Nat : InputsFree(f, n) /\ UserLits(n)
          BY DEF SearchInv, FormulaInv
    <3>3. f.poids \in Seq(Int)
          BY SearchFacts
    <3>4. Over(f, C)
      <4>1. \A l \in C : Var(l) \in 1..n /\ l \in Int \ {0}
            BY <3>1, <3>2 DEF UserLits
      <4>2. n <= Len(f.poids)
            BY <3>2 DEF InputsFree
      <4>3. 1..n \subseteq DOMAIN f.poids
            BY <3>2, <3>3, <4>2
      <4> QED BY <4>1, <4>3 DEF Over, LitsOf
    <3>5. am.pc = "idle"
          BY <1>1, SearchFacts
    <3>6. /\ Good(f, cardToAdd, litToRelax) /\ f.cost \in Nat /\ (\A l \in litToRelax : Spent(f, l))
          /\ Total(f, cardToAdd, Int) < MaxWeight
          BY <3>5, IdleGood
    <3>7. SameCost(f, cardToAdd, f', cardToAdd)
          BY ONLY <3>1, <3>4, <3>6, CostHard
    <3> QED BY <3>7, SameTrue DEF SameCost
  <2> QED BY <2>2, <2>3
<1> QED BY <1>1, <1>2, <1>3 DEF FlowInv, Pcs, Before

\* Every step.
LEMMA FlowStep ==
  ASSUME SearchInv, CostInv, FlowInv, [Next]_vars
  PROVE  FlowInv'
<1>1. CASE UNCHANGED vars
      BY <1>1 DEF vars, search, frame, bounds, FlowInv, Before
<1>2. CASE Finished
  <2>1. UNCHANGED vars
        BY <1>2 DEF Finished
  <2> QED BY <1>1, <2>1
<1> QED BY <1>1, <1>2, FlowMoves, FlowTimeout, FlowRelaxes, FlowAddsCard, FlowStrata, FlowHardens, FlowCore, FlowAm,
           FlowAgain DEF Next

\* Every state of solve() has nothing pending where it would be forgotten.
THEOREM FlowInvariant == Spec => []FlowInv
<1>1. Init => FlowInv
      BY FlowInit
<1>2. SearchInv /\ CostInv /\ FlowInv /\ [Next]_vars => FlowInv'
      BY FlowStep
<1> QED BY <1>1, <1>2, SearchInvariant, CostInvariant, PTL DEF Spec

-----------------------------------------------------------------------------
(*****************************************************************************)
(* Costs and bounds.                                                         *)
(*****************************************************************************)
\* What the clique being merged still owes is a weight.
LEMMA OwesInNat ==
  ASSUME SearchInv, NEW bad
  PROVE  OwesIn(am, bad) \in Nat
<1>1. CASE am.pc # "relax"
      BY <1>1 DEF OwesIn
<1>2. CASE am.pc = "relax"
  <2>1. AmOK(f, am) /\ f.poids \in Seq(Int)
        BY <1>2, SearchFacts DEF SearchInv, AmInv
  <2>2. am.saved \subseteq LitsOf(f.poids) /\ am.w \in Nat \ {0}
        BY <1>2, <2>1 DEF AmOK
  <2>3. PICK S : S = am.saved \cap bad
        OBVIOUS
  <2>4. S \in SUBSET LitsOf(f.poids)
        BY <2>2, <2>3
  <2>5. Cardinality(S) \in Nat
        BY ONLY <2>1, <2>4, LitsFinite
  <2> QED BY <1>2, <2>2, <2>3, <2>5 DEF OwesIn, Share
<1> QED BY <1>1, <1>2

\* The user's cost of any assignment fits in t_weight and leaves its greatest value free.
LEMMA GoalRange ==
  ASSUME CostInv, NEW p \in Points
  PROVE  GoalCost(p) \in Nat /\ GoalCost(p) < MaxWeight
<1>1. Good(orig, <<>>, {}) /\ orig.cards = <<>> /\ orig.cost \in Nat
      BY DEF CostInv, UserInv
<1>2. PICK bad : bad = Falsified(orig, p)
      OBVIOUS
<1>3. GoalCost(p) = Total(orig, <<>>, bad)
      BY ONLY <1>1, <1>2, p \in Points, UserCost DEF GoalCost
<1>4. IsFormula(orig) /\ CardOK(orig) /\ orig.poids \in Seq(Int)
  <2>1. IsFormula(orig) /\ CardOK(orig)
        BY <1>1 DEF Good, Sound
  <2> QED BY <2>1, Fields
<1>5. Total(orig, <<>>, bad) = orig.cost + Charges(orig.poids, bad)
      BY <1>1, <1>4, TotalPlain
<1>6. Total(orig, <<>>, Int) = orig.cost + Charges(orig.poids, Int)
      BY <1>1, <1>4, TotalPlain
<1>7. Charges(orig.poids, bad) <= Charges(orig.poids, Int)
      BY <1>4, ChargesSubset DEF LitsOf
<1>8. Charges(orig.poids, bad) \in Nat /\ Charges(orig.poids, Int) \in Nat
      BY <1>4, ChargesNat
<1>9. Total(orig, <<>>, Int) < MaxWeight
      BY UserRoom
<1> QED BY ONLY <1>1, <1>3, <1>5, <1>6, <1>7, <1>8, <1>9, MaxWeightAssumption

\* The lower bound is one, and never reaches the greatest weight.
LEMMA GoalLow ==
  ASSUME SearchInv, CostInv
  PROVE  /\ f.cost \in Nat /\ f.cost < MaxWeight
         /\ \A p \in f.live : p \in Points /\ GoalCost(p) >= f.cost
<1>1. Good(f, cardToAdd, Waiting) /\ f.cost \in Nat /\ Meets(f, cardToAdd, am, orig)
      BY DEF CostInv, PayInv
<1>2. \A bad : Total(f, cardToAdd, bad) \in Int /\ Total(f, cardToAdd, bad) >= f.cost
      BY <1>1, TotalInt
<1>3. \A bad : OwesIn(am, bad) \in Nat
      BY OwesInNat
<1>4. f.cost < MaxWeight
  <2>1. 0 \in Added /\ Left \in Nat
        BY AddedFacts, LeftFacts DEF CostInv
  <2>2. Total(f, cardToAdd, Int) + OwesIn(am, Int) + Left * 0 < MaxWeight
        BY <2>1 DEF CostInv, RoomInv, Room
  <2>3. PICK t \in Int : t = Total(f, cardToAdd, Int) /\ t >= f.cost
        BY <1>2
  <2>4. PICK o \in Nat : o = OwesIn(am, Int)
        BY <1>3
  <2>5. t + o + Left * 0 < MaxWeight
        BY <2>2, <2>3, <2>4
  <2> QED BY ONLY <1>1, <2>1, <2>3, <2>5, MaxWeightAssumption, t \in Int, o \in Nat
<1>5. \A p \in f.live : p \in Points /\ GoalCost(p) >= f.cost
  <2> TAKE p \in f.live
  <2>1. p \in Points
        BY SearchFacts, LivePoints
  <2>2. PICK bad : bad = Falsified(f, p)
        OBVIOUS
  <2>3. Total(f, cardToAdd, bad) + OwesIn(am, bad) = GoalCost(p)
        BY <1>1, <2>2 DEF Meets, GoalCost
  <2>4. PICK t \in Int : t = Total(f, cardToAdd, bad) /\ t >= f.cost
        BY <1>2
  <2>5. PICK o \in Nat : o = OwesIn(am, bad)
        BY <1>3
  <2>6. GoalCost(p) = t + o
        BY <2>3, <2>4, <2>5
  <2> QED BY ONLY <1>1, <2>1, <2>4, <2>6, t \in Int, o \in Nat
<1> QED BY <1>1, <1>4, <1>5

\* Past its last output a constraint owes nothing at an assignment that keeps the soft ones.
LEMMA CardOwesNone ==
  ASSUME NEW g, Good(g, <<>>, {}), NEW p \in g.live, \A l : Soft(g, l) => p \in True(g, l),
         NEW c \in DOMAIN g.cards, NEW bad, bad = Falsified(g, p)
  PROVE  CardOwes(bad, g.cards[c]) = 0
<1>1. IsFormula(g) /\ CardOK(g) /\ Shaped(g, Open(g, {}))
      BY DEF Good, Sound
<1>2. p \in Points /\ g.poids \in Seq(Int) /\ g.truth \in Seq(SUBSET Points) /\ DOMAIN g.truth = DOMAIN g.poids
      BY <1>1, Fields
<1>3. PICK x : x = g.cards[c]
      OBVIOUS
<1>4. CardWell(x) /\ Ended(g, x, Open(g, {})) /\ x.lits \in SUBSET LitsOf(g.poids)
      BY <1>1, <1>3 DEF Shaped, OutputsOK, CardsWell, CardsIn
<1>5. IsFiniteSet(x.lits) /\ Paid(x) \in Nat /\ x.w \in Nat
      BY <1>4 DEF CardWell
<1>6. Count(bad, x.lits) \in Nat /\ Cardinality(x.lits) \in Nat /\ Count(bad, x.lits) <= Cardinality(x.lits)
      BY <1>5, CountFacts
<1>7. Count(bad, x.lits) <= Paid(x) + 1
  <2>1. CASE Cardinality(x.lits) <= Paid(x) + 1
        BY <1>5, <1>6, <2>1
  <2>2. CASE /\ Paid(x) \in DOMAIN x.outs
             /\ x.outs[Paid(x)] \in Open(g, {}) \/ g.live \cap g.truth[x.outs[Paid(x)]] = {}
    <3>1. PICK n \in Nat : n = Paid(x)
          BY <1>5
    <3>2. PICK v : v = x.outs[n]
          OBVIOUS
    <3>3. v \in DOMAIN g.poids /\ g.truth[v] = MoreThan(g, x.lits, n)
          BY <1>1, <1>3, <2>2, <3>1, <3>2 DEF Shaped, OutputsOK, OutputsTrue, CardOK
    <3>4. p \notin g.truth[v]
      <4>1. CASE v \in Open(g, {})
        <5>1. g.poids[v] < 0 /\ v \in Nat \ {0} /\ g.poids[v] \in Int
              BY <1>2, <3>3, <4>1, PoidsFacts DEF Open
        <5>2. Soft(g, -v)
              BY <3>3, <5>1 DEF Soft, LitsOf, Var, Weight
        <5>3. p \in True(g, -v)
              BY <5>2
        <5> QED BY <5>1, <5>3 DEF True
      <4>2. CASE g.live \cap g.truth[v] = {}
            BY <4>2
      <4> QED BY <2>2, <3>1, <3>2, <4>1, <4>2
    <3>5. ~(NbTrue(g, x.lits, p) > n)
          BY <1>2, <3>3, <3>4 DEF MoreThan
    <3>6. Count(bad, x.lits) = NbTrue(g, x.lits, p)
          BY ONLY <1>1, <1>2, <1>4, bad = Falsified(g, p), CountPoint
    <3> QED BY <1>6, <3>1, <3>5, <3>6
  <2> QED BY <1>4, <2>1, <2>2 DEF Ended
<1>8. Owes(bad, x.lits, x.w, Paid(x)) = 0
      BY ONLY <1>5, <1>7, OwesNone
<1> QED BY <1>3, <1>8 DEF CardOwes

\* With nothing pending, an assignment that keeps every soft literal costs what is paid already.
LEMMA NothingOwed ==
  ASSUME NEW g, Good(g, <<>>, {}), NEW p \in g.live, \A l : Soft(g, l) => p \in True(g, l)
  PROVE  Total(g, <<>>, Falsified(g, p)) = g.cost
<1>1. IsFormula(g) /\ Shaped(g, Open(g, {}))
      BY DEF Good, Sound
<1>2. p \in Points /\ g.poids \in Seq(Int) /\ g.cards \in Seq(Cards) /\ CardsWell(g.cards) /\ g.cost \in Int
      BY <1>1, Fields DEF Shaped, OutputsOK
<1>3. PICK bad : bad = Falsified(g, p)
      OBVIOUS
<1>4. \A l \in LitsOf(g.poids) : Weight(g.poids, l) > 0 => l \notin bad
      BY <1>1, <1>2, <1>3, FalsifiedFacts DEF Soft
<1>5. Charges(g.poids, bad) = 0
      BY ONLY <1>2, <1>4, ChargesNone
<1>6. \A c \in DOMAIN g.cards : CardOwes(bad, g.cards[c]) = 0
      BY <1>3, CardOwesNone
<1>7. CardsOwe(bad, g.cards) = 0
      BY ONLY <1>2, <1>6, CardsOweNone
<1>8. PendingOwe(bad, <<>>) = 0
      BY PendingOweNone
<1> QED BY <1>2, <1>3, <1>5, <1>7, <1>8 DEF Total

\* A literal of weight w or more pays at least w on top of the bound when it is falsified.
LEMMA FalsifiedPays ==
  ASSUME SearchInv, CostInv, am.pc = "idle", NEW p \in f.live, NEW l, Soft(f, l), p \notin True(f, l)
  PROVE  Weight(f.poids, l) \in Nat /\ GoalCost(p) >= f.cost + Weight(f.poids, l)
<1>1. Good(f, cardToAdd, Waiting) /\ f.cost \in Nat /\ Meets(f, cardToAdd, am, orig)
      BY DEF CostInv, PayInv
<1>2. IsFormula(f) /\ f.poids \in Seq(Int) /\ p \in Points
      BY SearchFacts, LivePoints
<1>3. PICK bad : bad = Falsified(f, p)
      OBVIOUS
<1>4. Total(f, cardToAdd, bad) = GoalCost(p)
  <2>1. Total(f, cardToAdd, bad) + 0 = GoalCost(p)
        BY <1>1, <1>3 DEF Meets, GoalCost, OwesIn
  <2>2. Total(f, cardToAdd, bad) \in Int
        BY <1>1, TotalInt
  <2> QED BY <2>1, <2>2
<1>5. CardsWell(f.cards) /\ QueueOK(f, cardToAdd)
      BY <1>1 DEF Good, Shaped, OutputsOK
<1>6. Charges(f.poids, bad) \in Nat /\ CardsOwe(bad, f.cards) \in Nat /\ PendingOwe(bad, cardToAdd) \in Nat
      BY ONLY <1>2, <1>5, TotalParts
<1>7. l \in LitsOf(f.poids) /\ Weight(f.poids, l) > 0 /\ Weight(f.poids, l) \in Int
      BY <1>2, WeightFacts DEF Soft
<1>8. l \in bad
      BY <1>2, <1>3, <1>7, FalsifiedFacts
<1>9. Weight(f.poids, l) <= Charges(f.poids, bad)
      BY ONLY <1>2, <1>7, <1>8, ChargesTerm
<1>10. PICK a \in Nat : a = Charges(f.poids, bad)
       BY <1>6
<1>11. PICK b \in Nat : b = CardsOwe(bad, f.cards)
       BY <1>6
<1>12. PICK c \in Nat : c = PendingOwe(bad, cardToAdd)
       BY <1>6
<1>13. GoalCost(p) = f.cost + a + b + c
       BY <1>4, <1>10, <1>11, <1>12 DEF Total
<1> QED BY ONLY <1>1, <1>7, <1>9, <1>10, <1>13, a \in Nat, b \in Nat, c \in Nat

\* What harden() cuts away does not beat the solution at hand.
LEMMA HardenCuts ==
  ASSUME SearchInv, CostInv, am.pc = "idle", solutionCost \in 0..MaxWeight, DOMAIN f.map # {},
         NEW p \in f.live, p \notin Models(f, HardenLits(f, MaxCostLit))
  PROVE  GoalCost(p) >= solutionCost
<1>1. Sound(f) /\ f.cost \in Nat /\ f.cost < MaxWeight /\ p \in Points /\ GoalCost(p) >= f.cost
      BY SearchFacts, GoalLow
<1>2. GoalCost(p) \in Nat
      BY <1>1, GoalRange
<1>3. PICK mc : mc = MaxCostLit
      OBVIOUS
<1>4. PICK l \in HardenLits(f, mc) : p \notin True(f, l)
      BY <1>3 DEF Models
<1>5. Soft(f, l)
  <2>1. PICK g : g = Harden(f, mc)
        OBVIOUS
  <2>2. \A x \in HardenLits(f, mc) : Soft(f, x)
        BY ONLY <1>1, <2>1, DOMAIN f.map # {}, HardenIs
  <2> QED BY <1>4, <2>2
<1>6. Weight(f.poids, l) >= mc
  <2>1. PICK k \in DOMAIN f.map : k >= mc /\ l \in f.map[k]
        BY <1>4 DEF HardenLits, InitAssum
  <2>2. Weight(f.poids, l) = k
        BY <1>1, <2>1 DEF Sound, IndexOK, Indexed
  <2> QED BY <2>1, <2>2
<1>7. Weight(f.poids, l) \in Nat /\ GoalCost(p) >= f.cost + Weight(f.poids, l)
      BY <1>4, <1>5, FalsifiedPays
<1>8. CASE solutionCost < f.cost
      BY <1>1, <1>2, <1>8
<1>9. CASE solutionCost >= f.cost
  <2>1. PICK d \in Nat : d = solutionCost - f.cost /\ d <= MaxWeight
        BY <1>1, <1>9, MaxWeightAssumption
  <2>2. d % (MaxWeight + 1) = d
        BY <2>1, MaxWeightAssumption
  <2>3. mc = d
        BY <1>3, <2>1, <2>2 DEF MaxCostLit, Wrap
  <2> QED BY ONLY <1>1, <1>2, <1>6, <1>7, <2>1, <2>3, d \in Nat, solutionCost \in 0..MaxWeight
<1> QED BY <1>1, <1>8, <1>9, MaxWeightAssumption

\* The upper bound: a weight, its greatest value until the loop may improve it.
UpperInv ==
    /\ solutionCost \in 0..MaxWeight /\ solution \in Points
    /\ calls = 0 => solutionCost = MaxWeight
    /\ pc \notin {"done", "ready"} /\ (Before \/ ~opt.ub) => solutionCost = MaxWeight

\* What has been cut away.
CutInv ==
    /\ opt.incremental \/ ~opt.ub => orig.live \subseteq f.live
    /\ calls <= 1 => \A p \in orig.live \ f.live : GoalCost(p) >= solutionCost

\* The solution at hand costs no more than it is said to cost.
SolInv ==
    pc # "ready" /\ (calls = 1 \/ ~opt.ub) /\ solutionCost < MaxWeight =>
        solution \in orig.live /\ GoalCost(solution) <= solutionCost

\* The weights kept by the optimizer give the user's cost at every assignment left.
LoShape(l) == l.poids \in Seq(Int) /\ l.cost \in Nat

LoPrices(l, g, o) ==
    /\ LitsOf(l.poids) \subseteq LitsOf(g.poids)
    /\ \A p \in g.live : CostOf(o, p) = l.cost + Charges(l.poids, Falsified(g, p))

LoInv == InLoop => LoShape(lo) /\ (calls = 1 => LoPrices(lo, f, orig))

OptInv == UpperInv /\ CutInv /\ SolInv /\ LoInv /\ OptimalOnReturn

\* The prices of the optimizer stay right while the formula is rewritten and cut.
LEMMA LoKept ==
  ASSUME NEW l, LoShape(l), NEW g, NEW h, NEW o, IsFormula(g), IsFormula(h), LoPrices(l, g, o),
         SameTruth(g, h), h.live \subseteq g.live
  PROVE  LoPrices(l, h, o)
<1>1. LitsOf(g.poids) \subseteq LitsOf(h.poids)
      BY SameTrue
<1>2. \A p \in h.live : CostOf(o, p) = l.cost + Charges(l.poids, Falsified(h, p))
  <2> TAKE p \in h.live
  <2>1. p \in Points /\ p \in g.live
        BY LivePoints
  <2>2. \A x \in LitsOf(g.poids) : x \in Falsified(h, p) <=> x \in Falsified(g, p)
        BY <2>1, SameFalsified
  <2>3. PICK a : a = Falsified(g, p)
        OBVIOUS
  <2>4. PICK b : b = Falsified(h, p)
        OBVIOUS
  <2>5. \A x \in LitsOf(l.poids) : x \in a <=> x \in b
        BY <2>2, <2>3, <2>4 DEF LoPrices
  <2>6. l.poids \in Seq(Int)
        BY DEF LoShape
  <2>7. Charges(l.poids, a) = Charges(l.poids, b)
        BY ONLY <2>5, <2>6, ChargesAgree
  <2> QED BY <2>1, <2>3, <2>4, <2>7 DEF LoPrices
<1> QED BY <1>1, <1>2 DEF LoPrices

\* Init: no solution is known and nothing is cut.
LEMMA OptInit ==
  ASSUME Init
  PROVE  OptInv
<1>1. solutionCost = MaxWeight /\ solution \in Points /\ pc = "ready" /\ orig = f /\ calls = 0
      BY PointsAssumption DEF Init, NoSolution
<1>2. UpperInv
      BY <1>1, MaxWeightAssumption DEF UpperInv
<1>3. CutInv
      BY <1>1 DEF CutInv
<1>4. SolInv /\ LoInv /\ OptimalOnReturn
      BY <1>1 DEF SolInv, LoInv, OptimalOnReturn, InLoop
<1> QED BY <1>2, <1>3, <1>4 DEF OptInv

\* A step in the middle of a call that leaves the bounds from above alone.
LEMMA OptQuiet ==
  ASSUME SearchInv, SearchInv', OptInv, UNCHANGED <<solution, solutionCost, orig, opt, calls>>,
         SameTruth(f, f'), f'.live \subseteq f.live, CutInv',
         pc \notin {"ready", "done"}, pc' \notin {"ready", "done"}, Before' => Before, InLoop' => InLoop /\ lo' = lo
  PROVE  OptInv'
<1>1. UpperInv'
      BY DEF OptInv, UpperInv
<1>2. SolInv'
      BY DEF OptInv, SolInv, GoalCost
<1>3. OptimalOnReturn'
      BY DEF OptimalOnReturn
<1>4. LoInv'
  <2> SUFFICES ASSUME InLoop' PROVE LoShape(lo') /\ (calls = 1 => LoPrices(lo', f', orig))
      BY DEF LoInv
  <2>1. lo' = lo /\ LoShape(lo) /\ (calls = 1 => LoPrices(lo, f, orig))
        BY DEF OptInv, LoInv
  <2>2. IsFormula(f) /\ IsFormula(f')
        BY DEF SearchInv, FormulaInv, Sound
  <2>3. calls = 1 => LoPrices(lo, f', orig)
        BY ONLY <2>1, <2>2, SameTruth(f, f'), f'.live \subseteq f.live, LoKept
  <2> QED BY <2>1, <2>3
<1> QED BY <1>1, <1>2, <1>3, <1>4 DEF OptInv

\* It keeps the assignments, too.
LEMMA OptForward ==
  ASSUME SearchInv, SearchInv', OptInv, UNCHANGED <<solution, solutionCost, orig, opt, calls>>, Forward,
         pc \notin {"ready", "done"}, pc' \notin {"ready", "done"}, Before' => Before, InLoop' => InLoop /\ lo' = lo
  PROVE  OptInv'
<1>1. SameTruth(f, f') /\ f'.live = f.live
      BY DEF Forward
<1>2. CutInv'
      BY <1>1 DEF OptInv, CutInv, GoalCost
<1> QED BY <1>1, <1>2, OptQuiet

\* Steps that change nothing but where solve() is and its assumptions.
LEMMA OptMoves ==
  ASSUME SearchInv, SearchInv', CostInv, FlowInv, OptInv,
         \/ StartAM1 \/ HardenFirst \/ VeryFastDone \/ TopUnsat \/ CoreHarden \/ CoreEnd
         \/ LimitedUnsat \/ LimitedSat \/ LimitedTimeout \/ SatSkip \/ TailDone
  PROVE  OptInv'
<1>1. f' = f /\ UNCHANGED <<lo, solution, solutionCost, orig, opt, calls>>
      BY DEF StartAM1, HardenFirst, VeryFastDone, TopUnsat, CoreHarden, CoreEnd, LimitedUnsat, LimitedSat,
         LimitedTimeout, SatSkip, TailDone, search, bounds, frame
<1>2. Forward
  <2>1. f.cost \in Int
        BY SearchFacts, Fields
  <2> QED BY <1>1, <2>1 DEF Forward, SameTruth
<1>3. pc \notin {"ready", "done"} /\ pc' \notin {"ready", "done"} /\ (Before' => Before) /\ (InLoop' => InLoop)
  <2>1. CASE StartAM1
        BY <2>1 DEF StartAM1, Goto, Before, InLoop
  <2>2. CASE HardenFirst
        BY <2>2 DEF HardenFirst, Goto, Before, InLoop
  <2>3. CASE VeryFastDone
    <3>1. then \in {"choose", "limited", "tail"} /\ pc = "veryFast" /\ pc' = then
          BY <2>3 DEF VeryFastDone, FlowInv
    <3> QED BY <3>1 DEF Before, InLoop
  <2>4. CASE CoreHarden
        BY <2>4 DEF CoreHarden, Goto, AfterCore, Before, InLoop
  <2>5. CASE TopUnsat \/ CoreEnd \/ LimitedUnsat \/ LimitedSat \/ LimitedTimeout \/ SatSkip \/ TailDone
    <3>1. /\ pc \in {"top", "coreEnd", "limited", "sat", "tail"}
          /\ pc' \in {"core", "limited", "tail", "sat", "top"}
          BY <2>5 DEF TopUnsat, CoreEnd, LimitedUnsat, LimitedSat, LimitedTimeout, SatSkip, TailDone, Goto, AfterCore
    <3> QED BY <3>1 DEF Before, InLoop
  <2> QED BY <2>1, <2>2, <2>3, <2>4, <2>5
<1> QED BY <1>1, <1>2, <1>3, OptForward

\* Steps that rewrite the formula: every assignment left stays.
LEMMA OptRewrites ==
  ASSUME SearchInv, SearchInv', CostInv, OptInv,
         \/ LeftoverRelax \/ SatRelax \/ TailRelax \/ LeftoverCard \/ TailCard \/ TopSat \/ Core \/ AmStep
  PROVE  OptInv'
<1>1. Forward
      BY CostRelaxes, CostAddsCard, CostStrata, CostCore, CostAm DEF Rewrites
<1>2. UNCHANGED <<lo, solution, solutionCost, orig, opt, calls, then>>
      BY DEF LeftoverRelax, SatRelax, TailRelax, LeftoverCard, TailCard, TopSat, Core, AmStep, search, bounds, frame
<1>3. /\ pc \in {"leftover", "sat", "tail", "top", "core", "am1", "veryFast"}
      /\ pc' = pc \/ (pc \in {"sat", "core"} /\ pc' \in {"limited", "coreEnd"})
      BY DEF LeftoverRelax, SatRelax, TailRelax, LeftoverCard, TailCard, TopSat, Core, AmStep, Goto
<1>4. pc \notin {"ready", "done"} /\ pc' \notin {"ready", "done"} /\ (Before' => Before) /\ (InLoop' => InLoop)
      BY <1>2, <1>3 DEF Before, InLoop
<1> QED BY <1>1, <1>2, <1>4, OptForward

\* harden() cuts only what does not beat the solution at hand.
LEMMA OptHardens ==
  ASSUME SearchInv, SearchInv', CostInv, FlowInv, OptInv, HardenNothing \/ HardenSome
  PROVE  OptInv'
<1>1. /\ am.pc = "idle" /\ pc = "harden" /\ UNCHANGED <<lo, solution, solutionCost, orig, opt, calls>>
      /\ (pc' = then /\ then' = "none") \/ (pc' = "veryFast" /\ then' = then)
      BY SearchFacts DEF HardenNothing, HardenSome, Goto, search, bounds, frame
<1>2. then \in {"choose", "limited", "tail"}
      BY <1>1 DEF FlowInv
<1>3. pc' \notin {"ready", "done"} /\ (Before' => Before) /\ (InLoop' => InLoop)
      BY <1>1, <1>2 DEF Before, InLoop
<1>4. f' = f \/ (~opt.incremental /\ DOMAIN f.map # {} /\ f' = Harden(f, MaxCostLit))
      BY DEF HardenNothing, HardenSome, HardenSkips
<1>5. /\ SameTruth(f, f') /\ f'.live \subseteq f.live
      /\ (\A p \in f.live \ f'.live : GoalCost(p) >= solutionCost)
      /\ opt.incremental => f'.live = f.live
  <2>1. CASE f' = f
        BY <2>1 DEF SameTruth
  <2>2. CASE ~opt.incremental /\ DOMAIN f.map # {} /\ f' = Harden(f, MaxCostLit)
    <3>1. Good(f, cardToAdd, litToRelax) /\ (\A l \in litToRelax : Spent(f, l))
          BY <1>1, IdleGood
    <3>2. SameCost(f, cardToAdd, f', cardToAdd) /\ f'.live = Models(f, HardenLits(f, MaxCostLit))
          BY ONLY <2>2, <3>1, CostHarden
    <3>3. solutionCost \in 0..MaxWeight
          BY DEF OptInv, UpperInv
    <3>4. \A p \in f.live \ f'.live : GoalCost(p) >= solutionCost
          BY <1>1, <2>2, <3>2, <3>3, HardenCuts
    <3> QED BY <2>2, <3>2, <3>4 DEF SameCost
  <2> QED BY <1>4, <2>1, <2>2
<1>6. opt.incremental \/ ~opt.ub => f'.live = f.live
  <2>1. CASE ~opt.ub
    <3>1. solutionCost = MaxWeight
          BY <1>1, <2>1 DEF OptInv, UpperInv
    <3>2. \A p \in f.live : p \in Points
          BY GoalLow
    <3>3. \A p \in f.live : GoalCost(p) \in Nat /\ GoalCost(p) < MaxWeight
          BY <3>2, GoalRange
    <3>4. \A p \in f.live \ f'.live : FALSE
          BY <1>5, <3>1, <3>3, MaxWeightAssumption
    <3> QED BY <1>5, <3>4
  <2> QED BY <1>5, <2>1
<1>7. CutInv'
  <2>1. (opt.incremental \/ ~opt.ub => orig.live \subseteq f.live)
        /\ (calls <= 1 => \A p \in orig.live \ f.live : GoalCost(p) >= solutionCost)
        BY DEF OptInv, CutInv
  <2>2. \A p \in orig.live \ f'.live : p \in f.live \ f'.live \/ p \in orig.live \ f.live
        OBVIOUS
  <2> QED BY <1>1, <1>5, <1>6, <2>1, <2>2 DEF CutInv, GoalCost
<1> QED BY <1>1, <1>3, <1>5, <1>7, OptQuiet

\* The optimizer is made from weights that say what every assignment costs.
LEMMA LoMade ==
  ASSUME SearchInv, CostInv, am.pc = "idle", f.cards = <<>>, cardToAdd = <<>>, NEW l, l = [poids |-> f.poids, cost |-> f.cost]
  PROVE  LoShape(l) /\ LoPrices(l, f, orig)
<1>1. Meets(f, <<>>, am, orig) /\ Good(f, <<>>, Waiting) /\ f.cost \in Nat
      BY DEF CostInv, PayInv
<1>2. IsFormula(f) /\ CardOK(f) /\ f.poids \in Seq(Int)
      BY SearchFacts DEF Sound
<1>3. l.poids = f.poids /\ l.cost = f.cost
      OBVIOUS
<1>4. ASSUME NEW p \in f.live
      PROVE  CostOf(orig, p) = f.cost + Charges(f.poids, Falsified(f, p))
  <2>1. PICK bad : bad = Falsified(f, p)
        OBVIOUS
  <2>2. Total(f, <<>>, bad) + 0 = CostOf(orig, p)
        BY <1>1, <2>1 DEF Meets, OwesIn
  <2>3. Total(f, <<>>, bad) = f.cost + Charges(f.poids, bad)
        BY <1>2, TotalPlain
  <2>4. Charges(f.poids, bad) \in Nat
        BY <1>2, ChargesNat
  <2>5. PICK t \in Int : t = f.cost + Charges(f.poids, bad)
        BY <1>1, <2>4
  <2> QED BY <2>1, <2>2, <2>3, <2>5
<1> QED BY <1>1, <1>2, <1>3, <1>4 DEF LoShape, LoPrices

\* The optimizer is made when the loop is entered.
LEMMA OptFirst ==
  ASSUME SearchInv, SearchInv', CostInv, FlowInv, OptInv, FirstStratum
  PROVE  OptInv'
<1>1. Forward
      BY CostStrata
<1>2. /\ pc = "choose" /\ pc' = "top" /\ am.pc = "idle" /\ UNCHANGED <<solution, solutionCost, orig, opt, calls>>
      /\ lo' = [poids |-> f.poids, cost |-> f.cost]
      BY SearchFacts DEF FirstStratum, Goto, bounds, frame
<1>3. SameTruth(f, f') /\ f'.live = f.live
      BY <1>1 DEF Forward
<1>4. CutInv'
      BY <1>2, <1>3 DEF OptInv, CutInv, GoalCost
<1>5. UpperInv'
      BY <1>2 DEF OptInv, UpperInv, Before
<1>6. SolInv'
      BY <1>2 DEF OptInv, SolInv, GoalCost
<1>7. OptimalOnReturn'
      BY <1>2 DEF OptimalOnReturn
<1>8. LoInv'
  <2>1. f.poids \in Seq(Int) /\ f.cost \in Nat /\ IsFormula(f) /\ IsFormula(f')
        BY SearchFacts, GoalLow DEF SearchInv, FormulaInv, Sound
  <2>2. LoShape(lo')
        BY <1>2, <2>1 DEF LoShape
  <2>3. calls = 1 => LoPrices(lo', f, orig)
    <3> SUFFICES ASSUME calls = 1 PROVE LoPrices(lo', f, orig)
        OBVIOUS
    <3>1. f.cards = <<>> /\ cardToAdd = <<>>
          BY <1>2 DEF FlowInv, Before
    <3> QED BY <1>2, <3>1, LoMade
  <2>4. calls = 1 => LoPrices(lo', f', orig)
        BY <1>3, <2>1, <2>2, <2>3, LoKept
  <2> QED BY <1>2, <2>2, <2>4 DEF LoInv
<1> QED BY <1>4, <1>5, <1>6, <1>7, <1>8 DEF OptInv

\* A call starts without a solution.
LEMMA OptSolve ==
  ASSUME SearchInv, CostInv, FlowInv, OptInv, Solve
  PROVE  OptInv'
<1>1. /\ pc = "ready" /\ pc' = "leftover" /\ solutionCost' = MaxWeight /\ calls' = calls + 1
      /\ f' = f /\ UNCHANGED <<solution, orig, opt>>
      BY DEF Solve, Goto
<1>2. calls \in Nat
      BY LeftFacts DEF CostInv
<1>3. UpperInv'
      BY <1>1, <1>2, MaxWeightAssumption DEF OptInv, UpperInv
<1>4. CutInv'
  <2>1. calls' <= 1 => calls = 0 /\ solutionCost = MaxWeight
        BY <1>1, <1>2 DEF OptInv, UpperInv
  <2>2. calls' <= 1 => \A p \in orig.live \ f.live : GoalCost(p) >= MaxWeight
        BY <2>1 DEF OptInv, CutInv
  <2> QED BY <1>1, <2>2 DEF OptInv, CutInv, GoalCost
<1>5. SolInv'
      BY <1>1, MaxWeightAssumption DEF SolInv
<1>6. LoInv' /\ OptimalOnReturn'
      BY <1>1 DEF LoInv, InLoop, OptimalOnReturn
<1> QED BY <1>3, <1>4, <1>5, <1>6 DEF OptInv

\* The optimizer never prices an assignment below what it costs.
LEMMA OptimizerPrice ==
  ASSUME SearchInv, CostInv, LoShape(lo), LoPrices(lo, f, orig), NEW p \in f.live, NEW K \in SUBSET Held(p)
  PROVE  GoalCost(p) <= CalculateCostAssign(K)
<1>1. lo.poids \in Seq(Int) /\ lo.cost \in Nat /\ IsFormula(f) /\ p \in Points
      BY SearchFacts, LivePoints DEF LoShape
<1>2. PICK a : a = Falsified(f, p)
      OBVIOUS
<1>3. PICK b : b = SoftLits(lo) \ K
      OBVIOUS
<1>4. \A l \in LitsOf(lo.poids) : Weight(lo.poids, l) > 0 /\ l \in a => l \in b
  <2> SUFFICES ASSUME NEW l \in LitsOf(lo.poids), Weight(lo.poids, l) > 0, l \in a PROVE l \in b
      OBVIOUS
  <2>1. l \in LitsOf(f.poids)
        BY DEF LoPrices
  <2>2. p \notin True(f, l)
        BY <1>1, <1>2, <2>1, FalsifiedFacts
  <2>3. l \in SoftLits(lo)
        BY <1>1, LitsAre DEF SoftLits, Poids
  <2>4. l \notin K
        BY <2>2 DEF Held
  <2> QED BY <1>3, <2>3, <2>4
<1>5. Charges(lo.poids, a) <= Charges(lo.poids, b)
      BY ONLY <1>1, <1>4, ChargesSubset
<1>6. Charges(lo.poids, a) \in Nat /\ Charges(lo.poids, b) \in Nat
      BY <1>1, ChargesNat
<1>7. GoalCost(p) = lo.cost + Charges(lo.poids, a)
      BY <1>2 DEF LoPrices, GoalCost
<1>8. CalculateCostAssign(K) = lo.cost + Charges(lo.poids, b)
      BY <1>3 DEF CalculateCostAssign
<1> QED BY ONLY <1>1, <1>5, <1>6, <1>7, <1>8

\* A better assignment from the optimizer, or none.
LEMMA OptOptimize ==
  ASSUME SearchInv, CostInv, FlowInv, OptInv, SatOptimize
  PROVE  OptInv'
<1>1. pc = "sat" /\ opt.ub /\ f' = f /\ UNCHANGED <<lo, orig, opt, calls>>
      BY DEF SatOptimize, search, frame
<1>2. InLoop /\ LoShape(lo) /\ (calls = 1 => LoPrices(lo, f, orig)) /\ then = "none"
      BY <1>1 DEF OptInv, LoInv, InLoop, FlowInv
<1>3. PICK p \in f.live : \E K \in SUBSET Held(p) :
        IF CalculateCostAssign(K) < solutionCost
        THEN /\ solution' = p /\ solutionCost' = CalculateCostAssign(K)
             /\ pc' = "harden" /\ then' = "tail"
        ELSE pc' = "tail" /\ UNCHANGED <<then, solution, solutionCost>>
      BY DEF SatOptimize
<1>4. PICK K \in SUBSET Held(p) :
        IF CalculateCostAssign(K) < solutionCost
        THEN /\ solution' = p /\ solutionCost' = CalculateCostAssign(K)
             /\ pc' = "harden" /\ then' = "tail"
        ELSE pc' = "tail" /\ UNCHANGED <<then, solution, solutionCost>>
      BY <1>3
<1>5. InLoop' /\ ~Before' /\ pc' \notin {"done", "ready"}
      BY <1>2, <1>4 DEF InLoop, Before
<1>6. LoInv'
      BY <1>1, <1>2 DEF LoInv
<1>7. OptimalOnReturn'
      BY <1>5 DEF OptimalOnReturn
<1>8. CASE solutionCost' = solutionCost /\ solution' = solution
  <2>1. UpperInv' /\ CutInv' /\ SolInv'
        BY <1>1, <1>5, <1>8 DEF OptInv, UpperInv, CutInv, SolInv, GoalCost
  <2> QED BY <1>6, <1>7, <2>1 DEF OptInv
<1>9. CASE solution' = p /\ solutionCost' = CalculateCostAssign(K) /\ CalculateCostAssign(K) < solutionCost
  <2>1. PICK c : c = CalculateCostAssign(K)
        OBVIOUS
  <2>2. lo.cost \in Nat /\ lo.poids \in Seq(Int)
        BY <1>2 DEF LoShape
  <2>3. c \in Nat
    <3>1. Charges(lo.poids, SoftLits(lo) \ K) \in Nat
          BY <2>2, ChargesNat
    <3> QED BY <2>1, <2>2, <3>1 DEF CalculateCostAssign
  <2>4. c < solutionCost /\ solutionCost' = c /\ solution' = p
        BY <1>9, <2>1
  <2>5. solutionCost \in 0..MaxWeight
        BY DEF OptInv, UpperInv
  <2>6. p \in Points /\ p \in orig.live
        BY GoalLow DEF CostInv, UserInv
  <2>7. calls \in Nat /\ (calls = 0 => pc = "ready")
        BY LeftFacts DEF CostInv, FlowInv
  <2>8. UpperInv'
        BY <1>1, <1>5, <2>3, <2>4, <2>5, <2>6, <2>7, MaxWeightAssumption DEF UpperInv
  <2>9. CutInv'
    <3>1. calls <= 1 => \A q \in orig.live \ f.live : GoalCost(q) >= solutionCost
          BY DEF OptInv, CutInv
    <3>2. \A q \in orig.live : GoalCost(q) \in Nat
      <4>1. orig.live \subseteq Points
            BY LivePoints DEF CostInv, UserInv, Good, Sound
      <4> QED BY <4>1, GoalRange
    <3>3. calls <= 1 => \A q \in orig.live \ f.live : GoalCost(q) >= c
          BY <2>3, <2>4, <2>5, <3>1, <3>2, MaxWeightAssumption
    <3> QED BY <1>1, <2>4, <3>3 DEF OptInv, CutInv, GoalCost
  <2>10. SolInv'
    <3>1. calls = 1 => GoalCost(p) <= c
          BY <1>2, <2>1, OptimizerPrice
    <3> QED BY <1>1, <2>4, <2>6, <3>1 DEF SolInv, GoalCost
  <2> QED BY <1>6, <1>7, <2>8, <2>9, <2>10 DEF OptInv
<1> QED BY <1>4, <1>8, <1>9

\* An assignment of the user's is still there, or does not beat the solution at hand.
LEMMA LeftOrDear ==
  ASSUME SearchInv, CostInv, OptInv, calls = 1 \/ ~opt.ub, NEW q \in orig.live
  PROVE  /\ q \in Points /\ GoalCost(q) \in Nat /\ GoalCost(q) < MaxWeight
         /\ q \in f.live => GoalCost(q) >= f.cost
         /\ q \in f.live \/ GoalCost(q) >= solutionCost
<1>1. q \in Points
  <2>1. orig.live \subseteq Points
        BY LivePoints DEF CostInv, UserInv, Good, Sound
  <2> QED BY <2>1
<1>2. q \in f.live \/ GoalCost(q) >= solutionCost
  <2>1. CASE calls = 1
        BY <2>1 DEF OptInv, CutInv
  <2>2. CASE ~opt.ub
        BY <2>2 DEF OptInv, CutInv
  <2> QED BY <2>1, <2>2
<1> QED BY <1>1, <1>2, GoalRange, GoalLow

\* A step that returns with a model that pays nothing beyond the lower bound.
LEMMA OptFound ==
  ASSUME SearchInv, CostInv, FlowInv, OptInv, f' = f, UNCHANGED <<orig, opt, calls>>, pc \notin {"ready", "done"},
         NEW p \in f.live, GoalCost(p) = f.cost, f.cost < solutionCost,
         solution' = p, solutionCost' = f.cost, pc' = "done"
  PROVE  UpperInv' /\ CutInv' /\ SolInv' /\ LoInv' /\ (ret' = TRUE => OptimalOnReturn')
<1>1. f.cost \in Nat /\ f.cost < MaxWeight /\ p \in Points /\ p \in orig.live
      BY GoalLow DEF CostInv, UserInv
<1>2. calls # 0 /\ solutionCost \in 0..MaxWeight
      BY DEF OptInv, UpperInv, FlowInv
<1>3. UpperInv'
      BY <1>1, <1>2, MaxWeightAssumption DEF UpperInv
<1>4. CutInv'
  <2>1. \A q \in orig.live : GoalCost(q) \in Nat
    <3>1. orig.live \subseteq Points
          BY LivePoints DEF CostInv, UserInv, Good, Sound
    <3> QED BY <3>1, GoalRange
  <2>2. calls <= 1 => \A q \in orig.live \ f.live : GoalCost(q) >= solutionCost
        BY DEF OptInv, CutInv
  <2>3. calls <= 1 => \A q \in orig.live \ f.live : GoalCost(q) >= f.cost
        BY <1>1, <1>2, <2>1, <2>2, MaxWeightAssumption
  <2> QED BY <2>3 DEF OptInv, CutInv, GoalCost
<1>5. SolInv'
  <2>1. GoalCost(p) <= f.cost
        BY <1>1
  <2> QED BY <1>1, <2>1 DEF SolInv, GoalCost
<1>6. LoInv'
      BY DEF LoInv, InLoop
<1>7. OptimalOnReturn' \/ ret' # TRUE
  <2> SUFFICES ASSUME ret' = TRUE, calls = 1 \/ ~opt.ub
               PROVE  \A q \in orig.live : GoalCost(q) >= f.cost
      BY <1>1 DEF OptimalOnReturn, GoalCost
  <2> TAKE q \in orig.live
  <2>1. /\ GoalCost(q) \in Nat
        /\ q \in f.live => GoalCost(q) >= f.cost
        /\ q \in f.live \/ GoalCost(q) >= solutionCost
        BY LeftOrDear
  <2> QED BY <1>1, <1>2, <2>1, MaxWeightAssumption
<1> QED BY <1>3, <1>4, <1>5, <1>6, <1>7

\* With the soft literals all kept and nothing pending, a model costs the lower bound.
LEMMA GoalMet ==
  ASSUME SearchInv, CostInv, am.pc = "idle", cardToAdd = <<>>, litToRelax = {}, NEW p \in f.live,
         \A l : Soft(f, l) => p \in True(f, l)
  PROVE  GoalCost(p) = f.cost
<1>1. Good(f, <<>>, {})
      BY IdleGood
<1>2. Total(f, <<>>, Falsified(f, p)) = f.cost
      BY <1>1, NothingOwed
<1>3. Total(f, <<>>, Falsified(f, p)) + OwesIn(am, Falsified(f, p)) = GoalCost(p)
      BY DEF CostInv, PayInv, Meets, GoalCost
<1>4. OwesIn(am, Falsified(f, p)) = 0 /\ f.cost \in Nat
      BY GoalLow DEF OwesIn
<1> QED BY ONLY <1>2, <1>3, <1>4

\* So it is with a model of all assumptions in the last stratum,
LEMMA LastModel ==
  ASSUME SearchInv, CostInv, FlowInv, pc = "top", minW = 1, NEW p \in Models(f, assum)
  PROVE  p \in f.live /\ GoalCost(p) = f.cost
<1>1. am.pc = "idle" /\ cardToAdd = <<>> /\ litToRelax = {} /\ f.poids \in Seq(Int)
      BY SearchFacts DEF FlowInv
<1>2. assum = Heavy(f.poids, 1)
      BY DEF SearchInv, SyncInv, Synced
<1>3. p \in f.live /\ \A l \in assum : p \in True(f, l)
      BY DEF Models
<1>4. \A l : Soft(f, l) => p \in True(f, l)
  <2> SUFFICES ASSUME NEW l, Soft(f, l) PROVE l \in assum
      BY <1>3
  <2>1. l \in LitsOf(f.poids) /\ Weight(f.poids, l) > 0 /\ Weight(f.poids, l) \in Int
        BY <1>1, WeightFacts DEF Soft
  <2> QED BY <1>2, <2>1 DEF Heavy
<1> QED BY <1>1, <1>3, <1>4, GoalMet

\* and with any model when no soft literal is left before the loop.
LEMMA HardModel ==
  ASSUME SearchInv, CostInv, FlowInv, pc = "am1", am.pc = "idle", DOMAIN f.map = {}, NEW p \in f.live
  PROVE  GoalCost(p) = f.cost
<1>1. cardToAdd = <<>> /\ litToRelax = {}
      BY DEF FlowInv
<1>2. \A l : Soft(f, l) => p \in True(f, l)
  <2> SUFFICES ASSUME NEW l, Soft(f, l) PROVE FALSE
      OBVIOUS
  <2>1. IndexOK(f) /\ f.poids \in Seq(Int)
        BY SearchFacts
  <2>2. l \in LitsOf(f.poids) /\ Weight(f.poids, l) > 0
        BY DEF Soft
  <2>3. Var(l) \in DOMAIN f.poids /\ f.poids[Var(l)] \in Int /\ Var(l) \in Nat /\ l \in Int \ {0}
        BY <2>1, <2>2, PoidsFacts DEF LitsOf
  <2>4. f.poids[Var(l)] # 0
        BY <2>2, <2>3 DEF Weight, Var
  <2> QED BY <2>1, <2>3, <2>4 DEF IndexOK, Indexed
<1> QED BY <1>1, <1>2, GoalMet

\* SAT in the last stratum ends the search.
LEMMA OptSatLast ==
  ASSUME SearchInv, CostInv, FlowInv, OptInv, TopSatLast
  PROVE  OptInv'
<1>1. /\ pc = "top" /\ pc' = "done" /\ ret' = TRUE /\ f.cost < solutionCost /\ minW = 1 /\ f' = f
      /\ UNCHANGED <<orig, opt, calls>> /\ solutionCost' = f.cost
      BY DEF TopSatLast, Return, frame
<1>2. PICK p \in Models(f, assum) : solution' = p
      BY DEF TopSatLast
<1>3. p \in f.live /\ GoalCost(p) = f.cost
      BY <1>1, <1>2, LastModel
<1>4. UpperInv' /\ CutInv' /\ SolInv' /\ LoInv' /\ OptimalOnReturn'
      BY <1>1, <1>2, <1>3, OptFound
<1> QED BY <1>4 DEF OptInv

\* Without soft literals one call of the SAT solver ends it.
LEMMA OptSolveHard ==
  ASSUME SearchInv, CostInv, FlowInv, OptInv, SolveHard
  PROVE  OptInv'
<1>1. /\ pc = "am1" /\ pc' = "done" /\ am.pc = "idle" /\ DOMAIN f.map = {} /\ f' = f
      /\ UNCHANGED <<orig, opt, calls>>
      BY DEF SolveHard, Return, frame
<1>2. solutionCost = MaxWeight
      BY <1>1 DEF OptInv, UpperInv, Before
<1>3. CASE \E p \in f.live : solution' = p /\ solutionCost' = f.cost /\ Return(TRUE)
  <2>1. PICK p \in f.live : solution' = p /\ solutionCost' = f.cost /\ Return(TRUE)
        BY <1>3
  <2>2. GoalCost(p) = f.cost
        BY <1>1, HardModel
  <2>3. f.cost < solutionCost /\ ret' = TRUE
        BY <1>2, <2>1, GoalLow DEF Return
  <2>4. UpperInv' /\ CutInv' /\ SolInv' /\ LoInv' /\ OptimalOnReturn'
        BY <1>1, <2>1, <2>2, <2>3, OptFound
  <2> QED BY <2>4 DEF OptInv
<1>4. CASE f.live = {} /\ Return(FALSE) /\ UNCHANGED <<solution, solutionCost>>
  <2>1. UpperInv' /\ CutInv'
        BY <1>1, <1>4 DEF OptInv, UpperInv, CutInv, GoalCost
  <2>2. SolInv' /\ LoInv'
        BY <1>1, <1>2, <1>4, MaxWeightAssumption DEF SolInv, LoInv, InLoop
  <2>3. calls = 1 \/ ~opt.ub => orig.live = {}
    <3> SUFFICES ASSUME calls = 1 \/ ~opt.ub, NEW q \in orig.live PROVE FALSE
        OBVIOUS
    <3>1. GoalCost(q) \in Nat /\ GoalCost(q) < MaxWeight /\ (q \in f.live \/ GoalCost(q) >= solutionCost)
          BY LeftOrDear
    <3> QED BY <1>2, <1>4, <3>1, MaxWeightAssumption
  <2>4. OptimalOnReturn'
        BY <1>1, <1>4, <2>3 DEF OptimalOnReturn, Return
  <2> QED BY <2>1, <2>2, <2>4 DEF OptInv
<1> QED BY <1>3, <1>4 DEF SolveHard

\* The other steps that return leave the bounds as they are.
LEMMA OptReturns ==
  ASSUME SearchInv, CostInv, FlowInv, OptInv, BoundsMeet \/ CoreEmpty \/ CoreBoundsMeet
  PROVE  OptInv'
<1>1. /\ pc \in {"top", "core", "coreEnd"} /\ pc' = "done" /\ f' = f
      /\ UNCHANGED <<solution, solutionCost, orig, opt, calls>>
      BY DEF BoundsMeet, CoreEmpty, CoreBoundsMeet, Return, frame
<1>2. UpperInv' /\ CutInv'
      BY <1>1 DEF OptInv, UpperInv, CutInv, GoalCost
<1>3. SolInv' /\ LoInv'
      BY <1>1 DEF OptInv, SolInv, GoalCost, LoInv, InLoop
<1>4. solutionCost \in 0..MaxWeight /\ f.cost \in Nat /\ f.cost < MaxWeight
      BY GoalLow DEF OptInv, UpperInv
<1>5. \/ ret' = TRUE /\ solutionCost < MaxWeight /\ (solutionCost <= f.cost \/ f.live = {})
      \/ ret' = FALSE /\ solutionCost = MaxWeight /\ f.live = {}
  <2>1. CASE BoundsMeet
        BY <1>4, <2>1, MaxWeightAssumption DEF BoundsMeet, Return
  <2>2. CASE CoreBoundsMeet
        BY <1>4, <2>2, MaxWeightAssumption DEF CoreBoundsMeet, Return
  <2>3. CASE CoreEmpty
    <3>1. f.live = {} /\ ret' = (solutionCost # MaxWeight)
          BY <2>3 DEF CoreEmpty, Return, Sat, Models
    <3>2. CASE solutionCost = MaxWeight
          BY <3>1, <3>2
    <3>3. CASE solutionCost # MaxWeight
      <4>1. solutionCost < MaxWeight
            BY <1>4, <3>3, MaxWeightAssumption
      <4> QED BY <3>1, <3>3, <4>1
    <3> QED BY <3>2, <3>3
  <2> QED BY <2>1, <2>2, <2>3
<1>6. ASSUME calls = 1 \/ ~opt.ub, NEW q \in orig.live
      PROVE  GoalCost(q) \in Nat /\ GoalCost(q) >= solutionCost
  <2>1. /\ q \in Points /\ GoalCost(q) \in Nat /\ GoalCost(q) < MaxWeight
        /\ q \in f.live => GoalCost(q) >= f.cost
        /\ q \in f.live \/ GoalCost(q) >= solutionCost
        BY <1>6, LeftOrDear
  <2> QED BY <1>4, <1>5, <2>1, MaxWeightAssumption
<1>7. CASE ret' = TRUE /\ solutionCost < MaxWeight
  <2>1. calls = 1 \/ ~opt.ub => solution \in orig.live /\ GoalCost(solution) <= solutionCost
        BY <1>1, <1>7 DEF OptInv, SolInv
  <2>2. calls = 1 \/ ~opt.ub => GoalCost(solution) = solutionCost
        BY <1>4, <1>6, <2>1, MaxWeightAssumption
  <2>3. OptimalOnReturn'
        BY <1>1, <1>6, <1>7, <2>1, <2>2 DEF OptimalOnReturn, GoalCost
  <2> QED BY <1>2, <1>3, <2>3 DEF OptInv
<1>8. CASE ret' = FALSE /\ solutionCost = MaxWeight /\ f.live = {}
  <2>1. calls = 1 \/ ~opt.ub => orig.live = {}
    <3> SUFFICES ASSUME calls = 1 \/ ~opt.ub, NEW q \in orig.live PROVE FALSE
        OBVIOUS
    <3>1. GoalCost(q) \in Nat /\ GoalCost(q) < MaxWeight /\ (q \in f.live \/ GoalCost(q) >= solutionCost)
          BY LeftOrDear
    <3> QED BY <1>8, <3>1, MaxWeightAssumption
  <2>2. OptimalOnReturn'
        BY <1>1, <1>8, <2>1 DEF OptimalOnReturn
  <2> QED BY <1>2, <1>3, <2>2 DEF OptInv
<1> QED BY <1>5, <1>7, <1>8

\* Between two calls: no assignment gets cheaper.
LEMMA OptAgain ==
  ASSUME SearchInv, CostInv, CostInv', FlowInv, OptInv, AgainAdd \/ AgainHard \/ Again
  PROVE  OptInv'
<1>1. pc = "done" /\ pc' = "ready" /\ UNCHANGED <<solution, solutionCost, opt, calls>>
      BY DEF AgainAdd, AgainHard, Again, Goto, bounds, frame
<1>2. UpperInv'
      BY <1>1 DEF OptInv, UpperInv
<1>3. SolInv' /\ LoInv' /\ OptimalOnReturn'
      BY <1>1 DEF SolInv, LoInv, InLoop, OptimalOnReturn
<1>4. CASE Again
  <2>1. CutInv'
        BY <1>4 DEF Again, frame, bounds, OptInv, CutInv, GoalCost
  <2> QED BY <1>2, <1>3, <2>1 DEF OptInv
<1>5. CASE AgainAdd \/ AgainHard
  <2>1. /\ orig'.live \ f'.live \subseteq orig.live \ f.live
        /\ \A p \in orig'.live : CostOf(orig', p) >= CostOf(orig, p)
        BY <1>5, CostAddsSoft, CostAddsHard DEF Grows
  <2>2. opt.incremental \/ ~opt.ub => orig'.live \subseteq f'.live
        BY <2>1 DEF OptInv, CutInv
  <2>3. calls <= 1 => \A p \in orig'.live \ f'.live : GoalCost(p)' >= solutionCost
    <3> SUFFICES ASSUME calls <= 1, NEW p \in orig'.live \ f'.live PROVE CostOf(orig', p) >= solutionCost
        BY DEF GoalCost
    <3>1. p \in orig.live \ f.live /\ CostOf(orig', p) >= CostOf(orig, p)
          BY <2>1
    <3>2. CostOf(orig, p) >= solutionCost
          BY <3>1 DEF OptInv, CutInv, GoalCost
    <3>3. p \in Points
          BY <3>1, LivePoints DEF CostInv, UserInv, Good, Sound
    <3>4. CostOf(orig, p) \in Nat
          BY <3>3, GoalRange DEF GoalCost
    <3>5. CostOf(orig', p) \in Nat
      <4>1. Good(orig', <<>>, {}) /\ orig'.cards = <<>> /\ orig'.cost \in Nat
            BY DEF CostInv, UserInv
      <4>2. PICK o : o = orig'
            OBVIOUS
      <4>3. PICK t : t = Total(o, <<>>, Falsified(o, p))
            OBVIOUS
      <4>4. CostOf(o, p) = t
            BY <3>3, <4>1, <4>2, <4>3, UserCost
      <4>5. t \in Int /\ t >= o.cost
            BY <4>1, <4>2, <4>3, TotalInt
      <4> QED BY <4>1, <4>2, <4>4, <4>5
    <3>6. solutionCost \in 0..MaxWeight
          BY DEF OptInv, UpperInv
    <3> QED BY ONLY <3>1, <3>2, <3>4, <3>5, <3>6, MaxWeightAssumption
  <2>4. CutInv'
        BY <1>1, <2>2, <2>3 DEF CutInv
  <2> QED BY <1>2, <1>3, <2>4 DEF OptInv
<1> QED BY <1>4, <1>5

\* Every step.
LEMMA OptStep ==
  ASSUME SearchInv, SearchInv', CostInv, CostInv', FlowInv, OptInv, [Next]_vars
  PROVE  OptInv'
<1>1. CASE UNCHANGED vars
  <2>1. UNCHANGED <<f, pc, then, lo, solution, solutionCost, ret, orig, opt, calls>>
        BY <1>1 DEF vars, search, frame, bounds
  <2>2. UpperInv' /\ CutInv' /\ SolInv'
        BY <2>1 DEF OptInv, UpperInv, CutInv, SolInv, Before, GoalCost
  <2>3. LoInv' /\ OptimalOnReturn'
        BY <2>1 DEF OptInv, LoInv, InLoop, OptimalOnReturn, GoalCost
  <2> QED BY <2>2, <2>3 DEF OptInv
<1>2. CASE Finished
  <2>1. UNCHANGED vars
        BY <1>2 DEF Finished
  <2> QED BY <1>1, <2>1
<1> QED BY <1>1, <1>2, OptSolve, OptMoves, OptRewrites, OptHardens, OptFirst, OptOptimize, OptSatLast, OptSolveHard,
           OptReturns, OptAgain DEF Next

\* The invariant behind the two theorems that follow holds in every state of solve().
THEOREM OptInvariant == Spec => []OptInv
<1>1. Init => OptInv
      BY OptInit
<1>2. SearchInv /\ SearchInv' /\ CostInv /\ CostInv' /\ FlowInv /\ OptInv /\ [Next]_vars => OptInv'
      BY OptStep
<1> QED BY <1>1, <1>2, SearchInvariant, CostInvariant, FlowInvariant, PTL DEF Spec

\* OptimalOnReturn, for every formula and every setting: what solve() returns with
\* true is feasible, costs what getCost() says and is optimal, and false means that
\* the hard clauses have no solution (on the first call, and without upper bounds on
\* every call).
THEOREM SearchOptimalOnReturn == Spec => []OptimalOnReturn
<1>1. OptInv => OptimalOnReturn
      BY DEF OptInv
<1> QED BY <1>1, OptInvariant, PTL

\* CutNotBetter, for every formula and every setting: harden() and the refutations
\* only cut away assignments that do not beat the solution at hand.
THEOREM SearchCutNotBetter == Spec => []CutNotBetter
<1>1. OptInv => CutNotBetter
      BY DEF OptInv, CutInv, CutNotBetter
<1> QED BY <1>1, OptInvariant, PTL

\* The type of the state follows from the invariants.
LEMMA TypeFacts ==
  ASSUME SearchInv, CostInv, FlowInv, OptInv
  PROVE  TypeOK
<1>1. Sound(f) /\ minW \in Nat \ {0}
      BY SearchFacts
<1>2. /\ IsFormula(f) /\ CardOK(f) /\ f.poids \in Seq(Int) /\ f.map \in Index /\ f.card \in Seq(LitCard)
      /\ f.truth \in Seq(SUBSET Points) /\ f.live \in SUBSET Points
      /\ Len(f.card) = Len(f.poids) /\ Len(f.truth) = Len(f.poids)
  <2>1. IsFormula(f) /\ CardOK(f)
        BY <1>1 DEF Sound
  <2> QED BY <2>1, Fields
<1>3. f.cost \in 0..MaxWeight
      BY GoalLow, MaxWeightAssumption
<1>4. DOMAIN f.map \subseteq Nat \ {0}
      BY <1>2, IndexFacts
<1>5. FormulaOK(f)
      BY <1>2, <1>3, <1>4 DEF FormulaOK, CardOK
<1>6. orig.live \in SUBSET Points
      BY LivePoints DEF CostInv, UserInv, Good, Sound
<1>7. opt.delay \in BOOLEAN /\ opt.ub \in BOOLEAN /\ opt.incremental \in BOOLEAN /\ calls \in 0..opt.calls
      BY OptionsAssumption DEF CostInv, RoomInv
<1>8. Lits(f) = LitsOf(f.poids)
      BY <1>2, LitsAre
<1>9. litToRelax \subseteq Lits(f)
      BY <1>8 DEF SearchInv, ListInv, Spent
<1>10. pc \in Pcs /\ then \in {"none", "choose", "limited", "tail"} /\ ret \in BOOLEAN /\ assum \subseteq Lits(f)
       BY <1>8 DEF FlowInv
<1>11. solution \in Points /\ solutionCost \in 0..MaxWeight
       BY DEF OptInv, UpperInv
<1> QED BY <1>1, <1>5, <1>6, <1>7, <1>9, <1>10, <1>11 DEF TypeOK

\* TypeOK, for every formula and every setting: solve() keeps the shape of its state,
\* and neither bound leaves t_weight.
THEOREM SearchTypeOK == Spec => []TypeOK
<1>1. SearchInv /\ CostInv /\ FlowInv /\ OptInv => TypeOK
      BY TypeFacts
<1> QED BY <1>1, SearchInvariant, CostInvariant, FlowInvariant, OptInvariant, PTL

\* The stratum after the one at m is lighter.
LEMMA NextLighter ==
  ASSUME SearchInv, TopSat
  PROVE  minW' <= minW
<1>1. PICK c \in ChooseNextMinWeight(f.map, minW) : minW' = c.min
      BY DEF TopSat, NextStratum
<1>2. f.map \in Index /\ minW \in Nat \ {0}
      BY SearchFacts, Fields
<1>3. c.min \in Nat \ {0} /\ (c.min = 1 \/ c.min < minW)
      BY ONLY <1>1, <1>2, StratumFacts
<1> QED BY <1>1, <1>2, <1>3

\* What a step within a call does to the bounds.
Narrows ==
    /\ f'.cost >= f.cost /\ solutionCost' <= solutionCost /\ f'.live \subseteq f.live
    /\ pc = "top" => minW' <= minW

\* Every step within a call does so.
LEMMA StepNarrows ==
  ASSUME SearchInv, CostInv, FlowInv, OptInv, Next, pc # "ready", pc # "done"
  PROVE  Narrows
<1>1. /\ f.cost \in Nat /\ f.cost < MaxWeight /\ solutionCost \in 0..MaxWeight /\ minW \in Nat \ {0}
      BY GoalLow, SearchFacts DEF OptInv, UpperInv
<1>2. solutionCost <= solutionCost /\ f.cost >= f.cost /\ minW <= minW
      BY <1>1, MaxWeightAssumption
<1>3. CASE \/ LeftoverRelax \/ SatRelax \/ TailRelax \/ LeftoverCard \/ TailCard \/ Core \/ AmStep \/ FirstStratum
  <2>1. Forward
        BY <1>3, CostRelaxes, CostAddsCard, CostCore, CostAm, CostStrata DEF Rewrites
  <2>2. solutionCost' = solutionCost /\ pc # "top"
        BY <1>3 DEF LeftoverRelax, SatRelax, TailRelax, LeftoverCard, TailCard, Core, AmStep, FirstStratum, Goto, bounds
  <2> QED BY <1>2, <2>1, <2>2 DEF Forward, Narrows
<1>4. CASE TopSat
  <2>1. Forward /\ minW' <= minW
        BY <1>4, CostStrata, NextLighter
  <2>2. solutionCost' = solutionCost
        BY <1>4 DEF TopSat, bounds
  <2> QED BY <1>2, <2>1, <2>2 DEF Forward, Narrows
<1>5. CASE HardenNothing \/ HardenSome
  <2>1. /\ am.pc = "idle" /\ pc = "harden" /\ solutionCost' = solutionCost
        BY <1>5, SearchFacts DEF HardenNothing, HardenSome, Goto, bounds
  <2>2. f' = f \/ (DOMAIN f.map # {} /\ f' = Harden(f, MaxCostLit))
        BY <1>5 DEF HardenNothing, HardenSome, HardenSkips
  <2>3. Good(f, cardToAdd, litToRelax) /\ (\A l \in litToRelax : Spent(f, l))
        BY <2>1, IdleGood
  <2>4. f' = f \/ (SameCost(f, cardToAdd, f', cardToAdd) /\ f'.cost = f.cost)
        BY ONLY <2>2, <2>3, CostHarden
  <2> QED BY <1>2, <2>1, <2>4 DEF SameCost, Narrows
<1>6. CASE \/ StartAM1 \/ HardenFirst \/ VeryFastDone \/ TopUnsat \/ CoreHarden \/ CoreEnd
           \/ LimitedUnsat \/ LimitedSat \/ LimitedTimeout \/ SatSkip \/ TailDone
           \/ BoundsMeet \/ CoreEmpty \/ CoreBoundsMeet
  <2>1. f' = f /\ solutionCost' = solutionCost /\ (pc = "top" => minW' = minW)
        BY <1>6 DEF StartAM1, HardenFirst, VeryFastDone, TopUnsat, CoreHarden, CoreEnd, LimitedUnsat, LimitedSat,
           LimitedTimeout, SatSkip, TailDone, BoundsMeet, CoreEmpty, CoreBoundsMeet, Goto, search, bounds
  <2> QED BY <1>2, <2>1 DEF Narrows
<1>7. CASE TopSatLast
  <2>1. f' = f /\ solutionCost' = f.cost /\ f.cost < solutionCost /\ minW' = minW
        BY <1>7 DEF TopSatLast, search
  <2> QED BY <1>1, <1>2, <2>1, MaxWeightAssumption DEF Narrows
<1>8. CASE SolveHard
  <2>1. pc = "am1" /\ f' = f /\ (solutionCost' = f.cost \/ solutionCost' = solutionCost)
        BY <1>8 DEF SolveHard
  <2>2. solutionCost = MaxWeight
        BY <2>1 DEF OptInv, UpperInv, Before
  <2> QED BY <1>1, <1>2, <2>1, <2>2, MaxWeightAssumption DEF Narrows
<1>9. CASE SatOptimize
  <2>1. pc = "sat" /\ f' = f
        BY <1>9 DEF SatOptimize
  <2>2. \/ solutionCost' = solutionCost
        \/ \E p \in f.live : \E K \in SUBSET Held(p) : solutionCost' = CalculateCostAssign(K) /\ CalculateCostAssign(K) < solutionCost
        BY <1>9 DEF SatOptimize
  <2>3. solutionCost' < solutionCost \/ solutionCost' = solutionCost
        BY <2>2
  <2>4. solutionCost' <= solutionCost
    <3>1. OptInv'
          BY <1>9, OptOptimize
    <3>2. solutionCost' \in 0..MaxWeight
          BY <3>1 DEF OptInv, UpperInv
    <3> QED BY <1>1, <2>3, <3>2, MaxWeightAssumption
  <2> QED BY <1>2, <2>1, <2>4 DEF Narrows
<1>10. CASE Solve \/ AgainAdd \/ AgainHard \/ Again \/ Finished
       BY <1>10 DEF Solve, AgainAdd, AgainHard, Again, Finished, Goto
<1> QED BY <1>3, <1>4, <1>5, <1>6, <1>7, <1>8, <1>9, <1>10 DEF Next

\* Monotone, for every formula and every setting: within a call the lower bound never
\* falls, the upper bound never rises, a cut assignment never comes back and the
\* stratum only gets lighter.
THEOREM SearchMonotone == Spec => Monotone
<1>1. SearchInv /\ CostInv /\ FlowInv /\ OptInv /\ [Next]_vars =>
        [calls' = calls /\ pc # "ready" /\ pc # "done" =>
           /\ f'.cost >= f.cost
           /\ solutionCost' <= solutionCost
           /\ f'.live \subseteq f.live
           /\ pc = "top" => minW' <= minW]_vars
      BY StepNarrows DEF Narrows
<1> QED BY <1>1, SearchInvariant, CostInvariant, FlowInvariant, OptInvariant, PTL DEF Spec, Monotone

-----------------------------------------------------------------------------
(*****************************************************************************)
(* One call implements the search between two bounds.                        *)
(*****************************************************************************)
\* Before and after a step within the call, the problem is the same.
Same == UNCHANGED <<orig, opt, calls>> /\ pc # "done"

\* A step within the call is one of a search under way.
LEMMA SearchingStep ==
  ASSUME Same
  PROVE  Search!Searching
  BY DEF Same, Search!Searching, GoalCost

\* The initial states are initial states of the search between two bounds.
LEMMA RefinesInit ==
  ASSUME Init
  PROVE  Search!BoundInit
<1>1. SearchInv /\ CostInv
      BY SearchInit, CostInit
<1>2. f = orig /\ solutionCost = MaxWeight /\ solution \in Points /\ pc = "ready"
      BY PointsAssumption DEF Init, NoSolution
<1>3. orig.live \in SUBSET Points
      BY <1>1, LivePoints DEF CostInv, UserInv, Good, Sound
<1>4. \A p \in Points : GoalCost(p) \in 0..(MaxWeight - 1)
      BY <1>1, GoalRange, MaxWeightAssumption
<1>5. f.cost \in 0..(MaxWeight - 1) /\ \A p \in orig.live : GoalCost(p) >= f.cost
      BY <1>1, <1>2, GoalLow, MaxWeightAssumption
<1> QED BY <1>2, <1>3, <1>4, <1>5 DEF Search!BoundInit, Search!Prices

\* The lower bound is a weight that no assignment left goes below.
LowerInv ==
    /\ f.cost \in Nat /\ f.cost < MaxWeight
    /\ \A p \in f.live : p \in Points /\ GoalCost(p) >= f.cost

\* cost is a lower bound in every state of solve().
THEOREM LowerInvariant == Spec => []LowerInv
<1>1. SearchInv /\ CostInv => LowerInv
      BY GoalLow DEF LowerInv
<1> QED BY <1>1, SearchInvariant, CostInvariant, PTL

\* A rewriting of the formula raises the lower bound, or leaves it.
LEMMA RefinesRaise ==
  ASSUME LowerInv, LowerInv', Same, Forward, UNCHANGED <<solution, solutionCost>>, pc' # "done"
  PROVE  Search!Raise
<1>1. f.cost \in Nat /\ f'.cost >= f.cost /\ f'.live = f.live
      BY DEF Forward, LowerInv
<1>2. f'.cost \in Nat /\ f'.cost < MaxWeight /\ \A p \in f'.live : p \in Points /\ CostOf(orig, p) >= f'.cost
      BY DEF LowerInv, GoalCost, Same
<1>3. Search!Searching
      BY SearchingStep
<1> QED BY <1>1, <1>2, <1>3, MaxWeightAssumption DEF Search!Raise, Same, GoalCost

\* harden() is Cut.
LEMMA RefinesCut ==
  ASSUME SearchInv, CostInv, FlowInv, OptInv, HardenNothing \/ HardenSome
  PROVE  Search!Cut
<1>1. /\ am.pc = "idle" /\ pc = "harden" /\ Same /\ UNCHANGED <<solution, solutionCost>>
      /\ pc' # "done"
      BY SearchFacts DEF HardenNothing, HardenSome, Goto, bounds, frame, Same, FlowInv
<1>2. f' = f \/ (DOMAIN f.map # {} /\ f' = Harden(f, MaxCostLit))
      BY DEF HardenNothing, HardenSome, HardenSkips
<1>3. /\ f'.cost = f.cost /\ f'.live \subseteq f.live
      /\ \A p \in f.live \ f'.live : GoalCost(p) >= solutionCost
  <2>1. CASE DOMAIN f.map # {} /\ f' = Harden(f, MaxCostLit)
    <3>1. Good(f, cardToAdd, litToRelax) /\ (\A l \in litToRelax : Spent(f, l))
          BY <1>1, IdleGood
    <3>2. /\ SameCost(f, cardToAdd, f', cardToAdd) /\ f'.live = Models(f, HardenLits(f, MaxCostLit))
          /\ f'.cost = f.cost
          BY ONLY <2>1, <3>1, CostHarden
    <3>3. solutionCost \in 0..MaxWeight
          BY DEF OptInv, UpperInv
    <3>4. \A p \in f.live \ f'.live : GoalCost(p) >= solutionCost
          BY <1>1, <2>1, <3>2, <3>3, HardenCuts
    <3> QED BY <3>2, <3>4 DEF SameCost
  <2> QED BY <1>2, <2>1
<1>4. f.live \subseteq Points
      BY GoalLow
<1>5. Search!Searching
      BY <1>1, SearchingStep
<1> QED BY <1>1, <1>3, <1>4, <1>5 DEF Search!Cut, Same, GoalCost

\* Steps that only move on are invisible.
LEMMA RefinesMoves ==
  ASSUME FlowInv, \/ StartAM1 \/ HardenFirst \/ VeryFastDone \/ TopUnsat \/ CoreHarden \/ CoreEnd
                  \/ LimitedUnsat \/ LimitedSat \/ LimitedTimeout \/ SatSkip \/ TailDone
  PROVE  UNCHANGED Search!boundVars
<1>1. f' = f /\ UNCHANGED <<solution, solutionCost, orig>>
      BY DEF StartAM1, HardenFirst, VeryFastDone, TopUnsat, CoreHarden, CoreEnd, LimitedUnsat, LimitedSat,
         LimitedTimeout, SatSkip, TailDone, bounds, frame
<1>2. pc # "done" /\ pc' # "done"
      BY DEF StartAM1, HardenFirst, VeryFastDone, TopUnsat, CoreHarden, CoreEnd, LimitedUnsat, LimitedSat,
         LimitedTimeout, SatSkip, TailDone, Goto, AfterCore, FlowInv
<1> QED BY <1>1, <1>2 DEF Search!boundVars, GoalCost

\* The steps that rewrite the formula are Raise.
LEMMA RefinesRewrites ==
  ASSUME SearchInv, CostInv, LowerInv, LowerInv',
         \/ LeftoverRelax \/ SatRelax \/ TailRelax \/ LeftoverCard \/ TailCard \/ Core \/ AmStep \/ FirstStratum \/ TopSat
  PROVE  Search!Raise
<1>1. Forward
      BY CostRelaxes, CostAddsCard, CostCore, CostAm, CostStrata DEF Rewrites
<1>2. UNCHANGED <<solution, solutionCost, orig, opt, calls>>
      BY DEF LeftoverRelax, SatRelax, TailRelax, LeftoverCard, TailCard, Core, AmStep, FirstStratum, TopSat, bounds, frame
<1>3. pc # "done" /\ pc' # "done"
      BY DEF LeftoverRelax, SatRelax, TailRelax, LeftoverCard, TailCard, Core, AmStep, FirstStratum, TopSat, Goto
<1> QED BY <1>1, <1>2, <1>3, RefinesRaise DEF Same

\* Returns because the bounds meet.
LEMMA RefinesMet ==
  ASSUME SearchInv, CostInv, OptInv, BoundsMeet \/ CoreBoundsMeet
  PROVE  Search!FinishBounds
<1>1. /\ pc' = "done" /\ ret' = TRUE /\ f' = f /\ UNCHANGED <<solution, solutionCost>> /\ Same
      BY DEF BoundsMeet, CoreBoundsMeet, Return, frame, Same
<1>2. solutionCost \in 0..MaxWeight /\ f.cost \in Nat /\ f.cost < MaxWeight
      BY GoalLow DEF OptInv, UpperInv
<1>3. f.cost >= solutionCost \/ f.cost = solutionCost
      BY DEF BoundsMeet, CoreBoundsMeet
<1>4. solutionCost < MaxWeight /\ f.cost >= solutionCost
      BY <1>2, <1>3, MaxWeightAssumption
<1>5. Search!Searching
      BY <1>1, SearchingStep
<1> QED BY <1>1, <1>4, <1>5 DEF Search!FinishBounds

\* Returns because no assignment is left.
LEMMA RefinesEmpty ==
  ASSUME Same, f.live = {}, f' = f, UNCHANGED <<solution, solutionCost>>, pc' = "done", ret' = (solutionCost # MaxWeight)
  PROVE  Search!FinishEmpty
<1>1. Search!Searching
      BY SearchingStep
<1>2. CASE solutionCost = MaxWeight
      BY <1>1, <1>2 DEF Search!FinishEmpty
<1>3. CASE solutionCost # MaxWeight
      BY <1>1, <1>3 DEF Search!FinishEmpty
<1> QED BY <1>2, <1>3

\* Returns with a model that costs the lower bound.
LEMMA RefinesFound ==
  ASSUME Same, LowerInv, NEW p \in f.live, GoalCost(p) = f.cost, f.cost < solutionCost,
         f' = f, solution' = p, solutionCost' = f.cost, pc' = "done", ret' = TRUE
  PROVE  Search!FinishSat
<1>1. Search!Searching /\ p \in Points
      BY SearchingStep DEF LowerInv
<1> QED BY <1>1 DEF Search!FinishSat, Same, GoalCost

\* SAT in the last stratum.
LEMMA RefinesSatLast ==
  ASSUME SearchInv, CostInv, FlowInv, LowerInv, TopSatLast
  PROVE  Search!FinishSat
<1>1. PICK p \in Models(f, assum) : solution' = p
      BY DEF TopSatLast
<1>2. /\ Same /\ pc = "top" /\ minW = 1 /\ f.cost < solutionCost /\ f' = f /\ solutionCost' = f.cost
      /\ pc' = "done" /\ ret' = TRUE
      BY DEF TopSatLast, Return, frame, Same
<1>3. p \in f.live /\ GoalCost(p) = f.cost
      BY <1>1, <1>2, LastModel
<1> QED BY <1>1, <1>2, <1>3, RefinesFound

\* No soft literals: a model, or none.
LEMMA RefinesSolveHard ==
  ASSUME SearchInv, CostInv, FlowInv, OptInv, LowerInv, SolveHard
  PROVE  Search!FinishSat \/ Search!FinishEmpty
<1>1. pc = "am1" /\ pc' = "done" /\ am.pc = "idle" /\ DOMAIN f.map = {} /\ f' = f /\ Same
      BY DEF SolveHard, Return, frame, Same
<1>2. solutionCost = MaxWeight /\ f.cost < MaxWeight
      BY <1>1 DEF OptInv, UpperInv, Before, LowerInv
<1>3. CASE \E p \in f.live : solution' = p /\ solutionCost' = f.cost /\ Return(TRUE)
  <2>1. PICK p \in f.live : solution' = p /\ solutionCost' = f.cost /\ Return(TRUE)
        BY <1>3
  <2>2. GoalCost(p) = f.cost
        BY <1>1, HardModel
  <2> QED BY <1>1, <1>2, <2>1, <2>2, RefinesFound DEF Return
<1>4. CASE f.live = {} /\ Return(FALSE) /\ UNCHANGED <<solution, solutionCost>>
  <2>1. ret' = (solutionCost # MaxWeight)
        BY <1>2, <1>4 DEF Return
  <2> QED BY <1>1, <1>4, <2>1, RefinesEmpty
<1> QED BY <1>3, <1>4 DEF SolveHard

\* The empty core.
LEMMA RefinesCoreEmpty ==
  ASSUME CoreEmpty
  PROVE  Search!FinishEmpty
<1>1. /\ Same /\ f.live = {} /\ f' = f /\ UNCHANGED <<solution, solutionCost>> /\ pc' = "done"
      /\ ret' = (solutionCost # MaxWeight)
      BY DEF CoreEmpty, Return, Sat, Models, frame, Same
<1> QED BY <1>1, RefinesEmpty

\* The optimizer finds a better assignment, or does not.
LEMMA RefinesImprove ==
  ASSUME SearchInv, CostInv, FlowInv, OptInv, OptInv', calls = 1, SatOptimize
  PROVE  Search!Improve \/ UNCHANGED Search!boundVars
<1>1. Same /\ pc = "sat" /\ f' = f /\ pc' \in {"harden", "tail"}
      BY DEF SatOptimize, frame, Same
<1>2. \/ UNCHANGED <<solution, solutionCost>>
      \/ solutionCost' < solutionCost /\ solution' \in f.live
      BY DEF SatOptimize
<1>3. CASE UNCHANGED <<solution, solutionCost>>
      BY <1>1, <1>3 DEF Search!boundVars, Same, GoalCost
<1>4. CASE solutionCost' < solutionCost /\ solution' \in f.live
  <2>1. solutionCost \in 0..MaxWeight /\ solutionCost' \in 0..MaxWeight
        BY DEF OptInv, UpperInv
  <2>2. solutionCost' \in 0..(MaxWeight - 1) /\ solutionCost' < MaxWeight
        BY <1>4, <2>1, MaxWeightAssumption
  <2>3. solution' \in orig.live /\ CostOf(orig, solution') <= solutionCost'
        BY <1>1, <2>2 DEF OptInv, SolInv, Same, GoalCost
  <2>4. solution' \in Points
        BY DEF OptInv, UpperInv
  <2>5. Search!Searching
        BY <1>1, SearchingStep
  <2> QED BY <1>1, <1>4, <2>2, <2>3, <2>4, <2>5 DEF Search!Improve, Search!Prices, GoalCost, Same
<1> QED BY <1>2, <1>3, <1>4

\* Every step of a single call is a step of the search between two bounds, or invisible.
LEMMA RefinesStep ==
  ASSUME SearchInv, CostInv, FlowInv, OptInv, OptInv', LowerInv, LowerInv', \A o \in Options : o.calls = 1, [Next]_vars
  PROVE  [Search!BoundNext]_(Search!boundVars)
<1>1. opt.calls = 1 /\ calls \in 0..1
      BY DEF CostInv, RoomInv
<1>2. pc # "ready" => calls = 1
      BY <1>1 DEF FlowInv
<1>3. CASE UNCHANGED vars
      BY <1>3 DEF vars, frame, bounds, Search!boundVars, GoalCost
<1>4. CASE Finished
      BY <1>3, <1>4 DEF Finished
<1>5. CASE Solve
  <2>1. calls = 0
    <3>1. pc = "ready" /\ calls < opt.calls
          BY <1>5 DEF Solve, Goto, CostInv, RoomInv
    <3> QED BY <1>1, <3>1
  <2>2. UNCHANGED <<f, solution, orig>> /\ solutionCost' = solutionCost /\ pc # "done" /\ pc' # "done"
        BY <1>5, <2>1 DEF Solve, Goto, OptInv, UpperInv
  <2> QED BY <2>2 DEF Search!boundVars, GoalCost
<1>6. CASE AgainAdd \/ AgainHard \/ Again
  <2>1. pc = "done" /\ calls < opt.calls
        BY <1>6 DEF AgainAdd, AgainHard, Again, Goto
  <2> QED BY <1>1, <1>2, <2>1
<1>7. CASE SatOptimize
  <2>1. calls = 1
        BY <1>2, <1>7 DEF SatOptimize
  <2> QED BY <1>7, <2>1, RefinesImprove DEF Search!BoundNext
<1>8. CASE HardenNothing \/ HardenSome
      BY <1>8, RefinesCut DEF Search!BoundNext
<1>9. CASE \/ StartAM1 \/ HardenFirst \/ VeryFastDone \/ TopUnsat \/ CoreHarden \/ CoreEnd
           \/ LimitedUnsat \/ LimitedSat \/ LimitedTimeout \/ SatSkip \/ TailDone
      BY <1>9, RefinesMoves
<1>10. CASE \/ LeftoverRelax \/ SatRelax \/ TailRelax \/ LeftoverCard \/ TailCard \/ Core \/ AmStep
            \/ FirstStratum \/ TopSat
       BY <1>10, RefinesRewrites DEF Search!BoundNext
<1>11. CASE BoundsMeet \/ CoreBoundsMeet
       BY <1>11, RefinesMet DEF Search!BoundNext
<1>12. CASE TopSatLast
       BY <1>12, RefinesSatLast DEF Search!BoundNext
<1>13. CASE SolveHard
       BY <1>13, RefinesSolveHard DEF Search!BoundNext
<1>14. CASE CoreEmpty
       BY <1>14, RefinesCoreEmpty DEF Search!BoundNext
<1> QED BY <1>3, <1>4, <1>5, <1>6, <1>7, <1>8, <1>9, <1>10, <1>11, <1>12, <1>13, <1>14 DEF Next

\* ImplementsSearch, for every formula and every setting with one call: solve() is a
\* search between two bounds as MaxSATBounds specifies it.
THEOREM SearchImplementsBounds ==
  ASSUME \A o \in Options : o.calls = 1
  PROVE  Spec => ImplementsSearch
<1>1. Init => Search!BoundInit
      BY RefinesInit
<1>2. SearchInv /\ CostInv /\ FlowInv /\ OptInv /\ OptInv' /\ LowerInv /\ LowerInv' /\ [Next]_vars =>
        [Search!BoundNext]_(Search!boundVars)
      BY RefinesStep
<1> QED BY <1>1, <1>2, SearchInvariant, CostInvariant, FlowInvariant, OptInvariant, LowerInvariant, PTL
           DEF Spec, ImplementsSearch, Search!BoundSpec
=============================================================================
