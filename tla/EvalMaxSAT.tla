----------------------------- MODULE EvalMaxSAT -----------------------------
(***************************************************************************)
(* EvalMaxSAT::solve(): the core-guided search with stratification,        *)
(* delayed relaxation, upper bounds from a local optimizer and hardening,  *)
(* over the formula of module Formula and the rewriting of AtMostOne.      *)
(*                                                                         *)
(* The SAT solver is an oracle: it answers SAT with any model, UNSAT with  *)
(* any unsatisfiable subset of the assumptions as its core (getConflict,   *)
(* the repeated solves and oneMinimize only choose among these), and a     *)
(* limited call may time out.                                              *)
(***************************************************************************)
EXTENDS AtMostOne

CONSTANTS Instances,   \* the formulas solve may be called on
          Options,     \* settings of the strategies, and the number of solve() calls
          Extra,       \* soft unit clauses [lit, w] that may be added between calls
          ExtraHard    \* hard clauses that may be added between calls

ASSUME InstancesAssumption == \A g \in Instances : UserFormula(g)

\* What is added later is about variables of the user; addClause ignores
\* weight 0.
ASSUME ExtraAssumption ==
    \A g \in Instances :
        /\ \A e \in Extra : e.lit \in Lits(g) /\ e.w \in Int \ {0}
        /\ \A C \in ExtraHard : C \subseteq Lits(g)

ASSUME OptionsAssumption ==
    \A o \in Options : /\ o.delay \in BOOLEAN /\ o.ub \in BOOLEAN /\ o.incremental \in BOOLEAN
                       /\ o.calls \in Nat \ {0}

\* All there is to pay in a formula of the user.
TotalWeight(g) == g.cost + Charges(g.poids, Lits(g))

\* t_weight is wide enough for it, whatever is added later, and its greatest
\* value is left to mean that no solution is known.
ASSUME WeightsAssumption ==
    \A g \in Instances, o \in Options :
        /\ TotalWeight(g) < MaxWeight
        /\ \A e \in Extra :
             TotalWeight(g) + (o.calls - 1) * (IF e.w < 0 THEN -e.w ELSE e.w) < MaxWeight

VARIABLES orig,          \* history: the formula as the user gave it
          opt,           \* _delayStrategy, _UBStrategy && toOptimize, is_incremental, bound on calls
          calls,         \* number of calls so far
          pc, then,      \* control, and where to go after the very fast AM1
          assum,         \* the assumptions
          minW,          \* minWeightToConsider
          cardToAdd,     \* _cardToAdd
          litToRelax,    \* _litToRelax
          lo,            \* the LocalOptimizer2: weights and cost when it was made
          solution,      \* the best assignment
          solutionCost,  \* its cost
          ret            \* the value returned

search == <<assum, minW, cardToAdd, litToRelax, lo>>
bounds == <<solution, solutionCost, ret>>
frame  == <<orig, opt, calls>>
vars   == <<f, am, pc, then, search, bounds, frame>>

\* The empty vector: what it says is not looked at while solutionCost is MaxWeight.
NoSolution == CHOOSE p \in Points : TRUE

NoLo == [poids |-> <<>>, cost |-> 0]

Init ==
    /\ f \in Instances /\ orig = f
    /\ opt \in Options
    /\ calls = 0
    /\ am = AmIdle
    /\ pc = "ready" /\ then = "none"
    /\ assum = {} /\ minW = 1
    /\ cardToAdd = <<>> /\ litToRelax = {}
    /\ lo = NoLo
    /\ solution = NoSolution /\ solutionCost = MaxWeight
    /\ ret = FALSE

Goto(from, to) == pc = from /\ pc' = to

Return(value) == pc' = "done" /\ ret' = value

(***************************************************************************)
(* Before the loop.                                                        *)
(***************************************************************************)
Solve ==
    /\ Goto("ready", "leftover")
    /\ calls' = calls + 1
    /\ solutionCost' = MaxWeight
    /\ UNCHANGED <<f, am, then, search, solution, ret, orig, opt>>

\* relax(lit) for a literal left from the last call.
LeftoverRelax ==
    /\ pc = "leftover"
    /\ \E l \in litToRelax :
         /\ f' = Relax(f, l)
         /\ litToRelax' = litToRelax \ {l}
    /\ UNCHANGED <<am, pc, then, assum, minW, cardToAdd, lo, bounds, frame>>

\* Faulty variant: constraints pending from the last call are dropped.
LeftoverCardDropped ==
    /\ pc = "leftover" /\ litToRelax = {} /\ cardToAdd # <<>>
    /\ cardToAdd' = <<>>
    /\ UNCHANGED <<f, am, pc, then, assum, minW, litToRelax, lo, bounds, frame>>

LeftoverCard ==
    /\ pc = "leftover" /\ litToRelax = {} /\ cardToAdd # <<>>
    /\ f' = AddCard(f, Head(cardToAdd).lits, Head(cardToAdd).w)
    /\ cardToAdd' = Tail(cardToAdd)
    /\ UNCHANGED <<am, pc, then, assum, minW, litToRelax, lo, bounds, frame>>

\* adapt_am1_exact(); adapt_am1_FastHeuristicV7();
StartAM1 ==
    /\ Goto("leftover", "am1") /\ litToRelax = {} /\ cardToAdd = <<>>
    /\ am' = StartExact(f)
    /\ assum' = {}
    /\ UNCHANGED <<f, then, minW, cardToAdd, litToRelax, lo, bounds, frame>>

\* A step of any of the three rewritings, while one is under way.
AmStep ==
    /\ pc \in {"am1", "veryFast"}
    /\ AmNext
    /\ UNCHANGED <<pc, then, search, bounds, frame>>

\* Without soft literals one call of the SAT solver settles it.
SolveHard ==
    /\ pc = "am1" /\ am.pc = "idle" /\ DOMAIN f.map = {}
    /\ \/ \E p \in f.live :
            solution' = p /\ solutionCost' = f.cost /\ Return(TRUE)
       \/ f.live = {} /\ Return(FALSE) /\ UNCHANGED <<solution, solutionCost>>
    /\ UNCHANGED <<f, am, then, search, frame>>

(***************************************************************************)
(* harden(assum), then adapt_am1_VeryFastHeuristic() if it did something;  *)
(* the variable then says where its caller goes on.                        *)
(***************************************************************************)
\* Faulty variant: one too low.
MaxCostLitLow == Wrap(solutionCost - f.cost - 1)

MaxCostLit == Wrap(solutionCost - f.cost)

HardenFirst ==
    /\ Goto("am1", "harden") /\ am.pc = "idle" /\ DOMAIN f.map # {}
    /\ then' = "choose"
    /\ UNCHANGED <<f, am, search, bounds, frame>>

HardenNothing ==
    /\ Goto("harden", then)
    /\ HardenSkips(f, opt.incremental) \/ HardenLits(f, MaxCostLit) = {}
    /\ f' = IF HardenSkips(f, opt.incremental) THEN f ELSE Harden(f, MaxCostLit)
    /\ then' = "none"
    /\ UNCHANGED <<am, search, bounds, frame>>

HardenSome ==
    /\ Goto("harden", "veryFast")
    /\ ~HardenSkips(f, opt.incremental)
    /\ HardenLits(f, MaxCostLit) # {}
    /\ f' = Harden(f, MaxCostLit)
    /\ assum' = assum \ HardenLits(f, MaxCostLit)
    /\ am' = StartScan("veryFast")
    /\ UNCHANGED <<then, minW, cardToAdd, litToRelax, lo, bounds, frame>>

\* Faulty variant: the assumptions are not recomputed.
VeryFastDoneStale ==
    /\ pc = "veryFast" /\ am.pc = "idle"
    /\ pc' = then /\ then' = "none"
    /\ am' = AmIdle
    /\ UNCHANGED <<f, search, bounds, frame>>

VeryFastDone ==
    /\ pc = "veryFast" /\ am.pc = "idle"
    /\ assum' = IF am.found THEN InitAssum(f, minW) ELSE assum
    /\ pc' = then /\ then' = "none"
    /\ am' = AmIdle
    /\ UNCHANGED <<f, minW, cardToAdd, litToRelax, lo, bounds, frame>>

\* The stratum is chosen and the assumptions follow it.
NextStratum(previous) ==
    \E c \in ChooseNextMinWeight(f.map, previous) :
        /\ f' = [f EXCEPT !.map = c.map]
        /\ minW' = c.min
        /\ assum' = InitAssum(f', c.min)

FirstStratum ==
    /\ Goto("choose", "top")
    /\ lo' = [poids |-> f.poids, cost |-> f.cost]
    /\ NextStratum(Top(f.map) + 1)
    /\ UNCHANGED <<am, then, cardToAdd, litToRelax, bounds, frame>>

(***************************************************************************)
(* The loop: a full solve.                                                 *)
(***************************************************************************)
BoundsMeet ==
    /\ pc = "top" /\ f.cost >= solutionCost
    /\ Return(TRUE)
    /\ UNCHANGED <<f, am, then, search, solution, solutionCost, frame>>

\* Faulty variants: SAT in any stratum is taken for the end; the bounds are
\* not compared before the solver is called.
TopSatAnyStratum ==
    /\ pc = "top" /\ f.cost < solutionCost
    /\ \E p \in Models(f, assum) : solution' = p
    /\ solutionCost' = f.cost
    /\ Return(TRUE)
    /\ UNCHANGED <<f, am, then, search, frame>>

TopSatUnchecked ==
    /\ pc = "top" /\ minW = 1
    /\ \E p \in Models(f, assum) : solution' = p
    /\ solutionCost' = f.cost
    /\ Return(TRUE)
    /\ UNCHANGED <<f, am, then, search, frame>>

TopSatLast ==
    /\ pc = "top" /\ f.cost < solutionCost /\ minW = 1
    /\ \E p \in Models(f, assum) : solution' = p
    /\ solutionCost' = f.cost
    /\ Return(TRUE)
    /\ UNCHANGED <<f, am, then, search, frame>>

\* Faulty variant: the strata start over.
TopSatRestart ==
    /\ pc = "top" /\ f.cost < solutionCost /\ minW # 1
    /\ Sat(f, assum)
    /\ NextStratum(Top(f.map) + 1)
    /\ UNCHANGED <<am, pc, then, cardToAdd, litToRelax, lo, bounds, frame>>

TopSat ==
    /\ pc = "top" /\ f.cost < solutionCost /\ minW # 1
    /\ Sat(f, assum)
    /\ NextStratum(minW)
    /\ UNCHANGED <<am, pc, then, cardToAdd, litToRelax, lo, bounds, frame>>

TopUnsat ==
    /\ Goto("top", "core") /\ f.cost < solutionCost
    /\ ~Sat(f, assum)
    /\ UNCHANGED <<f, am, then, search, bounds, frame>>

(***************************************************************************)
(* A core C of the assumptions.                                            *)
(***************************************************************************)
CoreEmpty ==
    /\ pc = "core"
    /\ ~Sat(f, {})
    /\ Return(solutionCost # MaxWeight)
    /\ UNCHANGED <<f, am, then, search, solution, solutionCost, frame>>

\* The least weight w of the core is paid and the core becomes a pending
\* cardinality constraint; spent outputs of older ones wait to be relaxed.
PayCore(C) ==
    LET w == MinPoids(C)
        g == [Reweigh(f, C, w) EXCEPT !.cost = Wrap(@ + w)]
        A == assum \ {l \in C : Poids(g, l) < minW}
    IN  /\ litToRelax' = litToRelax \cup
                            {l \in C : Poids(g, l) = 0 /\ f.card[Var(l)] # NoCard}
        /\ cardToAdd' = Append(cardToAdd, [lits |-> {-l : l \in C}, w |-> w])
        /\ f' = g
        /\ assum' = A

Core ==
    /\ Goto("core", "coreEnd")
    /\ \E C \in (SUBSET assum) \ {{}} : ~Sat(f, C) /\ PayCore(C)
    /\ UNCHANGED <<am, then, minW, lo, bounds, frame>>

\* The bounds have met, or the heaviest key may be too heavy, or neither.
CoreBoundsMeet ==
    /\ pc = "coreEnd" /\ f.cost = solutionCost
    /\ Return(TRUE)
    /\ UNCHANGED <<f, am, then, search, solution, solutionCost, frame>>

AfterCore == IF opt.delay THEN "limited" ELSE "tail"

CoreHarden ==
    /\ Goto("coreEnd", "harden") /\ f.cost # solutionCost
    /\ Top(f.map) >= MaxCostLit
    /\ then' = AfterCore
    /\ UNCHANGED <<f, am, search, bounds, frame>>

CoreEnd ==
    /\ Goto("coreEnd", AfterCore) /\ f.cost # solutionCost
    /\ Top(f.map) < MaxCostLit
    /\ UNCHANGED <<f, am, then, search, bounds, frame>>

(***************************************************************************)
(* The limited solve of the delay strategy.                                *)
(***************************************************************************)
LimitedUnsat ==
    /\ Goto("limited", "core")
    /\ ~Sat(f, assum)
    /\ UNCHANGED <<f, am, then, search, bounds, frame>>

LimitedSat ==
    /\ Goto("limited", "sat")
    /\ Sat(f, assum)
    /\ UNCHANGED <<f, am, then, search, bounds, frame>>

LimitedTimeout ==
    /\ Goto("limited", "tail")
    /\ Cardinality(DOMAIN f.map) <= 1
    /\ minW' = 1 /\ assum' = InitAssum(f, 1)
    /\ UNCHANGED <<f, am, then, cardToAdd, litToRelax, lo, bounds, frame>>

(***************************************************************************)
(* A SAT answer to it.                                                     *)
(***************************************************************************)
\* The literals that just became soft, if heavy enough, join the assumptions.
Join(g) == assum \cup {l \in SoftLits(g) \ SoftLits(f) : Poids(g, l) >= minW}

\* Faulty variant: the list of literals to relax is not cleared.
SatRelaxKeeps ==
    /\ pc = "sat"
    /\ \E l \in litToRelax : f' = Relax(f, l) /\ assum' = Join(f')
    /\ pc' = "limited"
    /\ UNCHANGED <<am, then, minW, cardToAdd, litToRelax, lo, bounds, frame>>

SatRelax ==
    /\ pc = "sat"
    /\ \E l \in litToRelax :
         /\ f' = Relax(f, l)
         /\ assum' = Join(f')
         /\ litToRelax' = litToRelax \ {l}
    /\ pc' = IF litToRelax' = {} THEN "limited" ELSE "sat"
    /\ UNCHANGED <<am, then, minW, cardToAdd, lo, bounds, frame>>

IsInput(l) == Var(l) <= Len(orig.poids)

\* The soft literals the optimizer knows that hold at p.
Held(p) == {l \in SoftLits(lo) : p \in True(f, l)}

\* An assignment at the point p makes the literals K of Held(p) true: an
\* input literal is what it is, a defined one may be false without need.
\* The optimizer starts from a model m of the assumptions and only moves to
\* assignments that keep what holds.
Reaches(m, p, K) ==
    /\ {l \in Held(p) : IsInput(l)} \subseteq K
    /\ {l \in Held(m) : IsInput(l) \/ l \in assum} \subseteq K

CalculateCostAssign(K) == lo.cost + Charges(lo.poids, SoftLits(lo) \ K)

SatOptimize ==
    /\ pc = "sat" /\ litToRelax = {} /\ opt.ub
    /\ \E m \in Models(f, assum), p \in f.live : \E K \in SUBSET Held(p) :
         /\ Reaches(m, p, K)
         /\ IF CalculateCostAssign(K) < solutionCost
            THEN /\ solution' = p
                 /\ solutionCost' = CalculateCostAssign(K)
                 /\ pc' = "harden" /\ then' = "tail"
            ELSE pc' = "tail" /\ UNCHANGED <<then, solution, solutionCost>>
    /\ UNCHANGED <<f, am, search, ret, frame>>

SatSkip ==
    /\ Goto("sat", "tail") /\ litToRelax = {} /\ ~opt.ub
    /\ UNCHANGED <<f, am, then, search, bounds, frame>>

(***************************************************************************)
(* The end of an iteration: delayed outputs, then delayed constraints.     *)
(***************************************************************************)
TailRelax ==
    /\ pc = "tail"
    /\ \E l \in litToRelax :
         /\ f' = Relax(f, l)
         /\ assum' = Join(f')
         /\ litToRelax' = litToRelax \ {l}
    /\ UNCHANGED <<am, pc, then, minW, cardToAdd, lo, bounds, frame>>

TailCard ==
    /\ pc = "tail" /\ litToRelax = {} /\ cardToAdd # <<>>
    /\ f' = AddCard(f, Head(cardToAdd).lits, Head(cardToAdd).w)
    /\ assum' = Join(f')
    /\ cardToAdd' = Tail(cardToAdd)
    /\ UNCHANGED <<am, pc, then, minW, litToRelax, lo, bounds, frame>>

TailDone ==
    /\ Goto("tail", "top") /\ litToRelax = {} /\ cardToAdd = <<>>
    /\ UNCHANGED <<f, am, then, search, bounds, frame>>

(***************************************************************************)
(* Between two calls the user may add a hard clause, or a soft unit clause *)
(* (only in incremental mode once a solution is known; addClause exits     *)
(* otherwise).                                                             *)
(***************************************************************************)
AgainAdd ==
    /\ Goto("done", "ready") /\ calls < opt.calls
    /\ opt.incremental \/ solutionCost = MaxWeight
    /\ \E e \in Extra :
         f' = AddWeight(f, e.lit, e.w) /\ orig' = AddWeight(orig, e.lit, e.w)
    /\ UNCHANGED <<am, then, search, bounds, opt, calls>>

AgainHard ==
    /\ Goto("done", "ready") /\ calls < opt.calls
    /\ \E C \in ExtraHard : f' = AddHardClause(f, C) /\ orig' = AddHardClause(orig, C)
    /\ UNCHANGED <<am, then, search, bounds, opt, calls>>

Again ==
    /\ Goto("done", "ready") /\ calls < opt.calls
    /\ UNCHANGED <<f, am, then, search, bounds, frame>>

Finished ==
    /\ pc = "done" /\ calls = opt.calls
    /\ UNCHANGED vars

Next ==
    \/ Solve \/ LeftoverRelax \/ LeftoverCard \/ StartAM1 \/ AmStep
    \/ SolveHard \/ HardenFirst \/ HardenNothing \/ HardenSome \/ VeryFastDone \/ FirstStratum
    \/ BoundsMeet \/ TopSatLast \/ TopSat \/ TopUnsat
    \/ CoreEmpty \/ Core \/ CoreBoundsMeet \/ CoreHarden \/ CoreEnd
    \/ LimitedUnsat \/ LimitedSat \/ LimitedTimeout
    \/ SatRelax \/ SatOptimize \/ SatSkip
    \/ TailRelax \/ TailCard \/ TailDone
    \/ AgainAdd \/ AgainHard \/ Again \/ Finished

Spec == Init /\ [][Next]_vars

\* solve() runs until it returns.
FairSpec == Spec /\ WF_vars(Next)

-----------------------------------------------------------------------------
(***************************************************************************)
(* Properties.                                                             *)
(***************************************************************************)

Pcs == {"ready", "leftover", "am1", "harden", "veryFast", "choose", "top", "core",
        "coreEnd", "limited", "sat", "tail", "done"}

\* The shape of the state; the locals of the rewriting are those of AtMostOne.
TypeOK ==
    /\ FormulaOK(f)
    /\ orig.live \in SUBSET Points
    /\ opt.delay \in BOOLEAN /\ opt.ub \in BOOLEAN /\ opt.incremental \in BOOLEAN
    /\ calls \in 0..opt.calls
    /\ pc \in Pcs /\ then \in {"none", "choose", "limited", "tail"}
    /\ assum \subseteq Lits(f)
    /\ minW \in Nat \ {0}
    /\ litToRelax \subseteq Lits(f)
    /\ solution \in Points
    /\ solutionCost \in 0..MaxWeight
    /\ ret \in BOOLEAN

\* The user's objective at an assignment.
GoalCost(p) == CostOf(orig, p)

\* No rewriting is under way.
Settled == am.pc = "idle"

\* Every rewriting of the formula (cores paid and turned into cardinality
\* constraints, outputs relaxed late, cliques merged, impossible literals
\* refuted) keeps the user's objective: at every assignment still live, the
\* bound already paid plus the weight of the falsified soft literals plus what
\* outputs and constraints not yet created will charge is the user's cost.
ObjectivePreserved ==
    Settled => \A p \in f.live : GoalCost(p) = f.cost + Residual(f, cardToAdd, p)

\* harden() and the refutations only cut away assignments that do not beat
\* the solution at hand.  What the upper bounds of one call let harden() cut
\* stays cut in the next, except in incremental mode, where it does nothing.
CutNotBetter ==
    calls <= 1 \/ ~opt.ub \/ opt.incremental =>
        \A p \in orig.live \ f.live : GoalCost(p) >= solutionCost

\* What solve() returns: with true, an assignment that satisfies the hard
\* clauses, costs what getCost() says, and is optimal; with false, that the
\* hard clauses have no solution.  So it is on the first call, and without
\* upper bounds (whose prices and hardening do not survive a call) on every
\* later one, whatever was left pending or added in between.
OptimalOnReturn ==
    pc = "done" /\ (calls = 1 \/ ~opt.ub) =>
        IF ret THEN /\ solution \in orig.live
                    /\ GoalCost(solution) = solutionCost
                    /\ \A p \in orig.live : GoalCost(p) >= solutionCost
        ELSE orig.live = {}

\* The half of it that README.md relies on when it prints
\* "s UNSATISFIABLE" because solve() returned false.
FalseMeansUnsat ==
    pc = "done" /\ ~ret => orig.live = {}

\* assert(monMaxSat->getCost() == calculateCost(file, solution)) of main.cpp:
\* getCost() is the cost of the solution returned with it.
CostIsOfSolution ==
    pc = "done" /\ ret => GoalCost(solution) = solutionCost

\* assert( assum == initAssum(minWeightToConsider) ): the assumptions, kept
\* up to date piecemeal by every branch, are those of the stratum whenever
\* the SAT solver is called.
AssumInSync ==
    pc \in {"top", "core", "limited", "sat"} => assum = InitAssum(f, minW)

\* _mapWeight2Assum and _poids agree at every step (the asserts that guard
\* each erase), and a literal waiting to be relaxed is an output whose weight
\* is spent.
IndexConsistent ==
    /\ IndexOK(f)
    /\ \A l \in litToRelax : Poids(f, l) = 0 /\ f.card[Var(l)] # NoCard

\* Within a call the lower bound never falls, the upper bound never rises,
\* a cut assignment never comes back and the stratum only gets lighter.
Monotone ==
    [][calls' = calls /\ pc # "ready" /\ pc # "done" =>
         /\ f'.cost >= f.cost
         /\ solutionCost' <= solutionCost
         /\ f'.live \subseteq f.live
         /\ pc = "top" => minW' <= minW]_vars

\* Every call returns: cores, relaxations and strata run out.
Termination == <>(pc = "done" /\ calls = opt.calls)

\* One call implements the search between two bounds of MaxSATBounds.
Search ==
    INSTANCE MaxSATBounds WITH
        Assignments <- Points,
        Infinity <- MaxWeight,
        feas     <- orig.live,
        price    <- [p \in Points |-> GoalCost(p)],
        live     <- f.live,
        lb       <- f.cost,
        ub       <- solutionCost,
        best     <- solution,
        verdict  <- IF pc # "done" THEN "none" ELSE IF ret THEN "optimum" ELSE "unsat"

ImplementsSearch == Search!BoundSpec
=============================================================================
