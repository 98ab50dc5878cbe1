# EvalMaxSAT in TLA+

This directory holds TLA+ models of [EvalMaxSAT](../src/README.md), a core-guided
MaxSAT solver, TLC configurations that check them on small instances, and proofs
checked by TLAPS. Line numbers refer to `src/lib/EvalMaxSAT/src/EvalMaxSAT.h`
unless another file is named. `PROJECT.json` lists the runs, the source lines each
definition models, the faulty variants each property was tried against, the
findings, and the hazards.

## The system

| component | state | operations | interaction |
|---|---|---|---|
| formula (`EvalMaxSAT` fields, `WeightVector`) | `_poids`, `_mapWeight2Assum`, `_mapAssum2Card`, `cost` | `newVar`, `newSoftVar`, `addClause`, `addWeight`, `relax`, `harden`, `initAssum`, `chooseNextMinWeight` | rewritten by everything below; hard clauses go to the SAT solver |
| `solve()` | `_cardToAdd`, `_litToRelax`, `assum`, `minWeightToConsider`, `solution`, `solutionCost` | stratified search: full solve, cores, limited solve, delayed relaxation and constraints, hardening | calls the SAT solver, the rewritings, the optimizer, the totalizer |
| at-most-one rewriting | locals of `adapt_am1_*`, `processAtMostOne` | merges pairwise incompatible soft literals | before the loop, and again after every `harden()` that did something |
| local optimizer (`LocalOptimizer2`) | snapshot of weights and cost | `optimize` | gives `solve()` its upper bounds |
| lazy totalizer (`CardIncremental_Lazy`, `LazyVariable`) | tree of lazy variables | constructor, `atMost` (`increase`, `get`) | one per core; creates solver variables and clauses on demand |
| core extraction (`oneMinimize`, multi-solve loop) | `conflict`, the best score, round counters | repeated limited and timed solves | between UNSAT and the payment of a core |
| clique graph (`adapt_am1_exact`) | `assumption`, `conn`, `active` | link, refute, replace a clique | feeds the clique search, calls `processAtMostOne` |
| clique search (`mcqd.h`) | `Q`, `QMAX`, colours, step count | `mcqdyn` | called for every clique |
| SAT solver interface (`Solver_cadical`, CaDiCaL's API) | API state, assumptions, limits, failed assumptions | `solve`, `solveLimited`, `solveWithTimeout`, `getConflict`, `propagate`, `addClause` | each call starts where the last one left the solver |
| parser, `calculateCost` (`utile.h`) | `weightForHardClause`, `softClauses` | read a WCNF file, twice | builds the formula; prices the answer |
| command line, signal handler (`main.cpp`) | `cur_file`, `monMaxSat` | `solveFile`, `main`, `signalHandler` | one call of `solve()`; the handler runs between any two instructions |
| MaLib, CLI11, Glucose, the search of CaDiCaL | - | time, random numbers, options, CDCL | - |

The program has one thread and a signal handler. What makes it hard is the number of
things that are only *eventually* consistent: a core is paid at once, but its
cardinality constraint is created later, the output after a spent one is created
later still, and in between at-most-one rewriting and hardening change the weights
and the clauses. `_mapWeight2Assum` and `assum` are copies of `_poids` kept by hand.
`solve()` may return in the middle of this and be called again. The SAT solver may
return any model, any core, and give up on a limit, and it keeps assumptions, limits
and failed literals from one call to the next. The handler prints what it finds
wherever it falls.

What makes each component correct:

* formula: after any calls it costs what the user asked for; both indexes agree;
* `solve()`: `true` comes with an optimal assignment and its cost, `false` means that
  the hard clauses have no solution; every call returns; on the way the objective is
  preserved, only assignments no better than the known solution are cut away, and the
  assumptions are those of the stratum;
* core extraction: what `solve()` pays for is a set of assumptions that cannot all
  hold, whatever calls were given up; the loops end;
* optimizer: its solution is a model, no worse than the one it got, and priced right;
* clique graph and search: edges join soft literals that exclude each other, the search
  returns a clique, and a largest one unless it ran out of steps;
* SAT solver interface: an answer is about the assumptions of its own call;
* parser and `calculateCost`: the formula costs what the file says, and so does the
  second reading of the file;
* command line: exit status and printed lines are true of the file, wherever a signal
  falls;
* totalizer: an output is forced exactly when more than *k* inputs are true, in
  whatever order the outputs are asked for.

## The modules

| module | models | properties |
|---|---|---|
| `Formula` | the formula as a record `f`, and each member function that changes it as an operator `f -> f` | `IndexOK`, `FormulaOK` (used by the other modules) |
| `FormulaApi`, `MCFormulaApi` | the public interface as actions, with the user's objective as history | `MeansWhatWasAsked`, `ApiIndexOK`, `ZeroKeyIsAsked`, `NegativeWeightIsOffset` |
| `AtMostOne` | the three drivers and `processAtMostOne`, one action per branch | those of `EvalMaxSAT`, which extends it |
| `EvalMaxSAT`, `MCEvalMaxSAT` | `solve()`, one action per branch, and further calls | `TypeOK`, `ObjectivePreserved`, `CutNotBetter`, `OptimalOnReturn`, `FalseMeansUnsat`, `CostIsOfSolution`, `AssumInSync`, `IndexConsistent`, `Monotone`, `Termination`, `ImplementsSearch` |
| `MaxSATBounds`, `MCMaxSATBounds` | the abstract specification: a search between a lower and an upper bound | `Answer`, `BoundInv` |
| `Formula_proofs` | lemmas on each operator of `Formula`: what it keeps, and what it does to the cost of an assignment | |
| `FormulaApi_proofs` | proofs about the public interface | |
| `EvalMaxSAT_proofs` | proofs about `solve()` and the rewriting | |
| `ExactGraph_proofs` | proofs about `adapt_am1_exact` and the clique search | |
| `SolverCalls_proofs` | proofs about the users of the SAT solver | |
| `Totalizer_proofs` | proofs about the lazy totalizer | |
| `Main_proofs` | proofs about `MaxSATBounds`, and about the parser, `calculateCost` and the program | |
| `SumTheorems` | the laws of `SumFunctionOnSet`, for any finite set | |
| `SatSolver` | CaDiCaL's state between calls, and `Solver_cadical`'s calls, as operators: state to set of states | |
| `SatClient` | any sequence of those calls, by `solve()` and the rewritings | `AnswerOfCall`, `RetryOnce`, `UnlimitedAnswers` |
| `CoreMinimize` | `getConflict`, the multi-solve loop and `oneMinimize`, on the solver of `SatClient` | `CoreSound`, `MinimalIfAnswered`, `ScoreIsOfCore`, `CoreFound` |
| `LocalOptimizer` | `optimize`, on the same solver | `NeverWorse`, `MaximalIfAnswered` |
| `SolverCalls`, `MCSolverCalls` | the three above, taking turns on one solver | `TypeOK`, and all of the above |
| `MaxClique` | `mcqdyn`, its recursion as a stack of frames | `AlwaysClique`, `MaximumIfFinished`, `MemorySafe` |
| `ExactGraph`, `MCExactGraph` | the data of `adapt_am1_exact` and `processAtMostOne`, with `MaxClique` searching the matrix they keep | `EdgesAreConflicts`, `PlacesSuffice`, `ExactEnds` |
| `Wcnf` | files as sequences of lines, `calculateCost`, and what a file means | |
| `Parser` | `parse`, one action per line and per soft clause | `FormulaIsFile`, `SolutionFits` |
| `Main`, `MCMain` | `main`, `solveFile`, `signalHandler`, with `Parser` | `SignalIsTruthful`, `OptimumIsOptimal`, `UnsatIsUnsat`, `CostIsOfSolution`, `UnknownOnlyWhileStoring`, `Ends` |
| `Totalizer` | the lazy totalizer, clause by clause | `TypeOK`, `OutputsExact`, `ImpliquantsInSolver` |

### State and code

`Formula` keeps what the SAT solver holds by its meaning: `Points` are the assignments
of the input variables, `live` the ones that satisfy every clause added so far,
`truth[v]` the points at which a variable holds. A variable introduced by a definition
(the soft variable of a clause, an output of a totalizer) is only implied in one
direction by its clauses; `truth` is its tightest reading, the one in which a soft
literal is falsified only when it must be. That reading is what assumptions test; where
the code sees an actual model (`LocalOptimizer2`), an assignment may also falsify such
a literal without need, and `Reaches` allows it. That the totalizer's clauses have this
meaning is what module `Totalizer` checks.

The SAT solver is an oracle: `Sat(f, A)` and `Models(f, A)`. `Core` takes any
unsatisfiable subset of the assumptions, which covers `getConflict`, the repeated
solves and `oneMinimize`; propagation (`Incompatible`, `Excludes`) and the clique
search may miss anything but never report what is not so; a limited solve may time out
(`LimitedTimeout`) where the code calls `solveWithTimeout`. Loops over sets of literals
(`_litToRelax`, the spent literals of a clique) take the literals in any order.

Unsigned arithmetic that can leave its range is taken modulo `MaxWeight + 1`
(`Wrap`): `cost`, and `solutionCost - cost` in `harden` and `solve`. Decrementing
`begin()` in `chooseNextMinWeight` (1245) is undefined; `ChooseNextMinWeight` is a set
of outcomes, one for each value the tree can yield there.

`solve()` is modelled at two levels of detail. `EvalMaxSAT` takes a core, an optimized
solution and a clique in one step each; `CoreMinimize`, `LocalOptimizer`, `ExactGraph`
and `MaxClique` are those steps in full, the first two composed over the solver they
share, the last two over the matrix, and their properties are what the steps of
`EvalMaxSAT` and `AtMostOne` assume: a core is an unsatisfiable subset of the assumptions
(`CoreSound`), the optimizer keeps the satisfied literals and returns a model
(`NeverWorse`), a clique consists of soft literals that exclude each other
(`EdgesAreConflicts`, `AlwaysClique`). `Main` takes `solve()` for what
`MaxSATBounds` promises, and cuts it only where the handler can see the difference: at
611, 612 and inside the assignment at 613, during which the vector may hold anything.

`SatSolver` is a record: API state, assumptions, conflict and time limit of the next
call, failed assumptions, model. A model is the set of assumable literals it makes
true, and `Outcomes` are the answers a correct search may give; a search may give up
only where a limit is set. The state machine around it (`transition_to_unknown_state`,
`reset_assumptions`, `reset_limits`, the assumptions dropped at `solver.cpp:633`) is
CaDiCaL's, because the wrapper relies on it: `solve` and `solveLimited` add to the
assumptions without clearing them.

In `Wcnf` a line is a record and a clause of a file has no repeated literal. `Wrap` models
the digits of `parseWeight` running over 64 bits and `LongLong` the conversion of a weight
to the `long long` of `addClause`. `Holds`, `Allowed` and `Price` are the meaning of a
file, to which both the parser and `calculateCost` are compared. `Main` keeps the last
line printed of each kind. It follows the Release build, the default of `CMakeLists.txt`,
in which asserts are compiled out; its properties state them.

The early returns at 400 and 417 need `cost >= solutionCost` while no solution is
known, i.e. a cost of `2^64-1`; they are covered by `BoundsMeet`, which the same
state meets next.

## The runs

| run | instance | result |
|---|---|---|
| `Bounds` | 3 assignments, prices 0..2 | `Answer` and the inductive invariant hold |
| `Totalizer` | up to 7 inputs, constructor bound 1, any order of `atMost(k)` | outputs exact, every impliquant in the solver |
| `Solve` | one call on 18 formulas of 4 variables, unweighted and weighted (strata, mixed polarities, hardening), and two incremental calls on 3 more with hard and soft clauses added in between; all settings of delay and upper-bound strategy | optimum returned (by a second call: without the upper-bound strategy), objective preserved, the invariants and `Monotone` |
| `SolveLive` | 3 variables, 10 formulas, with fairness | every call returns; refinement of `MaxSATBounds` |
| `SessionUB` | two incremental calls with the upper-bound strategy | **violation** of `CostIsOfSolution` |
| `SessionHard` | two calls without incremental mode | **violation** of `FalseMeansUnsat` |
| `Api` | 2 variables, 3 calls of `addClause` and `addWeight`, the latter also before the variables exist; weights -2, 0, 1, 2, for `newSoftVar` -2, 0, 1 | formula means what was asked, index exact, under the key 0 only what was given weight 0 |
| `ApiNegative` | the same with clauses of several literals and negative weight | **violation** of `NegativeWeightIsOffset` |
| `SolverCalls` | 4 assumable literals, 18 problems (cores disjoint and overlapping, two weightings, ties between literals), 2 clauses added, budget 0, times -1 and 0; 1 to 2 rounds, factor 2, small core 2; with fairness | an answer is about its own call; at most one retry; the core is sound, minimal if answered, best scored, and found; the optimizer's model is never worse, and maximal if answered |
| `SatFirstCall` | the same | **violation** of `UnlimitedAnswers` |
| `ExactGraph` | 4 or 5 soft variables, 10 formulas, every subset of their conflicts linked, at most 1 or 100 steps of the search; with fairness | edges sound, places suffice, cliques right, no uninitialized read, rewriting ends |
| `Main` | files of up to 3 of 5 lines and of up to 2 of 12, over 3 variables, with and without `--bench`, up to 2 signals; with fairness | formula and second reading agree with the file; what is printed is true; the program ends |

Bounds. `MaxWeight = 63` is above every sum of weights that occurs, as `2^64-1` is in
practice, and small enough that wrapping would be seen. Four variables are the least
with which a core of three literals overlaps a second one, a cardinality constraint
needs a second relaxation (`atMost(2)`), and a clique of three is merged while another
literal stays; three suffice for two strata, hardening and a second call. The instances
were chosen so that every action fires in some passing run. Two calls per session are the least
with a later call; a third starts from the same kinds of state.

The multi-solve loop's numbers (20, 1000, 3, and cores of more than 3) are constants of
`CoreMinimize`, scaled down together: the loop is entered, extended by an improvement,
and ended by each of its exits. Budgets and times matter by their sign only (negative is
no limit), so one of each sign is enough. Since any part of the conflicts may be linked,
four literals that exclude each other give the clique search every graph of four
vertices; the formula of five is two triangles that share a heavier literal, of which the
second is only found when the first has been replaced. A file of three lines can name a
variable after a soft clause that was kept back. Two signals are as many as can nest,
since each kind is blocked while its own handler runs.

Fairness. `FairSpec` asks for weak fairness of the whole next-state relation: one thread
executes `solve()`, and the SAT solver answers every unlimited call. `Again`, `AgainAdd`
and `AgainHard` stand for the user's next call; `Termination` holds for one. `ExactGraph`
and, in `SolverCalls`, a component that has begun are loops of the same thread and get the
same fairness: nothing in them may be left out but by a choice the clock or the solver
makes. Which call comes next when none is under way is free. `Main` has weak fairness of
the program's own steps only: no signal need come.

## Findings

1. *Second incremental call with upper bounds* (438, 612). The optimizer prices an
   assignment with the weights at the start of the call; outputs of older constraints
   that do not exist yet are not among them, so the price is too low, `solutionCost`
   takes it, and `getCost()` is not the cost of the solution (`assert` in
   `main.cpp:91`). Confirmed by running the class itself.
2. *Second call without incremental mode* (494, 541). Clauses added by `harden()` stay,
   the solution they rest on is forgotten, and `solve()` may return `false` for a
   satisfiable formula. Confirmed by running the class itself.
3. *Negative weight on a clause of several literals* (308-316). The soft variable
   implies every literal instead of none, so the objective changes by more than a
   constant; the comment at 110 says otherwise.
4. *First call of CaDiCaL* (`limit.cpp:28`). The field added for time limits starts as
   0 seconds, not as none, so the first unlimited `solve` may return no answer. This is
   the "Bug? Can happen sometimes..." of `cadicalinterface.h:97`; the recursion written
   around it ends at the second call (`RetryOnce`). Confirmed by running CaDiCaL.

What the guards of passing properties leave out, and the code does there:

* Weight 0. `newSoftVar(value, 0)` (264), and `addWeight(lit, 0)` on a literal without weight
  (1159; the assert at 1147 calls it "Not an error" and is not compiled), put a literal under
  the key 0 of `_mapWeight2Assum`, which 845 asserts never exists. The literal stays there when
  it gets a weight afterwards. `FormulaApi` makes these calls; `ZeroKeyIsAsked` says that
  nothing else leads to the key 0, and the costs are right with it. `solve()` is modelled for
  formulas without that key (`UserFormula`), as the parser builds them: it calls `addClause`
  only, which ignores weight 0 (290).
* A soft weight of 2^63 or more becomes negative (`utile.h:285`, `LongLong`), and sums of
  weights beyond 2^64 wrap; the files of `Main` stay below both.
* Signals. `SignalIsTruthful` begins where `cur_file` is set: between `main.cpp:145` and 73
  the handler prices the file named `""` and prints `o 0`, `s SATISFIABLE`. While the
  optimum is printed it adds a second, true, answer and exits with 10 instead of 30.
  Between the announcement of the first solution (611) and the end of its assignment (613)
  it may print `s UNKNOWN`; `UnknownOnlyWhileStoring` says that it does so nowhere else.
  A half-assigned vector does no harm, since it is priced against the file before it is
  printed.
* `UnsatIsUnsat` is about files that can be read: others are reported as unsatisfiable
  with exit status 20 (`main.cpp:78`).
* With `--bench`, `calculateCost` is given an empty vector for an unsatisfiable file
  (`main.cpp:162`).

## What is proved

`Main_proofs`, its first part: for every set of assignments, every price function and every
number of steps, `BoundSpec => []BoundInv` and `BoundSpec => []Answer`. `Answer` alone
is not inductive: it says nothing before the verdict. `BoundInv` adds that live
assignments cost at least the lower bound, that assignments cut away cost at least the
upper bound, and that a finite upper bound is attained or overestimates the best
assignment. The step that needs all three is `FinishSat`: its guard `lb < ub` is
essential, since otherwise a better assignment could have been cut away. The only
assumption is that `Infinity` is a positive number.

That the branches of `solve()` are such a search is `ImplementsSearch` below; that the
program around it passes its answer on is the rest of the module.

`Main_proofs`, its second and third part: the seven invariants of the run `Main`
(`FormulaIsFile`, `SolutionFits`, `CostIsOfSolution`, `OptimumIsOptimal`, `UnsatIsUnsat`,
`SignalIsTruthful`, `UnknownOnlyWhileStoring`), for files of any length over any number of
variables and any number of signals at any steps. The inductive invariant `MainInv` has
five parts besides `ParserInv`, the invariant of `parse`:

* `ParserInv`: while the file is read, the formula is `Blank` (no weights, the variables are
  the file's), allows what the hard clauses read so far allow, and the soft clauses kept back
  charge what the soft lines read so far charge, whichever literals are false (`ReadOK`).
  While soft clauses are added, what the formula charges and what is still kept back
  together make the price of the file (`SoftOK`), and the sum over all literals at once
  leaves no room for a wrap. That the kept clauses only name the first `nInputVars`
  variables is why the soft variables made meanwhile change nothing they say;
* `StageInv`: which file the handler would read, and what `parse` has finished, at each stage;
* `SolveInv`: outside the lines that store a solution, the one at hand is a model of the formula
  cut to `nInputVars`, and `solutionCost` its cost; while one is stored, that holds of
  `pending`, and nothing is known of `solution`;
* `ReportInv`, `HandlerInv`: the lines printed so far belong to one solution. The handler's is
  one that `calculateCost` accepted, so nothing needs to be known of the vector it found;
* `CodeInv`: an exit status is only reached from the stage it stands for.

`CostFacts` and `CostVec` say what `calculateCost` computes for any file and any vector: the
price if the file allows the assignment, and the vector extended to every variable it looked
at. It stops at the first true literal of a clause, so variables may stay beyond the vector;
`HandlerFacts` shows that they do not matter. The assumptions are that the soft weights
of a file sum to less than 2^63 (`FilesAssumption`; the code does not check it and the rules of
the MaxSAT evaluations ask for it) and that `Points` are all assignments of some variables
(`AllPointsAssumption`). In `Main`, `solve()` is what `Answer` and `OptimalOnReturn` say of it.

`FormulaApi_proofs`: for every number of variables, every set of assignments and all
weights, 0 included, `Spec => []ApiIndexOK` and `Spec => []ZeroKeyIsAsked`. The lemmas of
`Formula_proofs` are about an index without the key 0, which is what `solve()` needs. They
are used through `Proper`, the formula with the key 0 left out of its index: each operation
on `f` is shown to be the same operation on `Proper` and to leave the key 0 alone
(`Follows`), except that `newSoftVar` of weight 0 is `newVar` there, and `addWeight` of 0 on a
literal without weight is nothing; these two put their literal under the key 0. `ApiIndexOK` alone is not
inductive: a hard unit or an `addWeight` that cancels a weight calls `relax`, so the invariant
`ApiInv` adds the shape of the record and that no variable is an output yet. The variables
`addWeight` makes are dealt with once, by a set closed under `newVar` (`NewVarsClosed`); the
parser's `readClause` uses the same lemma.

In the same module, `Spec => []MeansWhatWasAsked`, when no clause of several
literals is given a negative weight (the run `ApiNegative` shows why). `AskInv` states the
user's account as an equation at every feasible assignment, counts what all literals
together could charge (`Total(Proper, <<>>, Int)`) and says that the calls still to come leave
room for it; the last part is what keeps `cost` from wrapping. It rests on
`ApiWeightsAssumption`: the greatest weight, times the number of calls, is less than the
greatest `t_weight`. A soft clause, a unit, a negative weight and a weight that cancels another
are each shown to charge the formula by the same `Fee` as the user's account (`Accounts`).
All rest on the lemmas about `Plain` formulas in `Formula_proofs`, which `Main_proofs` uses too:
what `parse` calls is the same interface.

`EvalMaxSAT_proofs`: `Spec => []IndexConsistent` and `Spec => []AssumInSync`, for any
formulas, weights, settings, number of calls and clauses added between them, and any
answers of the SAT solver, of propagation and of the clique search. The assumptions are
on the constants: a formula handed to `solve()` is one the interface builds
(`UserFormula`: no cardinality constraints yet, weights of `t_weight`, index and weights
agree, no key 0; `FormulaApi_proofs` shows the agreement, and that a key 0 is the
caller's), and what is added later is about its variables, at weights other than 0. TLC
evaluates both on every run. Neither property is inductive. The invariant `SearchInv`
has four parts:

* `FormulaInv`: the formula is `Sound` (shape, `CardOK`, `IndexOK`), and the variables
  of the user are no outputs, so that a soft unit added later meets no constraint;
* `ListInv`: a literal of `_litToRelax` is a *spent* output (negative, weight 0, known
  to `_mapAssum2Card`);
* `AmInv`: the rewriting works on soft literals. The literals `adapt_am1_exact` still
  has to probe, those it has probed, the clause under way and the soft variables made
  from it are pairwise disjoint; that is why taking weight from one group leaves the
  others soft. An output the rewriting is about to relax is not in `_litToRelax`, since
  it was soft a step before: no output is relaxed twice;
* `SyncInv`: in the loop, and in `harden()` and the rewriting it calls, the assumptions
  are the literals at least as heavy as the stratum, until the rewriting reports a
  change (`found`), after which `VeryFastDone` recomputes them. `VeryFastOK` says that no
  change goes unreported.

Every step is brought to the form `Keeps(f, f', gone)`: soundness is kept, and only the
literals `gone` lose weight or their output. The proof of a step then is that nothing
that waits elsewhere is among `gone`.

In the same module, `Spec => []ObjectivePreserved`, the claim every other one about
`solve()` rests on: whatever is paid, relaxed, merged, refuted or hardened, in any number of
calls, an assignment that has not been cut off costs what it costs in the user's formula.
The property counts what is still owed by soft literals, by outputs not created yet and by
pending constraints, and holds only when no rewriting is under way. The inductive invariant
`CostInv` has four parts besides `SearchInv`:

* `PayInv`: the same equation at every step. `processAtMostOne` takes weight from a clique
  before it gives it back as one soft clause and a payment; in between, that share is owed
  too (`OwesIn`). The formula is `Good`: outputs of a constraint are made in order, each one
  is true exactly when more of its literals hold than its bound allows, and the last one made is
  still soft or waits in `_litToRelax`, or is false at every live assignment, or nothing is
  left to count (`Ended`). Without that, an output never created would be a cost never
  charged;
* `UserInv`: the user's formula, kept as history, has the truths of `f` and is satisfied
  wherever `f` is;
* `RoomInv`: nothing overflows. `_poids` and the cost are summed over *all* literals at once
  (`Total(f, q, Int)`), a bound on every payment the search can still make, and no step
  raises it;
* `Merges`: what is being merged excludes each other pairwise at the live assignments, so
  that all but one of its literals are false.

On it rest the theorems about what `solve()` is for, under the same assumptions:

* `Spec => []OptimalOnReturn` and `Spec => []CutNotBetter`. `FlowInv` says where `solve()` can
  be with something pending: no constraint exists before the loop of a first call, and none is
  pending where the strata are chosen. `OptInv` has five parts. `UpperInv`: the upper bound
  stays in the range of `t_weight`, and without upper bounds it is the greatest value, "no
  solution", until the call returns. `CutInv`: without upper bounds, or in incremental mode,
  nothing the user allows is ever cut off, and on a first call only what does not beat the
  solution at hand (the unsigned `solutionCost - cost` of `harden()` does not wrap while
  an assignment is left that could beat it). `SolInv`: the solution at hand is feasible
  and costs no more than the upper bound. `LoInv`: the weights the optimizer copied before
  the loop still give the user's cost at every assignment left, although the formula has
  been rewritten since.
  `OptimalOnReturn` itself closes the list, because a later call starts from what the
  previous one left;
* `Spec => Monotone`, an action property, and `Spec => []TypeOK`;
* `Spec => ImplementsSearch` when every option set makes one call: each step of `solve()`
  is a step of `MaxSATBounds` or invisible to it. Rewritings (a core, a relaxation, a new
  constraint, a merged clique) are `Raise`, where the price of a live assignment is kept by
  `CostInv`; `harden()` is `Cut`; the optimizer is `Improve`; a return because the bounds met
  is `FinishBounds`, with a model of the last stratum `FinishSat`, with the empty core
  `FinishEmpty`. Later calls start a new search on a new formula, which the abstract
  specification has no step for; `OptimalOnReturn` covers them.

The assumptions are on the constants, and TLC evaluates them. `WeightsAssumption`: the
weights of the user's formula, with what is added between calls, sum to less than the
greatest `t_weight`, which the code uses to mean that there is no solution. The code does not
check it; the rules of the MaxSAT evaluations bound the sum to less than 2^63. `OptionsAssumption`
types the options, and `PointsAssumption` says that there is an assignment.

The second half of `Formula_proofs` has what those steps need: the laws of `Charges` (what falsified
literals cost when weights are set, appended, lowered or freed), what a constraint owes
before and after its next output (`OwesNext`), and for each operator of `Formula` that `Total`
is kept at every point left alive (`SameCost`). `CostPay` is the step that pays for a core: since
at least one literal of it is false at every live assignment, the constraint that replaces
it owes exactly what the lighter literals no longer charge, less the weight paid.

`ExactGraph_proofs`: the five invariants of `MaxClique` and `ExactGraph`, for any formula the
interface builds (`ProblemsAssumption`), any number of literals, any answers of propagation
and any bound on the steps of the search. The inductive invariant `ExactInv` has two parts:

* `SearchOK`, about `mcqdyn`. The stack holds one frame more than the clique `Q` has
  vertices, and the frame above the first b vertices consists of common neighbours of
  them. A frame is `Bounds`: a clique among its first r vertices has at most as many
  vertices as the degree (the colour) at r, unless b more do not beat the best one. This
  is where `color_sort` could go wrong: vertices of a low colour get no degree, and the one
  that ends them gets 0; `Marked` says that the loop meets that mark before it could read a
  missing degree. `Coverage` says that every clique is no larger than the best one found, or
  is still ahead: it consists of the first b vertices of `Q` and of vertices the frame above
  has left. When the stack is empty, the best one is therefore a maximum. The colour lemmas
  (`ColorsDefined`, and what follows from it) show that the greedy colouring exists, that
  vertices of one colour are no neighbours, and that k vertices need at most k colours;
* `GraphOK`, about the vector, the matrix and the new literals. Places in use hold different
  soft literals (`VectorOK`); an edge between places in use joins literals that exclude each
  other (`EdgesOK`), which is kept when a row is cleared and its place reused because
  a place is not in use in between; the literals of the clause under reduction and the
  new ones together are never more than the vertices of the clique (`Reducing`, `Placing`),
  so that the vector has a place for each.

`Totalizer_proofs`: the three invariants of the run `Totalizer`, for any number of inputs, any
bound of the constructor and any sequence of `atMost(k)`; the only assumption is that both are
numbers, the bound of inputs positive. The inductive invariant `TotalizerInv` has three parts:

* `SizesOK`: a node has no more outputs than inputs, and its children have all the outputs the
  node's own ones can need. The tree is the order in which the constructor takes pairs off a
  queue; after j pairs the queue is the nodes 2j+1 to n+j, and what they count together stays
  (`QueueSum`), so that the root counts every input once;
* `ImplOK`: the impliquants of output i of a node are exactly the ways to split i + 1 between
  its children. They are the same whether the constructor made them all or `increase` added
  some of them later, in any order of the bounds;
* `VarsOK`: the variables created are closed under their impliquants, and the clauses in the
  solver are exactly the impliquants of those variables.

Where one child can make an output true alone, both together can too, so no output has a
single impliquant of one variable: the branch of `get()` that reuses such a variable is never
taken (`NeverLinked`). That `get()` reaches every variable it needs (`Got`) and that the clauses
force an output exactly when more than k inputs hold (`Forced`) are inductions up the tree,
whose order of nodes makes a least counterexample available.

`SolverCalls_proofs`: the eight invariants of the run `SolverCalls`, for any set of assumable
literals, any clauses and weights, any budgets and rounds and any answers of the search:
`TypeOK`, `AnswerOfCall`, `RetryOnce`, `CoreSound`, `MinimalIfAnswered`, `ScoreIsOfCore`,
`NeverWorse`, `MaximalIfAnswered`. All follow from one inductive invariant `Inv` with a part
for each user of the solver:

* `ClientInv`: what the solver may hold between calls. Assumptions are left only behind a
  call that has been answered, and CaDiCaL drops them at the next one; that is why a call
  that only adds assumptions still asks about its own;
* `CoreInv`: a vector that is called a core is injective and cannot be satisfied. In
  `oneMinimize`, the literals at and after position `i` are needed if every call so far was
  answered; since a core only shrinks, what is needed stays needed (`SatisfiableSubset`).
  The second pass computes the least weight as it goes, so the invariant says that `p` is
  the least weight and that a literal at or after `i` has it;
* `OptimizerInv`: what is assumed satisfied contains the satisfied literals of the model
  the optimizer got, and a literal refused once stays refused because the set only grows.

`SumTheorems` proves the laws of the community modules' `SumFunctionOnSet` (a term more, equal
terms, sums of sums, monotonicity, a constant). The function is a `CHOOSE` of a recursive
function over subsets; that it exists and is unique follows by a least counterexample
(`LeastNat`, `FiniteClosure`), so no induction theorem with an operator parameter is
needed. `NeverWorse` compares two costs with it, and the cost of an assignment is a sum.

`Formula_proofs` is the library behind the proofs about formulas: one lemma for each operator of `Formula` that
says what it keeps. They are stated for formulas in the middle of a search
(`CardOK`: outputs are soft only negatively, and only while `_mapAssum2Card` knows them;
`InputsFree`: the user's variables are no outputs; `Extended`: what `relax` and the
creation of a constraint may do). All proofs about the index go through `IndexedChar`:
a map is the index of `_poids` iff under each key it holds exactly the literals of that
weight.

Checked by TLC only: liveness (`Termination`, `Ends`, `ExactEnds`, `CoreFound`: out of the
prover's reach, since it needs fairness).

## Not modelled

* The search of CaDiCaL, all of Glucose, CLI11 and zlib: third-party code, about nineteen
  twentieths of the lines under `src/`. Of CaDiCaL the state the program's calls depend on
  is modelled (`SatSolver`), and of its search the answer only: whether a CDCL solver
  answers correctly is a question about that solver.
* `glucoseinterface.h`: the program instantiates `Solver_cadical` only.
* MaLib: clocks, random numbers and logging. Decisions that depend on them are free.
* Characters, comments and white space of a file; repeated literals in a clause.
* Options that only set time coefficients or strategies; the strategies are free choices
  in `EvalMaxSAT`, and the coefficients only shift time limits.
* What is not called: `CardIncremental_Lazy::add` and `getClause`, `Maxclique::expand`,
  `Solver_cadical::exportClauses`, `simplify` and two overloads of
  `solve`.
* `adapt_am1_exact`'s limit of 30000 literals (skipping is the behaviour `ExactStop` right
  after probing).
* That the handler uses `std::cout`, allocates and calls `exit()`, which may deadlock on a
  lock of the C or C++ library.

## Plan

Done: the core (`Formula`, `AtMostOne`, `EvalMaxSAT`, `MaxSATBounds`, `Totalizer`,
`FormulaApi`), the steps it abstracts (`CoreMinimize`, `LocalOptimizer`, `ExactGraph`,
`MaxClique`), the SAT solver's interface, the parser and the program around them.

Every invariant and action property that a run checks is also proved. Nothing of the plan is left.
