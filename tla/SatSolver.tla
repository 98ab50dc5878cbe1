----------------------------- MODULE SatSolver -----------------------------
(***************************************************************************)
(* Solver_cadical (cadicalinterface.h) on top of the part of CaDiCaL's     *)
(* interface that keeps state between two calls: the API state, the        *)
(* assumptions, the limits of the next call and the failed assumptions.    *)
(* Search itself is an oracle over the meaning of the clauses.             *)
(*                                                                         *)
(* A model is the set of the literals of Assumable that it makes true;     *)
(* models holds the models of the clauses.  The solver is a record s:      *)
(*                                                                         *)
(*   s.state    API state: "ready" (CONFIGURING or UNKNOWN, between which  *)
(*              nothing here depends), "sat" (SATISFIED), "unsat"          *)
(*   s.assumed  the assumptions                                            *)
(*   s.conflicts, s.timeout   inc.conflicts, inc.timeout_seconds of the    *)
(*              next solve; negative means none                            *)
(*   s.failed   after "unsat", the assumptions failed() is true of         *)
(*   s.model    after "sat", the model; it cannot be read in other states  *)
(***************************************************************************)
EXTENDS Integers, FiniteSets

CONSTANT Assumable   \* the literals that may be assumed

Model == SUBSET Assumable

\* The models of the clauses among them that satisfy A.
ModelsOf(models, A) == {m \in models : A \subseteq m}

Satisfiable(models, A) == ModelsOf(models, A) # {}

(***************************************************************************)
(* CaDiCaL.                                                                *)
(***************************************************************************)
NoLimit == -1

\* Inc::Inc() clears the record and lifts the limits on decisions and
\* conflicts; the time limit stays 0.
NewSolver ==
    [state |-> "ready", assumed |-> {}, conflicts |-> NoLimit, timeout |-> 0,
     failed |-> {}, model |-> {}]

ResetAssumptions(s) ==
    [s EXCEPT !.assumed = {}, !.failed = {}, !.model = {}, !.state = "ready"]

TransitionToUnknown(s) ==
    IF s.state \in {"sat", "unsat"} THEN ResetAssumptions(s) ELSE s

Assume(s, A) ==
    IF A = {} THEN s
    ELSE LET t == TransitionToUnknown(s) IN [t EXCEPT !.assumed = @ \cup A]

LimitConflicts(s, n) == [s EXCEPT !.conflicts = IF n < 0 THEN NoLimit ELSE n]

SetTimeout(s, seconds) == [s EXCEPT !.timeout = IF seconds < 0 THEN NoLimit ELSE seconds]

\* Faulty variant: the time limit survives the call.
ResetLimitsKeepsTimeout(s) == LimitConflicts(s, NoLimit)

ResetLimits(s) == SetTimeout(LimitConflicts(s, NoLimit), NoLimit)

\* search_limits_hit() may be true at some time of the search.
MayHitLimit(s) == s.conflicts >= 0 \/ s.timeout >= 0

\* What solve() may leave: a model, a failed set of assumptions, or nothing
\* when it hit a limit.
Outcomes(s, models) ==
    {[s EXCEPT !.state = "sat", !.model = m] : m \in ModelsOf(models, s.assumed)}
    \cup
    {[s EXCEPT !.state = "unsat", !.failed = C] :
        C \in {D \in SUBSET s.assumed : ~Satisfiable(models, D)}}

\* Faulty variant: giving up keeps the assumptions.
SolveLeaks(s, models) ==
    LET t == TransitionToUnknown(s)
    IN  {ResetLimits(u) : u \in Outcomes(t, models) \cup (IF MayHitLimit(t) THEN {t} ELSE {})}

\* Solver::solve(), with External::solve() and Internal::solve().
Solve(s, models) ==
    LET t == TransitionToUnknown(s)
    IN  {ResetLimits(u) : u \in
            Outcomes(t, models)
            \cup (IF MayHitLimit(t) THEN {ResetAssumptions(t)} ELSE {})}

\* Solver::add(lit) of a clause, Solver::find_up_implicants.
Add(s) == TransitionToUnknown(s)

FindUpImplicants(s) == ResetLimits(ResetAssumptions(s))

(***************************************************************************)
(* Solver_cadical.  Each call leaves one of a set of states; what it       *)
(* returns is read from the state: 1 is SAT, 0 UNSAT, -1 given up.         *)
(***************************************************************************)
Result(s) == CASE s.state = "sat" -> 1 [] s.state = "unsat" -> 0 [] s.state = "ready" -> -1

\* One round of solve(assumption): it calls itself again when it gets no
\* answer, so that its caller only sees a round that got one.
SolveRound(s, models, A) == Solve(Assume(s, A), models)

SolveLimited(s, models, A, confBudget, except) ==
    Solve(LimitConflicts(Assume(s, A \ {except}), confBudget), models)

SolveWithTimeout(s, models, A, seconds) ==
    Solve(SetTimeout(Assume(ResetAssumptions(s), A), seconds), models)

SolveWithTimeoutAndLimit(s, models, A, seconds, confBudget, except) ==
    Solve(SetTimeout(LimitConflicts(Assume(ResetAssumptions(s), A \ {except}), confBudget),
                     seconds), models)

\* getConflict(assumptions), which CaDiCaL only allows in state "unsat".
GetConflict(s, A) == A \cap s.failed

CanGetConflict(s) == s.state = "unsat"

CanGetSolution(s) == s.state = "sat"
=============================================================================
