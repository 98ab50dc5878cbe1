----------------------------- MODULE SatClient -----------------------------
(***************************************************************************)
(* Any sequence of calls of Solver_cadical, as class EvalMaxSAT may make   *)
(* them: unlimited, limited and timed solves, propagation and new clauses, *)
(* each on the solver as the last one left it.  Between two calls, while   *)
(* pc is "idle", the components that ask the solver several questions in a *)
(* row (modules CoreMinimize and LocalOptimizer) may take over.            *)
(***************************************************************************)
EXTENDS SatSolver

CONSTANTS Problems,   \* [models, weight]: the clauses at first, and the weights
          Asked,      \* the sets of literals the calls below may assume
          Clauses,    \* the clauses that may be added, as pairs <<P, N>>
          Budgets,    \* conflict budgets given to solveLimited
          Times       \* seconds given to solveWithTimeout; may be negative

ASSUME ClientAssumption ==
    /\ Assumable \subseteq Int \ {0} /\ IsFiniteSet(Assumable)
    /\ \A q \in Problems :
         q.models \in SUBSET Model /\ q.weight \in [Assumable -> Nat \ {0}]
    /\ Asked \subseteq Model /\ Clauses \subseteq Model \X Model
    /\ Budgets \subseteq Int /\ Times \subseteq Int

VARIABLES s,        \* the solver
          models,   \* the meaning of the clauses added so far
          weight,   \* the weights of the soft literals
          pc,       \* "idle", "retry" inside solve(), or inside a component
          wanted,   \* the literals the last call was asked to assume
          rounds    \* how often the last call went through CaDiCaL's solve

input  == <<models, weight>>
solver == <<s, wanted, rounds>>
client == <<solver, input, pc>>

NoExcept == 0

Abs(l) == IF l < 0 THEN -l ELSE l

ClientInit ==
    /\ s = NewSolver
    /\ \E q \in Problems : models = q.models /\ weight = q.weight
    /\ pc = "idle" /\ wanted = {} /\ rounds = 0

\* A call that goes through CaDiCaL once, for the literals A.
Once(A, states) ==
    /\ s' \in states
    /\ wanted' = A /\ rounds' = 1

\* solve(assumption), which tries again until it has an answer.
CallSolve(A) ==
    /\ pc = "idle"
    /\ s' \in SolveRound(s, models, A)
    /\ pc' = IF Result(s') = -1 THEN "retry" ELSE "idle"
    /\ wanted' = A /\ rounds' = 1
    /\ UNCHANGED input

Retry ==
    /\ pc = "retry"
    /\ s' \in SolveRound(s, models, wanted)
    /\ pc' = IF Result(s') = -1 THEN "retry" ELSE "idle"
    /\ rounds' = rounds + 1
    /\ UNCHANGED <<input, wanted>>

CallOnce(A, states) == pc = "idle" /\ Once(A, states) /\ UNCHANGED <<input, pc>>

CallSolveLimited(A, e, n) == CallOnce(A \ {e}, SolveLimited(s, models, A, n, e))

CallSolveWithTimeout(A, t) == CallOnce(A, SolveWithTimeout(s, models, A, t))

CallSolveWithTimeoutAndLimit(A, e, t, n) ==
    CallOnce(A \ {e}, SolveWithTimeoutAndLimit(s, models, A, t, n, e))

\* addClause: P are its literals of Assumable, N those whose negation is.
CallAddClause(P, N) ==
    /\ pc = "idle"
    /\ s' = Add(s)
    /\ models' = {m \in models : P \cap m # {} \/ N \ m # {}}
    /\ UNCHANGED <<weight, pc, wanted, rounds>>

CallPropagate ==
    /\ pc = "idle"
    /\ s' = FindUpImplicants(s)
    /\ UNCHANGED <<input, pc, wanted, rounds>>

ClientNext ==
    \/ \E A \in Asked : CallSolve(A)
    \/ Retry
    \/ \E A \in Asked, n \in Budgets : \E e \in A \cup {NoExcept} : CallSolveLimited(A, e, n)
    \/ \E A \in Asked, t \in Times : CallSolveWithTimeout(A, t)
    \/ \E A \in Asked, t \in Times, n \in Budgets : \E e \in A \cup {NoExcept} :
          CallSolveWithTimeoutAndLimit(A, e, t, n)
    \/ \E C \in Clauses : CallAddClause(C[1], C[2])
    \/ CallPropagate

-----------------------------------------------------------------------------
ClientTypeOK ==
    /\ s.state \in {"ready", "sat", "unsat"}
    /\ s.assumed \in Model /\ s.failed \in Model /\ s.model \in Model
    /\ s.conflicts \in Int /\ s.timeout \in Int
    /\ models \in SUBSET Model /\ weight \in [Assumable -> Nat \ {0}]
    /\ wanted \in Model /\ rounds \in Nat

\* solveLimited and solve() do not clear the assumptions themselves.  Still,
\* whatever was called before and however it ended, an answer is about
\* exactly the literals of the call it answers: the model satisfies them, the
\* failed literals are among them and cannot hold together.
AnswerOfCall ==
    /\ s.state = "sat" => s.model \in ModelsOf(models, wanted)
    /\ s.state = "unsat" => s.failed \subseteq wanted /\ ~Satisfiable(models, s.failed)

\* The recursion of solve() on "no answer" ends: the limits of a call, the
\* time limit CaDiCaL starts with included, are gone in the next round.
RetryOnce == rounds <= 2 /\ (rounds = 2 => pc # "retry")

\* The assertion next to "Bug? Can happen sometimes..." in solve(): without
\* limits CaDiCaL answers at once.
UnlimitedAnswers == pc # "retry"
=============================================================================
