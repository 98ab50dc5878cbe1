--------------------------- MODULE LocalOptimizer ---------------------------
(***************************************************************************)
(* LocalOptimizer2::optimize: from the model the SAT solver has just found *)
(* it tries to satisfy one more soft literal at a time, within a budget,   *)
(* and fetches a model of what it could satisfy.  Assumable are the soft   *)
(* literals of its snapshot.  This is what action SatOptimize of module    *)
(* EvalMaxSAT does in one step.                                            *)
(***************************************************************************)
EXTENDS SatClient, Sequences, Functions

VARIABLES start,              \* history: the soft literals true at first
          solution,           \* the soft literals true in the solution
          softVarFalsified,   \* those left to try, a vector read from its end
          assumSatisfied,
          modify,
          cost,               \* what optimize returns
          answered            \* history: no call was given up

optimizer == <<start, solution, softVarFalsified, assumSatisfied, modify, cost, answered>>

CalculateCostAssign(m) == SumFunctionOnSet(weight, Assumable \ m)

\* The vectors of the elements of C by variable.
ByVariable(C) ==
    {q \in [1..Cardinality(C) -> C] :
        \A j, k \in DOMAIN q : j < k => Abs(q[j]) < Abs(q[k])}

OptimizerIdle ==
    /\ start = {} /\ solution = {} /\ softVarFalsified = <<>> /\ assumSatisfied = {}
    /\ modify = FALSE /\ cost = 0 /\ answered = FALSE

\* A solve has answered SAT; optimize gets its solution.
BeginOptimize ==
    /\ pc = "idle" /\ Result(s) = 1
    /\ pc' = "start"
    /\ start' = s.model /\ solution' = s.model
    /\ answered' = TRUE
    /\ UNCHANGED <<solver, input, softVarFalsified, assumSatisfied, modify, cost>>

\* Faulty variant: what is satisfied already is not assumed.
SplitForgets ==
    /\ pc = "start" /\ pc' = "try"
    /\ softVarFalsified' \in ByVariable(Assumable \ solution)
    /\ assumSatisfied' = {}
    /\ UNCHANGED <<solver, input, start, solution, modify, cost, answered>>

Split ==
    /\ pc = "start" /\ pc' = "try"
    /\ softVarFalsified' \in ByVariable(Assumable \ solution)
    /\ assumSatisfied' = solution
    /\ UNCHANGED <<solver, input, start, solution, modify, cost, answered>>

\* The budget is a share of the time in seconds, cut to a whole number of
\* conflicts: often 0.
Budget == 0

Pop(q) == SubSeq(q, 1, Len(q) - 1)

\* Faulty variant: the loop ends at the first literal that cannot be satisfied.
TryStopsEarly ==
    /\ pc = "try" /\ softVarFalsified # <<>>
    /\ LET A == assumSatisfied \cup {softVarFalsified[Len(softVarFalsified)]}
       IN  /\ Once(A, SolveLimited(s, models, A, Budget, NoExcept))
           /\ assumSatisfied' = IF Result(s') = 1 THEN A ELSE assumSatisfied
    /\ modify' = (modify \/ Result(s') = 1)
    /\ answered' = (answered /\ Result(s') # -1)
    /\ softVarFalsified' = IF Result(s') = 1 THEN Pop(softVarFalsified) ELSE <<>>
    /\ UNCHANGED <<input, start, pc, solution, cost>>

\* push_back, solveLimited, and pop_back unless the answer is SAT.
Try ==
    /\ pc = "try" /\ softVarFalsified # <<>>
    /\ LET A == assumSatisfied \cup {softVarFalsified[Len(softVarFalsified)]}
       IN  /\ Once(A, SolveLimited(s, models, A, Budget, NoExcept))
           /\ assumSatisfied' = IF Result(s') = 1 THEN A ELSE assumSatisfied
    /\ modify' = (modify \/ Result(s') = 1)
    /\ answered' = (answered /\ Result(s') # -1)
    /\ softVarFalsified' = Pop(softVarFalsified)
    /\ UNCHANGED <<input, start, pc, solution, cost>>

\* solve(assumSatisfied), with its retry.
SolveAll ==
    /\ pc = "try" /\ softVarFalsified = <<>> /\ modify
    /\ Once(assumSatisfied, SolveRound(s, models, assumSatisfied))
    /\ pc' = IF Result(s') = -1 THEN "try" ELSE "take"
    /\ UNCHANGED <<input, start, solution, softVarFalsified, assumSatisfied, modify, cost, answered>>

\* solution = solver->getSolution();
Take ==
    /\ pc = "take" /\ pc' = "optimized"
    /\ solution' = s.model
    /\ cost' = CalculateCostAssign(solution')
    /\ UNCHANGED <<solver, input, start, softVarFalsified, assumSatisfied, modify, answered>>

Unmodified ==
    /\ pc = "try" /\ softVarFalsified = <<>> /\ ~modify
    /\ pc' = "optimized"
    /\ cost' = CalculateCostAssign(solution)
    /\ UNCHANGED <<solver, input, start, solution, softVarFalsified, assumSatisfied, modify, answered>>

LeaveOptimize ==
    /\ pc = "optimized" /\ pc' = "idle"
    /\ start' = {} /\ solution' = {} /\ softVarFalsified' = <<>> /\ assumSatisfied' = {}
    /\ modify' = FALSE /\ cost' = 0 /\ answered' = FALSE
    /\ UNCHANGED <<solver, input>>

OptimizerNext ==
    BeginOptimize \/ Split \/ Try \/ SolveAll \/ Take \/ Unmodified \/ LeaveOptimize

-----------------------------------------------------------------------------
OptimizerTypeOK ==
    /\ start \in Model /\ solution \in Model /\ assumSatisfied \in Model
    /\ softVarFalsified \in Seq(Assumable)
    /\ modify \in BOOLEAN /\ answered \in BOOLEAN /\ cost \in Nat

\* The solution is a model, satisfies what was satisfied before, and is priced
\* for what it is: the upper bound solve() takes from it never gets worse. There
\* is a solution to fetch (assert(tmp == 1)): the literals collected one by one,
\* some calls given up in between, can be satisfied together.
NeverWorse ==
    /\ pc = "take" => CanGetSolution(s)
    /\ pc = "optimized" =>
        /\ solution \in models
        /\ start \subseteq solution
        /\ cost = CalculateCostAssign(solution) /\ cost <= CalculateCostAssign(start)

\* If no call was given up, no other model satisfies more soft literals: one
\* refused early stays refused as more of them are assumed.
MaximalIfAnswered ==
    pc = "optimized" /\ answered => \A m \in models : solution \subseteq m => m = solution
=============================================================================
