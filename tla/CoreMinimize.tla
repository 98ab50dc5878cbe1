---------------------------- MODULE CoreMinimize ----------------------------
(***************************************************************************)
(* From an UNSAT answer to the core that solve() pays for: getConflict,    *)
(* the repeated solves of the multi-solve strategy and oneMinimize, on the *)
(* SAT solver of module SatSolver.  This is the choice that action Core of *)
(* module EvalMaxSAT makes in one step.                                    *)
(*                                                                         *)
(* Clocks are free: every comparison with elapsed time may go either way,  *)
(* and a time left may be negative.                                        *)
(***************************************************************************)
EXTENDS SatClient, Sequences, Functions

CONSTANTS MinRounds, MaxRounds,   \* 20 and 1000 in the code
          Growth,      \* 3 in the code
          SmallCore    \* 3 in the code: cores up to this size are not solved again

ASSUME RoundsAssumption == {MinRounds, MaxRounds, Growth, SmallCore} \subseteq Nat

VARIABLES conflict,     \* the core, a vector
          work,         \* the vector oneMinimize works on
          i,            \* its index, 0 when it has none
          final,        \* whether oneMinimize was called by the last step
          bestP,        \* the best score so far, as a pair; <<>> for none
          p,            \* the score oneMinimize returned
          nbSolve, lastImprove,
          definite      \* history: oneMinimize got only answers and all its time

counters == <<nbSolve, lastImprove>>
core     == <<conflict, work, i, final, bestP, p, counters, definite>>

\* The assumptions of the search: every literal that may be assumed.
assum == Assumable

Last(q) == q[Len(q)]

Front(q) == SubSeq(q, 1, Len(q) - 1)

Heavier(a, b) == weight[a] > weight[b] \/ (weight[a] = weight[b] /\ Abs(a) < Abs(b))

\* The elements of C as a vector: in the order of a std::set<int>, and in the
\* one oneMinimize sorts by.
Ascending(C) ==
    {q \in [1..Cardinality(C) -> C] :
        Range(q) = C /\ \A j, k \in DOMAIN q : j < k => q[j] < q[k]}

HeaviestFirst(C) ==
    {q \in [1..Cardinality(C) -> C] :
        Range(q) = C /\ \A j, k \in DOMAIN q : j < k => Heavier(q[j], q[k])}

\* size / weight as a pair, compared crosswise; the empty core scores 0.
Score(n, w) == <<n, w>>

Better(q, r) == r # <<>> => q[1] * r[2] < r[1] * q[2]

CoreIdle ==
    /\ conflict = <<>> /\ work = <<>> /\ i = 0 /\ final = FALSE
    /\ bestP = <<>> /\ p = <<>>
    /\ nbSolve = 0 /\ lastImprove = 0
    /\ definite = FALSE

\* The search got UNSAT for its assumptions.
BeginCore ==
    /\ pc = "idle" /\ Result(s) = 0 /\ wanted = assum
    /\ pc' = "unsat"
    /\ UNCHANGED <<solver, input, core>>

(***************************************************************************)
(* The first core.                                                         *)
(***************************************************************************)
AfterConflict(multiSolveStrategy) ==
    CASE conflict' = <<>> -> "hardUnsat"
      [] multiSolveStrategy /\ Len(conflict') > SmallCore -> "multi"
      [] OTHER -> "final"

FirstConflict ==
    /\ pc = "unsat"
    /\ conflict' \in Ascending(GetConflict(s, assum))
    /\ \E multiSolveStrategy \in BOOLEAN : pc' = AfterConflict(multiSolveStrategy)
    /\ UNCHANGED <<solver, input, work, i, final, bestP, p, counters, definite>>

(***************************************************************************)
(* oneMinimize(conflict): drop the lightest literals while the rest stays  *)
(* unsatisfiable, then try the others from the lightest to the heaviest.   *)
(***************************************************************************)
OneMinimize(C, isFinal) ==
    /\ work' \in HeaviestFirst(C)
    /\ final' = isFinal
    /\ definite' = TRUE
    /\ p' = <<>> /\ i' = 0
    /\ pc' = "first"

\* It returns the score q, and its work to the caller.
Returned(q, answered) ==
    /\ p' = q
    /\ definite' = (definite /\ answered)
    /\ pc' = IF final THEN "done" ELSE "scored"
    /\ conflict' = IF final THEN work' ELSE conflict

NothingLeft ==
    /\ pc = "first" /\ work = <<>>
    /\ UNCHANGED work
    /\ Returned(Score(0, 1), TRUE)
    /\ UNCHANGED <<solver, input, i, final, bestP, counters>>

\* solver->solveLimited(conflict, budget, l)
Ask(budget, l) ==
    Once(Range(work) \ {l}, SolveLimited(s, models, Range(work), budget, l))

B == IF final THEN 1000 ELSE 10

\* Faulty variant: giving up counts as UNSAT.
DropLastUnknown ==
    /\ pc = "first" /\ work # <<>>
    /\ Ask(10 * B, Last(work)) /\ Result(s') # 1
    /\ work' = Front(work)
    /\ \/ UNCHANGED <<pc, conflict, p, definite>>
       \/ work' # <<>> /\ Returned(Score(Len(work'), weight[Last(work')]), FALSE)
    /\ UNCHANGED <<input, i, final, bestP, counters>>

\* UNSAT without the last literal; then on, or the time is up.
DropLast ==
    /\ pc = "first" /\ work # <<>>
    /\ Ask(10 * B, Last(work)) /\ Result(s') = 0
    /\ work' = Front(work)
    /\ \/ UNCHANGED <<pc, conflict, p, definite>>
       \/ work' # <<>> /\ Returned(Score(Len(work'), weight[Last(work')]), FALSE)
    /\ UNCHANGED <<input, i, final, bestP, counters>>

\* p[2] holds the weight of the last literal until the score is known.
KeepLast ==
    /\ pc = "first" /\ work # <<>>
    /\ Ask(10 * B, Last(work)) /\ Result(s') # 0
    /\ pc' = "second" /\ i' = Len(work) - 1
    /\ p' = Score(Len(work), weight[Last(work)])
    /\ definite' = (definite /\ Result(s') = 1)
    /\ UNCHANGED <<input, conflict, work, final, bestP, counters>>

\* conflict[i] = conflict.back(); conflict.pop_back();
Remove == Front([work EXCEPT ![i] = Last(work)])

\* Faulty variants: the index skips one, or runs below 0.
NextIndexSkips == i' = IF i > 1 THEN i - 2 ELSE 0

NextIndexTwo == i' = i - 2

NextIndex == i' = i - 1

\* Literal i is dropped on UNSAT and kept on SAT or no answer; then on, or the
\* time is up.
TryLiteral ==
    /\ pc = "second" /\ i > 0
    /\ Ask(B, work[i])
    /\ work' = IF Result(s') = 0 THEN Remove ELSE work
    /\ NextIndex
    /\ \/ /\ definite' = (definite /\ Result(s') # -1)
          /\ UNCHANGED <<pc, conflict, p>>
       \/ Returned(Score(Len(work'), p[2]), FALSE)
    /\ UNCHANGED <<input, final, bestP, counters>>

AllTried ==
    /\ pc = "second" /\ i = 0
    /\ UNCHANGED <<work, i>>
    /\ Returned(Score(Len(work), p[2]), TRUE)
    /\ UNCHANGED <<solver, input, final, bestP, counters>>

(***************************************************************************)
(* The multi-solve strategy.                                               *)
(***************************************************************************)
\* Faulty variant: rounds are not counted.
MultiRoundUncounted ==
    /\ pc = "multi"
    /\ nbSolve < Growth * lastImprove \/ nbSolve < MinRounds \/ nbSolve < MaxRounds
    /\ OneMinimize(GetConflict(s, assum), FALSE)
    /\ UNCHANGED <<solver, input, conflict, bestP, counters>>

\* while( nbSolve < 3*lastImprove || nbSolve < 20 || ( early && nbSolve < 1000 ) )
MultiRound ==
    /\ pc = "multi"
    /\ nbSolve < Growth * lastImprove \/ nbSolve < MinRounds \/ nbSolve < MaxRounds
    /\ nbSolve' = nbSolve + 1
    /\ OneMinimize(GetConflict(s, assum), FALSE)
    /\ UNCHANGED <<solver, input, conflict, bestP, lastImprove>>

MultiEnd ==
    /\ pc = "multi"
    /\ nbSolve >= Growth * lastImprove /\ nbSolve >= MinRounds
    /\ pc' = "final"
    /\ UNCHANGED <<solver, input, conflict, work, i, final, bestP, p, counters, definite>>

\* The vector and the score of one round are local to it.
EndOfRound == work' = <<>> /\ i' = 0 /\ p' = <<>> /\ definite' = FALSE

\* A better core is kept; one of two literals or less ends the loop.
Improve ==
    /\ pc = "scored" /\ Better(p, bestP)
    /\ bestP' = p
    /\ conflict' = work
    /\ IF Len(work) <= 2
       THEN pc' = "final" /\ UNCHANGED lastImprove
       ELSE pc' = "timeCheck" /\ lastImprove' = nbSolve
    /\ EndOfRound
    /\ UNCHANGED <<solver, input, final, nbSolve>>

\* Faulty variant: the last core is kept.
NoImproveKeeps ==
    /\ pc = "scored" /\ ~Better(p, bestP)
    /\ conflict' = work
    /\ pc' = "timeCheck"
    /\ EndOfRound
    /\ UNCHANGED <<solver, input, final, bestP, counters>>

NoImprove ==
    /\ pc = "scored" /\ ~Better(p, bestP)
    /\ pc' = "timeCheck"
    /\ EndOfRound
    /\ UNCHANGED <<solver, input, conflict, final, bestP, counters>>

TimeIsUp ==
    /\ pc = "timeCheck"
    /\ pc' = "final"
    /\ UNCHANGED <<solver, input, conflict, work, i, final, bestP, p, counters, definite>>

\* solveWithTimeout on the shuffled assumptions.  The time left is computed
\* after the check, from a coefficient that falls with time, and may be
\* negative, which means no limit.
SolveAgain ==
    /\ pc = "timeCheck"
    /\ \E timeLeft \in {-1, 1} : Once(assum, SolveWithTimeout(s, models, assum, timeLeft))
    /\ pc' = IF Result(s') = -1 THEN "final" ELSE "multi"
    /\ UNCHANGED <<input, conflict, work, i, final, bestP, p, counters, definite>>

(***************************************************************************)
(* The last minimization.                                                  *)
(***************************************************************************)
Minimize ==
    /\ pc = "final" /\ Len(conflict) > 1
    /\ OneMinimize(Range(conflict), TRUE)
    /\ UNCHANGED <<solver, input, conflict, bestP, counters>>

SmallEnough ==
    /\ pc = "final" /\ Len(conflict) <= 1
    /\ pc' = "done"
    /\ definite' = FALSE
    /\ UNCHANGED <<solver, input, conflict, work, i, final, bestP, p, counters>>

\* The core is paid for, or solve() returns because it is empty.
LeaveCore ==
    /\ pc \in {"done", "hardUnsat"} /\ pc' = "idle"
    /\ conflict' = <<>> /\ work' = <<>> /\ i' = 0 /\ final' = FALSE
    /\ bestP' = <<>> /\ p' = <<>>
    /\ nbSolve' = 0 /\ lastImprove' = 0
    /\ definite' = FALSE
    /\ UNCHANGED <<solver, input>>

CoreNext ==
    \/ BeginCore \/ FirstConflict
    \/ NothingLeft \/ DropLast \/ KeepLast \/ TryLiteral \/ AllTried
    \/ MultiRound \/ MultiEnd \/ Improve \/ NoImprove \/ TimeIsUp \/ SolveAgain
    \/ Minimize \/ SmallEnough \/ LeaveCore

-----------------------------------------------------------------------------
Vector == Seq(assum)

CoreTypeOK ==
    /\ conflict \in Vector /\ work \in Vector
    /\ i \in 0..Len(work)
    /\ final \in BOOLEAN /\ definite \in BOOLEAN
    /\ p \in Seq(Nat) /\ bestP \in Seq(Nat)
    /\ nbSolve \in Nat /\ lastImprove \in Nat

IsCore(C) == C \subseteq assum /\ ~Satisfiable(models, C)

\* What solve() is about to pay for are assumptions that cannot all hold,
\* whatever the limited calls answered or left unanswered; it takes the
\* formula for unsatisfiable only if its hard clauses are. getConflict is only
\* asked for after an UNSAT answer about all of the assumptions (CaDiCaL aborts
\* in another state), although oneMinimize has used the solver for other
\* questions in between.
CoreSound ==
    /\ pc \in {"unsat", "multi"} => CanGetConflict(s) /\ IsCore(s.failed)
    /\ pc = "done" => IsCore(Range(conflict))
    /\ pc = "hardUnsat" => ~Satisfiable(models, {})

\* If every limited call was answered in time, the core is minimal: the swap
\* with the last literal leaves no literal untried.
MinimalIfAnswered ==
    pc = "done" /\ definite =>
        \A l \in Range(conflict) : Satisfiable(models, Range(conflict) \ {l})

\* size / weight of the lightest literal.
ScoreOf(q) ==
    IF q = <<>> THEN Score(0, 1)
    ELSE Score(Len(q), CHOOSE w \in {weight[l] : l \in Range(q)} :
                          \A l \in Range(q) : w <= weight[l])

\* The score by which cores are compared is the one of the core it comes with,
\* although the literal it takes the weight from moves around, and the core
\* kept is the one that scored best.
ScoreIsOfCore ==
    /\ pc = "scored" => p = ScoreOf(work)
    /\ bestP # <<>> /\ pc # "done" => bestP = ScoreOf(conflict)

\* The multi-solve loop ends although every improvement extends it.
CoreFound == pc = "unsat" ~> pc \in {"done", "hardUnsat"}
=============================================================================
