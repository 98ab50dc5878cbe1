------------------------- MODULE SolverCalls_proofs -------------------------
(***************************************************************************)
(* What module SolverCalls promises, for every set of literals, problem,   *)
(* budget and time limit: an answer is about the call it answers, solve()  *)
(* asks at most twice, the core paid for is a core, minimal if every call  *)
(* was answered and scored for what it is, and local optimization never    *)
(* makes a solution worse.                                                 *)
(*                                                                         *)
(* The inductive invariant says what each caller knows of the solver and   *)
(* of its own vectors at each of its steps.  It rests on one fact about    *)
(* CaDiCaL's interface, SolverInv: a solver without an answer holds no     *)
(* assumption.                                                             *)
(***************************************************************************)
EXTENDS SolverCalls, SumTheorems

SolverState ==
    [state : {"ready", "sat", "unsat"}, assumed : Model, conflicts : Int, timeout : Int,
     failed : Model, model : Model]

\* A solver that has not answered keeps no assumption.
SolverInv(t) == t \in SolverState /\ (t.state = "ready" => t.assumed = {})

Unlimited(t) == t.conflicts = NoLimit /\ t.timeout = NoLimit

\* t is what an answer about M and A, or none, leaves.
Answer(t, M, A) ==
    /\ t.state = "sat" => t.model \in ModelsOf(M, A)
    /\ t.state = "unsat" => t.failed \subseteq A /\ ~Satisfiable(M, t.failed)

ClientInv ==
    /\ SolverInv(s)
    /\ models \in SUBSET Model /\ weight \in [Assumable -> Nat \ {0}]
    /\ wanted \in Model /\ rounds \in 0..2
    /\ Answer(s, models, wanted)
    /\ pc = "retry" => rounds = 1 /\ Unlimited(s)

(***************************************************************************)
(* The operators below take the clauses' models M and the weights w as     *)
(* arguments, so that a step that leaves both alone leaves them alone.     *)
(***************************************************************************)

\* A core as a vector.
CoreVector(M, q) ==
    q \in Vector /\ IsInjective(q) /\ ~Satisfiable(M, Range(q))

\* x is the least weight of a literal of q, and one that is at or after
\* position j has it.
LightestFrom(w, q, j, x) ==
    /\ \A k \in DOMAIN q : x <= w[q[k]]
    /\ \E k \in DOMAIN q : k >= j /\ w[q[k]] = x

ByWeight(w, q) == \A j, k \in DOMAIN q : j < k => w[q[j]] >= w[q[k]]

\* The literals of q at or after position j are needed.
NeededFrom(M, q, j) == \A k \in DOMAIN q : k >= j => Satisfiable(M, Range(q) \ {q[k]})

ScoreAt(w, q) ==
    IF q = <<>> THEN Score(0, 1)
    ELSE Score(Len(q), CHOOSE x \in {w[l] : l \in Range(q)} : \A l \in Range(q) : x <= w[l])

\* Where there is a core, and where there is a vector being minimized.
HasCore == {"multi", "first", "second", "scored", "timeCheck", "final", "done"}

CorePcs == HasCore \cup {"unsat", "hardUnsat"}

CoreInv ==
    /\ CoreTypeOK
    /\ pc \in {"unsat", "multi"} => s.state = "unsat" /\ wanted = Assumable
    /\ pc \in HasCore => CoreVector(models, conflict)
    /\ pc \notin HasCore => bestP = <<>>
    /\ pc \in {"first", "second", "scored"} => CoreVector(models, work)
    /\ pc = "hardUnsat" => ~Satisfiable(models, {})
    /\ pc = "first" => i = 0 /\ ByWeight(weight, work)
    /\ pc = "second" =>
         /\ i < Len(work)
         /\ p \in Nat \X Nat /\ LightestFrom(weight, work, i + 1, p[2])
         /\ definite => NeededFrom(models, work, i + 1)
    /\ pc = "scored" => p = ScoreAt(weight, work)
    /\ pc = "done" /\ definite => NeededFrom(models, conflict, 1)
    /\ bestP # <<>> /\ pc # "done" => bestP = ScoreAt(weight, conflict)

\* The literals not in A that are not left to try cannot be added to A.
Refused(M, A, q) == \A l \in Assumable \ (A \cup Range(q)) : ~Satisfiable(M, A \cup {l})

CostOf(w, m) == SumFunctionOnSet(w, Assumable \ m)

OptimizerPcs == {"start", "try", "take", "optimized"}

OptimizerInv ==
    /\ OptimizerTypeOK
    /\ pc \notin OptimizerPcs => modify = FALSE
    /\ pc = "start" => solution \in models /\ start = solution /\ modify = FALSE
    /\ pc \in {"try", "take"} =>
         /\ start \subseteq assumSatisfied
         /\ Satisfiable(models, assumSatisfied)
         /\ answered => Refused(models, assumSatisfied, softVarFalsified)
    /\ pc = "try" =>
         solution \in models /\ start = solution /\ (~modify => assumSatisfied = solution)
    /\ pc = "take" =>
         softVarFalsified = <<>> /\ s.state = "sat" /\ s.model \in ModelsOf(models, assumSatisfied)
    /\ pc = "optimized" =>
         /\ solution \in models /\ start \subseteq solution
         /\ cost = CostOf(weight, solution)
         /\ answered => Refused(models, solution, <<>>)

Inv ==
    /\ ClientInv /\ CoreInv /\ OptimizerInv
    /\ pc \in {"idle", "retry"} \cup CorePcs \cup OptimizerPcs

-----------------------------------------------------------------------------
(***************************************************************************)
(* The solver.                                                             *)
(***************************************************************************)

\* Fewer literals are easier to satisfy.
LEMMA SatisfiableSubset ==
    ASSUME NEW M, NEW A, NEW D, D \subseteq A, Satisfiable(M, A)
    PROVE  Satisfiable(M, D)
BY DEF Satisfiable, ModelsOf

\* A call starts without the assumptions of the last one, whatever it found.
LEMMA AssumeFacts ==
    ASSUME NEW t, SolverInv(t), NEW A \in Model
    PROVE  LET u == Assume(t, A) IN
           /\ u \in SolverState
           /\ TransitionToUnknown(u).assumed = A
           /\ u.conflicts = t.conflicts /\ u.timeout = t.timeout
<1> DEFINE v == TransitionToUnknown(t)
<1>1. /\ v \in SolverState /\ v.assumed = {} /\ v.state = "ready"
      /\ v.conflicts = t.conflicts /\ v.timeout = t.timeout
  BY DEF TransitionToUnknown, ResetAssumptions, SolverInv, SolverState, Model
<1>2. CASE A = {}
  BY <1>1, <1>2 DEF Assume, SolverInv
<1>3. CASE A # {}
  <2>1. Assume(t, A) = [v EXCEPT !.assumed = @ \cup A]
    BY <1>3 DEF Assume
  <2>2. Assume(t, A) \in SolverState /\ Assume(t, A).assumed = A /\ Assume(t, A).state = "ready"
    BY <1>1, <2>1 DEF SolverState, Model
  <2> QED
    BY <1>1, <2>1, <2>2 DEF SolverState, TransitionToUnknown
<1> QED
  BY <1>2, <1>3

\* reset_assumptions leaves nothing assumed.
LEMMA ResetFacts ==
    ASSUME NEW t \in SolverState
    PROVE  SolverInv(ResetAssumptions(t)) /\ ResetAssumptions(t).state = "ready"
BY DEF SolverInv, ResetAssumptions, SolverState, Model

\* Setting a limit keeps what is assumed.
LEMMA LimitFacts ==
    ASSUME NEW u \in SolverState, NEW n \in Int
    PROVE  /\ LimitConflicts(u, n) \in SolverState
           /\ TransitionToUnknown(LimitConflicts(u, n)).assumed = TransitionToUnknown(u).assumed
           /\ SetTimeout(u, n) \in SolverState
           /\ TransitionToUnknown(SetTimeout(u, n)).assumed = TransitionToUnknown(u).assumed
BY DEF LimitConflicts, SetTimeout, SolverState, TransitionToUnknown, ResetAssumptions, NoLimit

\* CaDiCaL's solve lifts the limits, answers for its assumptions, and leaves
\* none when it gives up.
LEMMA SolveFacts ==
    ASSUME NEW u \in SolverState, NEW M \in SUBSET Model, NEW t \in Solve(u, M)
    PROVE  /\ SolverInv(t) /\ Unlimited(t)
           /\ Answer(t, M, TransitionToUnknown(u).assumed)
           /\ t.state = "ready" => u.conflicts >= 0 \/ u.timeout >= 0
<1> DEFINE v == TransitionToUnknown(u)
<1>1. /\ v \in SolverState /\ v.conflicts = u.conflicts /\ v.timeout = u.timeout
  BY DEF TransitionToUnknown, ResetAssumptions, SolverState, Model
<1> HIDE DEF v
<1>2. PICK r \in Outcomes(v, M) \cup (IF MayHitLimit(v) THEN {ResetAssumptions(v)} ELSE {}) :
         t = ResetLimits(r)
  BY DEF Solve, v
<1>3. ASSUME NEW q \in SolverState
      PROVE  /\ ResetLimits(q) \in SolverState /\ Unlimited(ResetLimits(q))
             /\ ResetLimits(q).state = q.state /\ ResetLimits(q).assumed = q.assumed
             /\ ResetLimits(q).failed = q.failed /\ ResetLimits(q).model = q.model
  <2>1. ResetLimits(q) = [[q EXCEPT !.conflicts = -1] EXCEPT !.timeout = -1]
    BY DEF ResetLimits, SetTimeout, LimitConflicts, NoLimit
  <2>2. ResetLimits(q) \in SolverState
    <3>1. [q EXCEPT !.conflicts = -1] \in SolverState
      BY DEF SolverState
    <3> QED
      BY <2>1, <3>1 DEF SolverState
  <2>3. Unlimited(ResetLimits(q))
    BY <2>1 DEF Unlimited, SolverState, NoLimit
  <2> QED
    BY <2>1, <2>2, <2>3 DEF SolverState
<1>4. CASE r \in Outcomes(v, M) /\ \E m \in ModelsOf(M, v.assumed) :
              r = [v EXCEPT !.state = "sat", !.model = m]
  <2>1. PICK m \in ModelsOf(M, v.assumed) : r = [v EXCEPT !.state = "sat", !.model = m]
    BY <1>4
  <2>2. r \in SolverState /\ r.state = "sat" /\ r.model = m
    BY <1>1, <2>1 DEF SolverState, ModelsOf, Model
  <2> QED
    BY <1>2, <1>3, <2>2, <2>1 DEF SolverInv, Answer, v
<1>5. CASE r \in Outcomes(v, M) /\ \E C \in SUBSET v.assumed :
              ~Satisfiable(M, C) /\ r = [v EXCEPT !.state = "unsat", !.failed = C]
  <2>1. PICK C \in SUBSET v.assumed :
           ~Satisfiable(M, C) /\ r = [v EXCEPT !.state = "unsat", !.failed = C]
    BY <1>5
  <2>2. r \in SolverState /\ r.state = "unsat" /\ r.failed = C
    BY <1>1, <2>1 DEF SolverState, Model
  <2> QED
    BY <1>2, <1>3, <2>2, <2>1 DEF SolverInv, Answer, v
<1>6. CASE MayHitLimit(v) /\ r = ResetAssumptions(v)
  <2>1. SolverInv(r) /\ r.state = "ready"
    BY <1>1, <1>6, ResetFacts
  <2> QED
    BY <1>1, <1>2, <1>3, <1>6, <2>1 DEF SolverInv, Answer, MayHitLimit
<1> QED
  BY <1>2, <1>4, <1>5, <1>6 DEF Outcomes

\* What every call of Solver_cadical leaves.
LEMMA SolveRoundFacts ==
    ASSUME NEW t, SolverInv(t), NEW M \in SUBSET Model, NEW A \in Model,
           NEW u \in SolveRound(t, M, A)
    PROVE  /\ SolverInv(u) /\ Unlimited(u) /\ Answer(u, M, A)
           /\ Unlimited(t) => u.state # "ready"
BY AssumeFacts, SolveFacts DEF SolveRound, Unlimited, NoLimit

\* solveLimited answers about the assumptions without the excepted one,
LEMMA SolveLimitedFacts ==
    ASSUME NEW t, SolverInv(t), NEW M \in SUBSET Model, NEW A \in Model, NEW n \in Int,
           NEW e, NEW u \in SolveLimited(t, M, A, n, e)
    PROVE  SolverInv(u) /\ Unlimited(u) /\ Answer(u, M, A \ {e})
<1>1. A \ {e} \in Model
  BY DEF Model
<1> QED
  BY <1>1, AssumeFacts, LimitFacts, SolveFacts DEF SolveLimited

\* solveWithTimeout about all of them,
LEMMA SolveWithTimeoutFacts ==
    ASSUME NEW t, SolverInv(t), NEW M \in SUBSET Model, NEW A \in Model, NEW n \in Int,
           NEW u \in SolveWithTimeout(t, M, A, n)
    PROVE  SolverInv(u) /\ Unlimited(u) /\ Answer(u, M, A)
<1>1. SolverInv(ResetAssumptions(t))
  BY ResetFacts DEF SolverInv
<1> QED
  BY <1>1, AssumeFacts, LimitFacts, SolveFacts DEF SolveWithTimeout

\* and with both limits without the excepted one again.
LEMMA SolveWithTimeoutAndLimitFacts ==
    ASSUME NEW t, SolverInv(t), NEW M \in SUBSET Model, NEW A \in Model, NEW n \in Int,
           NEW k \in Int, NEW e, NEW u \in SolveWithTimeoutAndLimit(t, M, A, k, n, e)
    PROVE  SolverInv(u) /\ Unlimited(u) /\ Answer(u, M, A \ {e})
<1>1. SolverInv(ResetAssumptions(t)) /\ A \ {e} \in Model
  BY ResetFacts DEF SolverInv, Model
<1> DEFINE q == Assume(ResetAssumptions(t), A \ {e})
           r == LimitConflicts(q, n)
<1>2. q \in SolverState /\ TransitionToUnknown(q).assumed = A \ {e}
  BY <1>1, AssumeFacts
<1>3. u \in Solve(SetTimeout(r, k), M)
  BY DEF SolveWithTimeoutAndLimit
<1> HIDE DEF q
<1>4. r \in SolverState /\ TransitionToUnknown(r).assumed = A \ {e}
  BY <1>2, LimitFacts
<1> HIDE DEF r
<1>5. SetTimeout(r, k) \in SolverState /\ TransitionToUnknown(SetTimeout(r, k)).assumed = A \ {e}
  BY <1>4, LimitFacts
<1> QED
  BY <1>3, <1>5, SolveFacts

\* The result is read off the state of the solver.
LEMMA ResultFacts ==
    ASSUME NEW t, SolverInv(t)
    PROVE  /\ Result(t) = 1 <=> t.state = "sat"
           /\ Result(t) = 0 <=> t.state = "unsat"
           /\ Result(t) = -1 <=> t.state = "ready"
BY DEF Result, SolverInv, SolverState

-----------------------------------------------------------------------------
(***************************************************************************)
(* Vectors.                                                                *)
(***************************************************************************)

\* The elements of a vector.
LEMMA ElementFacts ==
    ASSUME NEW S, NEW q \in Seq(S)
    PROVE  /\ Len(q) \in Nat /\ DOMAIN q = 1..Len(q) /\ q \in [1..Len(q) -> S]
           /\ Range(q) \subseteq S
           /\ q = <<>> <=> Len(q) = 0
           /\ q = <<>> => Range(q) = {}
           /\ q # <<>> => Last(q) \in Range(q) /\ Last(q) \in S
BY DEF Range, Last

\* pop_back removes the last element, and only it.
LEMMA FrontFacts ==
    ASSUME NEW S, NEW q \in Seq(S), q # <<>>, IsInjective(q)
    PROVE  /\ Front(q) \in Seq(S) /\ Len(Front(q)) = Len(q) - 1
           /\ \A k \in 1..(Len(q) - 1) : Front(q)[k] = q[k]
           /\ IsInjective(Front(q))
           /\ Range(Front(q)) = Range(q) \ {Last(q)}
<1>1. Len(q) \in Nat \ {0} /\ DOMAIN q = 1..Len(q)
  BY ElementFacts
<1>2. /\ Front(q) \in Seq(S) /\ Len(Front(q)) = Len(q) - 1
      /\ \A k \in 1..(Len(q) - 1) : Front(q)[k] = q[k]
  BY <1>1 DEF Front
<1>3. DOMAIN Front(q) = 1..(Len(q) - 1)
  BY <1>2, ElementFacts
<1>4. IsInjective(Front(q))
  BY <1>1, <1>2, <1>3 DEF IsInjective
<1>5. ASSUME NEW x PROVE x \in Range(Front(q)) <=> x \in Range(q) \ {Last(q)}
  <2>1. x \in Range(Front(q)) <=> \E k \in 1..(Len(q) - 1) : x = q[k]
    BY <1>2, <1>3 DEF Range
  <2>2. x \in Range(q) <=> \E k \in 1..Len(q) : x = q[k]
    BY <1>1 DEF Range
  <2>3. \A k \in 1..(Len(q) - 1) : q[k] # q[Len(q)]
    BY <1>1 DEF IsInjective
  <2> QED
    BY <1>1, <2>1, <2>2, <2>3 DEF Last
<1> QED
  BY <1>2, <1>4, <1>5

\* The vector r has lost the element j of q, the last one in its place.
Lost(S, q, j, r) ==
    /\ r \in Seq(S) /\ Len(r) = Len(q) - 1
    /\ \A k \in 1..(Len(q) - 1) : r[k] = IF k = j THEN Last(q) ELSE q[k]
    /\ IsInjective(r)
    /\ Range(r) = Range(q) \ {q[j]}

\* conflict[i] = conflict.back(); conflict.pop_back(); removes element i, and
\* only it.
LEMMA RemoveFacts ==
    ASSUME NEW S, NEW q \in Seq(S), NEW j \in 1..(Len(q) - 1), IsInjective(q)
    PROVE  Lost(S, q, j, Front([q EXCEPT ![j] = Last(q)]))
<1> DEFINE t == [q EXCEPT ![j] = Last(q)]
           r == Front(t)
<1>1. Len(q) \in Nat \ {0} /\ DOMAIN q = 1..Len(q) /\ q \in [1..Len(q) -> S] /\ Last(q) = q[Len(q)]
  BY ElementFacts DEF Last
<1>2. /\ t \in [1..Len(q) -> S] /\ t \in Seq(S) /\ Len(t) = Len(q)
      /\ \A k \in 1..Len(q) : t[k] = IF k = j THEN Last(q) ELSE q[k]
  BY <1>1
<1> HIDE DEF t
<1>3. /\ r \in Seq(S) /\ Len(r) = Len(q) - 1
      /\ \A k \in 1..(Len(q) - 1) : r[k] = t[k]
  BY <1>1, <1>2 DEF Front
<1>4. DOMAIN r = 1..(Len(q) - 1) /\ \A k \in 1..(Len(q) - 1) : r[k] = IF k = j THEN q[Len(q)] ELSE q[k]
  BY <1>1, <1>2, <1>3, ElementFacts
<1> HIDE DEF r
<1>5. IsInjective(r)
  <2> SUFFICES ASSUME NEW m \in 1..(Len(q) - 1), NEW n \in 1..(Len(q) - 1), r[m] = r[n]
               PROVE  m = n
    BY <1>4 DEF IsInjective
  <2> QED
    BY <1>1, <1>4 DEF IsInjective
<1>6. ASSUME NEW x PROVE x \in Range(r) <=> x \in Range(q) \ {q[j]}
  <2>1. x \in Range(r) <=> \E k \in 1..(Len(q) - 1) : x = r[k]
    BY <1>4 DEF Range
  <2>2. x \in Range(q) <=> \E k \in 1..Len(q) : x = q[k]
    BY <1>1 DEF Range
  <2>3. ASSUME x \in Range(r) PROVE x \in Range(q) \ {q[j]}
    <3>1. PICK k \in 1..(Len(q) - 1) : x = r[k]
      BY <2>1, <2>3
    <3>2. CASE k = j
      BY <1>1, <1>4, <2>2, <3>1, <3>2 DEF IsInjective
    <3>3. CASE k # j
      BY <1>1, <1>4, <2>2, <3>1, <3>3 DEF IsInjective
    <3> QED
      BY <3>2, <3>3
  <2>4. ASSUME x \in Range(q) \ {q[j]} PROVE x \in Range(r)
    <3>1. PICK k \in 1..Len(q) : x = q[k]
      BY <2>2, <2>4
    <3>2. CASE k = Len(q)
      <4>1. r[j] = x
        BY <1>4, <3>1, <3>2
      <4> QED
        BY <2>1, <4>1
    <3>3. CASE k # Len(q)
      <4>1. k \in 1..(Len(q) - 1) /\ k # j
        <5>1. k # j
          BY <2>4, <3>1
        <5>2. Len(q) \in Nat
          BY <1>1
        <5>3. k \in 1..(Len(q) - 1)
          BY <3>3, <5>2
        <5> QED
          BY <5>1, <5>3
      <4> QED
        BY <1>4, <2>1, <3>1, <4>1
    <3> QED
      BY <3>2, <3>3
  <2> QED
    BY <2>3, <2>4
<1>7. Lost(S, q, j, r)
  BY <1>3, <1>4, <1>5, <1>6, <1>1 DEF Lost
<1> QED
  BY <1>7 DEF r, t

\* A std::set in order, and sorted from the heaviest to the lightest.
LEMMA AscendingFacts ==
    ASSUME NEW C \in Model, NEW q \in Ascending(C)
    PROVE  q \in Vector /\ IsInjective(q) /\ Range(q) = C
<1>1. Cardinality(C) \in Nat
  BY ClientAssumption, FS_Subset, FS_CardinalityType DEF Model
<1>2. q \in [1..Cardinality(C) -> C] /\ Range(q) = C
  BY DEF Ascending
<1>3. q \in Vector
  BY <1>1, <1>2 DEF Vector, assum, Model
<1>4. \A k \in DOMAIN q : q[k] \in Int
  BY <1>2, ClientAssumption DEF Model
<1>5. \A j, k \in DOMAIN q : j < k => q[j] < q[k]
  BY DEF Ascending
<1>6. \A k \in DOMAIN q : k \in Int
  BY <1>2
<1>7. IsInjective(q)
  BY <1>4, <1>5, <1>6 DEF IsInjective
<1> QED
  BY <1>2, <1>3, <1>7

\* The heaviest first, for the minimization of a core.
LEMMA HeaviestFirstFacts ==
    ASSUME NEW C \in Model, NEW q \in HeaviestFirst(C), weight \in [Assumable -> Nat \ {0}]
    PROVE  q \in Vector /\ IsInjective(q) /\ Range(q) = C /\ ByWeight(weight, q)
<1>1. Cardinality(C) \in Nat
  BY ClientAssumption, FS_Subset, FS_CardinalityType DEF Model
<1>2. q \in [1..Cardinality(C) -> C] /\ Range(q) = C
  BY DEF HeaviestFirst
<1>3. q \in Vector
  BY <1>1, <1>2 DEF Vector, assum, Model
<1>4. \A k \in DOMAIN q : k \in Int /\ q[k] \in Int /\ weight[q[k]] \in Nat
  <2>1. \A k \in DOMAIN q : k \in Int /\ q[k] \in Assumable
    BY <1>2 DEF Model
  <2> QED
    BY <2>1, ClientAssumption
<1>5. \A j, k \in DOMAIN q : j < k => Heavier(q[j], q[k])
  BY DEF HeaviestFirst
<1>6. ASSUME NEW j \in DOMAIN q, NEW k \in DOMAIN q, j < k
      PROVE  weight[q[j]] >= weight[q[k]] /\ q[j] # q[k]
  BY <1>4, <1>5, <1>6 DEF Heavier, Abs
<1>7. IsInjective(q)
  BY <1>4, <1>6 DEF IsInjective
<1> QED
  BY <1>2, <1>3, <1>6, <1>7 DEF ByWeight

\* Ordered by variable, every literal has a place.
LEMMA ByVariableFacts ==
    ASSUME NEW C \in Model, NEW q \in ByVariable(C)
    PROVE  q \in Seq(Assumable) /\ Range(q) = C
<1>1. IsFiniteSet(C) /\ Cardinality(C) \in Nat
  BY ClientAssumption, FS_Subset, FS_CardinalityType DEF Model
<1> DEFINE n == Cardinality(C)
<1>2. q \in [1..n -> C]
  BY DEF ByVariable
<1>3. q \in Seq(Assumable)
  BY <1>1, <1>2 DEF Model
<1>4. \A k \in 1..n : k \in Int /\ q[k] \in Int
  <2>1. \A k \in 1..n : k \in Int /\ q[k] \in Assumable
    BY <1>2 DEF Model
  <2> QED
    BY <2>1, ClientAssumption
<1>5. \A j, k \in 1..n : j < k => Abs(q[j]) < Abs(q[k])
  BY <1>2 DEF ByVariable
<1>6. ASSUME NEW j \in 1..n, NEW k \in 1..n, j < k PROVE q[j] # q[k]
  BY <1>4, <1>5, <1>6 DEF Abs
<1>7. \A j, k \in 1..n : q[j] = q[k] => j = k
  BY <1>4, <1>6
<1>8. q \in Injection(1..n, C)
  BY <1>2, <1>7 DEF Injection, IsInjective
<1>9. Cardinality(1..n) = Cardinality(C)
  BY <1>1, FS_Interval
<1>10. q \in Surjection(1..n, C)
  BY <1>1, <1>8, <1>9, FS_Injection
<1>11. Range(q) = C
  BY <1>2, <1>10 DEF Surjection, Range
<1> QED
  BY <1>3, <1>11

-----------------------------------------------------------------------------
(***************************************************************************)
(* What a step leaves alone.                                               *)
(***************************************************************************)

\* A step that asks nothing keeps the last answer.
LEMMA ClientKept ==
    ASSUME ClientInv, UNCHANGED <<solver, input>>, pc' # "retry"
    PROVE  ClientInv'
BY DEF ClientInv, solver, input

\* A call replaces it by the answer to what was asked.
LEMMA ClientCalled ==
    ASSUME ClientInv, UNCHANGED input, wanted' \in Model, rounds' = 1,
           SolverInv(s'), Unlimited(s'), Answer(s', models, wanted')
    PROVE  ClientInv'
BY DEF ClientInv, input

\* A step elsewhere keeps the core.
LEMMA CoreKept ==
    ASSUME CoreInv, UNCHANGED core, pc \notin CorePcs, pc' \notin CorePcs
    PROVE  CoreInv'
<1>1. UNCHANGED <<conflict, work, i, final, bestP, p, nbSolve, lastImprove, definite>>
  BY DEF core, counters
<1>2. CoreTypeOK'
  BY <1>1 DEF CoreInv, CoreTypeOK, Vector, assum
<1>3. bestP' = <<>>
  BY <1>1 DEF CoreInv, CorePcs
<1> QED
  BY <1>2, <1>3 DEF CoreInv, CorePcs, HasCore

\* A step elsewhere keeps the optimizer.
LEMMA OptimizerKept ==
    ASSUME OptimizerInv, UNCHANGED optimizer, pc \notin OptimizerPcs, pc' \notin OptimizerPcs
    PROVE  OptimizerInv'
<1>1. OptimizerTypeOK'
  BY DEF OptimizerInv, OptimizerTypeOK, optimizer
<1> QED
  BY <1>1 DEF OptimizerInv, OptimizerPcs, optimizer

\* The first state.
LEMMA InvInit == ASSUME Init PROVE Inv
<1>1. NewSolver \in SolverState
  BY DEF NewSolver, SolverState, NoLimit, Model
<1>2. ClientInv
  <2>1. s \in SolverState /\ s.state = "ready" /\ s.assumed = {}
    BY <1>1 DEF Init, ClientInit, NewSolver
  <2> QED
    BY <2>1, ClientAssumption DEF Init, ClientInit, ClientInv, SolverInv, Answer, Model
<1>3. CoreInv
  <2>1. <<>> \in Seq(assum) /\ <<>> \in Seq(Nat) /\ 0 \in 0..Len(<<>>)
    OBVIOUS
  <2>2. CoreTypeOK
    BY <2>1 DEF Init, CoreIdle, CoreTypeOK, Vector
  <2> QED
    BY <2>2 DEF Init, CoreIdle, ClientInit, CoreInv, HasCore
<1>4. OptimizerInv
  <2>1. <<>> \in Seq(Assumable) /\ {} \in Model
    BY DEF Model
  <2>2. OptimizerTypeOK
    BY <2>1 DEF Init, OptimizerIdle, OptimizerTypeOK
  <2> QED
    BY <2>2 DEF Init, OptimizerIdle, ClientInit, OptimizerInv, OptimizerPcs
<1> QED
  BY <1>2, <1>3, <1>4 DEF Init, ClientInit, Inv

(***************************************************************************)
(* The calls of module SatClient.                                          *)
(***************************************************************************)
\* The calls of the solver, one after the other.
LEMMA ClientStep ==
    ASSUME ClientInv, ClientNext, pc \in {"idle", "retry"}
    PROVE  ClientInv' /\ pc' \in {"idle", "retry"}
<1> USE DEF input
<1>1. /\ SolverInv(s) /\ models \in SUBSET Model /\ wanted \in Model
  BY DEF ClientInv
<1>2. ASSUME NEW A \in Asked, CallSolve(A) PROVE ClientInv' /\ pc' \in {"idle", "retry"}
  <2>1. A \in Model
    BY ClientAssumption
  <2>2. SolverInv(s') /\ Unlimited(s') /\ Answer(s', models, A)
    BY <1>1, <1>2, <2>1, SolveRoundFacts DEF CallSolve
  <2> QED
    BY <1>2, <2>1, <2>2, ClientCalled DEF CallSolve
<1>3. CASE Retry
  <2>1. /\ SolverInv(s') /\ Unlimited(s') /\ Answer(s', models, wanted)
        /\ s'.state # "ready"
    BY <1>1, <1>3, SolveRoundFacts DEF Retry, ClientInv
  <2>2. pc' = "idle"
    BY <1>3, <2>1, ResultFacts DEF Retry
  <2>3. rounds = 1 /\ rounds' = 2
    BY <1>3 DEF Retry, ClientInv
  <2> QED
    BY <1>3, <2>1, <2>2, <2>3 DEF Retry, ClientInv
<1>4. ASSUME NEW A \in Asked, NEW n \in Budgets, NEW e, CallSolveLimited(A, e, n)
      PROVE  ClientInv' /\ pc' \in {"idle", "retry"}
  <2>1. A \in Model /\ A \ {e} \in Model /\ n \in Int
    BY ClientAssumption DEF Model
  <2>2. SolverInv(s') /\ Unlimited(s') /\ Answer(s', models, A \ {e})
    BY <1>1, <1>4, <2>1, SolveLimitedFacts DEF CallSolveLimited, CallOnce, Once
  <2> QED
    BY <1>4, <2>1, <2>2, ClientCalled DEF CallSolveLimited, CallOnce, Once
<1>5. ASSUME NEW A \in Asked, NEW t \in Times, CallSolveWithTimeout(A, t)
      PROVE  ClientInv' /\ pc' \in {"idle", "retry"}
  <2>1. A \in Model /\ t \in Int
    BY ClientAssumption DEF Model
  <2>2. SolverInv(s') /\ Unlimited(s') /\ Answer(s', models, A)
    BY <1>1, <1>5, <2>1, SolveWithTimeoutFacts DEF CallSolveWithTimeout, CallOnce, Once
  <2> QED
    BY <1>5, <2>1, <2>2, ClientCalled DEF CallSolveWithTimeout, CallOnce, Once
<1>6. ASSUME NEW A \in Asked, NEW t \in Times, NEW n \in Budgets, NEW e,
             CallSolveWithTimeoutAndLimit(A, e, t, n)
      PROVE  ClientInv' /\ pc' \in {"idle", "retry"}
  <2>1. A \in Model /\ A \ {e} \in Model /\ n \in Int /\ t \in Int
    BY ClientAssumption DEF Model
  <2>2. SolverInv(s') /\ Unlimited(s') /\ Answer(s', models, A \ {e})
    BY <1>1, <1>6, <2>1, SolveWithTimeoutAndLimitFacts
    DEF CallSolveWithTimeoutAndLimit, CallOnce, Once
  <2> QED
    BY <1>6, <2>1, <2>2, ClientCalled DEF CallSolveWithTimeoutAndLimit, CallOnce, Once
<1>7. ASSUME NEW C \in Clauses, CallAddClause(C[1], C[2])
      PROVE  ClientInv' /\ pc' \in {"idle", "retry"}
  <2>1. SolverInv(s') /\ s'.state = "ready"
    BY <1>1, <1>7, ResetFacts DEF CallAddClause, Add, TransitionToUnknown, SolverInv, SolverState
  <2>2. models' \in SUBSET Model
    BY <1>1, <1>7 DEF CallAddClause
  <2> QED
    BY <1>7, <2>1, <2>2 DEF CallAddClause, ClientInv, Answer
<1>8. CASE CallPropagate
  <2>1. SolverInv(s') /\ s'.state = "ready"
    <3> DEFINE r == ResetAssumptions(s)
    <3>1. r \in SolverState /\ r.state = "ready" /\ r.assumed = {}
      BY <1>1, ResetFacts DEF SolverInv
    <3> HIDE DEF r
    <3>2. s' = SetTimeout(LimitConflicts(r, NoLimit), NoLimit)
      BY <1>8 DEF CallPropagate, FindUpImplicants, ResetLimits, r
    <3>3. NoLimit \in Int
      BY DEF NoLimit
    <3>4. /\ LimitConflicts(r, NoLimit) \in SolverState
          /\ LimitConflicts(r, NoLimit).state = "ready" /\ LimitConflicts(r, NoLimit).assumed = {}
      BY <3>1, <3>3, LimitFacts DEF LimitConflicts, SolverState
    <3>5. /\ s' \in SolverState /\ s'.state = "ready" /\ s'.assumed = {}
      BY <3>2, <3>3, <3>4, LimitFacts DEF SetTimeout, SolverState
    <3> QED
      BY <3>5 DEF SolverInv
  <2> QED
    BY <1>8, <2>1 DEF CallPropagate, ClientInv, Answer
<1> QED
  BY <1>2, <1>3, <1>4, <1>5, <1>6, <1>7, <1>8 DEF ClientNext

(***************************************************************************)
(* The steps of module LocalOptimizer.                                     *)
(***************************************************************************)
\* A cost is a natural number.
LEMMA CostNat ==
    ASSUME weight \in [Assumable -> Nat \ {0}], NEW m
    PROVE  CostOf(weight, m) \in Nat
<1>1. IsFiniteSet(Assumable \ m)
  BY ClientAssumption, FS_Difference
<1>2. \A l \in Assumable \ m : weight[l] \in Nat
  OBVIOUS
<1> QED
  BY <1>1, <1>2, SumNat DEF CostOf

\* The optimizer starts on a solution.
LEMMA BeginOptimizeStep ==
    ASSUME ClientInv, OptimizerInv, BeginOptimize
    PROVE  ClientInv' /\ OptimizerInv' /\ pc' \in OptimizerPcs
<1>1. ClientInv'
  BY ClientKept DEF BeginOptimize
<1>2. s.model \in models /\ s.model \in Model
  BY ResultFacts DEF BeginOptimize, ClientInv, Answer, ModelsOf
<1>3. OptimizerTypeOK' /\ modify' = FALSE
  BY <1>2 DEF BeginOptimize, OptimizerInv, OptimizerTypeOK, OptimizerPcs
<1> QED
  BY <1>1, <1>2, <1>3 DEF BeginOptimize, OptimizerInv, OptimizerPcs, input

\* Its literals are split in satisfied and falsified.
LEMMA SplitStep ==
    ASSUME ClientInv, OptimizerInv, Split
    PROVE  ClientInv' /\ OptimizerInv' /\ pc' \in OptimizerPcs
<1>1. ClientInv'
  BY ClientKept DEF Split
<1>2. /\ solution \in models /\ start = solution /\ solution \in Model
      /\ modify = FALSE /\ OptimizerTypeOK
  BY DEF Split, OptimizerInv, OptimizerTypeOK
<1>3. softVarFalsified' \in Seq(Assumable) /\ Range(softVarFalsified') = Assumable \ solution
  <2>1. Assumable \ solution \in Model
    BY DEF Model
  <2> QED
    BY <2>1, ByVariableFacts DEF Split
<1>4. Refused(models', assumSatisfied', softVarFalsified')
  BY <1>3 DEF Split, Refused
<1>5. Satisfiable(models', assumSatisfied')
  BY <1>2 DEF Split, Satisfiable, ModelsOf, input
<1>6. OptimizerTypeOK'
  BY <1>2, <1>3 DEF Split, OptimizerTypeOK
<1> QED
  BY <1>1, <1>2, <1>4, <1>5, <1>6 DEF Split, OptimizerInv, OptimizerPcs, input

\* A literal refused for A is refused for every set that contains A.
LEMMA RefusedMore ==
    ASSUME NEW M, NEW A, NEW D, A \subseteq D, NEW q, NEW r, Refused(M, A, q),
           Range(q) \subseteq Range(r) \cup D
    PROVE  Refused(M, D, r)
<1>1. ASSUME NEW l \in Assumable \ (D \cup Range(r)) PROVE ~Satisfiable(M, D \cup {l})
  <2>1. ~Satisfiable(M, A \cup {l})
    BY DEF Refused
  <2>2. A \cup {l} \subseteq D \cup {l}
    OBVIOUS
  <2> QED
    BY <2>1, <2>2, SatisfiableSubset
<1> QED
  BY <1>1 DEF Refused

\* Taking the last element of a vector.
LEMMA PopFacts ==
    ASSUME NEW S, NEW q \in Seq(S), q # <<>>
    PROVE  /\ Pop(q) \in Seq(S) /\ q[Len(q)] \in S
           /\ Range(q) = Range(Pop(q)) \cup {q[Len(q)]}
<1>1. Len(q) \in Nat \ {0} /\ DOMAIN q = 1..Len(q)
  BY ElementFacts
<1>2. /\ Pop(q) \in Seq(S) /\ Len(Pop(q)) = Len(q) - 1
      /\ \A k \in 1..(Len(q) - 1) : Pop(q)[k] = q[k]
  BY <1>1 DEF Pop
<1>3. DOMAIN Pop(q) = 1..(Len(q) - 1)
  BY <1>2, ElementFacts
<1>4. ASSUME NEW x PROVE x \in Range(q) <=> x \in Range(Pop(q)) \cup {q[Len(q)]}
  <2>1. x \in Range(Pop(q)) <=> \E k \in 1..(Len(q) - 1) : x = q[k]
    BY <1>2, <1>3 DEF Range
  <2>2. x \in Range(q) <=> \E k \in 1..Len(q) : x = q[k]
    BY <1>1 DEF Range
  <2> QED
    BY <1>1, <2>1, <2>2
<1> QED
  BY <1>1, <1>2, <1>4

\* One falsified literal is tried with the satisfied ones.
LEMMA TryStep ==
    ASSUME ClientInv, OptimizerInv, Try
    PROVE  ClientInv' /\ OptimizerInv' /\ pc' \in OptimizerPcs
<1> DEFINE l == softVarFalsified[Len(softVarFalsified)]
           A == assumSatisfied \cup {l}
<1>1. /\ OptimizerTypeOK /\ softVarFalsified \in Seq(Assumable) /\ softVarFalsified # <<>>
      /\ assumSatisfied \in Model
      /\ start \subseteq assumSatisfied /\ Satisfiable(models, assumSatisfied)
      /\ answered => Refused(models, assumSatisfied, softVarFalsified)
      /\ solution \in models /\ start = solution /\ (~modify => assumSatisfied = solution)
  BY DEF Try, OptimizerInv, OptimizerTypeOK
<1>2. /\ Pop(softVarFalsified) \in Seq(Assumable) /\ l \in Assumable
      /\ Range(softVarFalsified) = Range(Pop(softVarFalsified)) \cup {l}
  BY <1>1, PopFacts
<1>3. A \in Model
  BY <1>1, <1>2 DEF Model
<1>4. /\ s' \in SolveLimited(s, models, A, Budget, NoExcept)
      /\ wanted' = A /\ rounds' = 1
      /\ assumSatisfied' = IF Result(s') = 1 THEN A ELSE assumSatisfied
      /\ modify' = (modify \/ Result(s') = 1)
      /\ answered' = (answered /\ Result(s') # -1)
      /\ softVarFalsified' = Pop(softVarFalsified)
      /\ UNCHANGED <<input, start, pc, solution, cost>>
  BY DEF Try, Once
<1> HIDE DEF l
<1>5. SolverInv(s) /\ models \in SUBSET Model /\ Budget \in Int /\ A \ {NoExcept} = A
  <2>1. NoExcept \notin A
    BY <1>3, ClientAssumption DEF NoExcept, Model
  <2> QED
    BY <2>1 DEF ClientInv, Budget
<1>6. SolverInv(s') /\ Unlimited(s') /\ Answer(s', models, A)
  BY <1>3, <1>4, <1>5, SolveLimitedFacts
<1>7. ClientInv'
  BY <1>3, <1>4, <1>6, ClientCalled
<1> HIDE DEF A
<1>8. A = assumSatisfied \cup {l}
  BY DEF A
<1>9. OptimizerTypeOK'
  BY <1>1, <1>2, <1>3, <1>4 DEF OptimizerTypeOK
<1>10. CASE Result(s') = 1
  <2>1. Satisfiable(models, A)
    BY <1>6, <1>10, ResultFacts DEF Answer, Satisfiable
  <2>2. answered => Refused(models, A, Pop(softVarFalsified))
    BY <1>1, <1>2, <1>8, RefusedMore
  <2>3. pc = "try"
    BY DEF Try
  <2> QED
    BY <1>1, <1>4, <1>7, <1>8, <1>9, <1>10, <2>1, <2>2, <2>3 DEF OptimizerInv, OptimizerPcs, input
<1>11. CASE Result(s') # 1
  <2>1. answered' => Refused(models, assumSatisfied, Pop(softVarFalsified))
    <3> SUFFICES ASSUME answered, Result(s') # -1
                 PROVE  Refused(models, assumSatisfied, Pop(softVarFalsified))
      BY <1>4
    <3>1. s'.state = "unsat"
      BY <1>6, <1>11, ResultFacts DEF SolverInv, SolverState
    <3>2. ~Satisfiable(models, A)
      BY <1>6, <3>1, SatisfiableSubset DEF Answer
    <3> QED
      BY <1>1, <1>2, <1>8, <3>2 DEF Refused
  <2>2. pc = "try"
    BY DEF Try
  <2> QED
    BY <1>1, <1>4, <1>7, <1>9, <1>11, <2>1, <2>2 DEF OptimizerInv, OptimizerPcs, input
<1> QED
  BY <1>10, <1>11

\* The last call, with all the satisfied literals.
LEMMA SolveAllStep ==
    ASSUME ClientInv, OptimizerInv, SolveAll
    PROVE  ClientInv' /\ OptimizerInv' /\ pc' \in OptimizerPcs
<1>1. /\ OptimizerTypeOK /\ assumSatisfied \in Model /\ softVarFalsified = <<>>
      /\ Satisfiable(models, assumSatisfied)
  BY DEF SolveAll, OptimizerInv, OptimizerTypeOK
<1>2. SolverInv(s') /\ Unlimited(s') /\ Answer(s', models, assumSatisfied)
  BY <1>1, SolveRoundFacts DEF SolveAll, Once, ClientInv
<1>3. ClientInv'
  BY <1>1, <1>2, ClientCalled DEF SolveAll, Once
<1>4. s'.state # "unsat"
  BY <1>1, <1>2, SatisfiableSubset DEF Answer
<1>5. pc' = "take" => s'.state = "sat" /\ s'.model \in ModelsOf(models, assumSatisfied)
  BY <1>2, <1>4, ResultFacts DEF SolveAll, Answer, SolverInv, SolverState
<1>6. OptimizerTypeOK'
  BY <1>1 DEF SolveAll, OptimizerTypeOK
<1> QED
  BY <1>1, <1>3, <1>5, <1>6 DEF SolveAll, OptimizerInv, OptimizerPcs, input

\* Its model becomes the solution.
LEMMA TakeStep ==
    ASSUME ClientInv, OptimizerInv, Take
    PROVE  ClientInv' /\ OptimizerInv' /\ pc' \in OptimizerPcs
<1>1. ClientInv'
  BY ClientKept DEF Take
<1>2. /\ OptimizerTypeOK /\ softVarFalsified = <<>> /\ start \subseteq assumSatisfied
      /\ answered => Refused(models, assumSatisfied, softVarFalsified)
      /\ s.model \in ModelsOf(models, assumSatisfied)
  BY DEF Take, OptimizerInv
<1>3. solution' = s.model /\ solution' \in models /\ assumSatisfied \subseteq solution'
  BY <1>2 DEF Take, ModelsOf
<1>4. solution' \in Model
  BY <1>3 DEF ClientInv
<1>5. cost' = CostOf(weight, solution') /\ cost' \in Nat
  BY CostNat DEF Take, CalculateCostAssign, CostOf, ClientInv, input
<1>6. OptimizerTypeOK'
  BY <1>2, <1>4, <1>5 DEF Take, OptimizerTypeOK
<1>7. answered => Refused(models, solution', <<>>)
  BY <1>2, <1>3, RefusedMore
<1> QED
  BY <1>1, <1>2, <1>3, <1>5, <1>6, <1>7 DEF Take, OptimizerInv, OptimizerPcs, input

\* Nothing was gained: the solution stays.
LEMMA UnmodifiedStep ==
    ASSUME ClientInv, OptimizerInv, Unmodified
    PROVE  ClientInv' /\ OptimizerInv' /\ pc' \in OptimizerPcs
<1>1. ClientInv'
  BY ClientKept DEF Unmodified
<1>2. /\ OptimizerTypeOK /\ softVarFalsified = <<>> /\ start = solution /\ solution \in models
      /\ answered => Refused(models, assumSatisfied, softVarFalsified)
      /\ assumSatisfied = solution
  BY DEF Unmodified, OptimizerInv
<1>3. cost' = CostOf(weight, solution) /\ cost' \in Nat
  BY CostNat DEF Unmodified, CalculateCostAssign, CostOf, ClientInv
<1>4. OptimizerTypeOK'
  BY <1>2, <1>3 DEF Unmodified, OptimizerTypeOK
<1> QED
  BY <1>1, <1>2, <1>3, <1>4 DEF Unmodified, OptimizerInv, OptimizerPcs, input

\* The optimizer returns.
LEMMA LeaveOptimizeStep ==
    ASSUME ClientInv, OptimizerInv, LeaveOptimize
    PROVE  ClientInv' /\ OptimizerInv' /\ pc' = "idle"
<1>1. ClientInv'
  BY ClientKept DEF LeaveOptimize
<1>2. <<>> \in Seq(Assumable) /\ {} \in Model
  BY DEF Model
<1>3. OptimizerTypeOK'
  BY <1>2 DEF LeaveOptimize, OptimizerTypeOK
<1> QED
  BY <1>1, <1>3 DEF LeaveOptimize, OptimizerInv, OptimizerPcs

\* Every step of the optimizer.
LEMMA OptimizerStep ==
    ASSUME ClientInv, OptimizerInv, OptimizerNext
    PROVE  /\ ClientInv' /\ OptimizerInv'
           /\ pc \in {"idle"} \cup OptimizerPcs /\ pc' \in {"idle"} \cup OptimizerPcs
<1>1. pc \in {"idle"} \cup OptimizerPcs
  BY DEF OptimizerNext, BeginOptimize, Split, Try, SolveAll, Take, Unmodified, LeaveOptimize,
         OptimizerPcs
<1> QED
  BY <1>1, BeginOptimizeStep, SplitStep, TryStep, SolveAllStep, TakeStep, UnmodifiedStep,
     LeaveOptimizeStep DEF OptimizerNext

(***************************************************************************)
(* The steps of module CoreMinimize.                                       *)
(***************************************************************************)

\* The score of a vector is its size and the least weight in it.
LEMMA ScoreFacts ==
    ASSUME NEW w \in [Assumable -> Nat \ {0}], NEW q \in Vector
    PROVE  /\ q = <<>> => ScoreAt(w, q) = <<0, 1>>
           /\ \A j, x : q # <<>> /\ LightestFrom(w, q, j, x) => ScoreAt(w, q) = <<Len(q), x>>
<1>1. q = <<>> => ScoreAt(w, q) = <<0, 1>>
  BY DEF ScoreAt, Score
<1>2. ASSUME NEW j, NEW x, q # <<>>, LightestFrom(w, q, j, x)
      PROVE  ScoreAt(w, q) = <<Len(q), x>>
  <2> DEFINE W == {w[l] : l \in Range(q)}
             Least(y) == \A l \in Range(q) : y <= w[l]
  <2>1. W \subseteq Nat
    BY ElementFacts DEF Vector, assum
  <2>2. x \in W /\ Least(x)
    BY <1>2 DEF LightestFrom, Range
  <2>3. \A y \in W : Least(y) => y = x
    <3> SUFFICES ASSUME NEW y \in W, Least(y) PROVE y = x
      OBVIOUS
    <3>1. y <= x /\ x <= y
      BY <2>2
    <3> QED
      BY <2>1, <2>2, <3>1
  <2>4. (CHOOSE y \in W : Least(y)) = x
    <3>1. (CHOOSE y \in W : Least(y)) \in W /\ Least(CHOOSE y \in W : Least(y))
      BY <2>2
    <3> HIDE DEF W, Least
    <3> QED
      BY <2>3, <3>1
  <2> QED
    BY <1>2, <2>4 DEF ScoreAt, Score
<1> QED
  BY <1>1, <1>2

\* In a vector from the heaviest to the lightest the last is the lightest.
LEMMA LastIsLightest ==
    ASSUME NEW w \in [Assumable -> Nat \ {0}], NEW q \in Vector, q # <<>>, ByWeight(w, q)
    PROVE  LightestFrom(w, q, Len(q), w[Last(q)]) /\ w[Last(q)] \in Nat
<1>1. Len(q) \in Nat \ {0} /\ DOMAIN q = 1..Len(q) /\ q \in [1..Len(q) -> Assumable]
  BY ElementFacts DEF Vector, assum
<1>2. \A k \in 1..Len(q) : w[q[k]] \in Nat
  BY <1>1
<1>3. ASSUME NEW k \in 1..Len(q) PROVE w[q[Len(q)]] <= w[q[k]]
  <2>1. CASE k = Len(q)
    BY <1>2, <2>1
  <2>2. CASE k < Len(q)
    BY <1>1, <1>2, <2>2 DEF ByWeight
  <2>3. Len(q) \in Nat
    BY <1>1
  <2>4. k = Len(q) \/ k < Len(q)
    BY <2>3
  <2> QED
    BY <2>1, <2>2, <2>4
<1>4. Len(q) \in 1..Len(q)
  BY <1>1
<1> QED
  BY <1>1, <1>2, <1>3, <1>4 DEF LightestFrom, Last

\* Ask leaves an answer about the vector without the literal.
LEMMA AskFacts ==
    ASSUME ClientInv, work \in Vector, NEW n \in Int, NEW l, Ask(n, l), UNCHANGED input
    PROVE  /\ ClientInv' /\ SolverInv(s')
           /\ Result(s') = 0 => ~Satisfiable(models, Range(work) \ {l})
           /\ Result(s') = 1 => Satisfiable(models, Range(work) \ {l})
           /\ Result(s') \in {0, 1, -1}
<1>1. Range(work) \in Model /\ Range(work) \ {l} \in Model
  BY ElementFacts DEF Vector, assum, Model
<1>2. SolverInv(s') /\ Unlimited(s') /\ Answer(s', models, Range(work) \ {l})
  BY <1>1, SolveLimitedFacts DEF Ask, Once, ClientInv
<1>3. ClientInv'
  BY <1>1, <1>2, ClientCalled DEF Ask, Once
<1>4. Result(s') = 0 => ~Satisfiable(models, Range(work) \ {l})
  BY <1>2, ResultFacts, SatisfiableSubset DEF Answer
<1>5. Result(s') = 1 => Satisfiable(models, Range(work) \ {l})
  BY <1>2, ResultFacts DEF Answer, Satisfiable
<1>6. Result(s') \in {0, 1, -1}
  BY <1>2, ResultFacts DEF SolverInv, SolverState
<1> QED
  BY <1>2, <1>3, <1>4, <1>5, <1>6

\* The budgets are integers.
LEMMA BudgetFacts == B \in Int /\ 10 * B \in Int
BY DEF B

\* The first call, with everything assumed.
LEMMA BeginCoreStep ==
    ASSUME ClientInv, CoreInv, BeginCore
    PROVE  ClientInv' /\ CoreInv' /\ pc' \in CorePcs
<1>1. ClientInv'
  BY ClientKept DEF BeginCore
<1>2. s.state = "unsat" /\ wanted = Assumable
  BY ResultFacts DEF BeginCore, ClientInv, assum
<1>3. CoreTypeOK' /\ bestP' = <<>>
  BY DEF BeginCore, CoreInv, CoreTypeOK, core, counters, HasCore, Vector, assum
<1> QED
  BY <1>1, <1>2, <1>3 DEF BeginCore, CoreInv, HasCore, CorePcs, solver

\* Its conflict is the first core.
LEMMA FirstConflictStep ==
    ASSUME ClientInv, CoreInv, FirstConflict
    PROVE  ClientInv' /\ CoreInv' /\ pc' \in CorePcs
<1>1. pc' \in {"hardUnsat", "multi", "final"} /\ (pc' = "hardUnsat" => conflict' = <<>>)
  BY DEF FirstConflict, AfterConflict
<1>2. ClientInv'
  BY <1>1, ClientKept DEF FirstConflict
<1>3. s.state = "unsat" /\ wanted = Assumable /\ bestP = <<>> /\ CoreTypeOK
  BY DEF FirstConflict, CoreInv, HasCore
<1>4. s.failed \in Model /\ ~Satisfiable(models, s.failed)
  BY <1>3 DEF ClientInv, Answer, Model
<1>5. GetConflict(s, assum) = s.failed
  BY <1>4 DEF GetConflict, assum, Model
<1>6. CoreVector(models, conflict') /\ Range(conflict') = s.failed /\ conflict' \in Vector
  BY <1>4, <1>5, AscendingFacts DEF FirstConflict, CoreVector
<1>7. conflict' = <<>> => ~Satisfiable(models, {})
  <2>1. conflict' \in Seq(assum)
    BY <1>6 DEF Vector
  <2>2. conflict' = <<>> => Range(conflict') = {}
    BY ONLY <2>1, ElementFacts
  <2> QED
    BY <1>4, <1>6, <2>2
<1>8. CoreTypeOK' /\ bestP' = <<>>
  BY <1>3, <1>6 DEF FirstConflict, CoreTypeOK, counters
<1> QED
  BY <1>1, <1>2, <1>3, <1>6, <1>7, <1>8 DEF FirstConflict, CoreInv, HasCore, CorePcs, solver, input

\* oneMinimize returns: its vector is a core, and the score is the vector's.
LEMMA ReturnedStep ==
    ASSUME CoreInv, pc \in {"first", "second"}, NEW q, NEW a \in BOOLEAN, Returned(q, a),
           CoreVector(models, work'), i' \in 0..Len(work'),
           q \in Seq(Nat), q = ScoreAt(weight, work'),
           definite /\ a => NeededFrom(models, work', 1),
           UNCHANGED <<input, final, bestP, counters>>
    PROVE  CoreInv' /\ pc' \in {"done", "scored"}
<1>1. /\ CoreTypeOK /\ CoreVector(models, conflict)
      /\ bestP # <<>> => bestP = ScoreAt(weight, conflict)
  BY DEF CoreInv, HasCore
<1>2. /\ pc' \in {"done", "scored"}
      /\ pc' = "done" => final /\ conflict' = work'
      /\ pc' = "scored" => conflict' = conflict
      /\ CoreVector(models, conflict') /\ conflict' \in Vector /\ work' \in Vector
  BY <1>1 DEF Returned, CoreTypeOK, CoreVector
<1>3. definite' = (definite /\ a) /\ definite' \in BOOLEAN /\ p' = q
  BY <1>1 DEF Returned, CoreTypeOK
<1>4. CoreTypeOK'
  BY <1>1, <1>2, <1>3 DEF CoreTypeOK, counters
<1> QED
  BY <1>1, <1>2, <1>3, <1>4 DEF CoreInv, HasCore, input

\* An empty core is returned as it is.
LEMMA NothingLeftStep ==
    ASSUME ClientInv, CoreInv, NothingLeft
    PROVE  ClientInv' /\ CoreInv' /\ pc' \in CorePcs
<1>1. CoreTypeOK /\ CoreVector(models, work) /\ work = <<>> /\ work' = work /\ i' = i
  BY DEF NothingLeft, CoreInv, HasCore
<1>2. <<0, 1>> \in Seq(Nat) /\ <<0, 1>> = ScoreAt(weight, work')
  BY <1>1, ScoreFacts DEF CoreTypeOK, ClientInv
<1>3. NeededFrom(models, work', 1)
  <2>1. work' = <<>> => DOMAIN work' = {}
    OBVIOUS
  <2> QED
    BY <1>1, <2>1 DEF NeededFrom
<1>4. CoreInv' /\ pc' \in {"done", "scored"}
  BY <1>1, <1>2, <1>3, ReturnedStep DEF NothingLeft, Score, CoreTypeOK
<1>5. ClientInv'
  BY <1>4, ClientKept DEF NothingLeft
<1> QED
  BY <1>4, <1>5 DEF CorePcs, HasCore

\* A score is a pair of naturals.
LEMMA PairFacts ==
    ASSUME NEW n \in Nat, NEW x \in Nat
    PROVE  <<n, x>> \in Seq(Nat) /\ <<n, x>> \in Nat \X Nat /\ Score(n, x) = <<n, x>>
           /\ <<n, x>>[2] = x
BY DEF Score

\* Popping keeps the order.
LEMMA DropLastStep ==
    ASSUME ClientInv, CoreInv, DropLast
    PROVE  ClientInv' /\ CoreInv' /\ pc' \in CorePcs
<1>1. /\ CoreTypeOK /\ CoreVector(models, work) /\ CoreVector(models, conflict)
      /\ work \in Vector /\ IsInjective(work) /\ work # <<>> /\ i = 0 /\ ByWeight(weight, work)
      /\ bestP # <<>> => bestP = ScoreAt(weight, conflict)
  BY DEF DropLast, CoreInv, HasCore, CoreVector
<1>2. ClientInv' /\ ~Satisfiable(models, Range(work) \ {Last(work)})
  BY <1>1, BudgetFacts, AskFacts DEF DropLast
<1>3. work' = Front(work) /\ i' = i /\ UNCHANGED <<input, final, bestP, counters>>
  BY DEF DropLast
<1>4. /\ work' \in Vector /\ IsInjective(work') /\ Range(work') = Range(work) \ {Last(work)}
      /\ Len(work') = Len(work) - 1
      /\ \A k \in 1..(Len(work) - 1) : work'[k] = work[k]
  BY <1>1, <1>3, FrontFacts DEF Vector
<1>5. CoreVector(models, work')
  BY <1>2, <1>4 DEF CoreVector
<1>6. Len(work) \in Nat /\ Len(work') \in Nat /\ DOMAIN work = 1..Len(work)
      /\ DOMAIN work' = 1..Len(work')
  BY <1>1, <1>4, ElementFacts DEF Vector
<1>7. ByWeight(weight, work')
  BY <1>1, <1>4, <1>6 DEF ByWeight
<1>8. i' \in 0..Len(work')
  BY <1>1, <1>3, <1>6
<1>9. CASE UNCHANGED <<pc, conflict, p, definite>>
  <2>1. CoreTypeOK'
    BY <1>1, <1>3, <1>4, <1>8, <1>9 DEF CoreTypeOK, counters
  <2>2. pc = "first" /\ pc' = "first"
    BY <1>9 DEF DropLast
  <2> QED
    BY <1>1, <1>2, <1>3, <1>5, <1>7, <1>9, <2>1, <2>2 DEF CoreInv, HasCore, CorePcs, input
<1>10. CASE work' # <<>> /\ Returned(Score(Len(work'), weight[Last(work')]), FALSE)
  <2>1. /\ LightestFrom(weight, work', Len(work'), weight[Last(work')])
        /\ weight[Last(work')] \in Nat
    BY <1>4, <1>7, <1>10, LastIsLightest DEF ClientInv
  <2>2. /\ Score(Len(work'), weight[Last(work')]) = ScoreAt(weight, work')
        /\ Score(Len(work'), weight[Last(work')]) \in Seq(Nat)
    <3>1. ScoreAt(weight, work') = <<Len(work'), weight[Last(work')]>>
      BY <1>4, <1>10, <2>1, ScoreFacts DEF ClientInv
    <3>2. Score(Len(work'), weight[Last(work')]) = <<Len(work'), weight[Last(work')]>>
      BY DEF Score
    <3>3. <<Len(work'), weight[Last(work')]>> \in Seq(Nat)
      BY <1>6, <2>1, PairFacts
    <3> QED
      BY <3>1, <3>2, <3>3
  <2>3. pc \in {"first", "second"}
    BY DEF DropLast
  <2>4. CoreInv' /\ pc' \in {"done", "scored"}
    BY <1>3, <1>5, <1>8, <1>10, <2>2, <2>3, ReturnedStep
  <2> QED
    BY <1>2, <2>4 DEF CorePcs, HasCore
<1> QED
  BY <1>9, <1>10 DEF DropLast

\* The last literal is needed, or the call gave up: it stays.
LEMMA KeepLastStep ==
    ASSUME ClientInv, CoreInv, KeepLast
    PROVE  ClientInv' /\ CoreInv' /\ pc' \in CorePcs
<1>1. /\ CoreTypeOK /\ CoreVector(models, work) /\ CoreVector(models, conflict)
      /\ work \in Vector /\ IsInjective(work) /\ work # <<>> /\ ByWeight(weight, work)
      /\ bestP # <<>> => bestP = ScoreAt(weight, conflict)
  BY DEF KeepLast, CoreInv, HasCore, CoreVector
<1>2. ClientInv' /\ (Result(s') = 1 => Satisfiable(models, Range(work) \ {Last(work)}))
  BY <1>1, BudgetFacts, AskFacts DEF KeepLast
<1>3. /\ pc' = "second" /\ i' = Len(work) - 1 /\ work' = work
      /\ p' = Score(Len(work), weight[Last(work)])
      /\ definite' = (definite /\ Result(s') = 1)
      /\ UNCHANGED <<input, conflict, final, bestP, counters>>
  BY DEF KeepLast
<1>4. Len(work) \in Nat /\ Len(work) # 0 /\ DOMAIN work = 1..Len(work)
  BY <1>1, ElementFacts DEF Vector
<1>5. LightestFrom(weight, work, Len(work), weight[Last(work)]) /\ weight[Last(work)] \in Nat
  BY <1>1, LastIsLightest DEF ClientInv
<1>6. p' \in Seq(Nat) /\ p' \in Nat \X Nat /\ p'[2] = weight[Last(work)]
  <2>1. Len(work) \in Nat
    BY <1>4
  <2>2. p' = <<Len(work), weight[Last(work)]>>
    BY <1>3 DEF Score
  <2> QED
    BY <1>5, <2>1, <2>2, PairFacts
<1>7. i' + 1 = Len(work) /\ i' < Len(work) /\ i' \in 0..Len(work')
  BY <1>3, <1>4
<1>8. definite' => NeededFrom(models, work, Len(work))
  <2> SUFFICES ASSUME definite', NEW k \in 1..Len(work), k >= Len(work)
               PROVE  Satisfiable(models, Range(work) \ {work[k]})
    BY <1>4 DEF NeededFrom
  <2>1. Len(work) \in Nat
    BY <1>4
  <2>2. k = Len(work)
    BY <2>1
  <2> QED
    BY <1>2, <1>3, <2>2 DEF Last
<1>9. definite' \in BOOLEAN
  BY <1>1, <1>3 DEF CoreTypeOK
<1>10. CoreTypeOK'
  BY <1>1, <1>3, <1>6, <1>7, <1>9 DEF CoreTypeOK, counters
<1> QED
  BY <1>1, <1>2, <1>3, <1>5, <1>6, <1>7, <1>8, <1>10 DEF CoreInv, HasCore, CorePcs, input

\* One literal of the core is tried: what is known of the literals after it
\* stays true although the last one moves to its place.
LEMMA TryLiteralStep ==
    ASSUME ClientInv, CoreInv, TryLiteral
    PROVE  ClientInv' /\ CoreInv' /\ pc' \in CorePcs
<1>1. /\ CoreTypeOK /\ CoreVector(models, work) /\ CoreVector(models, conflict)
      /\ work \in Vector /\ IsInjective(work) /\ ~Satisfiable(models, Range(work))
      /\ i < Len(work) /\ p \in Nat \X Nat /\ LightestFrom(weight, work, i + 1, p[2])
      /\ definite => NeededFrom(models, work, i + 1)
      /\ bestP # <<>> => bestP = ScoreAt(weight, conflict)
      /\ weight \in [Assumable -> Nat \ {0}]
  BY DEF TryLiteral, CoreInv, HasCore, CoreVector, ClientInv
<1>2. /\ i > 0 /\ Ask(B, work[i]) /\ i' = i - 1
      /\ work' = IF Result(s') = 0 THEN Remove ELSE work
      /\ UNCHANGED <<input, final, bestP, counters>> /\ pc = "second"
  BY DEF TryLiteral, NextIndex
<1>3. /\ ClientInv'
      /\ Result(s') = 0 => ~Satisfiable(models, Range(work) \ {work[i]})
      /\ Result(s') = 1 => Satisfiable(models, Range(work) \ {work[i]})
      /\ Result(s') \in {0, 1, -1}
  BY <1>1, <1>2, BudgetFacts, AskFacts
<1>4. Len(work) \in Nat /\ DOMAIN work = 1..Len(work) /\ work \in [1..Len(work) -> Assumable]
  BY <1>1, ElementFacts DEF Vector, assum
<1>5. Len(work) \in Nat
  BY <1>4
<1>6. i \in Nat /\ i \in 1..(Len(work) - 1) /\ i \in 1..Len(work)
  <2>1. i \in 0..Len(work) /\ i > 0 /\ i < Len(work)
    BY <1>1, <1>2 DEF CoreTypeOK
  <2> QED
    BY <1>5, <2>1
<1>7. /\ CoreVector(models, work') /\ i' \in 0..Len(work') /\ i' < Len(work')
      /\ LightestFrom(weight, work', i' + 1, p[2])
      /\ (definite /\ Result(s') # -1) => NeededFrom(models, work', i' + 1)
  <2>1. i' + 1 = i /\ i' = i - 1 /\ i' \in Nat
    BY <1>2, <1>6
  <2>2. CASE Result(s') = 0
    <3>1. /\ work' \in Seq(Assumable) /\ Len(work') = Len(work) - 1
          /\ \A k \in 1..(Len(work) - 1) : work'[k] = IF k = i THEN Last(work) ELSE work[k]
          /\ IsInjective(work') /\ Range(work') = Range(work) \ {work[i]}
      <4>1. work' = Front([work EXCEPT ![i] = Last(work)])
        BY <1>2, <2>2 DEF Remove
      <4>2. work \in Seq(Assumable) /\ IsInjective(work)
        BY <1>1 DEF Vector, assum
      <4>3. Lost(Assumable, work, i, work')
        BY <1>6, <4>1, <4>2, RemoveFacts
      <4> QED
        BY ONLY <4>3 DEF Lost
    <3>2. DOMAIN work' = 1..(Len(work) - 1)
      BY <3>1, ElementFacts
    <3>3. Last(work) = work[Len(work)] /\ Len(work) \in 1..Len(work)
      BY <1>4, <1>6 DEF Last
    <3>4. CoreVector(models, work')
      BY <1>3, <2>2, <3>1 DEF CoreVector, Vector, assum
    <3>5. i' \in 0..Len(work') /\ i' < Len(work')
      <4>1. Len(work') = Len(work) - 1
        BY <3>1
      <4>2. i' \in 0..(Len(work) - 1) /\ i' < Len(work) - 1
        BY <1>5, <1>6, <2>1
      <4> QED
        BY <4>1, <4>2
    <3>6. LightestFrom(weight, work', i, p[2])
      <4>1. ASSUME NEW k \in 1..(Len(work) - 1) PROVE p[2] <= weight[work'[k]]
        <5>1. \A j \in 1..Len(work) : p[2] <= weight[work[j]]
          BY <1>1, <1>4 DEF LightestFrom
        <5>2. k \in 1..Len(work)
          BY <1>5
        <5>3. \E j \in 1..Len(work) : work'[k] = work[j]
          BY <3>1, <3>3, <5>2
        <5> QED
          BY <5>1, <5>3
      <4>2. PICK k \in 1..Len(work) : k >= i + 1 /\ weight[work[k]] = p[2]
        BY <1>1, <1>4 DEF LightestFrom
      <4>3. CASE k = Len(work)
        <5>1. work'[i] = work[k]
          BY <1>6, <3>1, <3>3, <4>3
        <5> QED
          BY <1>6, <3>2, <4>1, <4>2, <5>1 DEF LightestFrom
      <4>4. CASE k # Len(work)
        <5>1. k \in 1..(Len(work) - 1) /\ k # i /\ k >= i
          BY <1>5, <1>6, <4>2, <4>4
        <5>2. work'[k] = work[k]
          BY <3>1, <5>1
        <5> QED
          BY <3>2, <4>1, <4>2, <5>1, <5>2 DEF LightestFrom
      <4> QED
        BY <4>3, <4>4
    <3>7. definite => NeededFrom(models, work', i)
      <4> SUFFICES ASSUME definite, NEW k \in 1..(Len(work) - 1), k >= i
                   PROVE  Satisfiable(models, Range(work') \ {work'[k]})
        BY <3>2 DEF NeededFrom
      <4>1. PICK j \in 1..Len(work) : j >= i + 1 /\ work'[k] = work[j]
        <5>1. CASE k = i
          <6>1. Len(work) >= i + 1
            BY <1>5, <1>6
          <6> QED
            BY <3>1, <3>3, <5>1, <6>1
        <5>2. CASE k # i
          <6>1. k \in 1..Len(work) /\ k >= i + 1
            BY <1>5, <1>6, <5>2
          <6> QED
            BY <3>1, <5>2, <6>1
        <5> QED
          BY <5>1, <5>2
      <4>2. Satisfiable(models, Range(work) \ {work[j]})
        BY <1>1, <1>4, <4>1 DEF NeededFrom
      <4>3. Range(work') \ {work'[k]} \subseteq Range(work) \ {work[j]}
        BY <3>1, <4>1
      <4> QED
        BY <4>2, <4>3, SatisfiableSubset
    <3> QED
      BY <2>1, <3>4, <3>5, <3>6, <3>7
  <2>3. CASE Result(s') # 0
    <3>1. work' = work
      BY <1>2, <2>3
    <3>2. i' \in 0..Len(work') /\ i' < Len(work')
      <4>1. Len(work') = Len(work)
        BY <3>1
      <4>2. i' \in 0..Len(work) /\ i' < Len(work)
        BY <1>5, <1>6, <2>1
      <4> QED
        BY <4>1, <4>2
    <3>3. LightestFrom(weight, work', i, p[2])
      BY <1>1, <1>4, <1>6, <3>1 DEF LightestFrom
    <3>4. ASSUME definite, Result(s') # -1 PROVE NeededFrom(models, work', i)
      <4>1. Satisfiable(models, Range(work) \ {work[i]})
        BY <1>3, <2>3, <3>4
      <4>2. ASSUME NEW k \in 1..Len(work), k >= i
            PROVE  Satisfiable(models, Range(work) \ {work[k]})
        <5>1. k = i \/ k >= i + 1
          BY <1>6, <4>2
        <5> QED
          BY <1>1, <1>4, <3>4, <4>1, <5>1 DEF NeededFrom
      <4> QED
        BY <1>4, <3>1, <4>2 DEF NeededFrom
    <3> QED
      BY <1>1, <2>1, <3>1, <3>2, <3>3, <3>4
  <2> QED
    BY <2>2, <2>3
<1>8. CASE definite' = (definite /\ Result(s') # -1) /\ UNCHANGED <<pc, conflict, p>>
  <2>1. definite' \in BOOLEAN
    BY <1>1, <1>8 DEF CoreTypeOK
  <2>2. CoreTypeOK'
    BY <1>1, <1>2, <1>7, <1>8, <2>1 DEF CoreTypeOK, counters, CoreVector
  <2> QED
    BY <1>1, <1>2, <1>3, <1>7, <1>8, <2>2 DEF CoreInv, HasCore, CorePcs, input
<1>9. CASE Returned(Score(Len(work'), p[2]), FALSE)
  <2>1. work' \in Vector /\ work' # <<>> /\ Len(work') \in Nat /\ p[2] \in Nat
    <3>1. work' \in Vector
      BY <1>7 DEF CoreVector
    <3>2. Len(work') \in Nat /\ Len(work') # 0
      BY <1>7, <3>1, ElementFacts DEF Vector
    <3> QED
      BY <1>1, <3>1, <3>2, ElementFacts DEF Vector
  <2>2. Score(Len(work'), p[2]) = <<Len(work'), p[2]>>
    BY DEF Score
  <2>3. ScoreAt(weight, work') = <<Len(work'), p[2]>>
    BY <1>1, <1>7, <2>1, ScoreFacts
  <2>4. <<Len(work'), p[2]>> \in Seq(Nat)
    BY <2>1, PairFacts
  <2>5. CoreInv' /\ pc' \in {"done", "scored"}
    BY <1>2, <1>7, <1>9, <2>2, <2>3, <2>4, ReturnedStep
  <2> QED
    BY <1>3, <2>5 DEF CorePcs, HasCore
<1> QED
  BY <1>8, <1>9 DEF TryLiteral

\* Every literal was tried: the core is scored.
LEMMA AllTriedStep ==
    ASSUME ClientInv, CoreInv, AllTried
    PROVE  ClientInv' /\ CoreInv' /\ pc' \in CorePcs
<1>1. /\ CoreVector(models, work) /\ work \in Vector /\ i = 0 /\ i < Len(work)
      /\ p \in Nat \X Nat /\ LightestFrom(weight, work, 1, p[2])
      /\ definite => NeededFrom(models, work, 1)
      /\ weight \in [Assumable -> Nat \ {0}]
      /\ UNCHANGED <<work, i>> /\ UNCHANGED <<input, final, bestP, counters>>
  BY DEF AllTried, CoreInv, HasCore, CoreVector, ClientInv
<1>2. Len(work) \in Nat /\ work # <<>> /\ p[2] \in Nat
  BY <1>1, ElementFacts DEF Vector
<1>3. ScoreAt(weight, work) = <<Len(work), p[2]>> /\ <<Len(work), p[2]>> \in Seq(Nat)
  BY <1>1, <1>2, ScoreFacts, PairFacts
<1>4. Returned(<<Len(work), p[2]>>, TRUE) /\ pc = "second"
  BY DEF AllTried, Score
<1>5. i' \in 0..Len(work')
  BY <1>1, <1>2
<1>6. CoreInv' /\ pc' \in {"done", "scored"}
  BY <1>1, <1>3, <1>4, <1>5, ReturnedStep
<1>7. ClientInv'
  BY <1>6, ClientKept DEF AllTried
<1> QED
  BY <1>6, <1>7 DEF CorePcs, HasCore

\* oneMinimize begins on a core.
LEMMA OneMinimizeStep ==
    ASSUME ClientInv, CoreInv, pc \in {"multi", "final"},
           NEW C \in Model, ~Satisfiable(models, C), NEW b \in BOOLEAN, OneMinimize(C, b),
           UNCHANGED <<solver, input, conflict, bestP, lastImprove>>, nbSolve' \in Nat
    PROVE  ClientInv' /\ CoreInv' /\ pc' \in CorePcs
<1>1. /\ CoreTypeOK /\ CoreVector(models, conflict)
      /\ bestP # <<>> => bestP = ScoreAt(weight, conflict)
  BY DEF CoreInv, HasCore
<1>2. /\ work' \in HeaviestFirst(C) /\ final' = b /\ definite' = TRUE
      /\ p' = <<>> /\ i' = 0 /\ pc' = "first"
  BY DEF OneMinimize
<1>3. work' \in Vector /\ IsInjective(work') /\ Range(work') = C /\ ByWeight(weight, work')
  BY <1>2, HeaviestFirstFacts DEF ClientInv
<1>4. CoreVector(models, work')
  BY <1>3 DEF CoreVector
<1>5. Len(work') \in Nat
  BY <1>3, ElementFacts DEF Vector
<1>6. i' \in 0..Len(work') /\ <<>> \in Seq(Nat)
  BY <1>2, <1>5
<1>7. CoreTypeOK'
  BY <1>1, <1>2, <1>3, <1>6 DEF CoreTypeOK
<1>8. ClientInv'
  BY <1>2, ClientKept
<1> QED
  BY <1>1, <1>2, <1>3, <1>4, <1>7, <1>8 DEF CoreInv, HasCore, CorePcs, input

\* A round of the multi-solve loop.
LEMMA MultiRoundStep ==
    ASSUME ClientInv, CoreInv, MultiRound
    PROVE  ClientInv' /\ CoreInv' /\ pc' \in CorePcs
<1>1. s.state = "unsat" /\ wanted = Assumable /\ nbSolve \in Nat
  BY DEF MultiRound, CoreInv, CoreTypeOK
<1>2. s.failed \in Model /\ ~Satisfiable(models, s.failed)
  BY <1>1 DEF ClientInv, Answer, Model
<1>3. GetConflict(s, assum) = s.failed
  BY <1>2 DEF GetConflict, assum, Model
<1>4. nbSolve' \in Nat
  BY <1>1 DEF MultiRound
<1> QED
  BY <1>2, <1>3, <1>4, OneMinimizeStep DEF MultiRound

\* The last minimization.
LEMMA MinimizeStep ==
    ASSUME ClientInv, CoreInv, Minimize
    PROVE  ClientInv' /\ CoreInv' /\ pc' \in CorePcs
<1>1. conflict \in Vector /\ ~Satisfiable(models, Range(conflict)) /\ nbSolve \in Nat
  BY DEF Minimize, CoreInv, HasCore, CoreVector, CoreTypeOK
<1>2. Range(conflict) \in Model
  BY <1>1, ElementFacts DEF Vector, assum, Model
<1>3. nbSolve' \in Nat /\ lastImprove' = lastImprove
  BY <1>1 DEF Minimize, counters
<1> QED
  BY <1>1, <1>2, <1>3, OneMinimizeStep DEF Minimize

\* Steps that only move on, with the core they have.
LEMMA MoveOnStep ==
    ASSUME CoreInv, pc \in HasCore \ {"done"}, pc' \in {"final", "timeCheck", "multi", "done"},
           pc' = "multi" => s'.state = "unsat" /\ wanted' = Assumable,
           UNCHANGED <<input, conflict, work, i, final, bestP, p, counters>>,
           definite' \in BOOLEAN, pc' = "done" => definite' = FALSE
    PROVE  CoreInv'
<1>1. /\ CoreTypeOK /\ CoreVector(models, conflict)
      /\ bestP # <<>> => bestP = ScoreAt(weight, conflict)
  BY DEF CoreInv
<1>2. CoreTypeOK'
  BY <1>1 DEF CoreTypeOK, counters
<1> QED
  BY <1>1, <1>2 DEF CoreInv, HasCore, input

\* The rounds are used up.
LEMMA MultiEndStep ==
    ASSUME ClientInv, CoreInv, MultiEnd
    PROVE  ClientInv' /\ CoreInv' /\ pc' \in CorePcs
<1>1. pc' = "final" /\ definite' \in BOOLEAN /\ pc \in HasCore \ {"done"}
  BY DEF MultiEnd, CoreInv, CoreTypeOK, HasCore
<1> QED
  BY <1>1, MoveOnStep, ClientKept DEF MultiEnd, CorePcs, HasCore

\* The time is used up.
LEMMA TimeIsUpStep ==
    ASSUME ClientInv, CoreInv, TimeIsUp
    PROVE  ClientInv' /\ CoreInv' /\ pc' \in CorePcs
<1>1. pc' = "final" /\ definite' \in BOOLEAN /\ pc \in HasCore \ {"done"}
  BY DEF TimeIsUp, CoreInv, CoreTypeOK, HasCore
<1> QED
  BY <1>1, MoveOnStep, ClientKept DEF TimeIsUp, CorePcs, HasCore

\* The core is small enough.
LEMMA SmallEnoughStep ==
    ASSUME ClientInv, CoreInv, SmallEnough
    PROVE  ClientInv' /\ CoreInv' /\ pc' \in CorePcs
<1>1. pc' = "done" /\ definite' = FALSE /\ pc \in HasCore \ {"done"}
  BY DEF SmallEnough, HasCore
<1> QED
  BY <1>1, MoveOnStep, ClientKept DEF SmallEnough, CorePcs, HasCore

\* The loop goes on only with an UNSAT answer about all assumptions: they
\* contain a core, and the answer may not be SAT.
LEMMA SolveAgainStep ==
    ASSUME ClientInv, CoreInv, SolveAgain
    PROVE  ClientInv' /\ CoreInv' /\ pc' \in CorePcs
<1>1. /\ conflict \in Vector /\ ~Satisfiable(models, Range(conflict))
      /\ pc \in HasCore \ {"done"} /\ definite' \in BOOLEAN
  BY DEF SolveAgain, CoreInv, HasCore, CoreVector, CoreTypeOK
<1>2. ~Satisfiable(models, Assumable)
  <2>1. Range(conflict) \subseteq Assumable
    BY <1>1, ElementFacts DEF Vector, assum
  <2> QED
    BY <1>1, <2>1, SatisfiableSubset
<1>3. PICK n \in {-1, 1} : Once(assum, SolveWithTimeout(s, models, assum, n))
  BY DEF SolveAgain
<1>4. Assumable \in Model /\ n \in Int
  BY DEF Model
<1>5. SolverInv(s') /\ Unlimited(s') /\ Answer(s', models, Assumable) /\ wanted' = Assumable
  BY <1>3, <1>4, SolveWithTimeoutFacts DEF Once, assum, ClientInv
<1>6. ClientInv'
  BY <1>3, <1>4, <1>5, ClientCalled DEF Once, SolveAgain
<1>7. s'.state # "sat"
  BY <1>2, <1>5 DEF Answer, Satisfiable
<1>8. pc' \in {"final", "multi"} /\ (pc' = "multi" => s'.state = "unsat")
  BY <1>5, <1>7, ResultFacts DEF SolveAgain, SolverInv, SolverState
<1>9. UNCHANGED <<input, conflict, work, i, final, bestP, p, counters>>
  BY DEF SolveAgain
<1>10. CoreInv'
  BY <1>1, <1>5, <1>8, <1>9, MoveOnStep
<1> QED
  BY <1>6, <1>8, <1>10 DEF CorePcs, HasCore

\* What the end of a round resets.
LEMMA EndOfRoundFacts ==
    ASSUME EndOfRound
    PROVE  /\ work' \in Vector /\ i' \in 0..Len(work') /\ p' \in Seq(Nat)
           /\ definite' = FALSE
<1>1. <<>> \in Seq(assum) /\ <<>> \in Seq(Nat) /\ 0 \in 0..Len(<<>>)
  OBVIOUS
<1> QED
  BY <1>1 DEF EndOfRound, Vector

\* The round found a better core.
LEMMA ImproveStep ==
    ASSUME ClientInv, CoreInv, Improve
    PROVE  ClientInv' /\ CoreInv' /\ pc' \in CorePcs
<1>1. /\ CoreTypeOK /\ CoreVector(models, work) /\ p = ScoreAt(weight, work) /\ work \in Vector
  BY DEF Improve, CoreInv, CoreVector
<1>2. /\ pc' \in {"final", "timeCheck"} /\ bestP' = p /\ conflict' = work
      /\ lastImprove' \in {lastImprove, nbSolve} /\ nbSolve' = nbSolve /\ final' = final
      /\ UNCHANGED <<solver, input>> /\ EndOfRound
  BY DEF Improve
<1>3. CoreTypeOK'
  BY <1>1, <1>2, EndOfRoundFacts DEF CoreTypeOK
<1>4. ClientInv'
  BY <1>2, ClientKept
<1> QED
  BY <1>1, <1>2, <1>3, <1>4 DEF CoreInv, HasCore, CorePcs, input

\* It did not.
LEMMA NoImproveStep ==
    ASSUME ClientInv, CoreInv, NoImprove
    PROVE  ClientInv' /\ CoreInv' /\ pc' \in CorePcs
<1>1. /\ CoreTypeOK /\ CoreVector(models, conflict)
      /\ bestP # <<>> => bestP = ScoreAt(weight, conflict)
  BY DEF NoImprove, CoreInv, HasCore
<1>2. pc' = "timeCheck" /\ EndOfRound /\ UNCHANGED <<solver, input, conflict, final, bestP, counters>>
  BY DEF NoImprove
<1>3. CoreTypeOK'
  BY <1>1, <1>2, EndOfRoundFacts DEF CoreTypeOK, counters
<1>4. ClientInv'
  BY <1>2, ClientKept
<1> QED
  BY <1>1, <1>2, <1>3, <1>4 DEF CoreInv, HasCore, CorePcs, input

\* The core is returned.
LEMMA LeaveCoreStep ==
    ASSUME ClientInv, CoreInv, LeaveCore
    PROVE  ClientInv' /\ CoreInv' /\ pc' = "idle"
<1>1. ClientInv'
  BY ClientKept DEF LeaveCore
<1>2. <<>> \in Seq(assum) /\ <<>> \in Seq(Nat) /\ 0 \in 0..Len(<<>>)
  OBVIOUS
<1>3. CoreTypeOK'
  BY <1>2 DEF LeaveCore, CoreTypeOK, Vector
<1> QED
  BY <1>1, <1>3 DEF LeaveCore, CoreInv, HasCore

\* Every step of the extraction of a core.
LEMMA CoreStep ==
    ASSUME ClientInv, CoreInv, CoreNext
    PROVE  /\ ClientInv' /\ CoreInv'
           /\ pc \in {"idle"} \cup CorePcs /\ pc' \in {"idle"} \cup CorePcs
<1>1. pc \in {"idle"} \cup CorePcs
  BY DEF CoreNext, BeginCore, FirstConflict, NothingLeft, DropLast, KeepLast, TryLiteral, AllTried,
         MultiRound, MultiEnd, Improve, NoImprove, TimeIsUp, SolveAgain, Minimize, SmallEnough,
         LeaveCore, CorePcs, HasCore
<1> QED
  BY <1>1, BeginCoreStep, FirstConflictStep, NothingLeftStep, DropLastStep, KeepLastStep,
     TryLiteralStep, AllTriedStep, MultiRoundStep, MultiEndStep, ImproveStep, NoImproveStep,
     TimeIsUpStep, SolveAgainStep, MinimizeStep, SmallEnoughStep, LeaveCoreStep DEF CoreNext

-----------------------------------------------------------------------------
(***************************************************************************)
(* The invariant is inductive.                                             *)
(***************************************************************************)
\* Every step of the module.
LEMMA InvNext == ASSUME Inv, [Next]_vars PROVE Inv'
<1>1. /\ ClientInv /\ CoreInv /\ OptimizerInv
      /\ pc \in {"idle", "retry"} \cup CorePcs \cup OptimizerPcs
  BY DEF Inv
<1>2. /\ {"idle", "retry"} \cap CorePcs = {} /\ {"idle", "retry"} \cap OptimizerPcs = {}
      /\ CorePcs \cap OptimizerPcs = {}
  BY DEF CorePcs, HasCore, OptimizerPcs
<1>3. CASE ClientNext /\ UNCHANGED <<core, optimizer>>
  <2>1. pc \in {"idle", "retry"}
    BY <1>3 DEF ClientNext, CallSolve, Retry, CallSolveLimited, CallSolveWithTimeout,
                CallSolveWithTimeoutAndLimit, CallOnce, CallAddClause, CallPropagate
  <2>2. ClientInv' /\ pc' \in {"idle", "retry"}
    BY <1>1, <1>3, <2>1, ClientStep
  <2> QED
    BY <1>1, <1>2, <1>3, <2>1, <2>2, CoreKept, OptimizerKept DEF Inv
<1>4. CASE CoreNext /\ UNCHANGED optimizer
  <2>1. /\ ClientInv' /\ CoreInv'
        /\ pc \in {"idle"} \cup CorePcs /\ pc' \in {"idle"} \cup CorePcs
    BY <1>1, <1>4, CoreStep
  <2> QED
    BY <1>1, <1>2, <1>4, <2>1, OptimizerKept DEF Inv
<1>5. CASE OptimizerNext /\ UNCHANGED core
  <2>1. /\ ClientInv' /\ OptimizerInv'
        /\ pc \in {"idle"} \cup OptimizerPcs /\ pc' \in {"idle"} \cup OptimizerPcs
    BY <1>1, <1>5, OptimizerStep
  <2> QED
    BY <1>1, <1>2, <1>5, <2>1, CoreKept DEF Inv
<1>6. CASE UNCHANGED vars
  <2>1. UNCHANGED <<s, wanted, rounds, models, weight, pc>>
    BY <1>6 DEF vars, client, solver, input
  <2>2. UNCHANGED <<conflict, work, i, final, bestP, p, nbSolve, lastImprove, definite>>
    BY <1>6 DEF vars, core, counters
  <2>3. UNCHANGED optimizer
    BY <1>6 DEF vars
  <2>4. ClientInv'
    BY <1>1, <2>1 DEF ClientInv
  <2>5. CoreInv'
    <3>1. CoreTypeOK'
      BY <1>1, <2>2 DEF CoreInv, CoreTypeOK
    <3> QED
      BY <1>1, <2>1, <2>2, <3>1 DEF CoreInv
  <2>6. OptimizerInv'
    <3>1. OptimizerTypeOK'
      BY <1>1, <2>3 DEF OptimizerInv, OptimizerTypeOK, optimizer
    <3> QED
      BY <1>1, <2>1, <2>3, <3>1 DEF OptimizerInv, optimizer
  <2> QED
    BY <1>1, <2>1, <2>4, <2>5, <2>6 DEF Inv
<1> QED
  BY <1>3, <1>4, <1>5, <1>6 DEF Next

\* In every reachable state each caller knows of the solver and of its own
\* vectors what Inv says.
THEOREM Invariance == Spec => []Inv
<1>1. Init => Inv
  BY InvInit
<1>2. Inv /\ [Next]_vars => Inv'
  BY InvNext
<1> QED
  BY <1>1, <1>2, PTL DEF Spec

\* The solver, the core and the solution keep their types: indices stay inside
\* the vectors of oneMinimize, scores are pairs of numbers, costs are numbers.
THEOREM TypeCorrect == Spec => []TypeOK
<1>1. Inv => TypeOK
  <2> SUFFICES ASSUME Inv PROVE TypeOK
    OBVIOUS
  <2>1. ClientTypeOK
    <3>1. s \in SolverState
      BY DEF Inv, ClientInv, SolverInv
    <3> QED
      BY <3>1 DEF Inv, ClientInv, ClientTypeOK, SolverState
  <2>2. CoreTypeOK /\ OptimizerTypeOK
    BY DEF Inv, CoreInv, OptimizerInv
  <2> QED
    BY <2>1, <2>2 DEF Inv, TypeOK, CorePcs, HasCore, OptimizerPcs
<1> QED
  BY <1>1, Invariance, PTL

\* Whatever was asked before, of whatever component, and however it ended, an
\* answer of the solver is about exactly the literals of the call it answers.
THEOREM AnswersAreOfCalls == Spec => []AnswerOfCall
<1>1. Inv => AnswerOfCall
  BY DEF Inv, ClientInv, Answer, AnswerOfCall
<1> QED
  BY <1>1, Invariance, PTL

\* solve() calls itself at most once, for every time limit CaDiCaL may hold.
THEOREM RetriesOnce == Spec => []RetryOnce
<1>1. Inv => RetryOnce
  BY DEF Inv, ClientInv, RetryOnce
<1> QED
  BY <1>1, Invariance, PTL

\* What solve() pays for are assumptions that cannot all hold, and getConflict
\* is only asked for after an UNSAT answer about all assumptions.
THEOREM CoresAreSound == Spec => []CoreSound
<1>1. Inv => CoreSound
  <2> SUFFICES ASSUME Inv PROVE CoreSound
    OBVIOUS
  <2>1. pc \in {"unsat", "multi"} => CanGetConflict(s) /\ IsCore(s.failed)
    BY DEF Inv, ClientInv, CoreInv, Answer, CanGetConflict, IsCore, assum
  <2>2. pc = "done" => IsCore(Range(conflict))
    <3> SUFFICES ASSUME pc = "done" PROVE IsCore(Range(conflict))
      OBVIOUS
    <3>1. conflict \in Vector /\ ~Satisfiable(models, Range(conflict))
      BY DEF Inv, CoreInv, HasCore, CoreVector
    <3> QED
      BY <3>1, ElementFacts DEF IsCore, Vector
  <2>3. pc = "hardUnsat" => ~Satisfiable(models, {})
    BY DEF Inv, CoreInv
  <2> QED
    BY <2>1, <2>2, <2>3 DEF CoreSound
<1> QED
  BY <1>1, Invariance, PTL

\* If every limited call of oneMinimize is answered in time, no literal of the
\* core it leaves can be missed.
THEOREM CoresAreMinimal == Spec => []MinimalIfAnswered
<1>1. Inv => MinimalIfAnswered
  <2> SUFFICES ASSUME Inv, pc = "done", definite, NEW l \in Range(conflict)
               PROVE  Satisfiable(models, Range(conflict) \ {l})
    BY DEF MinimalIfAnswered
  <2>1. NeededFrom(models, conflict, 1) /\ conflict \in Vector
    BY DEF Inv, CoreInv, CoreTypeOK
  <2>2. Len(conflict) \in Nat /\ DOMAIN conflict = 1..Len(conflict)
    BY <2>1, ElementFacts DEF Vector
  <2>3. PICK k \in 1..Len(conflict) : l = conflict[k]
    BY <2>2 DEF Range
  <2>4. k >= 1
    BY <2>2
  <2> QED
    BY <2>1, <2>2, <2>3, <2>4 DEF NeededFrom
<1> QED
  BY <1>1, Invariance, PTL

\* oneMinimize scores the core it returns, and the core kept by the loop is
\* the one whose score is kept.
THEOREM ScoresAreOfCores == Spec => []ScoreIsOfCore
<1>1. Inv => ScoreIsOfCore
  <2>1. \A q : ScoreOf(q) = ScoreAt(weight, q)
    BY DEF ScoreOf, ScoreAt
  <2> QED
    BY <2>1 DEF Inv, CoreInv, ScoreIsOfCore
<1> QED
  BY <1>1, Invariance, PTL

\* The local optimizer returns a model that satisfies what was satisfied
\* before, at a cost that is the model's and no higher than before.
THEOREM OptimizerNeverWorse == Spec => []NeverWorse
<1>1. Inv => NeverWorse
  <2> SUFFICES ASSUME Inv PROVE NeverWorse
    OBVIOUS
  <2>1. pc = "take" => CanGetSolution(s)
    BY DEF Inv, OptimizerInv, CanGetSolution
  <2>2. ASSUME pc = "optimized"
        PROVE  /\ solution \in models /\ start \subseteq solution
               /\ cost = CalculateCostAssign(solution)
               /\ cost <= CalculateCostAssign(start)
    <3>1. /\ solution \in models /\ start \subseteq solution /\ cost = CostOf(weight, solution)
          /\ weight \in [Assumable -> Nat \ {0}]
      BY <2>2 DEF Inv, ClientInv, OptimizerInv
    <3>2. IsFiniteSet(Assumable \ start) /\ Assumable \ solution \in SUBSET (Assumable \ start)
      BY <3>1, ClientAssumption, FS_Difference
    <3>3. \A l \in Assumable \ start : weight[l] \in Nat
      BY <3>1
    <3>4. CostOf(weight, solution) <= CostOf(weight, start)
      BY <3>2, <3>3, SumSubset DEF CostOf
    <3> QED
      BY <3>1, <3>4 DEF CostOf, CalculateCostAssign
  <2> QED
    BY <2>1, <2>2 DEF NeverWorse
<1> QED
  BY <1>1, Invariance, PTL

\* If no call of the local optimizer is given up, no model satisfies more soft
\* literals than the one it returns.
THEOREM OptimizerMaximal == Spec => []MaximalIfAnswered
<1>1. Inv => MaximalIfAnswered
  <2> SUFFICES ASSUME Inv, pc = "optimized", answered, NEW m \in models, solution \subseteq m
               PROVE  m = solution
    BY DEF MaximalIfAnswered
  <2>1. Refused(models, solution, <<>>) /\ m \subseteq Assumable
    BY DEF Inv, OptimizerInv, ClientInv, Model
  <2>2. ASSUME NEW l \in m \ solution PROVE FALSE
    <3>1. Satisfiable(models, solution \cup {l})
      BY DEF Satisfiable, ModelsOf
    <3>2. l \in Assumable \ (solution \cup Range(<<>>))
      BY <2>1 DEF Range
    <3> QED
      BY <2>1, <3>1, <3>2 DEF Refused
  <2> QED
    BY <2>2
<1> QED
  BY <1>1, Invariance, PTL
=============================================================================
