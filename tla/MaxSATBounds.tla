---------------------------- MODULE MaxSATBounds ----------------------------
(***************************************************************************)
(* What one call of EvalMaxSAT::solve promises, without saying how: a      *)
(* search between a lower and an upper bound.  price[p] is the weight of   *)
(* the soft clauses the assignment p falsifies, feas the assignments that  *)
(* satisfy the hard clauses the user gave, live those that also satisfy    *)
(* the clauses the search has added itself.                                *)
(***************************************************************************)
EXTENDS Integers

CONSTANTS Assignments,   \* of the input variables
          Infinity       \* above every price: no solution is known

ASSUME InfinityAssumption == Infinity \in Nat \ {0}

Prices == 0 .. (Infinity - 1)

VARIABLES feas, price,   \* the problem
          live, lb,      \* what is left to search, and a bound on its price
          ub, best,      \* the best assignment known and a bound on its price
          verdict        \* "none" while searching

boundVars == <<feas, price, live, lb, ub, best, verdict>>

BoundInit ==
    /\ feas \in SUBSET Assignments
    /\ price \in [Assignments -> Prices]
    /\ live = feas
    /\ lb \in Prices /\ \A p \in feas : price[p] >= lb
    /\ ub = Infinity
    /\ best \in Assignments
    /\ verdict = "none"

Searching == verdict = "none" /\ UNCHANGED <<feas, price>>

\* A core or a clique is paid for.
Raise ==
    /\ Searching
    /\ lb' \in lb .. Infinity
    /\ \A p \in live : price[p] >= lb'
    /\ UNCHANGED <<live, ub, best, verdict>>

\* A better assignment is found; its price may be overestimated.
Improve ==
    /\ Searching
    /\ best' \in feas /\ ub' \in Prices
    /\ price[best'] <= ub' /\ ub' < ub
    /\ UNCHANGED <<live, lb, verdict>>

\* Faulty variant: assignments that are better by one are cut, too.
CutTooMuch ==
    /\ Searching
    /\ live' \in SUBSET live
    /\ \A p \in live \ live' : price[p] >= ub - 1
    /\ UNCHANGED <<lb, ub, best, verdict>>

\* Assignments that cannot beat the best one are cut away.
Cut ==
    /\ Searching
    /\ live' \in SUBSET live
    /\ \A p \in live \ live' : price[p] >= ub
    /\ UNCHANGED <<lb, ub, best, verdict>>

\* The bounds meet.
FinishBounds ==
    /\ Searching
    /\ ub < Infinity /\ lb >= ub
    /\ verdict' = "optimum"
    /\ UNCHANGED <<live, lb, ub, best>>

\* Faulty variant: the bounds may have met.
FinishSatUnguarded ==
    /\ Searching
    /\ best' \in live /\ price[best'] = lb
    /\ ub' = lb
    /\ verdict' = "optimum"
    /\ UNCHANGED <<live, lb>>

\* An assignment pays exactly the lower bound.  That the bounds have not
\* met is essential: a better assignment may have been cut away.
FinishSat ==
    /\ Searching
    /\ lb < ub
    /\ best' \in live /\ price[best'] = lb
    /\ ub' = lb
    /\ verdict' = "optimum"
    /\ UNCHANGED <<live, lb>>

\* Nothing is left: the best assignment is the answer, if there is one.
FinishEmpty ==
    /\ Searching
    /\ live = {}
    /\ verdict' = IF ub = Infinity THEN "unsat" ELSE "optimum"
    /\ UNCHANGED <<live, lb, ub, best>>

BoundNext == Raise \/ Improve \/ Cut \/ FinishBounds \/ FinishSat \/ FinishEmpty

BoundSpec == BoundInit /\ [][BoundNext]_boundVars

-----------------------------------------------------------------------------
BoundTypeOK ==
    /\ feas \in SUBSET Assignments
    /\ price \in [Assignments -> Prices]
    /\ live \in SUBSET feas
    /\ lb \in 0..Infinity
    /\ ub \in 0..Infinity
    /\ best \in Assignments
    /\ verdict \in {"none", "optimum", "unsat"}

\* The answer of solve() is right: an optimum is feasible, costs what
\* getCost() returns, and nothing feasible is cheaper; "unsat" means that
\* the hard clauses have no solution.
Answer ==
    /\ verdict = "optimum" => /\ best \in feas
                              /\ price[best] = ub
                              /\ \A p \in feas : price[p] >= ub
    /\ verdict = "unsat" => feas = {}

\* What makes Answer inductive.
BoundInv ==
    /\ BoundTypeOK
    /\ Answer
    /\ \A p \in live : price[p] >= lb
    /\ \A p \in feas \ live : price[p] >= ub
    /\ ub < Infinity => best \in feas /\ price[best] <= ub
=============================================================================
