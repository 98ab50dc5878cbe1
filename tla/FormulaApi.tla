---------------------------- MODULE FormulaApi ----------------------------
(***************************************************************************)
(* Building a formula through the public interface of class EvalMaxSAT:    *)
(* newVar, newSoftVar, addClause (hard or soft, of any size and sign) and  *)
(* addWeight, weight 0 included.  addWeight may be called at any time and  *)
(* makes the variables it misses; the clauses come after the variables.    *)
(* The history variables say what the user asked for: want[p] is the sum   *)
(* of the weights of the soft clauses that the assignment p falsifies,     *)
(* feas the assignments allowed, zeros the literals asked to weigh 0.      *)
(*                                                                         *)
(* A negative weight cannot be kept as it is: the code turns it into a     *)
(* positive weight on the opposite, which differs by a constant the code   *)
(* does not record (TODO Offset_Cost); the history variable offset does.   *)
(***************************************************************************)
EXTENDS Formula

CONSTANTS NInputs,    \* number of variables the user will create
          Weights,    \* weights of soft clauses and of addWeight, of any sign
          VarWeights, \* weights given to newSoftVar
          MaxOps,     \* bound: number of calls of addClause and addWeight
          NegativeClauses   \* whether clauses of several literals may be negative

\* t_weight can hold what all calls together ask for.
ASSUME ApiWeightsAssumption ==
    /\ NInputs \in Nat /\ MaxOps \in Nat
    /\ \A w \in Weights \cup VarWeights :
         (NInputs + MaxOps) * (IF w < 0 THEN -w ELSE w) < MaxWeight

VARIABLES f, inputs, ops, want, feas, offset, zeros

apiVars == <<f, inputs, ops, want, feas, offset, zeros>>

Init ==
    /\ f = Empty
    /\ inputs = 0
    /\ ops = 0
    /\ want = [p \in Points |-> 0]
    /\ feas = Points
    /\ offset = 0
    /\ zeros = {}

\* The user's variables are 1..inputs; the points at which the next one is true.
NextTruth == {p \in Points : inputs + 1 \in p}

LitsUpTo(n) == 1..n \cup {-v : v \in 1..n}

InputLits == LitsUpTo(inputs)

\* The user's account of a soft clause that is falsified outside of T.
Charge(T, w) ==
    /\ want' = [p \in Points |-> want[p] + IF p \in T THEN 0 ELSE w]
    /\ offset' = offset + IF w < 0 THEN w ELSE 0

CallNewVar ==
    /\ inputs < NInputs
    /\ f' = NewVar(f, NextTruth)
    /\ inputs' = inputs + 1
    /\ UNCHANGED <<ops, want, feas, offset, zeros>>

\* newSoftVar(value, weight): a variable and the soft unit clause on it.
CallNewSoftVar ==
    /\ inputs < NInputs
    /\ \E value \in BOOLEAN, w \in VarWeights :
         /\ f' = NewSoftVar(f, value, w, NextTruth)
         /\ Charge(IF value THEN NextTruth ELSE Points \ NextTruth, w)
         /\ zeros' = IF w = 0 THEN zeros \cup {IF value THEN inputs + 1 ELSE -(inputs + 1)} ELSE zeros
    /\ inputs' = inputs + 1
    /\ UNCHANGED <<ops, feas>>

\* addWeight(lit, w), on a variable there is or one still to be made.
CallAddWeight ==
    /\ ops < MaxOps
    /\ \E lit \in LitsUpTo(NInputs), w \in Weights :
         /\ f' = AddWeight(f, lit, w)
         /\ Charge(True(NewVars(f, Var(lit)), lit), w)
         /\ zeros' = IF w = 0 THEN zeros \cup {lit} ELSE zeros
         /\ inputs' = Max({inputs, Var(lit)})
    /\ ops' = ops + 1
    /\ UNCHANGED feas

Operation == inputs = NInputs /\ ops < MaxOps /\ ops' = ops + 1

\* addClause(clause) of a hard clause; a unit may meet a soft literal.
CallAddHard ==
    /\ Operation
    /\ \E C \in SUBSET InputLits :
         /\ C # {}
         /\ f' = AddHardClause(f, C)
         /\ feas' = feas \cap UNION {True(f, l) : l \in C}
    /\ UNCHANGED <<inputs, want, offset, zeros>>

\* addClause(clause, w).
CallAddSoft ==
    /\ Operation
    /\ \E C \in SUBSET InputLits, w \in Weights :
         /\ C = {} => w > 0
         /\ Cardinality(C) > 1 /\ w < 0 => NegativeClauses
         /\ f' = AddSoft(f, C, w)
         /\ Charge(UNION {True(f, l) : l \in C}, w)
    /\ UNCHANGED <<inputs, feas, zeros>>

Done == inputs = NInputs /\ ops = MaxOps /\ UNCHANGED apiVars

Next ==
    CallNewVar \/ CallNewSoftVar \/ CallAddWeight \/ CallAddHard \/ CallAddSoft \/ Done

Spec == Init /\ [][Next]_apiVars

-----------------------------------------------------------------------------
\* The formula built is the one asked for: the feasible assignments are the
\* same, and at each of them the cost the formula gives (what is already
\* paid plus the falsified soft literals) is the user's, up to the constant
\* of the negative weights.  Weights that meet on one variable from both
\* sides, and hard units on soft literals, must cancel correctly.
MeansWhatWasAsked ==
    /\ f.live = feas
    /\ \A p \in feas : want[p] = CostOf(f, p) + offset

\* _mapWeight2Assum holds exactly the soft literals, each under its weight,
\* after any sequence of calls.  What stays under the key 0 is no part of it:
\* a literal that was given weight 0 remains there when it gets another weight.
ApiIndexOK == Indexed(f.poids, [k \in DOMAIN f.map \ {0} |-> f.map[k]])

\* "les modification de la formule apportant des modification de poids
\* affecterons seulement Offset_Cost (clause de poids negatif, ...)": a clause
\* of negative weight changes the costs by a constant only.
NegativeWeightIsOffset == \A p \in feas : want[p] = CostOf(f, p) + offset

\* assert(w != 0) of adapt_am1_exact, for every key of the map, fails only for
\* what the user brought about: the key 0 is never left empty, and under it are
\* only literals that newSoftVar or addWeight was called with at weight 0.
\* Weights that cancel, hard units and addClause of weight 0 do not make it.
ZeroKeyIsAsked == 0 \in DOMAIN f.map => f.map[0] # {} /\ f.map[0] \subseteq zeros
=============================================================================
