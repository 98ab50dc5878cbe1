----------------------------- MODULE AtMostOne -----------------------------
(***************************************************************************)
(* The "at most one" rewriting of class EvalMaxSAT: soft literals that are *)
(* pairwise incompatible are merged by processAtMostOne, which three       *)
(* drivers call: adapt_am1_exact, adapt_am1_FastHeuristicV7 and            *)
(* adapt_am1_VeryFastHeuristic.                                            *)
(*                                                                         *)
(* Unit propagation and the clique search are incomplete in the code:      *)
(* propagate may miss an implied literal and the search may stop early.    *)
(* They are oracles here: any sound answer may come.                       *)
(***************************************************************************)
EXTENDS Formula

VARIABLES f,    \* the formula
          am    \* the locals of the driver and of processAtMostOne

AmIdle ==
    [pc |-> "idle", by |-> "none", var |-> 0, todo |-> {}, active |-> {},
     clause |-> {}, saved |-> {}, w |-> 0, zeros |-> {}, newAssum |-> {}, found |-> FALSE]

Incompatible(a, b) == ~Sat(f, {a, b})

IsClique(C) == \A a, b \in C : a # b => Incompatible(a, b)

\* What propagate({l}) can say about the other soft literals, at most.
Excludes(l) == {m \in SoftLits(f) \ {l} : Incompatible(l, m)}

StartExact(g) == [AmIdle EXCEPT !.pc = "test", !.by = "exact", !.todo = InitAssum(g, 1)]

StartScan(by) == [AmIdle EXCEPT !.pc = "scan", !.by = by, !.var = 1]

StartClique(a, C) == [a EXCEPT !.pc = "reduce", !.clause = C, !.newAssum = {}]

(***************************************************************************)
(* adapt_am1_exact: literals are probed one by one, an impossible one is   *)
(* refuted; then cliques of at least three are merged, and the literals    *)
(* that come out of a merge are probed in turn.                            *)
(***************************************************************************)
ExactRefute ==
    /\ am.pc = "test"
    /\ \E l \in am.todo :
         /\ ~Sat(f, {l})
         /\ f' = HardUnit(f, -l)
         /\ am' = [am EXCEPT !.todo = @ \ {l}]

ExactKeep ==
    /\ am.pc = "test"
    /\ \E l \in am.todo : am' = [am EXCEPT !.todo = @ \ {l}, !.active = @ \cup {l}]
    /\ UNCHANGED f

ExactClique ==
    /\ am.pc = "test" /\ am.todo = {}
    /\ \E C \in SUBSET am.active :
         /\ Cardinality(C) > 2
         /\ IsClique(C)
         /\ am' = StartClique([am EXCEPT !.active = @ \ C], C)
    /\ UNCHANGED f

ExactStop ==
    /\ am.pc = "test" /\ am.todo = {}
    /\ am' = StartScan("fast")
    /\ UNCHANGED f

(***************************************************************************)
(* The two heuristics scan the variables, new ones included.               *)
(***************************************************************************)
ScanVars == {v \in Vars(f) : v >= am.var /\ f.poids[v] # 0}

ScanVar == Min(ScanVars)

ScanLit == IF f.poids[ScanVar] > 0 THEN ScanVar ELSE -ScanVar

ScanNext(a, v) == [a EXCEPT !.pc = "scan", !.var = v + 1, !.todo = {}]

ScanDone ==
    /\ am.pc = "scan" /\ ScanVars = {}
    /\ am' = [AmIdle EXCEPT !.found = am.by = "veryFast" /\ am.found]
    /\ UNCHANGED f

ScanRefute ==
    /\ am.pc = "scan" /\ ScanVars # {}
    /\ ~Sat(f, {ScanLit})
    /\ f' = HardUnit(f, -ScanLit)
    /\ am' = ScanNext([am EXCEPT !.found = TRUE], ScanVar)

ScanNothing ==
    /\ am.pc = "scan" /\ ScanVars # {}
    /\ am' = ScanNext(am, ScanVar)
    /\ UNCHANGED f

\* reduceCliqueV2 leaves some clique among the excluded literals.
FastClique ==
    /\ am.pc = "scan" /\ am.by = "fast" /\ ScanVars # {}
    /\ \E C \in (SUBSET Excludes(ScanLit)) \ {{}} :
         /\ IsClique(C)
         /\ am' = StartClique([am EXCEPT !.var = ScanVar, !.found = TRUE], C \cup {ScanLit})
    /\ UNCHANGED f

VeryFastProp ==
    /\ am.pc = "scan" /\ am.by = "veryFast" /\ ScanVars # {}
    /\ \E P \in (SUBSET Excludes(ScanLit)) \ {{}} :
         am' = [am EXCEPT !.pc = "pair", !.var = ScanVar, !.todo = P]
    /\ UNCHANGED f

\* The next propagated literal: skipped when it is no longer soft.
VeryFastPair ==
    /\ am.pc = "pair"
    /\ \E l \in am.todo :
         LET a == [am EXCEPT !.todo = @ \ {l}] IN
         am' = IF Poids(f, l) > 0
               THEN StartClique([a EXCEPT !.found = TRUE], {l, ScanLit})
               ELSE IF a.todo = {} THEN ScanNext(a, am.var) ELSE a
    /\ UNCHANGED f

(***************************************************************************)
(* processAtMostOne(clause).                                               *)
(***************************************************************************)
MinPoids(C) == Min({Poids(f, l) : l \in C})

\* One round of its loop: the least weight is taken from every literal.
\* Only the literals of a cardinality have something to relax.
AmoReduce ==
    /\ am.pc = "reduce"
    /\ LET w    == MinPoids(am.clause)
           zero == {l \in am.clause : Poids(f, l) = w}
       IN  /\ f' = Reweigh(f, am.clause, w)
           /\ am' = [am EXCEPT !.pc = "relax", !.saved = am.clause, !.w = w,
                               !.clause = @ \ zero,
                               !.zeros = {l \in zero : f.card[Var(l)] # NoCard}]

AmoRelax ==
    /\ am.pc = "relax"
    /\ \E l \in am.zeros :
         /\ f' = Relax(f, l)
         /\ am' = [am EXCEPT !.zeros = @ \ {l}]

\* What the caller does with the literals processAtMostOne returns.
Resume(g, a, newAssum) ==
    CASE a.by = "exact" -> [a EXCEPT !.pc = "test", !.todo = newAssum]
      [] a.by = "veryFast" /\ a.todo # {} /\ g.poids[a.var] # 0 -> [a EXCEPT !.pc = "pair"]
      [] OTHER -> ScanNext(a, a.var)

\* cost is paid for all literals but one, and the clause becomes soft.
AmoSoft ==
    /\ am.pc = "relax" /\ am.zeros = {}
    /\ LET g    == [f EXCEPT !.cost = Wrap(@ + am.w * (Cardinality(am.saved) - 1))]
           new  == am.newAssum \cup {Len(f.poids) + 1}
           a    == [am EXCEPT !.saved = {}, !.w = 0, !.clause = {}, !.newAssum = {}]
       IN  /\ f' = SoftClause(g, am.saved, am.w)
           /\ am' = IF Cardinality(am.clause) > 1
                    THEN [am EXCEPT !.pc = "reduce", !.newAssum = new]
                    ELSE Resume(f', a, new \cup am.clause)

AmNext ==
    \/ ExactRefute \/ ExactKeep \/ ExactClique \/ ExactStop
    \/ ScanDone \/ ScanRefute \/ ScanNothing \/ FastClique
    \/ VeryFastProp \/ VeryFastPair
    \/ AmoReduce \/ AmoRelax \/ AmoSoft
=============================================================================
