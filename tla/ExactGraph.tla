----------------------------- MODULE ExactGraph -----------------------------
(***************************************************************************)
(* adapt_am1_exact with the data it works on: the vector of soft literals, *)
(* the adjacency matrix conn whose rows are cleared, moved and reused as   *)
(* literals are refuted and replaced, and the flags active.  Module        *)
(* AtMostOne takes the cliques for granted; here they are cliques of the   *)
(* matrix, found by module MaxClique.                                      *)
(*                                                                         *)
(* Unit propagation may find any part of what follows from a literal, but  *)
(* only literals after it on the trail: never one that a unit clause has   *)
(* falsified before.                                                       *)
(***************************************************************************)
EXTENDS Formula, MaxClique

CONSTANT Problems   \* formulas whose soft literals are input variables

ASSUME ProblemsAssumption == \A g \in Problems : UserFormula(g)

VARIABLES f,
          assumption,         \* the literals, size of which count
          active,             \* indices
          i,                  \* the index of the loop at work
          newAssum,           \* the literals that replace the clique
          clause,             \* what processAtMostOne has left of the clique
          units               \* history: the literals refuted by a unit clause

exact == <<f, assumption, active, i, newAssum, clause, units>>
md    == <<search, maxStep>>
vars  == <<exact, size, conn, md, pc>>

\* qmax: what mcqdyn copies its best clique to.
qmax == QMAX

\* The soft literals by weight, then in the order of a std::set<int>.
Assumptions(g) ==
    LET soft == SoftLits(g)
    IN  ByRank(soft, [l \in soft |->
                        1 + Cardinality({m \in soft :
                               \/ Poids(g, m) < Poids(g, l)
                               \/ Poids(g, m) = Poids(g, l) /\ m < l})])

Init ==
    /\ f \in Problems
    /\ assumption = Assumptions(f)
    /\ size = Len(assumption)
    /\ conn = {} /\ active = {} /\ i = 1
    /\ newAssum = <<>> /\ clause = {} /\ units = {}
    /\ SearchIdle
    /\ pc = "link"

\* propagate({l}) may imply the negation of m.
MayExclude(g, l, m) ==
    m # l /\ m \notin units /\ Models(g, {l, m}) = {}

\* The edges a set of indices is cut off from.
Without(I) == {e \in conn : e \cap I = {}}

(***************************************************************************)
(* The first loop: propagate every literal, refute or link it.             *)
(***************************************************************************)
\* Faulty variant: the row of the refuted literal is kept for the one that
\* takes its place.
RefuteKeepsRow ==
    /\ pc = "link" /\ i <= size
    /\ ~Sat(f, {assumption[i]})
    /\ f' = HardUnit(f, -assumption[i])
    /\ units' = units \cup {assumption[i]}
    /\ assumption' = [k \in 1..(size - 1) |-> IF k = i THEN assumption[size] ELSE assumption[k]]
    /\ size' = size - 1
    /\ UNCHANGED <<conn, active, i, md, newAssum, clause, pc>>

\* The last literal takes the place of the refuted one, and is propagated next.
Refute ==
    /\ pc = "link" /\ i <= size
    /\ ~Sat(f, {assumption[i]})
    /\ f' = HardUnit(f, -assumption[i])
    /\ units' = units \cup {assumption[i]}
    /\ assumption' = [k \in 1..(size - 1) |-> IF k = i THEN assumption[size] ELSE assumption[k]]
    /\ conn' = Without({i})
    /\ size' = size - 1
    /\ UNCHANGED <<active, i, md, newAssum, clause, pc>>

\* Faulty variant: the index of the loop, which its body steps, is not stepped.
LinkStays ==
    /\ pc = "link" /\ i <= size
    /\ \E J \in SUBSET {j \in 1..size : MayExclude(f, assumption[i], assumption[j])} :
         conn' = conn \cup {{i, j} : j \in J}
    /\ UNCHANGED <<f, assumption, size, active, i, md, newAssum, clause, units, pc>>

Link ==
    /\ pc = "link" /\ i <= size
    /\ \E J \in SUBSET {j \in 1..size : MayExclude(f, assumption[i], assumption[j])} :
         conn' = conn \cup {{i, j} : j \in J}
    /\ i' = i + 1
    /\ UNCHANGED <<f, assumption, size, active, md, newAssum, clause, units, pc>>

LinkEnd ==
    /\ pc = "link" /\ i > size
    /\ active' = 1..size
    /\ pc' = IF size = 0 THEN "done" ELSE "search"
    /\ UNCHANGED <<f, assumption, size, conn, i, md, newAssum, clause, units>>

(***************************************************************************)
(* The second loop: cliques of the matrix.                                 *)
(***************************************************************************)
\* The clique search works on the matrix as it is.
FindClique == SearchNext /\ UNCHANGED exact

\* Its steps are local to the Maxclique object.
Forget == pk' = 0 /\ UNCHANGED <<Q, QMAX, stack, maxStep, size>>

Clique ==
    /\ pc = "found" /\ Len(qmax) > 2
    /\ clause' = {assumption[k] : k \in Range(qmax)}
    /\ active' = active \ Range(qmax)
    /\ conn' = Without(Range(qmax))
    /\ newAssum' = <<>> /\ pc' = "reduce"
    /\ Forget
    /\ UNCHANGED <<f, assumption, i, units>>

\* Two literals or fewer end it.
NoClique ==
    /\ pc = "found" /\ Len(qmax) <= 2
    /\ pc' = "done"
    /\ Forget
    /\ UNCHANGED <<exact, conn>>

(***************************************************************************)
(* processAtMostOne(clause): the least weight is taken from all literals   *)
(* and put on a soft clause of them, until one literal or none is left.    *)
(***************************************************************************)
\* Faulty variant: literals whose weight is spent stay in the clause.
ReduceKeeps ==
    /\ pc = "reduce" /\ Cardinality(clause) > 1
    /\ LET w == Min({Poids(f, l) : l \in clause})
           g == [Reweigh(f, clause, w) EXCEPT !.cost = Wrap(@ + w * (Cardinality(clause) - 1))]
       IN  f' = SoftClause(g, clause, w)
    /\ newAssum' = Append(newAssum, Len(f.poids) + 1)
    /\ UNCHANGED <<assumption, size, conn, active, i, md, clause, units, pc>>

Reduce ==
    /\ pc = "reduce" /\ Cardinality(clause) > 1
    /\ LET w == Min({Poids(f, l) : l \in clause})
           g == [Reweigh(f, clause, w) EXCEPT !.cost = Wrap(@ + w * (Cardinality(clause) - 1))]
       IN  /\ f' = SoftClause(g, clause, w)
           /\ clause' = {l \in clause : Poids(g, l) > 0}
    /\ newAssum' = Append(newAssum, Len(f.poids) + 1)
    /\ UNCHANGED <<assumption, size, conn, active, i, md, units, pc>>

ReduceEnd ==
    /\ pc = "reduce" /\ Cardinality(clause) <= 1
    /\ newAssum' = newAssum \o SetToSeq(clause)
    /\ clause' = {}
    /\ i' = 1 /\ pc' = "place"
    /\ UNCHANGED <<f, assumption, size, conn, active, md, units>>

(***************************************************************************)
(* A new literal takes a place of the clique.                              *)
(***************************************************************************)
Place ==
    /\ pc = "place" /\ i <= Len(newAssum)
    /\ assumption' = [assumption EXCEPT ![qmax[i]] = newAssum[i]]
    /\ active' = active \cup {qmax[i]}
    /\ i' = i + 1
    /\ UNCHANGED <<size, md, newAssum, clause, pc>>

PlaceLinked ==
    /\ Place
    /\ \E K \in SUBSET {k \in active' : MayExclude(f, newAssum[i], assumption'[k])} :
         conn' = conn \cup {{qmax[i], k} : k \in K}
    /\ UNCHANGED <<f, units>>

\* A refuted one stays active.
PlaceRefuted ==
    /\ Place
    /\ ~Sat(f, {newAssum[i]})
    /\ f' = HardUnit(f, -newAssum[i])
    /\ units' = units \cup {newAssum[i]}
    /\ UNCHANGED conn

PlaceEnd ==
    /\ pc = "place" /\ i > Len(newAssum)
    /\ pc' = "search" /\ newAssum' = <<>>
    /\ UNCHANGED <<f, assumption, size, conn, active, i, md, clause, units>>

Done == pc = "done" /\ UNCHANGED vars

Next ==
    \/ Refute \/ Link \/ LinkEnd \/ FindClique \/ Clique \/ NoClique
    \/ Reduce \/ ReduceEnd
    \/ PlaceLinked \/ PlaceRefuted \/ PlaceEnd \/ Done

Spec == Init /\ [][Next]_vars

FairSpec == Spec /\ WF_vars(Next)

-----------------------------------------------------------------------------
\* The assert of processAtMostOne: whatever was cleared, moved and reused, an
\* edge of the matrix joins two literals that cannot both be true. assert(w > 0):
\* both are soft, so that a clique has a weight to take; the refuted ones that
\* stay in the vector are not joined.
EdgesAreConflicts ==
    \A e \in conn : e \subseteq 1..size =>
        /\ \A j, k \in e : j # k => Models(f, {assumption[j], assumption[k]}) = {}
        /\ \A j \in e : Poids(f, assumption[j]) > 0

\* assert(qsize >= newAssum.size()): there is a place for every new literal,
\* and the literals of the vector that count are different.
PlacesSuffice ==
    /\ Len(newAssum) <= Len(qmax)
    /\ \A j, k \in active : j # k => assumption[j] # assumption[k]

\* Rewriting cliques ends, although it makes new soft literals.
ExactEnds == <>(pc = "done")
=============================================================================
