----------------------------- MODULE Totalizer -----------------------------
(***************************************************************************)
(* CardIncremental_Lazy and LazyVariable: an incremental totalizer whose   *)
(* variables and clauses are created on demand.                            *)
(*                                                                         *)
(* The constructor pairs nodes through a FIFO queue, so with n inputs the  *)
(* nodes are 1..2n-1: node i <= n is the leaf of input i, node n+i has the *)
(* children 2i-1 and 2i, and the last node is the root.  A lazy variable   *)
(* is a pair <<node, i>>, i from 0: "more than i inputs below the node are *)
(* true".                                                                  *)
(***************************************************************************)
EXTENDS Integers, FiniteSets, FiniteSetsExt

CONSTANTS MaxLits,   \* bound: the largest number of inputs
          Bound      \* the bound given to the constructor (solve gives 1)

ASSUME TotalizerAssumption == MaxLits \in Nat \ {0} /\ Bound \in Nat

VARIABLES n,         \* nbLit (= _maxVars)
          size,      \* size[m]: number of lazyVars of node m
          impl,      \* impl[x]: the impliquants of lazy variable x, sets of lazy variables
          var,       \* var[x]: what get() returned for x, named by the lazy variable made for it
          clauses    \* the clauses added to the solver: body => head

totVars == <<n, size, impl, var, clauses>>

Min2(a, b) == IF a < b THEN a ELSE b

Nodes(k) == 1 .. (2 * k - 1)

Root == 2 * n - 1

IsLeaf(m) == m <= n

LeftOf(m) == 2 * (m - n) - 1

RightOf(m) == 2 * (m - n)

ParentOf(m) == n + (m + 1) \div 2

\* nof_input of every node.
NofInput(k) ==
    LET nof[m \in Nodes(k)] ==
            IF m <= k THEN 1 ELSE nof[2 * (m - k) - 1] + nof[2 * (m - k)]
    IN  nof

(***************************************************************************)
(* new_ua and increase_ua: the impliquants that output indices last..rhs-1 *)
(* of a node receive from a left child with a outputs and a right one with *)
(* b: i true on the left and j on the right make i+j true.                 *)
(***************************************************************************)
\* Faulty variant: the largest sum is left out.
UAShort(l, r, a, b, last, rhs, i) ==
    {{<<r, j>>} : j \in {x \in last .. (Min2(rhs, b) - 1) : x = i}}
    \cup {{<<l, j>>} : j \in {x \in last .. (Min2(rhs, a) - 1) : x = i}}
    \cup {{<<l, q[1] - 1>>, <<r, q[2] - 1>>} :
            q \in {z \in (1 .. Min2(rhs, a)) \X (1 .. b) :
                     /\ z[2] < rhs - z[1]
                     /\ z[2] >= last - z[1] + 1
                     /\ z[1] + z[2] - 1 = i}}

UA(l, r, a, b, last, rhs, i) ==
    {{<<r, j>>} : j \in {x \in last .. (Min2(rhs, b) - 1) : x = i}}
    \cup {{<<l, j>>} : j \in {x \in last .. (Min2(rhs, a) - 1) : x = i}}
    \cup {{<<l, q[1] - 1>>, <<r, q[2] - 1>>} :
            q \in {z \in (1 .. Min2(rhs, a)) \X (1 .. b) :
                     /\ z[2] <= rhs - z[1]
                     /\ z[2] >= last - z[1] + 1
                     /\ z[1] + z[2] - 1 = i}}

NewUA(l, r, a, b, rhs, i) == UA(l, r, a, b, 0, rhs, i)

Leaves(k) == {<<m, 0>> : m \in 1..k}

LazyVars(k, sz) == {x \in Nodes(k) \X (0 .. (k - 1)) : x[2] < sz[x[1]]}

\* The constructor: a node has min(bound + 1, nof_input) outputs.
Init ==
    /\ n \in 1..MaxLits
    /\ size = [m \in Nodes(n) |-> Min2(Bound + 1, NofInput(n)[m])]
    /\ impl = [x \in LazyVars(n, size) |->
                 IF IsLeaf(x[1]) THEN {}
                 ELSE NewUA(LeftOf(x[1]), RightOf(x[1]), size[LeftOf(x[1])],
                            size[RightOf(x[1])], size[x[1]], x[2])]
    /\ var = [x \in Leaves(n) |-> x]
    /\ clauses = {}

(***************************************************************************)
(* increase(tree, newBound): down from the root, a node that lacks outputs *)
(* first increases its children, then itself.                              *)
(***************************************************************************)
Kmin(m, newBound) == Min2(newBound + 1, NofInput(n)[m])

Increased(newBound) ==
    LET inc[m \in Nodes(n)] ==
            /\ size[m] < Kmin(m, newBound)
            /\ m = Root \/ inc[ParentOf(m)]
    IN  {m \in Nodes(n) : inc[m]}

\* Faulty variant: a node may get more outputs than it has inputs.
NewSizeUncapped(newBound) ==
    LET inc == Increased(newBound)
    IN  [m \in Nodes(n) |-> IF m \in inc THEN newBound + 1 ELSE size[m]]

NewSize(newBound) ==
    LET inc == Increased(newBound)
    IN  [m \in Nodes(n) |-> IF m \in inc THEN Kmin(m, newBound) ELSE size[m]]

NewImpl(sz) ==
    LET inc == {m \in Nodes(n) : sz[m] > size[m]}
    IN  [x \in LazyVars(n, sz) |->
           (IF x \in DOMAIN impl THEN impl[x] ELSE {})
           \cup IF x[1] \in inc
                THEN UA(LeftOf(x[1]), RightOf(x[1]), sz[LeftOf(x[1])], sz[RightOf(x[1])],
                        size[x[1]], sz[x[1]], x[2])
                ELSE {}]

(***************************************************************************)
(* get(): a lazy variable without a solver variable takes the one of its   *)
(* only impliquant, or a new one with a clause per impliquant; the         *)
(* variables of the impliquants are got first.                             *)
(***************************************************************************)
Linked(im, x) == \E y \in DOMAIN im : im[x] = {{y}}

\* The lazy variables get(<<Root, k>>) creates, level by level.
Got(im, k) ==
    LET got[d \in 0..n] ==
            IF d = 0 THEN {<<Root, k>>} \ DOMAIN var
            ELSE LET g == got[d - 1]
                 IN  g \cup ((UNION UNION {im[x] : x \in g}) \ DOMAIN var)
    IN  got[n]

\* The solver variable of x, given the lazy variables just created.
SolverVar(im, new) ==
    LET v[x \in DOMAIN var \cup new] ==
            IF x \in DOMAIN var THEN var[x]
            ELSE IF Linked(im, x) THEN v[CHOOSE y \in DOMAIN im : im[x] = {{y}}]
            ELSE x
    IN  v

\* Faulty variant: impliquants of one literal give no clause.
ClausesOfPairs(im, v, x) ==
    {[body |-> {v[y] : y \in q}, head |-> x] : q \in {z \in im[x] : Cardinality(z) > 1}}

ClausesOf(im, v, x) ==
    IF Linked(im, x) THEN {} ELSE {[body |-> {v[y] : y \in q}, head |-> x] : q \in im[x]}

Get(im, k) ==
    \E new \in {Got(im, k)} :
        /\ var' = SolverVar(im, new)
        /\ clauses' = clauses \cup UNION {ClausesOf(im, var', x) : x \in new}

\* atMost(k) for k < nbLit; for larger k it returns 0 and does nothing.
AtMostGrow(k) ==
    /\ k \in size[Root] .. (n - 1)
    /\ size' = NewSize(k)
    /\ impl' = NewImpl(size')
    /\ Get(impl', k)
    /\ UNCHANGED n

AtMostGet(k) ==
    /\ k \in 0 .. (size[Root] - 1)
    /\ Get(impl, k)
    /\ UNCHANGED <<n, size, impl>>

Next == \E k \in 0..(MaxLits - 1) : AtMostGrow(k) \/ AtMostGet(k)

Spec == Init /\ [][Next]_totVars

-----------------------------------------------------------------------------
TypeOK ==
    /\ n \in 1..MaxLits
    /\ size \in [Nodes(n) -> 1..n]
    /\ \A m \in Nodes(n) : size[m] <= NofInput(n)[m]
    /\ DOMAIN impl = LazyVars(n, size)
    /\ \A x \in DOMAIN impl : impl[x] \subseteq SUBSET DOMAIN impl
    /\ DOMAIN var \subseteq DOMAIN impl
    /\ \A c \in clauses : c.head \in DOMAIN var /\ c.body \subseteq DOMAIN var

\* The solver variables that the clauses force to be true when the inputs X
\* are (and no others are forced to be).
Forced(X) ==
    LET t[m \in Nodes(n)] ==
            IF IsLeaf(m) THEN {<<x, 0>> : x \in X \cap {m}}
            ELSE LET below == t[LeftOf(m)] \cup t[RightOf(m)]
                 IN  below \cup {c.head : c \in {e \in clauses : e.head[1] = m /\ e.body \subseteq below}}
    IN  t[Root]

\* Every output that was ever created, in whatever order the bounds were
\* asked, is forced exactly when more than k inputs are true: atMost(k), its
\* negation, costs nothing while at most k hold and cannot be assumed beyond.
OutputsExact ==
    \A X \in SUBSET (1..n) :
        LET forced == Forced(X) IN
        \A k \in {i \in 0..(size[Root] - 1) : <<Root, i>> \in DOMAIN var} :
            var[<<Root, k>>] \in forced <=> Cardinality(X) > k

\* addImpliquant after get() would be lost: every impliquant of a variable
\* that has been created is a clause of the solver.
ImpliquantsInSolver ==
    \A x \in DOMAIN var : \A q \in impl[x] :
        ~Linked(impl, x) => [body |-> {var[y] : y \in q}, head |-> x] \in clauses
=============================================================================
