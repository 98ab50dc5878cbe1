------------------------------ MODULE MaxClique ------------------------------
(***************************************************************************)
(* The branch and bound of class Maxclique (mcqd.h), with which            *)
(* adapt_am1_exact looks for a large set of pairwise incompatible soft     *)
(* literals: mcqdyn, that is _mcq and expand_dyn with a bound on its       *)
(* steps.  Its recursion is a stack of frames, each the vector R of one    *)
(* call, read from its end; a vertex of R has a number and a "degree",     *)
(* which after color_sort is the colour that bounds the cliques in the     *)
(* part of R up to it.                                                     *)
(*                                                                         *)
(* Whether degree_sort is called depends on step counts and a float, and   *)
(* std::sort leaves vertices of one degree in any order: both are free.    *)
(***************************************************************************)
EXTENDS Integers, FiniteSets, SequencesExt

CONSTANTS MaxSteps   \* bounds on the number of steps; 100000 in the code

VARIABLES size,       \* the vertices are 1..size
          conn,       \* the adjacency matrix, as pairs of vertices
          pc,         \* shared with the caller
          maxStep,
          Q, QMAX,    \* the current clique and the best one
          stack,      \* the frames of expand_dyn
          pk          \* steps

graph  == <<size, conn, maxStep>>
search == <<Q, QMAX, stack, pk>>

Connection(v, w) == {v, w} \in conn

\* new Vertex[size] does not initialize the degree.
Uninitialized == -1

Vertex(v, d) == [i |-> v, d |-> d]

End(R) == R[Len(R)]

Pop(R) == SubSeq(R, 1, Len(R) - 1)

\* set_degrees within the vertices of R, then sort in descending order.
Degree(S, v) == Cardinality({w \in S : Connection(v, w)})

DegreeSorted(S) ==
    LET deg == [v \in S |-> Degree(S, v)]
    IN  {o \in SetToSeqs(S) : \A k \in 1..(Len(o) - 1) : deg[o[k]] >= deg[o[k + 1]]}

\* init_colors: the first vertices get colours 1, 2, ..., then one more than
\* the highest degree.
InitColors(o) ==
    LET max == Degree(1..size, o[1])
    IN  [k \in DOMAIN o |-> Vertex(o[k], IF k <= max THEN k ELSE max + 1)]

\* The elements of D in the order of their ranks, 1 to Cardinality(D).
ByRank(D, rank) == [r \in 1..Cardinality(D) |-> CHOOSE x \in D : rank[x] = r]

\* The numbers of the vertices of R, but the last, that are connected to it.
Cut2(R) ==
    LET cut == {k \in 1..(Len(R) - 1) : Connection(End(R).i, R[k].i)}
        at  == ByRank(cut, [k \in cut |-> 1 + Cardinality({j \in cut : j < k})])
    IN  [r \in DOMAIN at |-> R[at[r]].i]

\* Each vertex goes into the first colour class that has no neighbour of it.
Colors(o) ==
    LET color[k \in DOMAIN o] ==
            Min({c \in 1..k : \A j \in 1..(k - 1) : color[j] = c => ~Connection(o[j], o[k])})
    IN  color

\* color_sort: vertices of colours that cannot improve on QMAX stay in front,
\* the last of them marked with degree 0; the others follow by colour.
ColorSortBy(o, color, minK, mark) ==
    LET low  == {k \in DOMAIN o : color[k] < minK}
        rank == [k \in DOMAIN o |->
                   1 + Cardinality({j \in DOMAIN o :
                          IF k \in low THEN j \in low /\ j < k
                          ELSE \/ j \in low
                               \/ color[j] < color[k]
                               \/ color[j] = color[k] /\ j < k})]
        at   == ByRank(DOMAIN o, rank)
    IN  [r \in DOMAIN at |->
           Vertex(o[at[r]], IF at[r] \notin low THEN color[at[r]]
                            ELSE IF r = Cardinality(low) THEN mark ELSE Uninitialized)]

\* Faulty variants: no mark; one colour too many is taken for hopeless.
ColorSortUnmarked(o, q) == ColorSortBy(o, Colors(o), Len(QMAX) - Len(q) + 1, Uninitialized)

ColorSortGreedy(o, q) == ColorSortBy(o, Colors(o), Len(QMAX) - Len(q) + 2, 0)

ColorSort(o, q) == ColorSortBy(o, Colors(o), Len(QMAX) - Len(q) + 1, 0)

SearchIdle ==
    /\ maxStep \in MaxSteps
    /\ Q = <<>> /\ QMAX = <<>>
    /\ stack = <<>>
    /\ pk = 0

\* A new Maxclique object; _mcq: set_degrees, sort, init_colors.
Start ==
    /\ pc = "search" /\ pc' = "expand"
    /\ Q' = <<>> /\ QMAX' = <<>> /\ pk' = 0
    /\ \E o \in DegreeSorted(1..size) : stack' = <<InitColors(o)>>
    /\ UNCHANGED graph

R == End(stack)

\* The loop goes on: R is not empty, there are steps left, and its colour
\* allows a larger clique.
GoesOn == R # <<>> /\ pk <= maxStep /\ Len(Q) + End(R).d > Len(QMAX)

Promising == pc = "expand" /\ stack # <<>> /\ GoesOn

\* The end of R extends the clique, its neighbours are expanded.
Descend ==
    /\ Promising
    /\ Cut2(R) # <<>>
    /\ Q' = Append(Q, End(R).i)
    /\ pk' = pk + 1
    /\ \E o \in {Cut2(R)} \cup DegreeSorted(Range(Cut2(R))) :
         stack' = Append(stack, ColorSort(o, Q'))
    /\ UNCHANGED <<graph, QMAX, pc>>

\* A clique that cannot be extended; the vertex leaves it and R.
Leaf ==
    /\ Promising
    /\ Cut2(R) = <<>>
    /\ QMAX' = IF Len(Q) + 1 > Len(QMAX) THEN Append(Q, End(R).i) ELSE QMAX
    /\ stack' = Append(Pop(stack), Pop(R))
    /\ UNCHANGED <<graph, Q, pk, pc>>

\* Faulty variant: Q keeps the vertex.
ReturnKeeps ==
    /\ pc = "expand" /\ stack # <<>> /\ ~GoesOn
    /\ stack' = LET up == Pop(stack)
                IN  IF up = <<>> THEN up ELSE Append(Pop(up), Pop(End(up)))
    /\ UNCHANGED <<graph, Q, QMAX, pk, pc>>

\* expand_dyn returns; its caller takes the vertex from Q and from its own R.
Return ==
    /\ pc = "expand" /\ stack # <<>> /\ ~GoesOn
    /\ stack' = LET up == Pop(stack)
                IN  IF up = <<>> THEN up ELSE Append(Pop(up), Pop(End(up)))
    /\ Q' = IF Len(stack) = 1 THEN Q ELSE Pop(Q)
    /\ UNCHANGED <<graph, QMAX, pk, pc>>

Finish ==
    /\ pc = "expand" /\ stack = <<>>
    /\ pc' = "found"
    /\ UNCHANGED <<graph, search>>

SearchNext == Start \/ Descend \/ Leaf \/ Return \/ Finish

-----------------------------------------------------------------------------
IsClique(S) == \A v, w \in S : v # w => Connection(v, w)

\* Whenever the search stops, the step bound included, what it has is a clique
\* without repetitions: processAtMostOne takes it for pairwise incompatible.
AlwaysClique ==
    pc \in {"expand", "found"} => \A q \in {Q, QMAX} :
        IsClique(Range(q)) /\ Cardinality(Range(q)) = Len(q)

\* Unless the step bound cut it short, no clique is larger: the colours that
\* color_sort leaves out and the bound the loop stops at lose none.
MaximumIfFinished ==
    pc = "found" /\ pk <= maxStep =>
        \A S \in SUBSET (1..size) : IsClique(S) => Cardinality(S) <= Len(QMAX)

\* The loop never reads a degree that color_sort left uninitialized, and the
\* class after the last colour, which color_sort rewinds, is one of the sz + 1.
MemorySafe ==
    \A k \in DOMAIN stack :
        /\ k = Len(stack) /\ stack[k] # <<>> /\ pk <= maxStep => End(stack[k]).d # Uninitialized
        /\ k > 1 => \A r \in DOMAIN stack[k] : stack[k][r].d + 1 <= size
=============================================================================
