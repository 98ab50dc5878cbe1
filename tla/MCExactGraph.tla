--------------------------- MODULE MCExactGraph ---------------------------
(* Small instances of ExactGraph for TLC. *)
EXTENDS ExactGraph

MCPoints == 0..5

SoftUnits(truth, weight) ==
    [Empty EXCEPT
       !.poids = weight,
       !.card  = [v \in DOMAIN weight |-> NoCard],
       !.truth = truth,
       !.map   = [w \in Range(weight) |-> {v \in DOMAIN weight : weight[v] = w}]]

\* Three or four variables exclude each other, or two do not, or one or two
\* can never be true.
Truths ==
    {<<{1}, {2}, {3}, {4}>>, <<{1}, {2}, {3}, {3, 4}>>, <<{}, {2}, {3}, {4}>>,
     <<{1}, {}, {3}, {4}>>, <<{1}, {}, {}, {4}>>, <<{1, 4}, {}, {3}, {4}>>,
     <<{1, 4}, {2}, {3}, {4}>>}

\* Two triangles that share a vertex.
Bowtie == SoftUnits(<<{1, 2}, {3, 4}, {5}, {1, 3}, {2, 4}>>, <<1, 1, 2, 1, 2>>)

MCProblems ==
    {SoftUnits(t, <<1, 2, 1, 3>>) : t \in Truths}
    \cup {SoftUnits(<<{1}, {2}, {3}, {4}>>, w) : w \in {<<1, 1, 1, 1>>, <<2, 1, 2, 1>>}}
    \cup {Bowtie}
=============================================================================
