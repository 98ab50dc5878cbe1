--------------------------- MODULE MCSolverCalls ---------------------------
(* A small instance of SolverCalls for TLC. *)
EXTENDS SolverCalls

MCAssumable == {1, -2, 3, 4}

\* Clauses given by the smallest sets of assumptions they exclude: one core
\* (the empty one if the hard clauses are unsatisfiable), or two, disjoint or
\* overlapping, with light and with heavy literals in common.
OneCore == {{C} : C \in {{}, {4}, {-2, 3}, {1, 3, 4}, {1, -2, 3, 4}}}

TwoCores == {{{1, -2}, {3, 4}}, {{1, 4}, {-2, 3}}, {{1, -2}, {-2, 3, 4}}, {{1, -2, 4}, {3, 4}},
             {{1, -2, 3}, {-2, 3, 4}}}

ModelsWithout(cores) == {m \in Model : \A C \in cores : ~(C \subseteq m)}

\* Meanings that are not closed under falsifying literals, too.
Tied == {{m \in Model : Cardinality(m) \in {1, 3}}, {{1}, {-2, 3}, {-2, 3, 4}},
         {m \in Model : (1 \in m) = (4 \in m)}}

\* Heavier literals come first: any other order is a renaming.
TwoWeights == [l \in Assumable |-> IF Abs(l) <= 2 THEN 2 ELSE 1]

ThreeWeights == [l \in Assumable |-> IF l = 1 THEN 3 ELSE IF Abs(l) <= 3 THEN 2 ELSE 1]

MCProblems ==
    {[models |-> ModelsWithout(c), weight |-> TwoWeights] : c \in OneCore \cup TwoCores}
    \cup {[models |-> ModelsWithout(c), weight |-> ThreeWeights] : c \in TwoCores}
    \cup {[models |-> M, weight |-> TwoWeights] : M \in Tied}

MCAsked == {{}, {1, 3}, {-2, 4}, MCAssumable}

\* One more core, and a clause that needs one of two literals.
MCClauses == {<<{}, {3, 4}>>, <<{1, -2}, {}>>}

\* Expired already (which CaDiCaL takes for no limit), and expiring at once.
MCTimes == {-1, 0}
=============================================================================
