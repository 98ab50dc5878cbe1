---------------------------- MODULE MCEvalMaxSAT ----------------------------
(* Small instances of EvalMaxSAT for TLC. *)
EXTENDS EvalMaxSAT

CONSTANTS N   \* number of input variables

MCPoints == SUBSET (1..N)

Holds(p, l) == IF l > 0 THEN l \in p ELSE -l \notin p

\* The formula with these weights whose hard clauses are those of the set.
Given(poids, clauses) ==
    LET w(v) == IF poids[v] < 0 THEN -poids[v] ELSE poids[v]
        lit(v) == IF poids[v] < 0 THEN -v ELSE v
        soft == {v \in DOMAIN poids : poids[v] # 0}
    IN  [poids |-> poids,
         map   |-> [k \in {w(v) : v \in soft} |-> {lit(v) : v \in {x \in soft : w(x) = k}}],
         cost  |-> 0,
         card  |-> [v \in DOMAIN poids |-> NoCard],
         cards |-> <<>>,
         truth |-> [v \in DOMAIN poids |-> {p \in MCPoints : v \in p}],
         live  |-> {p \in MCPoints : \A C \in clauses : \E l \in C : Holds(p, l)}]

\* Hard clauses that let at most k of the literals be true.
AtMostK(k, lits) == {{-l : l \in S} : S \in kSubset(k + 1, lits)}

\* Unweighted: every soft literal in the one stratum.
Unweighted ==
    {Given(<<1, 1, 1, 1>>, c) :
        c \in {AtMostK(1, 1..4), {{-1, -2, -3}, {-2, -3, -4}}, {{-1, 2}, {1, -2}, {-1, -2}, {-3, -4}},
               {{1}, {-1}}}}
    \cup {Given(<<0, 0, 0, 0>>, c) : c \in {{{1, 2}}, {{1}, {-1}}}}

\* Weighted: several strata, mixed polarities, hardening.
Weighted ==
    {Given(<<1, 2, 2, 4>>, c) : c \in {AtMostK(1, 1..3) \cup {{-4, 1}},
                                       {{-1, -2}, {-3, -4}, {2, -3}, {-1, -4}}}}
    \cup {Given(w, {{-1, 2, -3}, {-1, -4}, {-3, -4}}) : w \in {<<3, -1, 2, 5>>, <<1, -2, 2, 4>>}}
    \cup {Given(<<1, 2, 3, 3>>, {{-2}, {-1, -3, -4}, {4, -3}, {-2, -3}}),
          Given(<<5, 2, 4, 1>>, {{4, -1}, {-3, -4}, {-1, -2}, {-4, -1}}),
          Given(<<1, 5, 3, 4>>, {{-4, -3}, {-4, -2}, {4, 3}}),
          Given(<<3, 4, -2, 3>>, {{-2, -4, -1}, {3, -1}, {2, 3}, {-2, 3}}),
          Given(<<2, -1, 1, 4>>, {{2, -4, 1}, {-4, 2}, {2, -1, -3}, {-3, -4}, {-1, -4}}),
          Given(<<2, 1, 4, 1>>, {{-1, -2, -3}, {-3, -4}}),
          Given(<<1, 2, 1, 3>>, {{-1, -2, -4}, {-3}}),
          Given(<<2, 1, 1, 2>>, AtMostK(2, 1..4))}

\* Three variables, for the temporal properties.
Small ==
    {Given(<<1, 1, 1>>, c) : c \in {AtMostK(1, 1..3), AtMostK(2, 1..3), {}, {{1}, {-1}}}}
    \cup {Given(<<2, -1, 4>>, AtMostK(1, {1, -2, 3})),
          Given(<<3, 2, 2>>, {{-1, -2, -3}, {-1}, {2, 3}}),
          Given(<<3, 2, 2>>, AtMostK(1, 1..3)),
          Given(<<1, 2, 3>>, {{-1, -2, -3}, {-3, 1}}),
          Given(<<0, 0, 0>>, {{1, 2}}), Given(<<0, 0, 0>>, {{1}, {-1}})}

\* The second call of a session.
Session == {Given(<<1, 1, 1>>, AtMostK(1, 1..3)), Given(<<2, 1, 1>>, AtMostK(1, 1..3)),
            Given(<<1, 1, 0>>, {{-1, -2}, {-2, -3}})}

SoftUnits == {[lit |-> 3, w |-> 1], [lit |-> -1, w |-> 1], [lit |-> 2, w |-> -2]}

HardClauses == {{-1}, {2, 3}}

OneCallOptions == [delay : BOOLEAN, ub : BOOLEAN, incremental : {FALSE}, calls : {1}]

TwoCallOptions == [delay : BOOLEAN, ub : BOOLEAN, incremental : {FALSE}, calls : {2}]

SessionOptions == [delay : BOOLEAN, ub : BOOLEAN, incremental : {TRUE}, calls : {2}]

AllOptions == OneCallOptions \cup SessionOptions

SessionUBOptions == {o \in SessionOptions : o.ub}

AllInstances == Unweighted \cup Weighted \cup Session

\* Incremental mode is for the formulas of a session.
MCInit == Init /\ opt.incremental = (f \in Session)

MCSpec == MCInit /\ [][Next]_vars
=============================================================================
