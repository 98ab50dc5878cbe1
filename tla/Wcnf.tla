------------------------------- MODULE Wcnf -------------------------------
(***************************************************************************)
(* The WCNF files EvalMaxSAT reads, and calculateCost (utile.h), which     *)
(* reads the file again to price an assignment.  A file is a sequence of   *)
(* lines, comments left out:                                               *)
(*                                                                         *)
(*   top     "p wcnf <vars> <clauses> <weight>" of the old format          *)
(*   clause  a weight (h is the number MaxWeight) and its literals         *)
(*   bad     a line that begins with p and is not the one above            *)
(*   junk    what no number can be read from: the program exits with 3     *)
(*                                                                         *)
(* An assignment is a std::vector<bool> without its element 0: a sequence. *)
(***************************************************************************)
EXTENDS Formula

TopLine(w) == [kind |-> "top", weight |-> w, lits |-> <<>>]

ClauseLine(w, lits) == [kind |-> "clause", weight |-> w, lits |-> lits]

BadLine == [kind |-> "bad", weight |-> 0, lits |-> <<>>]

JunkLine == [kind |-> "junk", weight |-> 0, lits |-> <<>>]

\* Digits accumulate in an unsigned long long.
ParseWeight(n) == Wrap(n)

\* The clauses of weight TopAt (weightForHardClause) or more are hard.
TopAt(file, i) ==
    LET tops == {j \in 1..(i - 1) : file[j].kind = "top"}
    IN  IF tops = {} THEN MaxWeight ELSE ParseWeight(file[Max(tops)].weight)

ClausesOf(file) == {i \in DOMAIN file : file[i].kind = "clause"}

HardOf(file) == {i \in ClausesOf(file) : ParseWeight(file[i].weight) >= TopAt(file, i)}

SoftOf(file) == ClausesOf(file) \ HardOf(file)

WeightsOf(file) == [i \in DOMAIN file |-> ParseWeight(file[i].weight)]

(***************************************************************************)
(* calculateCost.                                                          *)
(***************************************************************************)
\* A variable beyond the vector extends it with false.
Resized(vec, n) == [v \in 1..n |-> v \in DOMAIN vec /\ vec[v]]

TrueIn(vec, l) == (Var(l) \in DOMAIN vec /\ vec[Var(l)]) = (l > 0)

\* The literals of a clause are looked at up to the first that is true.
LookedAt(vec, lits) ==
    {Var(lits[k]) : k \in {k \in DOMAIN lits : \A j \in 1..(k - 1) : ~TrueIn(vec, lits[j])}}

Unsatisfied(vec, lits) == \A k \in DOMAIN lits : ~TrueIn(vec, lits[k])

\* Lines are read up to the first unreadable one or falsified hard clause.
\* The vector is the caller's: the extension stays.
CalculateCost(file, vec) ==
    LET stops == {i \in DOMAIN file : \/ file[i].kind \in {"bad", "junk"}
                                      \/ i \in HardOf(file) /\ Unsatisfied(vec, file[i].lits)}
        last  == IF stops = {} THEN Len(file) ELSE Min(stops)
        seen  == ClausesOf(file) \cap 1..last
        how   == IF stops = {} THEN "end" ELSE file[last].kind
        soft  == {i \in seen \cap SoftOf(file) : Unsatisfied(vec, file[i].lits)}
    IN  [exits |-> how = "junk",
         cost  |-> CASE how = "end"    -> Wrap(SumFunctionOnSet(WeightsOf(file), soft))
                     [] how = "clause" -> MaxWeight
                     [] OTHER          -> 0,
         vec   |-> Resized(vec, Max({Len(vec)} \cup UNION {LookedAt(vec, file[i].lits) : i \in seen}))]

(***************************************************************************)
(* What a file means: the reference for the two functions that read it.    *)
(***************************************************************************)
\* p is the set of the variables that are true.
Holds(p, lits) == \E k \in DOMAIN lits : (Var(lits[k]) \in p) = (lits[k] > 0)

Allowed(file, p) == \A i \in HardOf(file) : Holds(p, file[i].lits)

PriceOf(file, p) ==
    SumFunctionOnSet(WeightsOf(file), {i \in SoftOf(file) : ~Holds(p, file[i].lits)})

WellFormed(file) == \A i \in DOMAIN file : file[i].kind \in {"top", "clause"}

\* The set of the true variables of a vector, and back.
PointOf(vec) == {v \in DOMAIN vec : vec[v]}

VecOf(p, n) == [v \in 1..n |-> v \in p]
=============================================================================
