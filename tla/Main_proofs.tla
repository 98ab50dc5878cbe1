---------------------------- MODULE Main_proofs ----------------------------
(***************************************************************************)
(* What solve() promises (MaxSATBounds), and that the program around it    *)
(* keeps the promise to its user: whatever file is read, whatever solve()  *)
(* finds and wherever a signal falls, what is printed is true of the file. *)
(*                                                                         *)
(* The first part is about the search between two bounds, for every set of *)
(* assignments, every price and every number of steps.  The second part is *)
(* about parse and calculateCost, which read the same file: a formula that *)
(* means what the file says, and the price of an assignment.  The third    *)
(* part is about main, solveFile and signalHandler.                        *)
(***************************************************************************)
EXTENDS Main, Formula_proofs, MaxSATBounds


\* The invariant holds at the start: nothing is cut, no solution is known.
LEMMA BoundInitInv == BoundInit => BoundInv
  BY InfinityAssumption DEF BoundInit, BoundInv, BoundTypeOK, Answer, Prices

\* Every step of the search keeps the invariant.
LEMMA BoundNextInv == BoundInv /\ [BoundNext]_boundVars => BoundInv'
<1> SUFFICES ASSUME BoundInv, [BoundNext]_boundVars
             PROVE  BoundInv'
    OBVIOUS
<1> USE InfinityAssumption DEF BoundInv, BoundTypeOK, Answer, Prices, Searching
<1>1. CASE Raise
      BY <1>1 DEF Raise
<1>2. CASE Improve
      BY <1>2 DEF Improve
<1>3. CASE Cut
      BY <1>3 DEF Cut
<1>4. CASE FinishBounds
  <2>1. verdict' = "optimum" /\ best' = best /\ ub' = ub /\ feas' = feas /\ price' = price
        BY <1>4 DEF FinishBounds
  \* Live assignments cost lb or more, the others ub or more, and lb >= ub.
  <2>2. \A p \in feas : price[p] >= ub
        BY <1>4 DEF FinishBounds
  <2>3. price[best] = ub
        BY <1>4, <2>2 DEF FinishBounds
  <2> QED
        BY <1>4, <2>1, <2>2, <2>3 DEF FinishBounds
<1>5. CASE FinishSat
      BY <1>5 DEF FinishSat
<1>6. CASE FinishEmpty
      BY <1>6 DEF FinishEmpty
<1>7. CASE UNCHANGED boundVars
      BY <1>7 DEF boundVars
<1> QED
      BY <1>1, <1>2, <1>3, <1>4, <1>5, <1>6, <1>7 DEF BoundNext

\* The bounds, the cut assignments and the answer stay consistent.
THEOREM BoundInvariant == BoundSpec => []BoundInv
  BY BoundInitInv, BoundNextInv, PTL DEF BoundSpec

\* Whatever the order of cores, improvements and cuts, the answer is right:
\* an optimum is feasible, has the cost returned, and no feasible assignment
\* is cheaper; "unsat" is only said of hard clauses without a solution.
THEOREM AnswerCorrect == BoundSpec => []Answer
<1>1. BoundInv => Answer
      BY DEF BoundInv
<1> QED
      BY <1>1, BoundInvariant, PTL
-----------------------------------------------------------------------------
(***************************************************************************)
(* The formula while the file is read, and while soft clauses are added.   *)
(***************************************************************************)
\* The literals that are false at p.
Lies(p) == {l \in Int \ {0} : (Var(l) \in p) # (l > 0)}

\* The weight of the soft clauses up to line n that are false when the
\* literals of bad are.
PriceTo(x, bad, n) ==
    SumFunctionOnSet(WeightsOf(x), {i \in SoftOf(x) \cap 1..n : Range(x[i].lits) \subseteq bad})

\* The same of the soft clauses kept back.
Due(q, bad) == [j \in DOMAIN q |-> IF q[j].lits \subseteq bad THEN q[j].weight ELSE 0]

Waiting(q, bad) == SumFunctionOnSet(Due(q, bad), DOMAIN q)

\* The assignments that the hard clauses up to line n allow.
AllowedTo(x, n) == {p \in Points : \A i \in HardOf(x) \cap 1..n : Holds(p, x[i].lits)}

\* The variables up to k are all that the clauses up to line n name.
NamedTo(x, n, k) == \A i \in ClausesOf(x) \cap 1..n : \A l \in Range(x[i].lits) : Var(l) <= k

\* The first n variables are those of the file.
FirstAre(h, n) == n \in 0..Len(h.poids) /\ \A v \in 1..n : h.truth[v] = {p \in Points : v \in p}

\* C is a clause about the first n variables.
Within(C, n) == C \in SUBSET (Int \ {0}) /\ \A l \in C : Var(l) <= n

\* The clauses kept back are about the first n variables.
KeptOK(q, n) ==
    /\ q \in Seq([lits : SUBSET (Int \ {0}), weight : Nat])
    /\ \A j \in DOMAIN q : \A l \in q[j].lits : Var(l) <= n

\* No variable has a weight yet.
Blank(h) ==
    /\ Plain(h) /\ FirstAre(h, Len(h.poids)) /\ h.cost = 0
    /\ \A v \in DOMAIN h.poids : h.poids[v] = 0

\* While the file is read: i is the next line, t the weight of hard clauses,
\* g the formula and q the soft clauses kept back.
ReadOK(x, i, t, g, q) ==
    /\ i \in 1..(Len(x) + 1) /\ \A j \in 1..(i - 1) : x[j].kind \in {"top", "clause"}
    /\ t = TopAt(x, i)
    /\ Blank(g) /\ g.live = AllowedTo(x, i - 1)
    /\ NamedTo(x, i - 1, Len(g.poids)) /\ KeptOK(q, Len(g.poids))
    /\ \A bad : Waiting(q, bad) = PriceTo(x, bad, i - 1)

\* While soft clauses are added: n is the number of variables of the file.
SoftOK(x, n, g, q) ==
    /\ n \in Nat /\ Plain(g) /\ FirstAre(g, n) /\ g.cost \in Nat
    /\ WellFormed(x) /\ NamedTo(x, Len(x), n) /\ KeptOK(q, n)
    /\ g.live = AllowedTo(x, Len(x))
    /\ \A p \in Points : Total(g, <<>>, Falsified(g, p)) + Waiting(q, Lies(p)) = PriceTo(x, Lies(p), Len(x))
    /\ Total(g, <<>>, Int) + Waiting(q, Int) <= PriceTo(x, Int, Len(x))

\* The invariant of parse.
ParserInv ==
    /\ file \in Files /\ nInputVars \in Nat
    /\ pc \in {"open", "read", "soft", "parsed", "failed", "exit"}
    /\ pc = "open" => pos = 1 /\ top = MaxWeight /\ f = Empty /\ softClauses = <<>>
    /\ pc = "read" => ReadOK(file, pos, top, f, softClauses)
    /\ pc \in {"soft", "parsed"} => SoftOK(file, nInputVars, f, softClauses)
    /\ pc = "parsed" => softClauses = <<>>
    /\ pc = "failed" => file = <<>> \/ ~WellFormed(file)

-----------------------------------------------------------------------------
(***************************************************************************)
(* The program.                                                            *)
(***************************************************************************)
\* Stages: before solve(), while a solution is stored, inside the handler.
Before == {"args", "made", "parse"}

Storing == {"announced", "store", "storing"}

Handling == {"handler o", "handler s", "handler v"}

\* vec is a model of g, and k its cost.
HeldBy(g, n, vec, k) == \E p \in g.live : vec = VecOf(p, n) /\ k = CostOf(g, p)

\* Nothing that is live is cheaper.
Cheapest(g, k) == \A p \in g.live : k <= CostOf(g, p)

\* The solution at hand, and the one that is being stored.
Stored == HeldBy(f, nInputVars, solution, solutionCost)

Pending == HeldBy(f, nInputVars, pending, solutionCost)

BestKnown == Cheapest(f, solutionCost)

\* The handler found a solution, of which vec is the extension; k is the
\* cost it has printed.
HandledBy(x, sol, vec, k) ==
    LET c == CalculateCost(x, sol)
    IN  c.cost # MaxWeight /\ vec = c.vec /\ k = CalculateCost(x, c.vec).cost

Handled == HandledBy(curFile, GetSolution, result, out["o"].cost)

\* Where the program is.
StageInv ==
    /\ stage \in Before \cup Storing \cup Handling
         \cup {"search", "found", "report", "benched", "optimum", "values", "proved", "refuted"}
    /\ stage \in {"args", "made"} => pc = "open"
    /\ stage = "parse" \/ stage \in Storing
         \/ stage \in {"search", "found", "report", "benched", "optimum", "values", "proved", "refuted"}
       => curFile = file
    /\ stage \in Storing \cup {"search", "found", "optimum", "values", "proved"} => pc = "parsed"
    /\ stage = "report" /\ sat => pc = "parsed"
    /\ DOMAIN out = {"o", "s", "v", "bench"}

\* What solve() has found.
SolveInv ==
    /\ stage \in Before => after = "search" /\ solutionCost = MaxWeight
    /\ stage \in Before \cup Storing \cup {"search", "found"} => ~sat
    /\ stage \in {"search", "announced"} => after = "search"
    /\ stage = "search" => Stored \/ (solutionCost = MaxWeight /\ out["o"] = NoLine)
    /\ stage = "announced" => \E p \in f.live : pending = VecOf(p, nInputVars)
    /\ stage \in {"store", "storing"} => /\ Pending /\ after \in {"search", "found"}
                                         /\ after = "found" => BestKnown
    /\ stage = "found" => Stored /\ BestKnown

\* What main has to report.
ReportInv ==
    /\ stage \in Before => out["o"] = NoLine
    /\ stage \in {"report", "optimum", "values", "proved"} /\ sat => Stored /\ BestKnown /\ result = GetSolution
    /\ stage \in {"optimum", "values", "proved"} => sat /\ out["o"].cost = CalculateCost(file, result).cost
    /\ stage = "proved" => out["v"].vec = result
    /\ stage \in {"report", "refuted"} /\ ~sat =>
         out["o"] = NoLine /\ (pc = "failed" \/ (pc = "parsed" /\ f.live = {}))
    /\ stage = "refuted" => ~sat
    /\ stage = "benched" => bench

\* What the handler has printed.
HandlerInv ==
    /\ stage \in Handling => Handled
    /\ stage = "handler v" => out["v"].vec = result

\* The exit status.
CodeInv ==
    /\ code = 10 => stage = "handler v"
    /\ code = 20 => stage = "refuted"
    /\ code = 30 => stage = "proved"
    /\ UnknownOnlyWhileStoring

\* The invariant.
MainInv == ParserInv /\ StageInv /\ SolveInv /\ ReportInv /\ HandlerInv /\ CodeInv

-----------------------------------------------------------------------------
(***************************************************************************)
(* Lines and literals.                                                     *)
(***************************************************************************)
\* The numbers of a sequence have a bound.
LEMMA NumbersBounded ==
  ASSUME NEW n \in Nat, NEW s, \A k \in 1..n : s[k] \in Nat
  PROVE  \E b \in Nat : \A k \in 1..n : s[k] <= b
<1> DEFINE F == {m \in Nat : m <= n => \E b \in Nat : \A k \in 1..m : s[k] <= b}
<1>1. 0 \in F
      OBVIOUS
<1>2. ASSUME NEW m \in Nat, m \in F
      PROVE  m + 1 \in F
  <2> SUFFICES ASSUME m + 1 <= n PROVE \E b \in Nat : \A k \in 1..(m + 1) : s[k] <= b
      OBVIOUS
  <2>1. PICK b \in Nat : \A k \in 1..m : s[k] <= b
        BY <1>2
  <2>2. s[m + 1] \in Nat
        OBVIOUS
  <2>3. \A k \in 1..(m + 1) : s[k] <= b + s[m + 1]
    <3> TAKE k \in 1..(m + 1)
    <3>1. CASE k = m + 1
          BY <2>2, <3>1
    <3>2. CASE k # m + 1
      <4>1. k \in 1..m /\ s[k] \in Nat /\ s[k] <= b
            BY <2>1, <3>2
      <4> QED BY <2>2, <4>1
    <3> QED BY <3>1, <3>2
  <2> QED BY <2>2, <2>3
<1>3. n \in F
      BY ONLY <1>1, <1>2, n \in Nat, NatClosure
<1> QED BY <1>3

\* So have the variables of a clause,
LEMMA LitsBounded ==
  ASSUME NEW lits \in Seq(Int \ {0})
  PROVE  \E b \in Nat : \A k \in DOMAIN lits : Var(lits[k]) <= b
<1> DEFINE s == [k \in DOMAIN lits |-> Var(lits[k])]
<1>1. Len(lits) \in Nat /\ DOMAIN lits = 1..Len(lits) /\ \A k \in 1..Len(lits) : s[k] \in Nat
      BY DEF Var
<1>2. PICK b \in Nat : \A k \in 1..Len(lits) : s[k] <= b
      BY ONLY <1>1, NumbersBounded
<1> QED BY <1>1, <1>2

\* and those of a file.
LEMMA FileBounded ==
  ASSUME NEW x \in Seq(Lines)
  PROVE  \E b \in Nat : \A i \in DOMAIN x : \A k \in DOMAIN x[i].lits : Var(x[i].lits[k]) <= b
<1> DEFINE Over1(i, b) == \A k \in DOMAIN x[i].lits : Var(x[i].lits[k]) <= b
           s == [i \in DOMAIN x |-> CHOOSE b \in Nat : Over1(i, b)]
<1>1. Len(x) \in Nat /\ DOMAIN x = 1..Len(x)
      OBVIOUS
<1>2. ASSUME NEW i \in DOMAIN x
      PROVE  s[i] \in Nat /\ Over1(i, s[i])
  <2>1. x[i] \in Lines
        OBVIOUS
  <2>2. x[i].lits \in Seq(Int \ {0})
        BY <2>1 DEF Lines
  <2>3. \E b \in Nat : Over1(i, b)
        BY <2>2, LitsBounded
  <2> HIDE DEF Over1
  <2> QED BY <2>3
<1>3. PICK b \in Nat : \A i \in 1..Len(x) : s[i] <= b
  <2>1. \A i \in 1..Len(x) : s[i] \in Nat
        BY <1>1, <1>2
  <2> HIDE DEF s
  <2> QED BY ONLY <1>1, <2>1, NumbersBounded
<1>4. ASSUME NEW i \in DOMAIN x, NEW k \in DOMAIN x[i].lits
      PROVE  Var(x[i].lits[k]) <= b
  <2>1. x[i] \in Lines
        OBVIOUS
  <2>2. x[i].lits \in Seq(Int \ {0})
        BY <2>1 DEF Lines
  <2>3. x[i].lits[k] \in Int
        BY <2>2
  <2>4. Var(x[i].lits[k]) \in Int /\ Var(x[i].lits[k]) <= s[i] /\ s[i] \in Nat
        BY <1>2, <2>3 DEF Var
  <2>5. s[i] <= b
        BY <1>1, <1>3
  <2> HIDE DEF s
  <2> QED BY <2>4, <2>5
<1> QED BY <1>4

\* What the program may be given.
IsFile(x) ==
    /\ x \in Seq(Lines)
    /\ 2 * SumFunctionOnSet(WeightsOf(x), SoftOf(x)) < MaxWeight

\* The lines of a file, and its clauses.
LEMMA FileFacts ==
  ASSUME NEW x, IsFile(x)
  PROVE  /\ x \in Seq(Lines) /\ Len(x) \in Nat /\ DOMAIN x = 1..Len(x)
         /\ \A i \in DOMAIN x : /\ x[i].lits \in Seq(Int \ {0}) /\ x[i].weight \in Nat
                                /\ WeightsOf(x)[i] = ParseWeight(x[i].weight)
                                /\ ParseWeight(x[i].weight) \in 0..MaxWeight
         /\ HardOf(x) \subseteq ClausesOf(x) /\ SoftOf(x) \subseteq ClausesOf(x)
         /\ ClausesOf(x) \subseteq DOMAIN x
<1>1. x \in Seq(Lines) /\ Len(x) \in Nat /\ DOMAIN x = 1..Len(x)
      BY DEF IsFile
<1>2. ASSUME NEW i \in DOMAIN x
      PROVE  /\ x[i].lits \in Seq(Int \ {0}) /\ x[i].weight \in Nat
             /\ WeightsOf(x)[i] = ParseWeight(x[i].weight)
             /\ ParseWeight(x[i].weight) \in 0..MaxWeight
  <2>1. x[i] \in Lines
        BY <1>1
  <2>2. x[i].lits \in Seq(Int \ {0}) /\ x[i].weight \in Nat
        BY <2>1 DEF Lines
  <2> QED BY <2>2, MaxWeightAssumption DEF WeightsOf, ParseWeight, Wrap
<1>3. /\ HardOf(x) \subseteq ClausesOf(x) /\ SoftOf(x) \subseteq ClausesOf(x)
      /\ ClausesOf(x) \subseteq DOMAIN x
      BY DEF HardOf, SoftOf, ClausesOf
<1> QED BY <1>1, <1>2, <1>3

\* A clause is false at p iff all its literals are.
LEMMA LiesFacts ==
  ASSUME NEW lits \in Seq(Int \ {0}), NEW p
  PROVE  ~Holds(p, lits) <=> Range(lits) \subseteq Lies(p)
<1>1. \A k \in DOMAIN lits : lits[k] \in Int \ {0}
      OBVIOUS
<1> QED BY <1>1 DEF Holds, Lies, Range

\* The price of an assignment.
LEMMA PriceIs ==
  ASSUME NEW x, IsFile(x), NEW p
  PROVE  PriceOf(x, p) = PriceTo(x, Lies(p), Len(x))
<1>1. \A i \in SoftOf(x) : i \in 1..Len(x) /\ x[i].lits \in Seq(Int \ {0})
      BY FileFacts
<1>2. \A i \in SoftOf(x) : ~Holds(p, x[i].lits) <=> Range(x[i].lits) \subseteq Lies(p)
      BY <1>1, LiesFacts
<1>3. {i \in SoftOf(x) : ~Holds(p, x[i].lits)} = {i \in SoftOf(x) \cap 1..Len(x) : Range(x[i].lits) \subseteq Lies(p)}
      BY <1>1, <1>2
<1> QED BY <1>3 DEF PriceOf, PriceTo

\* The soft clauses up to a line are finitely many, and their weights fit.
PaidTo(x, bad, n) == {i \in SoftOf(x) \cap 1..n : Range(x[i].lits) \subseteq bad}

\* What an assignment pays is less than half of what a t_weight can hold.
LEMMA PaidFacts ==
  ASSUME NEW x, IsFile(x), NEW bad, NEW n \in Nat
  PROVE  /\ IsFiniteSet(PaidTo(x, bad, n)) /\ PaidTo(x, bad, n) \subseteq SoftOf(x)
         /\ IsFiniteSet(SoftOf(x)) /\ \A i \in SoftOf(x) : WeightsOf(x)[i] \in Nat
         /\ PriceTo(x, bad, n) = SumFunctionOnSet(WeightsOf(x), PaidTo(x, bad, n))
         /\ PriceTo(x, bad, n) \in Nat /\ 2 * PriceTo(x, bad, n) < MaxWeight
<1>1. IsFiniteSet(SoftOf(x)) /\ \A i \in SoftOf(x) : WeightsOf(x)[i] \in Nat
  <2>1. /\ Len(x) \in Int /\ SoftOf(x) \subseteq 1..Len(x)
        /\ \A i \in SoftOf(x) : WeightsOf(x)[i] \in Nat
        BY FileFacts
  <2>2. IsFiniteSet(1..Len(x))
        BY <2>1, FS_Interval
  <2> QED BY <2>1, <2>2, FS_Subset
<1>2. PICK Y : Y = PaidTo(x, bad, n)
      OBVIOUS
<1>3. Y \in SUBSET SoftOf(x) /\ IsFiniteSet(Y)
      BY <1>1, <1>2, FS_Subset DEF PaidTo
<1>4. PriceTo(x, bad, n) = SumFunctionOnSet(WeightsOf(x), Y)
      BY <1>2 DEF PriceTo, PaidTo
<1>5. PICK s : s = SumFunctionOnSet(WeightsOf(x), Y)
      OBVIOUS
<1>6. PICK t : t = SumFunctionOnSet(WeightsOf(x), SoftOf(x))
      OBVIOUS
<1>7. s \in Nat /\ t \in Nat /\ s <= t
      BY <1>1, <1>3, <1>5, <1>6, SumNat, SumSubset
<1>8. 2 * t < MaxWeight
      BY <1>6 DEF IsFile
<1>9. 2 * s < MaxWeight
      BY <1>7, <1>8, MaxWeightAssumption
<1> QED BY <1>1, <1>2, <1>3, <1>4, <1>5, <1>7, <1>9

\* One line more.
LEMMA PriceStep ==
  ASSUME NEW x, IsFile(x), NEW bad, NEW n \in DOMAIN x
  PROVE  PriceTo(x, bad, n) = PriceTo(x, bad, n - 1)
           + IF n \in SoftOf(x) /\ Range(x[n].lits) \subseteq bad THEN ParseWeight(x[n].weight) ELSE 0
<1>1. n \in Nat /\ n - 1 \in Nat /\ WeightsOf(x)[n] = ParseWeight(x[n].weight) /\ ParseWeight(x[n].weight) \in Int
      BY FileFacts
<1>2. PICK Y : Y = PaidTo(x, bad, n - 1)
      OBVIOUS
<1>3. /\ PriceTo(x, bad, n - 1) = SumFunctionOnSet(WeightsOf(x), Y)
      /\ PriceTo(x, bad, n) = SumFunctionOnSet(WeightsOf(x), PaidTo(x, bad, n))
      /\ IsFiniteSet(Y) /\ Y \subseteq SoftOf(x) /\ PriceTo(x, bad, n - 1) \in Nat
      BY <1>1, <1>2, PaidFacts
<1>4. \A i \in SoftOf(x) : WeightsOf(x)[i] \in Int /\ i \in Nat
      BY <1>1, PaidFacts, FileFacts
<1>5. n \notin Y
      BY <1>1, <1>2 DEF PaidTo
<1>6. CASE n \in SoftOf(x) /\ Range(x[n].lits) \subseteq bad
  <2>1. PaidTo(x, bad, n) = Y \cup {n}
        BY <1>1, <1>2, <1>4, <1>6 DEF PaidTo
  <2>2. \A i \in Y \cup {n} : WeightsOf(x)[i] \in Int
        BY <1>3, <1>4, <1>6
  <2>3. SumFunctionOnSet(WeightsOf(x), Y \cup {n}) = WeightsOf(x)[n] + SumFunctionOnSet(WeightsOf(x), Y)
        BY <1>3, <1>5, <2>2, SumAdd
  <2> QED BY <1>1, <1>3, <1>6, <2>1, <2>3
<1>7. CASE ~(n \in SoftOf(x) /\ Range(x[n].lits) \subseteq bad)
  <2>1. PaidTo(x, bad, n) = Y
        BY <1>1, <1>2, <1>4, <1>7 DEF PaidTo
  <2> QED BY <1>3, <1>7, <2>1
<1> QED BY <1>6, <1>7

\* Nothing has been read.
LEMMA PriceNone ==
  ASSUME NEW x, NEW bad
  PROVE  PriceTo(x, bad, 0) = 0
<1>1. {i \in SoftOf(x) \cap 1..0 : Range(x[i].lits) \subseteq bad} = {}
      OBVIOUS
<1> QED BY <1>1, SumEmpty DEF PriceTo

-----------------------------------------------------------------------------
(***************************************************************************)
(* The soft clauses kept back.                                             *)
(***************************************************************************)
\* What a sequence of such clauses is, and what it charges.
LEMMA WaitingFacts ==
  ASSUME NEW q, NEW n, KeptOK(q, n), NEW bad
  PROVE  /\ Len(q) \in Nat /\ DOMAIN q = 1..Len(q) /\ IsFiniteSet(DOMAIN q)
         /\ \A j \in DOMAIN q : q[j].lits \in SUBSET (Int \ {0}) /\ q[j].weight \in Nat
         /\ \A j \in DOMAIN q : Due(q, bad)[j] \in Nat
         /\ Waiting(q, bad) \in Nat
<1>1. q \in Seq([lits : SUBSET (Int \ {0}), weight : Nat]) /\ Len(q) \in Nat /\ DOMAIN q = 1..Len(q)
      BY DEF KeptOK
<1>2. IsFiniteSet(DOMAIN q)
      BY <1>1, FS_Interval
<1>3. ASSUME NEW j \in DOMAIN q
      PROVE  q[j].lits \in SUBSET (Int \ {0}) /\ q[j].weight \in Nat
  <2>1. PICK K : K = [lits : SUBSET (Int \ {0}), weight : Nat]
        OBVIOUS
  <2>2. q \in Seq(K)
        BY <1>1, <2>1
  <2>3. q[j] \in K
        BY ONLY <1>1, <2>2, j \in DOMAIN q
  <2> QED BY <2>1, <2>3
<1>4. \A j \in DOMAIN q : Due(q, bad)[j] \in Nat
      BY <1>3 DEF Due
<1>5. Waiting(q, bad) \in Nat
      BY <1>2, <1>4, SumNat DEF Waiting
<1> QED BY <1>1, <1>2, <1>3, <1>4, <1>5

\* Nothing is kept back.
LEMMA WaitingNone ==
  ASSUME NEW bad
  PROVE  Waiting(<<>>, bad) = 0
<1>1. DOMAIN << >> = {}
      OBVIOUS
<1> QED BY <1>1, SumEmpty DEF Waiting

\* q with a clause of literals C and weight w at its end.
KeptAt(q, C, w, r) == r = Append(q, [lits |-> C, weight |-> w])

\* r charges w more than q where C is false.
Gains(r, q, C, w) == \A bad : Waiting(r, bad) = Waiting(q, bad) + IF C \subseteq bad THEN w ELSE 0

\* One more clause.
LEMMA WaitingAppend ==
  ASSUME NEW q, NEW n \in Nat, KeptOK(q, n), NEW C, Within(C, n), NEW w \in Nat,
         NEW r, KeptAt(q, C, w, r)
  PROVE  KeptOK(r, n) /\ Gains(r, q, C, w)
<1>1. q \in Seq([lits : SUBSET (Int \ {0}), weight : Nat]) /\ Len(q) \in Nat /\ DOMAIN q = 1..Len(q)
      BY DEF KeptOK
<1>2. PICK y : y = [lits |-> C, weight |-> w]
      OBVIOUS
<1>3. y \in [lits : SUBSET (Int \ {0}), weight : Nat] /\ y.lits = C /\ y.weight = w
      BY <1>2 DEF Within
<1>4. PICK m : m = Len(q) + 1
      OBVIOUS
<1>5. /\ r \in Seq([lits : SUBSET (Int \ {0}), weight : Nat]) /\ DOMAIN r = DOMAIN q \cup {m}
      /\ m \notin DOMAIN q /\ r[m] = y /\ \A j \in DOMAIN q : r[j] = q[j]
      BY <1>1, <1>2, <1>3, <1>4 DEF KeptAt
<1>6. KeptOK(r, n)
  <2>1. \A j \in DOMAIN q : \A l \in r[j].lits : Var(l) <= n
        BY <1>5 DEF KeptOK
  <2>2. \A l \in r[m].lits : Var(l) <= n
        BY <1>3, <1>5 DEF Within
  <2> QED BY <1>5, <2>1, <2>2 DEF KeptOK
<1>7. ASSUME NEW bad
      PROVE  Waiting(r, bad) = Waiting(q, bad) + IF C \subseteq bad THEN w ELSE 0
  <2>1. /\ IsFiniteSet(DOMAIN q) /\ \A j \in DOMAIN q : Due(q, bad)[j] \in Nat
        /\ Waiting(q, bad) \in Nat
        BY WaitingFacts
  <2>2. \A j \in DOMAIN r : Due(r, bad)[j] \in Nat
        BY <1>6, WaitingFacts
  <2>3. \A j \in DOMAIN q : Due(q, bad)[j] = Due(r, bad)[j]
        BY <1>5 DEF Due
  <2>4. Due(r, bad)[m] = IF C \subseteq bad THEN w ELSE 0
        BY <1>3, <1>5 DEF Due
  <2>5. SumFunctionOnSet(Due(r, bad), DOMAIN q \cup {m}) = Due(r, bad)[m] + SumFunctionOnSet(Due(r, bad), DOMAIN q)
    <3>1. \A j \in DOMAIN q \cup {m} : Due(r, bad)[j] \in Int
          BY <1>5, <2>2
    <3> QED BY <1>5, <2>1, <3>1, SumAdd
  <2>6. SumFunctionOnSet(Due(q, bad), DOMAIN q) = SumFunctionOnSet(Due(r, bad), DOMAIN q)
    <3>1. \A j \in DOMAIN q : Due(q, bad)[j] \in Int /\ Due(q, bad)[j] = Due(r, bad)[j]
          BY <2>1, <2>3
    <3> QED BY <2>1, <3>1, SumSame
  <2>7. Waiting(q, bad) = SumFunctionOnSet(Due(r, bad), DOMAIN q)
        BY <2>6 DEF Waiting
  <2>8. Waiting(r, bad) = Due(r, bad)[m] + Waiting(q, bad)
        BY <1>5, <2>5, <2>7 DEF Waiting
  <2> QED BY <2>1, <2>4, <2>8
<1> QED BY <1>6, <1>7 DEF Gains

\* One clause less.
LEMMA WaitingTail ==
  ASSUME NEW q, NEW n, KeptOK(q, n), q # <<>>, NEW C, C = Head(q).lits, NEW w, w = Head(q).weight,
         NEW r, r = Tail(q)
  PROVE  KeptOK(r, n) /\ Within(C, n) /\ w \in Nat /\ Gains(q, r, C, w)
<1>1. q \in Seq([lits : SUBSET (Int \ {0}), weight : Nat]) /\ Len(q) \in Nat /\ DOMAIN q = 1..Len(q)
      BY DEF KeptOK
<1>2. PICK m \in Nat : Len(q) = m + 1
  <2>1. Len(q) # 0
        BY <1>1
  <2>2. Len(q) - 1 \in Nat /\ Len(q) = (Len(q) - 1) + 1
        BY ONLY <1>1, <2>1
  <2> QED BY ONLY <2>2
<1>3. /\ r \in Seq([lits : SUBSET (Int \ {0}), weight : Nat]) /\ DOMAIN r = 1..m
      /\ Head(q) = q[1] /\ 1 \in DOMAIN q
      /\ \A j \in 1..m : r[j] = q[j + 1] /\ j + 1 \in DOMAIN q
      BY <1>1, <1>2
<1>4. /\ \A j \in DOMAIN q : q[j].lits \in SUBSET (Int \ {0}) /\ q[j].weight \in Nat
      BY WaitingFacts
<1>5. C = q[1].lits /\ w = q[1].weight
      BY <1>3
<1>6. KeptOK(r, n)
      BY <1>3 DEF KeptOK
<1>7. Within(C, n)
      BY <1>3, <1>4, <1>5 DEF KeptOK, Within
<1>8. ASSUME NEW bad
      PROVE  Waiting(q, bad) = Waiting(r, bad) + IF C \subseteq bad THEN w ELSE 0
  <2>1. PICK a : a = Due(q, bad)
        OBVIOUS
  <2>2. PICK b : b = Due(r, bad)
        OBVIOUS
  <2>3. \A i \in 1..(m + 1) : a[i] \in Int
        BY <1>1, <1>2, <2>1, WaitingFacts
  <2>4. \A i \in 1..m : b[i] = a[i + 1]
        BY <1>3, <2>1, <2>2 DEF Due
  <2>5. SumFunctionOnSet(a, 1..(m + 1)) = a[1] + SumFunctionOnSet(b, 1..m)
        BY <2>3, <2>4, SumShift
  <2>6. a[1] = IF C \subseteq bad THEN w ELSE 0
        BY <1>3, <1>5, <2>1 DEF Due
  <2>7. Waiting(q, bad) = a[1] + Waiting(r, bad)
        BY <1>1, <1>2, <1>3, <2>1, <2>2, <2>5 DEF Waiting
  <2>8. Waiting(r, bad) \in Nat
        BY <1>6, WaitingFacts
  <2> QED BY <1>3, <1>4, <1>5, <2>6, <2>7, <2>8
<1> QED BY <1>3, <1>4, <1>5, <1>6, <1>7, <1>8 DEF Gains

-----------------------------------------------------------------------------
(***************************************************************************)
(* newVar and hard clauses, while no variable has a weight.                *)
(***************************************************************************)
\* The literals of the file's variables are true where they say.
LEMMA TrueLies ==
  ASSUME NEW g, NEW n, FirstAre(g, n), n \in Nat, NEW l \in Int \ {0}, Var(l) <= n, NEW p \in Points
  PROVE  p \in True(g, l) <=> l \notin Lies(p)
<1>1. Var(l) \in 1..n
      BY DEF Var
<1>2. g.truth[Var(l)] = {t \in Points : Var(l) \in t}
      BY <1>1 DEF FirstAre
<1>3. CASE l < 0
  <2>1. True(g, l) = Points \ g.truth[Var(l)]
        BY <1>3 DEF True, Var
  <2> QED BY <1>2, <1>3, <2>1 DEF Lies
<1>4. CASE ~(l < 0)
  <2>1. True(g, l) = g.truth[Var(l)] /\ l > 0
        BY <1>4 DEF True, Var
  <2> QED BY <1>2, <2>1 DEF Lies
<1> QED BY <1>3, <1>4

\* So are their clauses.
LEMMA ClauseLies ==
  ASSUME NEW g, NEW n \in Nat, FirstAre(g, n), NEW C, Within(C, n), NEW p \in Points
  PROVE  p \in UNION {True(g, l) : l \in C} <=> ~(C \subseteq Lies(p))
<1>1. \A l \in C : p \in True(g, l) <=> l \notin Lies(p)
      BY TrueLies DEF Within
<1> QED BY <1>1

\* Such clauses are about variables the formula has.
LEMMA FirstOver ==
  ASSUME NEW g, Plain(g), NEW n, FirstAre(g, n), NEW C, Within(C, n)
  PROVE  Over(g, C)
<1>1. g.poids \in Seq(Int)
      BY PlainFacts
<1>2. n \in 0..Len(g.poids) /\ Len(g.poids) \in Nat /\ DOMAIN g.poids = 1..Len(g.poids)
      BY <1>1 DEF FirstAre
<1>3. \A l \in C : Var(l) \in DOMAIN g.poids
      BY <1>2 DEF Var, Within
<1> QED BY <1>3 DEF Over, LitsOf, Within

\* newVar.
LEMMA BlankNewVar ==
  ASSUME NEW h, Blank(h), NEW v, v = Len(h.poids) + 1, NEW g, g = NewVar(h, {p \in Points : v \in p})
  PROVE  Blank(g) /\ g.live = h.live /\ Len(g.poids) = v
<1>1. PICK T : T = {p \in Points : v \in p}
      OBVIOUS
<1>2. Plain(h) /\ T \in SUBSET Points /\ g = NewVar(h, T)
      BY <1>1 DEF Blank
<1>3. Plain(g) /\ EndsWith(h, 0, T, g) /\ Len(g.poids) = Len(h.poids) + 1
      BY ONLY <1>2, PlainNewVar
<1>4. /\ h.poids \in Seq(Int) /\ h.truth \in Seq(SUBSET Points) /\ Len(h.truth) = Len(h.poids)
      /\ Len(h.poids) \in Nat
      BY <1>2, PlainFacts, Fields
<1>5. g.live = h.live /\ g.cost = 0 /\ g.poids = Append(h.poids, 0) /\ g.truth = Append(h.truth, T)
      BY <1>3 DEF EndsWith, Blank
<1>6. \A u \in DOMAIN g.poids : g.poids[u] = 0
  <2>1. \A u \in DOMAIN h.poids : h.poids[u] = 0
        BY DEF Blank
  <2> QED BY ONLY <1>4, <1>5, <2>1
<1>7. FirstAre(g, Len(g.poids))
  <2>1. \A u \in 1..Len(h.poids) : h.truth[u] = {p \in Points : u \in p}
        BY DEF Blank, FirstAre
  <2>2. ASSUME NEW u \in 1..v
        PROVE  g.truth[u] = {p \in Points : u \in p}
    <3>1. CASE u = v
          BY ONLY <1>1, <1>4, <1>5, <3>1, v = Len(h.poids) + 1, u \in 1..v, T \in SUBSET Points
    <3>2. CASE u # v
      <4>1. u \in 1..Len(h.poids)
            BY <1>4, <3>2
      <4>2. g.truth[u] = h.truth[u]
            BY ONLY <1>4, <1>5, <4>1
      <4> QED BY <2>1, <4>1, <4>2
    <3> QED BY <3>1, <3>2
  <2>3. Len(g.poids) = v /\ v \in 0..v
        BY ONLY <1>3, <1>4, v = Len(h.poids) + 1
  <2> QED BY ONLY <2>2, <2>3 DEF FirstAre
<1> QED BY <1>3, <1>5, <1>6, <1>7 DEF Blank

\* newVar until every literal has its variable.
LEMMA NameVarsFacts ==
  ASSUME NEW g, Blank(g), NEW lits \in Seq(Int \ {0}), NEW h, h = NameVars(g, lits)
  PROVE  /\ Blank(h) /\ h.live = g.live /\ Len(g.poids) <= Len(h.poids)
         /\ \A l \in Range(lits) : Var(l) <= Len(h.poids)
<1>1. PICK N : N = {0} \cup {Var(lits[k]) : k \in DOMAIN lits}
      OBVIOUS
<1>2. PICK n : n = Max(N)
      OBVIOUS
<1>3. \A k \in DOMAIN lits : Var(lits[k]) \in Nat
      BY DEF Var
<1>4. N \in SUBSET Nat /\ N # {}
      BY <1>1, <1>3
<1>5. Bounded(N)
  <2>1. PICK b \in Nat : \A k \in DOMAIN lits : Var(lits[k]) <= b
        BY LitsBounded
  <2>2. \A y \in N : y <= b
        BY <1>1, <1>3, <2>1
  <2> QED BY <2>2 DEF Bounded
<1>6. n \in Nat /\ \A k \in DOMAIN lits : Var(lits[k]) <= n
  <2>1. n \in N /\ \A y \in N : y <= n
        BY <1>2, <1>4, <1>5, MaxFacts
  <2> QED BY <1>1, <1>4, <2>1
<1>7. h = NewVars(g, n)
      BY <1>1, <1>2 DEF NameVars
<1>8. PICK F : F = {k \in Formulas : Blank(k) /\ k.live = g.live}
      OBVIOUS
<1>9. \A k : Blank(k) => k \in Formulas /\ k.poids \in Seq(Int)
      BY PlainFacts DEF Blank
<1>10. NewVarStays(F)
  <2> SUFFICES ASSUME NEW k \in F, NEW v, v = Len(k.poids) + 1, NEW b, b = NewVar(k, {p \in Points : v \in p})
               PROVE  b \in F /\ Len(b.poids) = v
      BY <1>8, <1>9 DEF NewVarStays
  <2>1. Blank(k) /\ k.live = g.live
        BY <1>8
  <2> QED BY <1>8, <1>9, <2>1, BlankNewVar
<1>11. g \in F
       BY <1>8, <1>9
<1>12. h \in F /\ Len(h.poids) = IF n <= Len(g.poids) THEN Len(g.poids) ELSE n
       BY ONLY <1>6, <1>7, <1>8, <1>10, <1>11, NewVarsClosed
<1>13. Len(g.poids) \in Nat
       BY <1>9
<1>14. /\ Len(g.poids) <= Len(h.poids) /\ n <= Len(h.poids) /\ Len(h.poids) \in Nat
       BY <1>6, <1>12, <1>13
<1>15. \A l \in Range(lits) : Var(l) <= Len(h.poids)
       BY <1>3, <1>6, <1>14 DEF Range
<1> QED BY <1>8, <1>12, <1>14, <1>15

\* A hard clause, of one literal or of several: no weight moves.
LEMMA BlankAddHard ==
  ASSUME NEW g, Blank(g), NEW C, Within(C, Len(g.poids)),
         NEW h, h = AddHardClause(g, C)
  PROVE  /\ Blank(h) /\ Len(h.poids) = Len(g.poids)
         /\ h.live = {p \in g.live : ~(C \subseteq Lies(p))}
<1>1. /\ Plain(g) /\ IsFormula(g) /\ g \in Formulas /\ g.poids \in Seq(Int) /\ FirstAre(g, Len(g.poids))
      /\ Len(g.poids) \in Nat /\ g.live \in SUBSET Points
      BY PlainFacts, Fields DEF Blank
<1>2. Over(g, C)
      BY <1>1, FirstOver
<1>3. h = AddHard(g, C)
  <2>1. CASE Cardinality(C) = 1
    <3>1. IsFiniteSet(C)
      <4>1. IsFiniteSet(LitsOf(g.poids)) /\ C \subseteq LitsOf(g.poids)
            BY <1>1, <1>2, LitsOfFinite DEF Over
      <4> QED BY <4>1, FS_Subset
    <3>2. PICK l : C = {l}
          BY <2>1, <3>1, FS_Singleton
    <3>3. h = HardUnit(g, l)
          BY <2>1, <3>2 DEF AddHardClause
    <3>4. l \in Int \ {0} /\ Var(l) \in DOMAIN g.poids
          BY <1>2, <3>2 DEF Over, LitsOf
    <3>5. Poids(g, -l) = 0
      <4>1. g.poids[Var(l)] = 0
            BY <3>4 DEF Blank
      <4> QED BY <3>4, <4>1 DEF Poids, Weight, Var
    <3>6. HardUnit(g, l) = AddHard(g, {l})
          BY <3>5 DEF HardUnit
    <3> QED BY <3>2, <3>3, <3>6
  <2>2. CASE Cardinality(C) # 1
        BY <2>2 DEF AddHardClause
  <2> QED BY <2>1, <2>2
<1>4. Plain(h)
      BY <1>1, <1>2, PlainAddHard
<1>5. /\ h.poids = g.poids /\ h.truth = g.truth /\ h.cost = g.cost
      /\ h.live = g.live \cap UNION {True(g, l) : l \in C}
      BY <1>1, <1>3 DEF AddHard, Formulas
<1>6. \A p \in Points : p \in UNION {True(g, l) : l \in C} <=> ~(C \subseteq Lies(p))
  <2>1. PICK n \in Nat : n = Len(g.poids)
        BY <1>1
  <2>2. FirstAre(g, n) /\ Within(C, n)
        BY <1>1, <2>1
  <2> QED BY ONLY <2>2, n \in Nat, ClauseLies
<1>7. h.live = {p \in g.live : ~(C \subseteq Lies(p))}
      BY <1>1, <1>5, <1>6
<1>8. FirstAre(h, Len(h.poids))
      BY <1>1, <1>5 DEF FirstAre
<1> QED BY <1>4, <1>5, <1>7, <1>8 DEF Blank

-----------------------------------------------------------------------------
(***************************************************************************)
(* The lines of a file, one after the other.                               *)
(***************************************************************************)
\* The weight of hard clauses after line n.
LEMMA TopStep ==
  ASSUME NEW x, IsFile(x), NEW n \in DOMAIN x
  PROVE  TopAt(x, n + 1) = IF x[n].kind = "top" THEN ParseWeight(x[n].weight) ELSE TopAt(x, n)
<1>1. PICK m : m = n + 1
      OBVIOUS
<1>2. n \in Nat \ {0} /\ Len(x) \in Nat /\ DOMAIN x = 1..Len(x)
      BY FileFacts
<1>3. PICK X : X = {j \in 1..(m - 1) : x[j].kind = "top"}
      OBVIOUS
<1>4. PICK Y : Y = {j \in 1..(n - 1) : x[j].kind = "top"}
      OBVIOUS
<1>5. TopAt(x, m) = IF X = {} THEN MaxWeight ELSE ParseWeight(x[Max(X)].weight)
      BY <1>3 DEF TopAt
<1>6. TopAt(x, n) = IF Y = {} THEN MaxWeight ELSE ParseWeight(x[Max(Y)].weight)
      BY <1>4 DEF TopAt
<1>7. CASE x[n].kind = "top"
  <2>1. X \in SUBSET Nat /\ n \in X /\ \A y \in X : y <= n
        BY <1>1, <1>2, <1>3, <1>7
  <2>2. Max(X) \in X /\ \A y \in X : y <= Max(X)
        BY <1>2, <2>1, MaxFacts DEF Bounded
  <2>3. Max(X) = n
    <3>1. PICK b : b = Max(X)
          OBVIOUS
    <3>2. b \in Nat /\ b <= n /\ n <= b
          BY <2>1, <2>2, <3>1
    <3> QED BY <1>2, <3>1, <3>2
  <2> QED BY <1>1, <1>5, <1>7, <2>1, <2>3
<1>8. CASE x[n].kind # "top"
  <2>1. X = Y
        BY <1>1, <1>2, <1>3, <1>4, <1>8
  <2> QED BY <1>1, <1>5, <1>6, <1>8, <2>1
<1> QED BY <1>7, <1>8

\* The assignments that are allowed after line n.
LEMMA AllowedStep ==
  ASSUME NEW x, IsFile(x), NEW n \in DOMAIN x
  PROVE  AllowedTo(x, n) = {p \in AllowedTo(x, n - 1) : n \in HardOf(x) => ~(Range(x[n].lits) \subseteq Lies(p))}
<1>1. n \in Nat \ {0} /\ \A i \in HardOf(x) : i \in Nat \ {0}
      BY FileFacts
<1>2. \A p : Holds(p, x[n].lits) <=> ~(Range(x[n].lits) \subseteq Lies(p))
  <2>1. x[n].lits \in Seq(Int \ {0})
        BY FileFacts
  <2> QED BY <2>1, LiesFacts
<1>3. ASSUME NEW p
      PROVE  (\A i \in HardOf(x) \cap 1..n : Holds(p, x[i].lits)) <=>
               /\ \A i \in HardOf(x) \cap 1..(n - 1) : Holds(p, x[i].lits)
               /\ n \in HardOf(x) => Holds(p, x[n].lits)
  <2>1. \A i \in HardOf(x) : i \in 1..n <=> i \in 1..(n - 1) \/ i = n
        BY <1>1
  <2> QED BY <1>1, <2>1
<1> QED BY <1>2, <1>3 DEF AllowedTo

\* A line that is not a hard clause forbids nothing.
LEMMA AllowedSkip ==
  ASSUME NEW x, IsFile(x), NEW n \in DOMAIN x, n \notin HardOf(x)
  PROVE  AllowedTo(x, n) = AllowedTo(x, n - 1)
<1>1. PICK A : A = AllowedTo(x, n - 1)
      OBVIOUS
<1>2. AllowedTo(x, n) = {p \in A : n \in HardOf(x) => ~(Range(x[n].lits) \subseteq Lies(p))}
      BY <1>1, AllowedStep
<1> QED BY ONLY <1>1, <1>2, n \notin HardOf(x)

\* All of them are.
LEMMA AllowedNone ==
  ASSUME NEW x
  PROVE  AllowedTo(x, 0) = Points
  BY DEF AllowedTo

\* In the end they are those of the file.
LEMMA AllowedEnd ==
  ASSUME NEW x, IsFile(x), NEW p \in Points
  PROVE  p \in AllowedTo(x, Len(x)) <=> Allowed(x, p)
<1>1. HardOf(x) \cap 1..Len(x) = HardOf(x)
      BY FileFacts
<1> QED BY <1>1 DEF AllowedTo, Allowed

\* The variables named up to line n.
LEMMA NamedStep ==
  ASSUME NEW x, IsFile(x), NEW n \in DOMAIN x, NEW k \in Nat, NEW m \in Nat, k <= m, NamedTo(x, n - 1, k),
         x[n].kind = "clause" => \A l \in Range(x[n].lits) : Var(l) <= m
  PROVE  NamedTo(x, n, m)
<1>1. n \in Nat \ {0} /\ \A i \in ClausesOf(x) : i \in Nat \ {0} /\ x[i].kind = "clause"
      BY FileFacts DEF ClausesOf
<1>2. ASSUME NEW i \in ClausesOf(x) \cap 1..n, NEW l \in Range(x[i].lits)
      PROVE  Var(l) <= m
  <2>1. CASE i = n
        BY <1>1, <1>2, <2>1
  <2>2. CASE i # n
    <3>1. i \in ClausesOf(x) \cap 1..(n - 1)
          BY <1>1, <2>2
    <3>2. Var(l) <= k
          BY <3>1 DEF NamedTo
    <3>3. Var(l) \in Int
      <4>1. x[i].lits \in Seq(Int \ {0})
            BY FileFacts
      <4>2. l \in Int
            BY <4>1 DEF Range
      <4> QED BY <4>2 DEF Var
    <3> QED BY <3>2, <3>3
  <2> QED BY <2>1, <2>2
<1> QED BY <1>2 DEF NamedTo

\* Clauses kept back stay about the file's variables.
LEMMA KeptMore ==
  ASSUME NEW q, NEW k \in Nat, NEW m \in Nat, k <= m, KeptOK(q, k)
  PROVE  KeptOK(q, m)
<1>1. ASSUME NEW j \in DOMAIN q, NEW l \in q[j].lits
      PROVE  Var(l) <= m
  <2>1. q[j].lits \in SUBSET (Int \ {0}) /\ Var(l) <= k
        BY WaitingFacts DEF KeptOK
  <2> QED BY <2>1 DEF Var
<1> QED BY <1>1 DEF KeptOK

\* A clause is hard from the weight of that moment on.
LEMMA HardLine ==
  ASSUME NEW x, IsFile(x), NEW n \in DOMAIN x
  PROVE  /\ n \in HardOf(x) <=> x[n].kind = "clause" /\ ParseWeight(x[n].weight) >= TopAt(x, n)
         /\ n \in SoftOf(x) <=> x[n].kind = "clause" /\ ~(ParseWeight(x[n].weight) >= TopAt(x, n))
  BY DEF HardOf, SoftOf, ClausesOf

-----------------------------------------------------------------------------
(***************************************************************************)
(* parse reads a line.                                                     *)
(***************************************************************************)
\* Nothing has been read.
LEMMA ReadStart ==
  ASSUME NEW x, IsFile(x)
  PROVE  ReadOK(x, 1, MaxWeight, Empty, <<>>)
<1>1. 1 \in 1..(Len(x) + 1) /\ 1 - 1 = 0 /\ 1..0 = {}
      BY FileFacts
<1>2. TopAt(x, 1) = MaxWeight
      BY <1>1 DEF TopAt
<1>3. Empty.poids = <<>> /\ Empty.truth = <<>> /\ Empty.live = Points /\ Empty.cost = 0
      BY DEF Empty
<1>4. Len(<<>>) = 0 /\ DOMAIN <<>> = {} /\ 0 \in 0..0
      OBVIOUS
<1>5. Blank(Empty)
      BY <1>1, <1>3, <1>4, PlainEmpty DEF Blank, FirstAre
<1>6. KeptOK(<<>>, 0)
      BY <1>4 DEF KeptOK
<1>7. NamedTo(x, 0, 0)
      BY <1>1 DEF NamedTo
<1>8. \A bad : Waiting(<<>>, bad) = PriceTo(x, bad, 0)
      BY WaitingNone, PriceNone
<1>9. \A j \in 1..(1 - 1) : x[j].kind \in {"top", "clause"}
      BY <1>1
<1>10. Empty.live = AllowedTo(x, 0) /\ Len(Empty.poids) = 0
       BY <1>3, <1>4, AllowedNone
<1> HIDE DEF Empty
<1> QED BY ONLY <1>1, <1>2, <1>5, <1>6, <1>7, <1>8, <1>9, <1>10 DEF ReadOK

\* What the invariant says, one fact at a time.
LEMMA ReadFacts ==
  ASSUME NEW x, IsFile(x), NEW i, NEW t, NEW g, NEW q, ReadOK(x, i, t, g, q)
  PROVE  /\ i \in Nat /\ i - 1 \in Nat /\ i + 1 - 1 = i /\ Len(x) \in Nat
         /\ i <= Len(x) => i \in DOMAIN x /\ i + 1 \in 1..(Len(x) + 1)
         /\ Blank(g) /\ Plain(g) /\ Len(g.poids) \in Nat
<1>1. Len(x) \in Nat /\ DOMAIN x = 1..Len(x) /\ i \in 1..(Len(x) + 1)
      BY FileFacts DEF ReadOK
<1>2. Blank(g) /\ Plain(g)
      BY DEF ReadOK, Blank
<1>3. g.poids \in Seq(Int)
      BY <1>2, PlainFacts
<1> QED BY <1>1, <1>2, <1>3

\* A line that is not a soft clause charges nothing.
LEMMA PriceSkip ==
  ASSUME NEW x, IsFile(x), NEW bad, NEW i \in DOMAIN x, i \notin SoftOf(x)
  PROVE  PriceTo(x, bad, i) = PriceTo(x, bad, i - 1)
<1>1. PriceTo(x, bad, i) = PriceTo(x, bad, i - 1) + 0
      BY PriceStep
<1>2. i - 1 \in Nat
      BY FileFacts
<1>3. PriceTo(x, bad, i - 1) \in Nat
      BY <1>2, PaidFacts
<1> QED BY <1>1, <1>3

\* "p wcnf".
LEMMA ReadTopOK ==
  ASSUME NEW x, IsFile(x), NEW i, NEW t, NEW g, NEW q, ReadOK(x, i, t, g, q), i <= Len(x), x[i].kind = "top"
  PROVE  ReadOK(x, i + 1, ParseWeight(x[i].weight), g, q)
<1>1. /\ i \in Nat /\ i - 1 \in Nat /\ i + 1 - 1 = i /\ i \in DOMAIN x /\ i + 1 \in 1..(Len(x) + 1)
      /\ Blank(g) /\ Len(g.poids) \in Nat
      BY ReadFacts
<1>2. i \notin HardOf(x) /\ i \notin SoftOf(x)
      BY <1>1, HardLine
<1>3. TopAt(x, i + 1) = ParseWeight(x[i].weight)
      BY <1>1, TopStep
<1>4. AllowedTo(x, i) = AllowedTo(x, i - 1)
      BY <1>1, <1>2, AllowedSkip
<1>5. NamedTo(x, i, Len(g.poids))
  <2>1. NamedTo(x, i - 1, Len(g.poids)) /\ Len(g.poids) <= Len(g.poids)
        BY <1>1 DEF ReadOK
  <2> QED BY <1>1, <2>1, NamedStep
<1>6. \A bad : Waiting(q, bad) = PriceTo(x, bad, i)
      BY <1>1, <1>2, PriceSkip DEF ReadOK
<1>7. \A j \in 1..i : x[j].kind \in {"top", "clause"}
      BY <1>1 DEF ReadOK
<1>8. g.live = AllowedTo(x, i) /\ KeptOK(q, Len(g.poids))
      BY <1>4 DEF ReadOK
<1> QED BY ONLY <1>1, <1>3, <1>5, <1>6, <1>7, <1>8 DEF ReadOK

\* A clause: hard ones go to the solver, soft ones are kept back.
LEMMA ReadClauseOK ==
  ASSUME NEW x, IsFile(x), NEW i, NEW t, NEW g, NEW q, ReadOK(x, i, t, g, q), i <= Len(x), x[i].kind = "clause",
         NEW w, w = ParseWeight(x[i].weight), NEW C, C = Range(x[i].lits), NEW h, h = NameVars(g, x[i].lits),
         NEW k, NEW r,
         IF w >= t THEN k = AddHardClause(h, C) /\ r = q
         ELSE k = h /\ r = Append(q, [lits |-> C, weight |-> w])
  PROVE  ReadOK(x, i + 1, t, k, r)
<1>1. /\ i \in Nat /\ i - 1 \in Nat /\ i + 1 - 1 = i /\ i \in DOMAIN x /\ i + 1 \in 1..(Len(x) + 1)
      /\ Blank(g) /\ Len(g.poids) \in Nat
      BY ReadFacts
<1>2. x[i].lits \in Seq(Int \ {0}) /\ w \in Nat
      BY <1>1, FileFacts
<1>3. /\ Blank(h) /\ h.live = g.live /\ Len(g.poids) <= Len(h.poids)
      /\ \A l \in C : Var(l) <= Len(h.poids)
      BY <1>1, <1>2, NameVarsFacts
<1>4. Within(C, Len(h.poids))
      BY <1>2, <1>3 DEF Range, Within
<1>5. Len(h.poids) \in Nat
  <2>1. h.poids \in Seq(Int)
        BY <1>3, PlainFacts DEF Blank
  <2> QED BY <2>1
<1>6. t = TopAt(x, i) /\ TopAt(x, i + 1) = TopAt(x, i)
      BY <1>1, TopStep DEF ReadOK
<1>7. NamedTo(x, i, Len(h.poids))
  <2>1. NamedTo(x, i - 1, Len(g.poids)) /\ \A l \in Range(x[i].lits) : Var(l) <= Len(h.poids)
        BY <1>3 DEF ReadOK
  <2> QED BY <1>1, <1>3, <1>5, <2>1, NamedStep
<1>8. KeptOK(q, Len(h.poids))
  <2>1. KeptOK(q, Len(g.poids))
        BY DEF ReadOK
  <2> QED BY <1>1, <1>3, <1>5, <2>1, KeptMore
<1>9. \A j \in 1..i : x[j].kind \in {"top", "clause"}
      BY <1>1 DEF ReadOK
<1>10. /\ \A bad : Waiting(q, bad) = PriceTo(x, bad, i - 1)
       /\ h.live = AllowedTo(x, i - 1)
       BY <1>3 DEF ReadOK
<1>11. CASE w >= t
  <2>1. i \in HardOf(x) /\ i \notin SoftOf(x) /\ k = AddHardClause(h, C) /\ r = q
        BY <1>1, <1>6, <1>11, HardLine
  <2>2. Blank(k) /\ Len(k.poids) = Len(h.poids) /\ k.live = {p \in h.live : ~(C \subseteq Lies(p))}
        BY <1>3, <1>4, <2>1, BlankAddHard
  <2>3. k.live = AllowedTo(x, i)
        BY <1>1, <1>10, <2>1, <2>2, AllowedStep
  <2>4. \A bad : Waiting(r, bad) = PriceTo(x, bad, i)
        BY <1>1, <1>10, <2>1, PriceSkip
  <2>5. NamedTo(x, i, Len(k.poids)) /\ KeptOK(r, Len(k.poids))
        BY <1>7, <1>8, <2>1, <2>2
  <2> QED BY ONLY <1>1, <1>6, <1>9, <2>2, <2>3, <2>4, <2>5 DEF ReadOK
<1>12. CASE ~(w >= t)
  <2>1. /\ i \notin HardOf(x) /\ i \in SoftOf(x) /\ k = h
        /\ r = Append(q, [lits |-> C, weight |-> w])
        BY <1>1, <1>6, <1>12, HardLine
  <2>2. /\ KeptOK(r, Len(h.poids))
        /\ \A bad : Waiting(r, bad) = Waiting(q, bad) + IF C \subseteq bad THEN w ELSE 0
    <3>1. PICK n \in Nat : n = Len(h.poids)
          BY <1>5
    <3>2. KeptOK(q, n) /\ Within(C, n)
          BY <1>4, <1>8, <3>1
    <3>3. KeptAt(q, C, w, r)
          BY <2>1 DEF KeptAt
    <3>4. KeptOK(r, n) /\ Gains(r, q, C, w)
          BY ONLY <1>2, <3>2, <3>3, n \in Nat, WaitingAppend
    <3> QED BY <3>1, <3>4 DEF Gains
  <2>3. ASSUME NEW bad
        PROVE  PriceTo(x, bad, i) = PriceTo(x, bad, i - 1) + IF C \subseteq bad THEN w ELSE 0
    <3>1. PriceTo(x, bad, i) = PriceTo(x, bad, i - 1)
            + IF i \in SoftOf(x) /\ Range(x[i].lits) \subseteq bad THEN ParseWeight(x[i].weight) ELSE 0
          BY ONLY <1>1, IsFile(x), PriceStep
    <3> QED BY ONLY <2>1, <3>1, C = Range(x[i].lits), w = ParseWeight(x[i].weight)
  <2>4. \A bad : Waiting(r, bad) = PriceTo(x, bad, i)
        BY <1>10, <2>2, <2>3
  <2>5. k.live = AllowedTo(x, i)
        BY <1>1, <1>10, <2>1, AllowedSkip
  <2>6. Blank(k) /\ NamedTo(x, i, Len(k.poids)) /\ KeptOK(r, Len(k.poids))
        BY <1>3, <1>7, <2>1, <2>2
  <2> QED BY ONLY <1>1, <1>6, <1>9, <2>4, <2>5, <2>6 DEF ReadOK
<1> QED BY <1>11, <1>12

-----------------------------------------------------------------------------
(***************************************************************************)
(* parse adds the soft clauses.                                            *)
(***************************************************************************)
\* Without weights nothing is charged.
LEMMA BlankTotal ==
  ASSUME NEW g, Blank(g), NEW bad
  PROVE  Total(g, <<>>, bad) = 0
<1>1. Plain(g) /\ g.poids \in Seq(Int) /\ g.cost = 0 /\ \A v \in DOMAIN g.poids : g.poids[v] = 0
      BY PlainFacts DEF Blank
<1>2. IsFiniteSet(DOMAIN g.poids)
  <2>1. Len(g.poids) \in Int /\ DOMAIN g.poids = 1..Len(g.poids)
        BY <1>1
  <2> QED BY <2>1, FS_Interval
<1>3. Charges(g.poids, bad) = 0
  <2>1. PICK c : c = [v \in DOMAIN g.poids |-> Charged(g.poids, bad, v)]
        OBVIOUS
  <2>2. \A v \in DOMAIN g.poids : c[v] = 0
        BY <1>1, <2>1 DEF Charged
  <2>3. SumFunctionOnSet(c, DOMAIN g.poids) = 0
        BY <1>2, <2>2, SumZero
  <2> QED BY <2>1, <2>3 DEF Charges
<1> QED BY <1>1, <1>3, PlainGood

\* The end of the file.
LEMMA SoftStart ==
  ASSUME NEW x, IsFile(x), NEW i, NEW t, NEW g, NEW q, ReadOK(x, i, t, g, q), i > Len(x), NEW n, n = Len(g.poids)
  PROVE  SoftOK(x, n, g, q)
<1>1. /\ i \in Nat /\ Len(x) \in Nat /\ i \in 1..(Len(x) + 1) /\ Blank(g) /\ Plain(g) /\ n \in Nat
      /\ DOMAIN x = 1..Len(x)
      BY ReadFacts, FileFacts DEF ReadOK
<1>2. i - 1 = Len(x)
      BY <1>1
<1>3. WellFormed(x)
      BY <1>1, <1>2 DEF WellFormed, ReadOK
<1>4. NamedTo(x, Len(x), n) /\ KeptOK(q, n) /\ g.live = AllowedTo(x, Len(x))
      BY <1>2 DEF ReadOK
<1>5. FirstAre(g, n) /\ g.cost \in Nat
      BY <1>1 DEF Blank
<1>6. \A bad : Waiting(q, bad) = PriceTo(x, bad, Len(x)) /\ Waiting(q, bad) \in Nat
      BY <1>2, <1>4, WaitingFacts DEF ReadOK
<1>7. \A bad : Total(g, <<>>, bad) = 0
      BY <1>1, BlankTotal
<1>8. Total(g, <<>>, Int) + Waiting(q, Int) <= PriceTo(x, Int, Len(x))
      BY <1>6, <1>7
<1>9. \A p \in Points : Total(g, <<>>, Falsified(g, p)) + Waiting(q, Lies(p)) = PriceTo(x, Lies(p), Len(x))
      BY ONLY <1>6, <1>7
<1> QED BY ONLY <1>1, <1>3, <1>4, <1>5, <1>8, <1>9 DEF SoftOK

\* One soft clause: the weight is small enough to be a long long, and for
\* the sums not to wrap.
LEMMA SoftStep ==
  ASSUME NEW x, IsFile(x), NEW n, NEW g, NEW q, SoftOK(x, n, g, q), q # <<>>,
         NEW h, h = AddSoft(g, Head(q).lits, LongLong(Head(q).weight)), NEW r, r = Tail(q)
  PROVE  SoftOK(x, n, h, r)
<1>1. PICK C : C = Head(q).lits
      OBVIOUS
<1>2. PICK w : w = Head(q).weight
      OBVIOUS
<1>3. /\ n \in Nat /\ Plain(g) /\ FirstAre(g, n) /\ g.cost \in Nat
      /\ WellFormed(x) /\ NamedTo(x, Len(x), n) /\ KeptOK(q, n) /\ Len(x) \in Nat
      /\ g.live = AllowedTo(x, Len(x))
      BY FileFacts DEF SoftOK
<1>4. KeptOK(r, n) /\ Within(C, n) /\ w \in Nat /\ Gains(q, r, C, w)
      BY ONLY <1>1, <1>2, <1>3, q # <<>>, r = Tail(q), WaitingTail
<1>5. Over(g, C)
      BY <1>3, <1>4, FirstOver
<1>6. PICK a : a = Total(g, <<>>, Int)
      OBVIOUS
<1>7. a \in Int /\ 0 <= a
  <2>1. Good(g, <<>>, {}) /\ \A bad : Total(g, <<>>, bad) \in Int
        BY <1>3, PlainGood
  <2>2. g.cost <= Total(g, <<>>, Int)
        BY <2>1, TotalInt DEF Good
  <2> QED BY <1>3, <1>6, <2>1, <2>2
<1>8. PICK b : b = PriceTo(x, Int, Len(x))
      OBVIOUS
<1>9. b \in Nat /\ 2 * b < MaxWeight
      BY <1>3, <1>8, PaidFacts
<1>10. PICK d : d = Waiting(r, Int)
       OBVIOUS
<1>11. d \in Nat /\ Waiting(q, Int) = d + w
  <2>1. C \subseteq Int /\ d \in Nat
        BY <1>4, <1>10, WaitingFacts DEF Within
  <2> QED BY <1>4, <1>10, <2>1 DEF Gains
<1>12. a + (d + w) <= b
       BY <1>6, <1>8, <1>11 DEF SoftOK
<1>13. w <= b /\ a + w < MaxWeight /\ 2 * w < MaxWeight
       BY ONLY <1>4, <1>7, <1>9, <1>11, <1>12, MaxWeightAssumption
<1>14. LongLong(w) = w
       BY ONLY <1>4, <1>13, MaxWeightAssumption DEF LongLong
<1>15. h = AddSoft(g, C, w) /\ w \in Int /\ Size(w) = w
       BY <1>1, <1>2, <1>4, <1>14 DEF Size
<1>16. Plain(h) /\ DOMAIN g.poids \subseteq DOMAIN h.poids
       BY <1>3, <1>5, <1>15, PlainAddSoft
<1>17. PICK T : T = UNION {True(g, l) : l \in C}
       OBVIOUS
<1>18. Accounts(g, h, T, w)
  <2>1. Total(g, <<>>, Int) + Size(w) < MaxWeight
        BY <1>6, <1>13, <1>15
  <2>2. C = {} \/ Cardinality(C) > 1 => w >= 0
        BY <1>4
  <2> QED BY ONLY <1>3, <1>5, <1>15, <1>16, <1>17, <2>1, <2>2, SoftAccounts
<1>19. FirstAre(h, n)
  <2>1. g.poids \in Seq(Int) /\ h.poids \in Seq(Int)
        BY <1>3, <1>16, PlainFacts
  <2>2. n \in 0..Len(h.poids) /\ \A v \in 1..n : v \in DOMAIN g.poids
    <3>1. PICK k : k = Len(g.poids)
          OBVIOUS
    <3>2. PICK m : m = Len(h.poids)
          OBVIOUS
    <3>3. k \in Nat /\ m \in Nat /\ 1..k \subseteq 1..m /\ DOMAIN g.poids = 1..k
      <4>1. k \in Nat /\ DOMAIN g.poids = 1..k
            BY ONLY <2>1, <3>1
      <4>2. m \in Nat /\ DOMAIN h.poids = 1..m
            BY ONLY <2>1, <3>2
      <4> QED BY ONLY <1>16, <4>1, <4>2
    <3>4. n \in 0..k
          BY <1>3, <3>1 DEF FirstAre
    <3>5. n \in 0..m
      <4>1. CASE n = 0
            BY <3>3, <4>1
      <4>2. CASE n # 0
        <5>1. n \in 1..k
              BY <3>3, <3>4, <4>2
        <5> QED BY <3>3, <5>1
      <4> QED BY <4>1, <4>2
    <3>6. \A v \in 1..n : v \in 1..k
          BY <3>3, <3>4
    <3> QED BY <3>2, <3>3, <3>5, <3>6
  <2>3. \A v \in 1..n : h.truth[v] = g.truth[v]
        BY <1>18, <2>2 DEF Accounts, SameTruth
  <2> QED BY <1>3, <2>2, <2>3 DEF FirstAre
<1>20. ASSUME NEW p \in Points
       PROVE  Total(h, <<>>, Falsified(h, p)) + Waiting(r, Lies(p)) = PriceTo(x, Lies(p), Len(x))
  <2>1. PICK u : u = Total(g, <<>>, Falsified(g, p))
        OBVIOUS
  <2>2. PICK e : e = Waiting(r, Lies(p))
        OBVIOUS
  <2>3. u \in Int /\ e \in Nat
        BY <1>3, <1>4, <2>1, <2>2, PlainGood, WaitingFacts
  <2>4. Total(h, <<>>, Falsified(h, p)) = u + Fee(T, w, p)
        BY <1>18, <2>1 DEF Accounts
  <2>5. p \in T <=> ~(C \subseteq Lies(p))
    <3>1. p \in UNION {True(g, l) : l \in C} <=> ~(C \subseteq Lies(p))
          BY ONLY <1>3, <1>4, p \in Points, ClauseLies
    <3> QED BY ONLY <1>17, <3>1
  <2>6. Fee(T, w, p) = IF C \subseteq Lies(p) THEN w ELSE 0
        BY <1>4, <2>5 DEF Fee
  <2>7. Waiting(q, Lies(p)) = e + IF C \subseteq Lies(p) THEN w ELSE 0
        BY <1>4, <2>2 DEF Gains
  <2>8. u + Waiting(q, Lies(p)) = PriceTo(x, Lies(p), Len(x))
        BY <2>1 DEF SoftOK
  <2> QED BY ONLY <1>4, <2>2, <2>3, <2>4, <2>6, <2>7, <2>8
<1>21. Total(h, <<>>, Int) + Waiting(r, Int) <= PriceTo(x, Int, Len(x))
  <2>1. PICK u : u = Total(h, <<>>, Int)
        OBVIOUS
  <2>2. u \in Int /\ u <= a + w
        BY <1>6, <1>15, <1>16, <1>18, <2>1, PlainGood DEF Accounts
  <2>3. u + d <= b
        BY ONLY <1>4, <1>7, <1>9, <1>11, <1>12, <2>2
  <2> QED BY <1>8, <1>10, <2>1, <2>3
<1>22. h.live = AllowedTo(x, Len(x)) /\ h.cost \in Nat
       BY <1>3, <1>18 DEF Accounts
<1> QED BY ONLY <1>3, <1>4, <1>16, <1>19, <1>20, <1>21, <1>22 DEF SoftOK

\* Nothing is left to add: the formula is the file's.
LEMMA SoftEnd ==
  ASSUME NEW x, IsFile(x), NEW n, NEW g, SoftOK(x, n, g, <<>>)
  PROVE  /\ WellFormed(x) /\ NamedTo(x, Len(x), n) /\ n \in Nat /\ g.live \in SUBSET Points
         /\ \A p \in Points : (p \in g.live <=> Allowed(x, p)) /\ CostOf(g, p) = PriceOf(x, p)
<1>1. WellFormed(x) /\ NamedTo(x, Len(x), n) /\ n \in Nat /\ Plain(g) /\ g.live = AllowedTo(x, Len(x))
      BY DEF SoftOK
<1>2. ASSUME NEW p \in Points
      PROVE  (p \in g.live <=> Allowed(x, p)) /\ CostOf(g, p) = PriceOf(x, p)
  <2>1. p \in g.live <=> Allowed(x, p)
        BY <1>1, AllowedEnd
  <2>2. PICK u : u = Total(g, <<>>, Falsified(g, p))
        OBVIOUS
  <2>3. u \in Int /\ u = CostOf(g, p)
        BY <1>1, <2>2, PlainGood DEF CostOf, SoftCost
  <2>4. u + 0 = PriceTo(x, Lies(p), Len(x))
        BY <2>2, WaitingNone DEF SoftOK
  <2> QED BY <2>1, <2>3, <2>4, PriceIs
<1>3. g.live \in SUBSET Points
      BY <1>1 DEF AllowedTo
<1> QED BY <1>1, <1>2, <1>3

-----------------------------------------------------------------------------
(***************************************************************************)
(* The actions of parse.                                                   *)
(***************************************************************************)
\* What is given is a file.
LEMMA FilesAre ==
  ASSUME NEW x \in Files
  PROVE  IsFile(x)
  BY FilesAssumption DEF IsFile

\* Before the file is opened.
LEMMA ParserInitInv == ParserInit => ParserInv
  BY DEF ParserInit, ParserInv

\* Every step of parse.
LEMMA ParserNextInv == ParserInv /\ ParserNext => ParserInv'
<1> SUFFICES ASSUME ParserInv, ParserNext
             PROVE  ParserInv'
    OBVIOUS
<1>1. file \in Files /\ IsFile(file) /\ nInputVars \in Nat
      BY FilesAre DEF ParserInv
<1>2. CASE OpenFile
  <2>1. ReadOK(file, pos, top, f, softClauses)
        BY <1>1, <1>2, ReadStart DEF ParserInv, OpenFile
  <2> QED BY <1>1, <1>2, <2>1 DEF ParserInv, OpenFile
<1>3. CASE ReadTop
  <2>1. /\ pc = "read" /\ pos <= Len(file) /\ file[pos].kind = "top"
        /\ top' = ParseWeight(file[pos].weight) /\ pos' = pos + 1
        /\ UNCHANGED <<file, f, softClauses, nInputVars, pc>>
        BY <1>3 DEF ReadTop, AtLine
  <2>2. ReadOK(file, pos, top, f, softClauses)
        BY <2>1 DEF ParserInv
  <2>3. ReadOK(file, pos', top', f, softClauses)
        BY <1>1, <2>1, <2>2, ReadTopOK
  <2> QED BY <1>1, <2>1, <2>3 DEF ParserInv
<1>4. CASE ReadBad
  <2>1. pc = "read" /\ pos <= Len(file) /\ file[pos].kind = "bad" /\ pc' = "failed" /\ UNCHANGED <<file, nInputVars>>
        BY <1>4 DEF ReadBad, AtLine
  <2>2. pos \in DOMAIN file
        BY <1>1, <2>1, ReadFacts DEF ParserInv
  <2>3. ~WellFormed(file)
        BY <2>1, <2>2 DEF WellFormed
  <2> QED BY <1>1, <2>1, <2>3 DEF ParserInv
<1>5. CASE ReadJunk
      BY <1>1, <1>5 DEF ParserInv, ReadJunk
<1>6. CASE ReadClause
  <2>1. PICK w : w = ParseWeight(file[pos].weight)
        OBVIOUS
  <2>2. PICK C : C = Range(file[pos].lits)
        OBVIOUS
  <2>3. PICK g : g = NameVars(f, file[pos].lits)
        OBVIOUS
  <2>4. /\ pc = "read" /\ pos <= Len(file) /\ file[pos].kind = "clause" /\ pos' = pos + 1
        /\ UNCHANGED <<file, top, nInputVars, pc>>
        BY <1>6 DEF ReadClause, AtLine
  <2>5. IF w >= top THEN f' = AddHardClause(g, C) /\ softClauses' = softClauses
        ELSE f' = g /\ softClauses' = Append(softClauses, [lits |-> C, weight |-> w])
        BY <1>6, <2>1, <2>2, <2>3, Zenon DEF ReadClause
  <2>6. ReadOK(file, pos, top, f, softClauses)
        BY <2>4 DEF ParserInv
  <2>7. ReadOK(file, pos + 1, top, f', softClauses')
        BY ONLY <1>1, <2>1, <2>2, <2>3, <2>4, <2>5, <2>6, ReadClauseOK
  <2> QED BY <1>1, <2>4, <2>7 DEF ParserInv
<1>7. CASE EndOfFile
  <2>1. pc = "read" /\ pos > Len(file) /\ nInputVars' = Len(f.poids) /\ pc' = "soft" /\ UNCHANGED <<file, f, softClauses>>
        BY <1>7 DEF EndOfFile
  <2>2. ReadOK(file, pos, top, f, softClauses)
        BY <2>1 DEF ParserInv
  <2>3. SoftOK(file, nInputVars', f, softClauses)
        BY <1>1, <2>1, <2>2, SoftStart
  <2>4. nInputVars' \in Nat
        BY <2>3 DEF SoftOK
  <2> QED BY <1>1, <2>1, <2>3, <2>4 DEF ParserInv
<1>8. CASE AddSoftClause
  <2>1. /\ pc = "soft" /\ softClauses # <<>>
        /\ f' = AddSoft(f, Head(softClauses).lits, LongLong(Head(softClauses).weight))
        /\ softClauses' = Tail(softClauses)
        /\ UNCHANGED <<file, nInputVars, pc>>
        BY <1>8 DEF AddSoftClause
  <2>2. SoftOK(file, nInputVars, f, softClauses)
        BY <2>1 DEF ParserInv
  <2>3. SoftOK(file, nInputVars, f', softClauses')
        BY ONLY <1>1, <2>1, <2>2, SoftStep
  <2> QED BY <1>1, <2>1, <2>3 DEF ParserInv
<1>9. CASE ParseReturns
      BY <1>1, <1>9 DEF ParserInv, ParseReturns
<1> QED BY <1>2, <1>3, <1>4, <1>5, <1>6, <1>7, <1>8, <1>9 DEF ParserNext

\* What is known of the formula once parse has returned.
LEMMA ParsedFacts ==
  ASSUME ParserInv, pc = "parsed"
  PROVE  /\ IsFile(file) /\ WellFormed(file) /\ NamedTo(file, Len(file), nInputVars) /\ nInputVars \in Nat
         /\ f.live \in SUBSET Points
         /\ \A p \in Points : (p \in f.live <=> Allowed(file, p)) /\ CostOf(f, p) = PriceOf(file, p)
<1>1. IsFile(file) /\ SoftOK(file, nInputVars, f, <<>>)
      BY FilesAre DEF ParserInv
<1> QED BY <1>1, SoftEnd

\* The formula is the file's.
LEMMA ParserInvFormula == ParserInv => FormulaIsFile
<1>1. ASSUME ParserInv, pc = "parsed"
      PROVE  /\ WellFormed(file)
             /\ \A p \in Points : (p \in f.live <=> Allowed(file, p)) /\ CostOf(f, p) = PriceOf(file, p)
      BY <1>1, ParsedFacts
<1> QED BY <1>1 DEF FormulaIsFile

-----------------------------------------------------------------------------
(***************************************************************************)
(* calculateCost.                                                          *)
(***************************************************************************)
\* Two assignments that the clauses of a file do not tell apart.
Alike(x, p, r) == \A i \in ClausesOf(x) : Holds(p, x[i].lits) <=> Holds(r, x[i].lits)

\* They are allowed alike and cost the same.
LEMMA AlikeFacts ==
  ASSUME NEW x, NEW p, NEW r, Alike(x, p, r)
  PROVE  (Allowed(x, p) <=> Allowed(x, r)) /\ PriceOf(x, p) = PriceOf(x, r)
<1>1. HardOf(x) \subseteq ClausesOf(x) /\ SoftOf(x) \subseteq ClausesOf(x)
      BY DEF HardOf, SoftOf
<1>2. Allowed(x, p) <=> Allowed(x, r)
      BY <1>1 DEF Allowed, Alike
<1>3. {i \in SoftOf(x) : ~Holds(p, x[i].lits)} = {i \in SoftOf(x) : ~Holds(r, x[i].lits)}
      BY <1>1 DEF Alike
<1> QED BY <1>2, <1>3 DEF PriceOf

\* The clauses of a file only tell apart the variables they name.
LEMMA NamedAlike ==
  ASSUME NEW x, IsFile(x), NEW n \in Nat, NamedTo(x, Len(x), n), NEW p, NEW r, \A v \in 1..n : v \in p <=> v \in r
  PROVE  Alike(x, p, r)
<1>1. ASSUME NEW i \in ClausesOf(x)
      PROVE  Holds(p, x[i].lits) <=> Holds(r, x[i].lits)
  <2>1. i \in ClausesOf(x) \cap 1..Len(x) /\ x[i].lits \in Seq(Int \ {0})
        BY FileFacts
  <2>2. ASSUME NEW k \in DOMAIN x[i].lits
        PROVE  Var(x[i].lits[k]) \in p <=> Var(x[i].lits[k]) \in r
    <3>1. PICK l : l = x[i].lits[k]
          OBVIOUS
    <3>2. l \in Range(x[i].lits) /\ l \in Int \ {0}
          BY <2>1, <3>1 DEF Range
    <3>3. Var(l) <= n
          BY <2>1, <3>2 DEF NamedTo
    <3>4. Var(l) \in 1..n
          BY <3>2, <3>3 DEF Var
    <3> QED BY <3>1, <3>4
  <2> QED BY <2>2 DEF Holds
<1> QED BY <1>1 DEF Alike

\* A vector and the set of its true variables.
LEMMA VecFacts ==
  ASSUME NEW p, NEW n \in Nat
  PROVE  /\ DOMAIN VecOf(p, n) = 1..n /\ Len(VecOf(p, n)) = n
         /\ PointOf(VecOf(p, n)) = p \cap 1..n
         /\ VecOf(p \cap 1..n, n) = VecOf(p, n)
<1>1. VecOf(p, n) \in Seq(BOOLEAN) /\ DOMAIN VecOf(p, n) = 1..n
      BY DEF VecOf
<1>2. Len(VecOf(p, n)) = n
      BY <1>1
<1>3. PointOf(VecOf(p, n)) = p \cap 1..n
      BY DEF VecOf, PointOf
<1>4. VecOf(p \cap 1..n, n) = VecOf(p, n)
      BY DEF VecOf
<1> QED BY <1>1, <1>2, <1>3, <1>4

\* l is true when the variables of r are.
TrueAt(r, l) == (Var(l) \in r) = (l > 0)

\* A clause is unsatisfied by a vector iff it is false at its true variables.
LEMMA TrueInVec ==
  ASSUME NEW p, NEW n, NEW r, r = p \cap 1..n
  PROVE  /\ \A l : TrueIn(VecOf(p, n), l) <=> TrueAt(r, l)
         /\ \A lits : Unsatisfied(VecOf(p, n), lits) <=> ~Holds(r, lits)
<1>1. ASSUME NEW l
      PROVE  TrueIn(VecOf(p, n), l) <=> TrueAt(r, l)
  <2>1. DOMAIN VecOf(p, n) = 1..n
        BY DEF VecOf
  <2>2. Var(l) \in DOMAIN VecOf(p, n) /\ VecOf(p, n)[Var(l)] <=> Var(l) \in r
    <3>1. CASE Var(l) \in 1..n
      <4>1. VecOf(p, n)[Var(l)] = (Var(l) \in p)
            BY <3>1 DEF VecOf
      <4> QED BY <2>1, <3>1, <4>1, Zenon
    <3>2. CASE Var(l) \notin 1..n
          BY <2>1, <3>2, Zenon
    <3> QED BY <3>1, <3>2
  <2> QED BY ONLY <2>2, SMT DEF TrueIn, TrueAt
<1> QED BY <1>1 DEF Unsatisfied, Holds, TrueAt

\* A longer vector.
LEMMA ResizedVec ==
  ASSUME NEW p, NEW n \in Nat, NEW m \in Nat, n <= m
  PROVE  Resized(VecOf(p, n), m) = VecOf(p \cap 1..n, m)
<1>1. \A v \in 1..m : (v \in DOMAIN VecOf(p, n) /\ VecOf(p, n)[v]) = (v \in p \cap 1..n)
  <2> TAKE v \in 1..m
  <2>1. DOMAIN VecOf(p, n) = 1..n
        BY DEF VecOf
  <2>2. v \in DOMAIN VecOf(p, n) /\ VecOf(p, n)[v] <=> v \in p \cap 1..n
    <3>1. CASE v \in 1..n
      <4>1. VecOf(p, n)[v] = (v \in p)
            BY <3>1 DEF VecOf
      <4> QED BY <2>1, <3>1, <4>1, Zenon
    <3>2. CASE v \notin 1..n
          BY <2>1, <3>2, Zenon
    <3> QED BY <3>1, <3>2
  <2> QED BY ONLY <2>2, SMT
<1> QED BY <1>1 DEF Resized, VecOf

\* The lines calculateCost stops at, and the last line it reads.
Stops(x, vec) ==
    {i \in DOMAIN x : \/ x[i].kind \in {"bad", "junk"}
                      \/ i \in HardOf(x) /\ Unsatisfied(vec, x[i].lits)}

LastOf(x, vec) == IF Stops(x, vec) = {} THEN Len(x) ELSE Min(Stops(x, vec))

\* The variables it looks at, up to a line.
SeenTo(x, vec, n) == UNION {LookedAt(vec, x[i].lits) : i \in ClausesOf(x) \cap 1..n}

\* The soft clauses it finds unsatisfied.
UnpaidTo(x, vec, n) == {i \in (ClausesOf(x) \cap 1..n) \cap SoftOf(x) : Unsatisfied(vec, x[i].lits)}

\* The three parts of its result.
LEMMA CostParts ==
  ASSUME NEW x, NEW vec, NEW c, c = CalculateCost(x, vec), NEW last, last = LastOf(x, vec)
  PROVE  /\ c.vec = Resized(vec, Max({Len(vec)} \cup SeenTo(x, vec, last)))
         /\ Stops(x, vec) = {} => /\ ~c.exits
                                  /\ c.cost = Wrap(SumFunctionOnSet(WeightsOf(x), UnpaidTo(x, vec, last)))
         /\ Stops(x, vec) # {} /\ x[last].kind = "clause" => ~c.exits /\ c.cost = MaxWeight
  BY DEF CalculateCost, Stops, LastOf, SeenTo, UnpaidTo

\* The cost of a vector is that of the assignment that makes nothing else true.
LEMMA CostFacts ==
  ASSUME NEW x, IsFile(x), WellFormed(x), NEW q, NEW n \in Nat, NEW r, r = q \cap 1..n,
         NEW c, c = CalculateCost(x, VecOf(q, n))
  PROVE  /\ ~c.exits /\ c.cost = IF Allowed(x, r) THEN PriceOf(x, r) ELSE MaxWeight
         /\ PriceOf(x, r) \in Nat /\ PriceOf(x, r) < MaxWeight
         /\ Allowed(x, r) => LastOf(x, VecOf(q, n)) = Len(x)
<1>1. PICK vec : vec = VecOf(q, n)
      OBVIOUS
<1>2. \A lits : Unsatisfied(vec, lits) <=> ~Holds(r, lits)
      BY <1>1, TrueInVec
<1>3. /\ DOMAIN x = 1..Len(x) /\ Len(x) \in Nat
      /\ HardOf(x) \subseteq ClausesOf(x) /\ SoftOf(x) \subseteq ClausesOf(x) /\ ClausesOf(x) \subseteq DOMAIN x
      BY FileFacts
<1>4. Stops(x, vec) = {i \in HardOf(x) : ~Holds(r, x[i].lits)}
  <2>1. \A i \in DOMAIN x : x[i].kind \notin {"bad", "junk"}
        BY DEF WellFormed
  <2> QED BY <1>2, <1>3, <2>1 DEF Stops
<1>5. Stops(x, vec) = {} <=> Allowed(x, r)
      BY <1>4 DEF Allowed
<1>6. PICK last : last = LastOf(x, vec)
      OBVIOUS
<1>7. PriceOf(x, r) \in Nat /\ PriceOf(x, r) < MaxWeight
  <2>1. PICK b : b = PriceOf(x, r)
        OBVIOUS
  <2>2. b \in Nat /\ 2 * b < MaxWeight
        BY <1>3, <2>1, PriceIs, PaidFacts
  <2> QED BY <2>1, <2>2, MaxWeightAssumption
<1>8. CASE Stops(x, vec) = {}
  <2>1. last = Len(x)
        BY <1>6, <1>8 DEF LastOf
  <2>2. UnpaidTo(x, vec, last) = {i \in SoftOf(x) : ~Holds(r, x[i].lits)}
        BY <1>2, <1>3, <2>1 DEF UnpaidTo
  <2>3. ~c.exits /\ c.cost = Wrap(PriceOf(x, r))
    <3>1. ~c.exits /\ c.cost = Wrap(SumFunctionOnSet(WeightsOf(x), UnpaidTo(x, vec, last)))
          BY ONLY <1>1, <1>6, <1>8, c = CalculateCost(x, VecOf(q, n)), CostParts
    <3>2. PriceOf(x, r) = SumFunctionOnSet(WeightsOf(x), UnpaidTo(x, vec, last))
          BY ONLY <2>2 DEF PriceOf
    <3> QED BY ONLY <3>1, <3>2
  <2>4. Wrap(PriceOf(x, r)) = PriceOf(x, r)
        BY <1>7, WrapSmall
  <2> QED BY <1>1, <1>5, <1>6, <1>7, <1>8, <2>1, <2>3, <2>4
<1>9. CASE Stops(x, vec) # {}
  <2>1. Stops(x, vec) \in SUBSET Nat
        BY <1>3, <1>4
  <2>2. last \in Stops(x, vec)
        BY <1>6, <1>9, <2>1, MinFacts DEF LastOf
  <2>3. x[last].kind = "clause"
        BY <1>3, <1>4, <2>2 DEF ClausesOf
  <2>4. ~c.exits /\ c.cost = MaxWeight
        BY <1>1, <1>6, <1>9, <2>3, CostParts
  <2> QED BY <1>5, <1>7, <1>9, <2>4
<1> QED BY <1>8, <1>9

\* The variables looked at are numbers, and those of the file.
LEMMA SeenFacts ==
  ASSUME NEW x, IsFile(x), NEW vec, NEW last
  PROVE  /\ SeenTo(x, vec, last) \in SUBSET Nat
         /\ \E b \in Nat : \A v \in SeenTo(x, vec, last) : v <= b
         /\ \A n : NamedTo(x, Len(x), n) => \A v \in SeenTo(x, vec, last) : v <= n
<1>1. ASSUME NEW v \in SeenTo(x, vec, last)
      PROVE  \E i \in ClausesOf(x) : \E k \in DOMAIN x[i].lits : v = Var(x[i].lits[k])
      BY DEF SeenTo, LookedAt
<1>2. ASSUME NEW i \in ClausesOf(x), NEW k \in DOMAIN x[i].lits
      PROVE  /\ i \in DOMAIN x /\ i \in ClausesOf(x) \cap 1..Len(x)
             /\ x[i].lits[k] \in Range(x[i].lits) /\ Var(x[i].lits[k]) \in Nat
  <2>1. i \in DOMAIN x /\ i \in ClausesOf(x) \cap 1..Len(x) /\ x[i].lits \in Seq(Int \ {0})
        BY FileFacts
  <2>2. x[i].lits[k] \in Int
        BY <2>1
  <2> QED BY <2>1, <2>2 DEF Range, Var
<1>3. PICK b \in Nat : \A i \in DOMAIN x : \A k \in DOMAIN x[i].lits : Var(x[i].lits[k]) <= b
  <2>1. x \in Seq(Lines)
        BY FileFacts
  <2> QED BY <2>1, FileBounded
<1>4. ASSUME NEW v \in SeenTo(x, vec, last)
      PROVE  v \in Nat /\ v <= b /\ \A n : NamedTo(x, Len(x), n) => v <= n
  <2>1. PICK i \in ClausesOf(x) : \E k \in DOMAIN x[i].lits : v = Var(x[i].lits[k])
        BY <1>1
  <2>2. PICK k \in DOMAIN x[i].lits : v = Var(x[i].lits[k])
        BY <2>1
  <2>3. /\ i \in DOMAIN x /\ i \in ClausesOf(x) \cap 1..Len(x)
        /\ x[i].lits[k] \in Range(x[i].lits) /\ Var(x[i].lits[k]) \in Nat
        BY <1>2
  <2>4. \A n : NamedTo(x, Len(x), n) => v <= n
        BY <2>2, <2>3 DEF NamedTo
  <2> QED BY <1>3, <2>2, <2>3, <2>4
<1> QED BY <1>4

\* A vector of n elements that has become one of m: no variable that the file
\* names is beyond m if none is beyond n, and the variables looked at are not.
Extends(x, vec, n, r, longer, m) ==
    /\ n <= m /\ longer = VecOf(r, m)
    /\ NamedTo(x, Len(x), n) => m = n
    /\ Allowed(x, r) => \A v \in SeenTo(x, vec, Len(x)) : v <= m

\* The vector that calculateCost leaves: extended, never cut.
LEMMA CostVec ==
  ASSUME NEW x, IsFile(x), WellFormed(x), NEW q, NEW n \in Nat, NEW r, r = q \cap 1..n,
         NEW c, c = CalculateCost(x, VecOf(q, n))
  PROVE  \E m \in Nat : Extends(x, VecOf(q, n), n, r, c.vec, m)
<1>1. PICK vec : vec = VecOf(q, n)
      OBVIOUS
<1>2. PICK last : last = LastOf(x, vec)
      OBVIOUS
<1>3. PICK X : X = SeenTo(x, vec, last)
      OBVIOUS
<1>4. PICK Y : Y = {Len(vec)} \cup X
      OBVIOUS
<1>5. PICK m : m = Max(Y)
      OBVIOUS
<1>6. Len(vec) = n
      BY <1>1, VecFacts
<1>7. /\ X \in SUBSET Nat /\ \E b \in Nat : \A v \in X : v <= b
      /\ NamedTo(x, Len(x), n) => \A v \in X : v <= n
      BY <1>3, SeenFacts
<1>8. Y \in SUBSET Nat /\ Y # {} /\ n \in Y
      BY <1>4, <1>6, <1>7
<1>9. Bounded(Y)
  <2>1. PICK b \in Nat : \A v \in X : v <= b
        BY <1>7
  <2>2. \A v \in Y : v <= n + b
    <3> TAKE v \in Y
    <3>1. v = n \/ v \in X
          BY ONLY <1>4, <1>6, v \in Y
    <3>2. v \in X => v \in Nat /\ v <= b
          BY ONLY <1>7, <2>1
    <3> QED BY ONLY <3>1, <3>2, n \in Nat, b \in Nat
  <2>3. n + b \in Nat
        OBVIOUS
  <2> QED BY <2>2, <2>3 DEF Bounded
<1>10. m \in Y /\ \A v \in Y : v <= m
       BY <1>5, <1>8, <1>9, MaxFacts
<1>11. m \in Nat /\ n <= m /\ \A v \in X : v <= m
       BY <1>4, <1>8, <1>10
<1>12. c.vec = VecOf(r, m)
  <2>1. c.vec = Resized(vec, m)
        BY <1>1, <1>2, <1>3, <1>4, <1>5, CostParts
  <2> QED BY <1>1, <1>11, <2>1, ResizedVec
<1>13. NamedTo(x, Len(x), n) => m = n
       BY <1>4, <1>6, <1>7, <1>10, <1>11
<1>14. Allowed(x, r) => \A v \in SeenTo(x, VecOf(q, n), Len(x)) : v <= m
  <2>1. Allowed(x, r) => last = Len(x)
        BY <1>1, <1>2, CostFacts
  <2> QED BY <1>1, <1>3, <1>11, <2>1
<1> QED BY <1>11, <1>12, <1>13, <1>14 DEF Extends

\* An assignment that agrees with a vector on the variables looked at.
LEMMA SeenAlike ==
  ASSUME NEW x, IsFile(x), NEW q, NEW n \in Nat, NEW r, r = q \cap 1..n, NEW m \in Nat,
         \A v \in SeenTo(x, VecOf(q, n), Len(x)) : v <= m, NEW p, \A v \in 1..m : v \in p <=> v \in r
  PROVE  Alike(x, p, r)
<1>1. PICK vec : vec = VecOf(q, n)
      OBVIOUS
<1>2. \A l : TrueIn(vec, l) <=> TrueAt(r, l)
  <2>1. \A l : TrueIn(VecOf(q, n), l) <=> TrueAt(r, l)
        BY ONLY r = q \cap 1..n, TrueInVec
  <2> QED BY ONLY <1>1, <2>1
<1>3. ASSUME NEW i \in ClausesOf(x)
      PROVE  Holds(p, x[i].lits) <=> Holds(r, x[i].lits)
  <2>1. PICK lits : lits = x[i].lits
        OBVIOUS
  <2>2. i \in 1..Len(x) /\ lits \in Seq(Int \ {0}) /\ DOMAIN lits = 1..Len(lits) /\ Len(lits) \in Nat
        BY <2>1, FileFacts
  <2>3. ASSUME NEW k \in DOMAIN lits, \A j \in 1..(k - 1) : ~TrueIn(vec, lits[j])
        PROVE  Var(lits[k]) \in p <=> Var(lits[k]) \in r
    <3>1. Var(lits[k]) \in LookedAt(vec, lits)
          BY <2>3 DEF LookedAt
    <3>2. Var(lits[k]) \in SeenTo(x, vec, Len(x))
          BY <2>1, <2>2, <3>1 DEF SeenTo
    <3>3. Var(lits[k]) <= m
          BY <1>1, <3>2
    <3>4. lits[k] \in Int \ {0}
          BY <2>2
    <3>5. Var(lits[k]) \in 1..m
          BY <3>3, <3>4 DEF Var
    <3> QED BY <3>5
  <2>4. CASE \E k \in DOMAIN lits : TrueIn(vec, lits[k])
    <3>1. PICK T : T = {k \in DOMAIN lits : TrueIn(vec, lits[k])}
          OBVIOUS
    <3>2. T \subseteq Nat /\ T # {}
          BY <2>2, <2>4, <3>1
    <3>3. PICK k \in T : \A j \in T : k <= j
          BY ONLY <3>2, LeastNat
    <3>4. k \in DOMAIN lits /\ TrueIn(vec, lits[k]) /\ \A j \in 1..(k - 1) : ~TrueIn(vec, lits[j])
      <4>1. k \in DOMAIN lits /\ TrueIn(vec, lits[k])
            BY <3>1
      <4>2. ASSUME NEW j \in 1..(k - 1), TrueIn(vec, lits[j])
            PROVE  FALSE
        <5>1. j \in DOMAIN lits /\ j \in Nat /\ k \in Nat /\ j < k
              BY <2>2, <4>1
        <5>2. k <= j
              BY <3>1, <3>3, <4>2, <5>1
        <5> QED BY <5>1, <5>2
      <4> QED BY <4>1, <4>2
    <3>5. (Var(lits[k]) \in r) = (lits[k] > 0)
          BY <1>2, <3>4 DEF TrueAt
    <3>6. Var(lits[k]) \in p <=> Var(lits[k]) \in r
          BY <2>3, <3>4
    <3>7. (Var(lits[k]) \in p) = (lits[k] > 0)
          BY ONLY <3>5, <3>6, SMT
    <3>8. Holds(p, lits) /\ Holds(r, lits)
          BY <3>4, <3>5, <3>7 DEF Holds
    <3> QED BY <2>1, <3>8
  <2>5. CASE ~\E k \in DOMAIN lits : TrueIn(vec, lits[k])
    <3>1. ASSUME NEW k \in DOMAIN lits
          PROVE  /\ ~((Var(lits[k]) \in p) = (lits[k] > 0))
                 /\ ~((Var(lits[k]) \in r) = (lits[k] > 0))
      <4>1. \A j \in 1..(k - 1) : ~TrueIn(vec, lits[j])
            BY <2>2, <2>5
      <4>2. Var(lits[k]) \in p <=> Var(lits[k]) \in r
            BY <2>3, <4>1
      <4>3. ~((Var(lits[k]) \in r) = (lits[k] > 0))
            BY <1>2, <2>5 DEF TrueAt
      <4> QED BY ONLY <4>2, <4>3, SMT
    <3>2. ~Holds(p, lits) /\ ~Holds(r, lits)
          BY <3>1 DEF Holds
    <3> QED BY <2>1, <3>2
  <2> QED BY <2>4, <2>5
<1> QED BY <1>3 DEF Alike

\* What the handler prints: the vector it extended allows nothing that the
\* hard clauses forbid, and has the cost it computed the second time.
LEMMA HandlerFacts ==
  ASSUME NEW x, IsFile(x), WellFormed(x), NEW q, NEW n \in Nat, NEW c, c = CalculateCost(x, VecOf(q, n)),
         c.cost # MaxWeight, NEW p, \A v \in DOMAIN c.vec : (v \in p) = c.vec[v]
  PROVE  Allowed(x, p) /\ PriceOf(x, p) = CalculateCost(x, c.vec).cost
<1>1. PICK r : r = q \cap 1..n
      OBVIOUS
<1>2. c.cost = IF Allowed(x, r) THEN PriceOf(x, r) ELSE MaxWeight
      BY <1>1, CostFacts
<1>3. Allowed(x, r)
      BY <1>2
<1>4. PICK m \in Nat : Extends(x, VecOf(q, n), n, r, c.vec, m)
      BY <1>1, CostVec
<1>5. r = r \cap 1..m
      BY <1>1, <1>4 DEF Extends
<1>6. \A v \in 1..m : v \in p <=> v \in r
  <2>1. DOMAIN c.vec = 1..m /\ \A v \in 1..m : c.vec[v] = (v \in r)
        BY <1>4 DEF VecOf, Extends
  <2> QED BY <2>1
<1>7. Alike(x, p, r)
  <2>1. \A v \in SeenTo(x, VecOf(q, n), Len(x)) : v <= m
        BY <1>3, <1>4 DEF Extends
  <2> QED BY <1>1, <1>6, <2>1, SeenAlike
<1>8. CalculateCost(x, c.vec).cost = PriceOf(x, r)
  <2>1. PICK d : d = CalculateCost(x, VecOf(r, m))
        OBVIOUS
  <2>2. d.cost = IF Allowed(x, r) THEN PriceOf(x, r) ELSE MaxWeight
        BY <1>5, <2>1, CostFacts
  <2> QED BY <1>3, <1>4, <2>1, <2>2 DEF Extends
<1> QED BY <1>3, <1>7, <1>8, AlikeFacts

-----------------------------------------------------------------------------
(***************************************************************************)
(* Solutions of the formula that was parsed.                               *)
(***************************************************************************)
\* Cutting an assignment to the file's variables changes nothing.
LEMMA CutSame ==
  ASSUME ParserInv, pc = "parsed", NEW p \in Points, NEW r, r = p \cap 1..nInputVars
  PROVE  /\ r \in Points /\ Alike(file, p, r)
         /\ CostOf(f, r) = CostOf(f, p) /\ (r \in f.live <=> p \in f.live)
         /\ CostOf(f, p) = PriceOf(file, p) /\ (p \in f.live <=> Allowed(file, p))
<1>1. /\ IsFile(file) /\ NamedTo(file, Len(file), nInputVars) /\ nInputVars \in Nat
      /\ \A t \in Points : (t \in f.live <=> Allowed(file, t)) /\ CostOf(f, t) = PriceOf(file, t)
      BY ParsedFacts
<1>2. r \in Points
  <2>1. PICK U : U = UNION Points
        OBVIOUS
  <2>2. p \subseteq U
        BY ONLY <2>1, p \in Points
  <2>3. r \in SUBSET U
        BY ONLY <2>2, r = p \cap 1..nInputVars
  <2> QED BY ONLY <2>1, <2>3, AllPointsAssumption
<1>3. \A v \in 1..nInputVars : v \in p <=> v \in r
      OBVIOUS
<1>4. Alike(file, p, r)
      BY ONLY <1>1, <1>3, NamedAlike
<1>5. (Allowed(file, p) <=> Allowed(file, r)) /\ PriceOf(file, p) = PriceOf(file, r)
      BY <1>4, AlikeFacts
<1> QED BY ONLY <1>1, <1>2, <1>4, <1>5, p \in Points

\* calculateCost agrees with the formula.
LEMMA SolutionCost ==
  ASSUME ParserInv, pc = "parsed", NEW p \in Points, NEW c, c = CalculateCost(file, VecOf(p, nInputVars))
  PROVE  /\ Len(c.vec) = nInputVars /\ ~c.exits
         /\ c.cost = IF p \in f.live THEN CostOf(f, p) ELSE MaxWeight
         /\ CostOf(f, p) \in Nat /\ CostOf(f, p) < MaxWeight
<1>1. IsFile(file) /\ WellFormed(file) /\ NamedTo(file, Len(file), nInputVars) /\ nInputVars \in Nat
      BY ParsedFacts
<1>2. PICK n \in Nat : n = nInputVars
      BY <1>1
<1>3. PICK x : x = file
      OBVIOUS
<1>4. PICK r : r = p \cap 1..n
      OBVIOUS
<1>5. /\ IsFile(x) /\ WellFormed(x) /\ NamedTo(x, Len(x), n) /\ c = CalculateCost(x, VecOf(p, n))
      BY <1>1, <1>2, <1>3
<1>6. /\ ~c.exits /\ c.cost = IF Allowed(x, r) THEN PriceOf(x, r) ELSE MaxWeight
      /\ PriceOf(x, r) \in Nat /\ PriceOf(x, r) < MaxWeight
      BY ONLY <1>4, <1>5, n \in Nat, CostFacts
<1>7. PICK m \in Nat : Extends(x, VecOf(p, n), n, r, c.vec, m)
      BY ONLY <1>4, <1>5, n \in Nat, CostVec
<1>8. Len(c.vec) = n
  <2>1. c.vec = VecOf(r, n)
        BY <1>5, <1>7 DEF Extends
  <2> QED BY <2>1, VecFacts
<1>9. /\ Alike(x, p, r) /\ CostOf(f, p) = PriceOf(x, p) /\ (p \in f.live <=> Allowed(x, p))
      BY <1>2, <1>3, <1>4, CutSame
<1>10. (Allowed(x, p) <=> Allowed(x, r)) /\ PriceOf(x, p) = PriceOf(x, r)
       BY <1>9, AlikeFacts
<1> QED BY ONLY <1>2, <1>6, <1>8, <1>9, <1>10

\* assert(!"Error size result") and the assert on the cost hold.
LEMMA ParserInvSolution == ParserInv => SolutionFits
<1>1. ASSUME ParserInv, pc = "parsed", NEW p \in Points, NEW c, c = CalculateCost(file, VecOf(p, nInputVars))
      PROVE  Len(c.vec) = nInputVars /\ c.cost = IF p \in f.live THEN CostOf(f, p) ELSE MaxWeight
      BY <1>1, SolutionCost
<1> QED BY <1>1 DEF SolutionFits

\* The cheapest of the live assignments.
LEMMA BestFacts ==
  ASSUME ParserInv, pc = "parsed", f.live # {}
  PROVE  Cheapest(f, Best)
<1>1. PICK Y : Y = {CostOf(f, p) : p \in f.live}
      OBVIOUS
<1>2. f.live \in SUBSET Points
      BY ParsedFacts
<1>3. \A p \in f.live : CostOf(f, p) \in Nat
      BY <1>2, SolutionCost
<1>4. Y \in SUBSET Nat /\ Y # {}
      BY <1>1, <1>3
<1>5. \A y \in Y : Min(Y) <= y
      BY ONLY <1>4, MinFacts
<1>6. Best = Min(Y)
      BY <1>1 DEF Best
<1> QED BY ONLY <1>1, <1>5, <1>6 DEF Cheapest

\* A solution at hand has its cost, and getSolution() returns it.
LEMMA HeldFacts ==
  ASSUME ParserInv, pc = "parsed", NEW vec, NEW k, HeldBy(f, nInputVars, vec, k)
  PROVE  /\ f.live # {} /\ k # MaxWeight /\ VecOf(PointOf(vec), nInputVars) = vec
         /\ CalculateCost(file, vec).cost = k
<1>1. PICK p \in f.live : vec = VecOf(p, nInputVars) /\ k = CostOf(f, p)
      BY DEF HeldBy
<1>2. p \in Points /\ nInputVars \in Nat
      BY ParsedFacts
<1>3. PICK c : c = CalculateCost(file, VecOf(p, nInputVars))
      OBVIOUS
<1>4. c.cost = CostOf(f, p) /\ CostOf(f, p) \in Nat /\ CostOf(f, p) < MaxWeight
      BY <1>2, <1>3, SolutionCost
<1>5. VecOf(PointOf(vec), nInputVars) = vec
      BY <1>1, <1>2, VecFacts
<1>6. k # MaxWeight
      BY <1>1, <1>4, MaxWeightAssumption
<1> QED BY <1>1, <1>3, <1>4, <1>5, <1>6

\* The cost that setSolution computes is that of the model it was given.
LEMMA PendingCost ==
  ASSUME ParserInv, pc = "parsed", NEW p \in f.live, NEW vec, vec = VecOf(p, nInputVars)
  PROVE  HeldBy(f, nInputVars, vec, CostOf(f, PointOf(vec)))
<1>1. p \in Points /\ nInputVars \in Nat
      BY ParsedFacts
<1>2. PointOf(vec) = p \cap 1..nInputVars
      BY <1>1, VecFacts
<1>3. CostOf(f, PointOf(vec)) = CostOf(f, p)
      BY <1>1, <1>2, CutSame
<1> QED BY <1>3 DEF HeldBy

-----------------------------------------------------------------------------
(***************************************************************************)
(* The steps of the program.                                               *)
(***************************************************************************)
\* What parse keeps does not change outside of parse.
LEMMA ParserKept == ParserInv /\ UNCHANGED parserVars => ParserInv'
  BY DEF ParserInv, parserVars

\* parse does not change the file.
LEMMA ParserFile == ParserNext => file' = file
  BY DEF ParserNext, OpenFile, ReadTop, ReadBad, ReadJunk, ReadClause, EndOfFile, AddSoftClause, ParseReturns

\* The o line is printed; the others stay.
LEMMA PrintO ==
  ASSUME DOMAIN out = {"o", "s", "v", "bench"}, NEW c, out' = Printed(O(c))
  PROVE  DOMAIN out' = {"o", "s", "v", "bench"} /\ out'["o"].cost = c
  BY DEF Printed, O

\* The s line is printed.
LEMMA PrintS ==
  ASSUME DOMAIN out = {"o", "s", "v", "bench"}, NEW status, out' = Printed(S(status))
  PROVE  DOMAIN out' = {"o", "s", "v", "bench"} /\ out'["o"] = out["o"]
  BY DEF Printed, S

\* The v line is printed.
LEMMA PrintV ==
  ASSUME DOMAIN out = {"o", "s", "v", "bench"}, NEW vec, out' = Printed(V(vec))
  PROVE  DOMAIN out' = {"o", "s", "v", "bench"} /\ out'["o"] = out["o"] /\ out'["v"].vec = vec
  BY DEF Printed, V

\* The line of --bench is printed.
LEMMA PrintBench ==
  ASSUME DOMAIN out = {"o", "s", "v", "bench"}, NEW c, out' = Printed(Bench(c))
  PROVE  DOMAIN out' = {"o", "s", "v", "bench"} /\ out'["o"] = out["o"]
  BY DEF Printed, Bench

\* The program starts.
LEMMA MainInitInv == Init => MainInv
<1> SUFFICES ASSUME Init PROVE MainInv
    OBVIOUS
<1>1. ParserInv
      BY ParserInitInv DEF Init
<1>2. stage = "args" /\ pc = "open" /\ code = -1 /\ ~sat /\ after = "search" /\ solutionCost = MaxWeight
      BY DEF Init, ParserInit, Running
<1>3. out["o"] = NoLine /\ DOMAIN out = {"o", "s", "v", "bench"}
      BY DEF Init
<1> QED BY <1>1, <1>2, <1>3 DEF MainInv, StageInv, SolveInv, ReportInv, HandlerInv, CodeInv, UnknownOnlyWhileStoring,
           Before, Storing, Handling

\* main up to parse, and parse.
LEMMA BeginInv ==
  ASSUME MainInv, MakeSolver \/ SetCurFile \/ ParseStep \/ ParseFails \/ ParseExits \/ StartSolve
  PROVE  MainInv'
<1> USE DEF MainInv, StageInv, SolveInv, ReportInv, HandlerInv, CodeInv, UnknownOnlyWhileStoring, Before, Storing,
        Handling, Running, In, store, answer
<1>1. CASE MakeSolver
  <2>1. stage = "args" /\ stage' = "made" /\ UNCHANGED <<parserVars, bench, curFile, store, answer, out, signals, code>>
        /\ code = -1
        BY <1>1 DEF MakeSolver, Goto
  <2>2. ParserInv' /\ pc' = pc
        BY <2>1, ParserKept DEF parserVars
  <2> QED BY <2>1, <2>2
<1>2. CASE SetCurFile
  <2>1. /\ stage = "made" /\ stage' = "parse" /\ UNCHANGED <<parserVars, bench, store, answer, out, signals, code>>
        /\ code = -1 /\ curFile' = file
        BY <1>2 DEF SetCurFile
  <2>2. ParserInv' /\ pc' = pc /\ file' = file
        BY <2>1, ParserKept DEF parserVars
  <2> QED BY <2>1, <2>2
<1>3. CASE ParseStep
  <2>1. stage = "parse" /\ code = -1 /\ UNCHANGED <<stage, bench, curFile, store, answer, out, signals, code>>
        BY <1>3 DEF ParseStep, mainVars
  <2>2. ParserInv' /\ file' = file
        BY <1>3, ParserNextInv, ParserFile DEF ParseStep
  <2> QED BY <2>1, <2>2
<1>4. CASE ParseFails
  <2>1. /\ stage = "parse" /\ stage' = "report" /\ pc = "failed" /\ code = -1
        /\ UNCHANGED <<parserVars, bench, curFile, store, answer, out, signals, code>>
        BY <1>4 DEF ParseFails, Goto
  <2>2. ParserInv' /\ pc' = pc /\ file' = file
        BY <2>1, ParserKept DEF parserVars
  <2> QED BY <2>1, <2>2
<1>5. CASE ParseExits
  <2>1. /\ stage = "parse" /\ code' = 3
        /\ UNCHANGED <<parserVars, stage, bench, curFile, store, answer, out, signals>>
        BY <1>5 DEF ParseExits, Exit
  <2>2. ParserInv' /\ pc' = pc /\ file' = file
        BY <2>1, ParserKept DEF parserVars
  <2> QED BY <2>1, <2>2
<1>6. CASE StartSolve
  <2>1. /\ stage = "parse" /\ stage' = "search" /\ pc = "parsed" /\ code = -1
        /\ UNCHANGED <<parserVars, bench, curFile, store, answer, out, signals, code>>
        BY <1>6 DEF StartSolve, Goto
  <2>2. ParserInv' /\ pc' = pc /\ file' = file
        BY <2>1, ParserKept DEF parserVars
  <2> QED BY <2>1, <2>2
<1> QED BY <1>1, <1>2, <1>3, <1>4, <1>5, <1>6

\* solve().
LEMMA SolveStepInv ==
  ASSUME MainInv,
         \/ Announce \/ SetSolutionCost \/ ReachOptimum \/ StoreBegins \/ StoreEnds
         \/ ReturnBest \/ ReturnUnsat \/ Deliver
  PROVE  MainInv'
<1> USE DEF MainInv, StageInv, SolveInv, ReportInv, HandlerInv, CodeInv, UnknownOnlyWhileStoring, Before, Storing,
        Handling, Running, In, store, answer
<1>1. DOMAIN out = {"o", "s", "v", "bench"}
      OBVIOUS
<1>2. CASE Announce
  <2>1. /\ stage = "search" /\ stage' = "announced" /\ code = -1
        /\ UNCHANGED <<parserVars, bench, curFile, after, answer, code>>
        BY <1>2 DEF Announce
  <2>2. PICK p \in f.live : out' = Printed(O(CostOf(f, p))) /\ pending' = VecOf(p, nInputVars)
        BY <1>2 DEF Announce
  <2>3. ParserInv' /\ pc' = pc /\ file' = file /\ f' = f /\ nInputVars' = nInputVars
        BY <2>1, ParserKept DEF parserVars
  <2>4. DOMAIN out' = {"o", "s", "v", "bench"}
        BY ONLY <1>1, <2>2, PrintO
  <2>5. \E t \in f'.live : pending' = VecOf(t, nInputVars')
        BY <2>2, <2>3
  <2> QED BY <2>1, <2>3, <2>4, <2>5
<1>3. CASE SetSolutionCost
  <2>1. /\ stage = "announced" /\ stage' = "store" /\ code = -1
        /\ solutionCost' = CostOf(f, PointOf(pending))
        /\ UNCHANGED <<parserVars, bench, curFile, pending, after, answer, out, code>>
        BY <1>3 DEF SetSolutionCost
  <2>2. ParserInv' /\ pc' = pc /\ file' = file /\ f' = f /\ nInputVars' = nInputVars /\ pc = "parsed"
        BY <2>1, ParserKept DEF parserVars
  <2>3. PICK p \in f.live : pending = VecOf(p, nInputVars)
        BY <2>1
  <2>4. HeldBy(f, nInputVars, pending, CostOf(f, PointOf(pending)))
        BY <2>2, <2>3, PendingCost
  <2>5. Pending'
        BY <2>1, <2>2, <2>4 DEF Pending
  <2> QED BY <2>1, <2>2, <2>5
<1>4. CASE ReachOptimum
  <2>1. /\ stage = "search" /\ stage' = "store" /\ code = -1 /\ after' = "found"
        /\ UNCHANGED <<parserVars, bench, curFile, answer, out, code>>
        BY <1>4 DEF ReachOptimum
  <2>2. PICK p \in f.live : CostOf(f, p) = Best /\ solutionCost' = CostOf(f, p) /\ pending' = VecOf(p, nInputVars)
        BY <1>4 DEF ReachOptimum
  <2>3. ParserInv' /\ pc' = pc /\ file' = file /\ f' = f /\ nInputVars' = nInputVars /\ pc = "parsed"
        BY <2>1, ParserKept DEF parserVars
  <2>4. Cheapest(f, Best)
        BY <2>3, BestFacts
  <2>5. HeldBy(f, nInputVars, pending', solutionCost')
        BY <2>2 DEF HeldBy
  <2>6. Pending' /\ BestKnown'
        BY <2>2, <2>3, <2>4, <2>5 DEF Pending, BestKnown
  <2> QED BY <2>1, <2>3, <2>6
<1>5. CASE StoreBegins
  <2>1. /\ stage = "store" /\ stage' = "storing" /\ code = -1
        /\ UNCHANGED <<parserVars, bench, curFile, solutionCost, pending, after, answer, out, code>>
        BY <1>5 DEF StoreBegins
  <2>2. ParserInv' /\ pc' = pc /\ file' = file /\ f' = f /\ nInputVars' = nInputVars
        BY <2>1, ParserKept DEF parserVars
  <2>3. (Pending' <=> Pending) /\ (BestKnown' <=> BestKnown)
        BY <2>1, <2>2 DEF Pending, BestKnown
  <2> QED BY <2>1, <2>2, <2>3
<1>6. CASE StoreEnds
  <2>1. /\ stage = "storing" /\ stage' = after /\ code = -1 /\ solution' = pending
        /\ UNCHANGED <<parserVars, bench, curFile, solutionCost, pending, after, answer, out, code>>
        BY <1>6 DEF StoreEnds
  <2>2. ParserInv' /\ pc' = pc /\ file' = file /\ f' = f /\ nInputVars' = nInputVars
        BY <2>1, ParserKept DEF parserVars
  <2>3. (Stored' <=> Pending) /\ (BestKnown' <=> BestKnown)
        BY <2>1, <2>2 DEF Pending, BestKnown, Stored
  <2>4. after \in {"search", "found"} /\ Pending /\ (after = "found" => BestKnown) /\ pc = "parsed" /\ ~sat /\ curFile = file
        BY <2>1
  <2>5. CASE after = "search"
        BY <2>1, <2>2, <2>3, <2>4, <2>5
  <2>6. CASE after = "found"
        BY <2>1, <2>2, <2>3, <2>4, <2>6
  <2> QED BY <2>4, <2>5, <2>6
<1>7. CASE ReturnBest
  <2>1. /\ stage = "search" /\ stage' = "found" /\ code = -1 /\ solutionCost # MaxWeight /\ solutionCost = Best
        /\ UNCHANGED <<parserVars, bench, curFile, store, answer, out, code>>
        BY <1>7 DEF ReturnBest, Goto
  <2>2. ParserInv' /\ pc' = pc /\ file' = file /\ f' = f /\ nInputVars' = nInputVars /\ pc = "parsed"
        BY <2>1, ParserKept DEF parserVars
  <2>3. Stored
        BY <2>1
  <2>4. f.live # {}
        BY <2>3 DEF Stored, HeldBy
  <2>5. BestKnown
        BY <2>1, <2>2, <2>4, BestFacts DEF BestKnown
  <2>6. Stored' /\ BestKnown'
        BY <2>1, <2>2, <2>3, <2>5 DEF Stored, BestKnown
  <2> QED BY <2>1, <2>2, <2>6
<1>8. CASE ReturnUnsat
  <2>1. /\ stage = "search" /\ stage' = "report" /\ code = -1 /\ f.live = {}
        /\ UNCHANGED <<parserVars, bench, curFile, store, answer, out, code>>
        BY <1>8 DEF ReturnUnsat, Goto
  <2>2. ParserInv' /\ pc' = pc /\ file' = file /\ f' = f /\ pc = "parsed"
        BY <2>1, ParserKept DEF parserVars
  <2>3. ~Stored
        BY <2>1 DEF Stored, HeldBy
  <2>4. out["o"] = NoLine /\ ~sat /\ curFile = file
        BY <2>1, <2>3
  <2> QED BY <2>1, <2>2, <2>4
<1>9. CASE Deliver
  <2>1. /\ stage = "found" /\ stage' = "report" /\ code = -1 /\ sat' = TRUE /\ result' = GetSolution
        /\ UNCHANGED <<parserVars, bench, curFile, store, out, code>>
        BY <1>9 DEF Deliver
  <2>2. ParserInv' /\ pc' = pc /\ file' = file /\ f' = f /\ nInputVars' = nInputVars /\ pc = "parsed"
        BY <2>1, ParserKept DEF parserVars
  <2>3. Stored' /\ BestKnown' /\ result' = GetSolution'
        BY <2>1, <2>2 DEF Stored, BestKnown, GetSolution
  <2> QED BY <2>1, <2>2, <2>3
<1> QED BY <1>2, <1>3, <1>4, <1>5, <1>6, <1>7, <1>8, <1>9

\* The end of main.
LEMMA ReportStepInv ==
  ASSUME MainInv, ReportBench \/ ReportCost \/ ReportOptimum \/ ReportValues \/ ReportUnsat \/ Return
  PROVE  MainInv'
<1> USE DEF MainInv, StageInv, SolveInv, ReportInv, HandlerInv, CodeInv, UnknownOnlyWhileStoring, Before, Storing,
        Handling, Running, In, store, answer
<1>1. ASSUME UNCHANGED <<parserVars, store, answer>>
      PROVE  /\ ParserInv' /\ pc' = pc /\ file' = file /\ f' = f /\ (Stored' <=> Stored) /\ (BestKnown' <=> BestKnown)
             /\ GetSolution' = GetSolution
  <2>1. ParserInv' /\ pc' = pc /\ file' = file /\ f' = f /\ nInputVars' = nInputVars
        BY <1>1, ParserKept DEF parserVars
  <2> QED BY <1>1, <2>1 DEF Stored, BestKnown, GetSolution
<1>2. DOMAIN out = {"o", "s", "v", "bench"}
      OBVIOUS
<1>3. CASE ReportBench
  <2>1. PICK c : out' = Printed(Bench(c))
        BY <1>3 DEF ReportBench, Say
  <2>2. /\ bench /\ stage = "report" /\ stage' = "benched" /\ code = -1
        /\ UNCHANGED <<parserVars, bench, curFile, store, answer, code>>
        BY <1>3 DEF ReportBench, Say
  <2>3. DOMAIN out' = {"o", "s", "v", "bench"}
        BY ONLY <1>2, <2>1, PrintBench
  <2> QED BY <1>1, <2>2, <2>3
<1>4. CASE ReportCost
  <2>1. out' = Printed(O(CalculateCost(file, result).cost))
        BY <1>4 DEF ReportCost, Say
  <2>2. /\ sat /\ stage = "report" /\ stage' = "optimum" /\ code = -1
        /\ UNCHANGED <<parserVars, bench, curFile, store, answer, code>>
        BY <1>4 DEF ReportCost, Say
  <2>3. DOMAIN out' = {"o", "s", "v", "bench"} /\ out'["o"].cost = CalculateCost(file, result).cost
        BY ONLY <1>2, <2>1, PrintO
  <2> QED BY <1>1, <2>2, <2>3
<1>5. CASE ReportOptimum
  <2>1. /\ out' = Printed(S("OPTIMUM FOUND")) /\ stage = "optimum" /\ stage' = "values" /\ code = -1
        /\ UNCHANGED <<parserVars, bench, curFile, store, answer, code>>
        BY <1>5 DEF ReportOptimum, Say
  <2>2. DOMAIN out' = {"o", "s", "v", "bench"} /\ out'["o"] = out["o"]
        BY ONLY <1>2, <2>1, PrintS
  <2> QED BY <1>1, <2>1, <2>2
<1>6. CASE ReportValues
  <2>1. /\ out' = Printed(V(result)) /\ stage = "values" /\ stage' = "proved" /\ code = -1
        /\ UNCHANGED <<parserVars, bench, curFile, store, answer, code>>
        BY <1>6 DEF ReportValues, Say
  <2>2. DOMAIN out' = {"o", "s", "v", "bench"} /\ out'["o"] = out["o"] /\ out'["v"].vec = result
        BY ONLY <1>2, <2>1, PrintV
  <2> QED BY <1>1, <2>1, <2>2
<1>7. CASE ReportUnsat
  <2>1. /\ ~sat /\ out' = Printed(S("UNSATISFIABLE")) /\ stage = "report" /\ stage' = "refuted" /\ code = -1
        /\ UNCHANGED <<parserVars, bench, curFile, store, answer, code>>
        BY <1>7 DEF ReportUnsat, Say
  <2>2. DOMAIN out' = {"o", "s", "v", "bench"} /\ out'["o"] = out["o"]
        BY ONLY <1>2, <2>1, PrintS
  <2> QED BY <1>1, <2>1, <2>2
<1>8. CASE Return
  <2>1. /\ UNCHANGED <<parserVars, stage, bench, curFile, store, answer, out>>
        /\ \/ stage = "benched" /\ code' = 0
           \/ stage = "proved" /\ code' = 30
           \/ stage = "refuted" /\ code' = 20
        BY <1>8 DEF Return, Exit
  <2>2. /\ ParserInv' /\ pc' = pc /\ file' = file /\ f' = f /\ (Stored' <=> Stored) /\ (BestKnown' <=> BestKnown)
        /\ GetSolution' = GetSolution
        BY <1>1, <2>1
  <2>3. CASE stage = "benched" /\ code' = 0
        BY <2>1, <2>2, <2>3
  <2>4. CASE stage = "proved" /\ code' = 30
        BY <2>1, <2>2, <2>4
  <2>5. CASE stage = "refuted" /\ code' = 20
        BY <2>1, <2>2, <2>5
  <2> QED BY <2>1, <2>3, <2>4, <2>5
<1> QED BY <1>3, <1>4, <1>5, <1>6, <1>7, <1>8

\* A program that runs has no exit status.
LEMMA RunningStatus ==
  ASSUME NEW k, k = -1
  PROVE  k # 10 /\ k # 20 /\ k # 30 /\ k # 0
  OBVIOUS

\* The handler's exit status is no other.
LEMMA HandlerStatusCode ==
  ASSUME NEW k, k = 10
  PROVE  k # 20 /\ k # 30 /\ k # 0
  OBVIOUS

\* A solution at hand is one for the handler.
LEMMA StoredCost ==
  ASSUME ParserInv, pc = "parsed", Stored, curFile = file
  PROVE  CalculateCost(curFile, GetSolution).cost # MaxWeight
<1>1. HeldBy(f, nInputVars, solution, solutionCost)
      BY DEF Stored
<1>2. /\ solutionCost # MaxWeight /\ VecOf(PointOf(solution), nInputVars) = solution
      /\ CalculateCost(file, solution).cost = solutionCost
      BY <1>1, HeldFacts
<1> QED BY <1>2 DEF GetSolution

\* Once a solution was announced, only while one is stored does the handler
\* find none.
LEMMA NoCostOnlyWhileStoring ==
  ASSUME MainInv, ~bench, out["o"] # NoLine, CalculateCost(curFile, GetSolution).cost = MaxWeight
  PROVE  stage \in Storing
<1> USE DEF MainInv, StageInv, Before, Storing, Handling
<1>1. ParserInv
      OBVIOUS
<1>2. stage \notin Before
      BY DEF ReportInv
<1>3. stage \notin Handling
      BY DEF HandlerInv, Handled, HandledBy
<1>4. ~(stage \in {"search", "found", "optimum", "values", "proved"})
  <2> SUFFICES ASSUME stage \in {"search", "found", "optimum", "values", "proved"} PROVE FALSE
      OBVIOUS
  <2>1. Stored
        BY DEF SolveInv, ReportInv
  <2> QED BY <2>1, StoredCost
<1>5. ~(stage \in {"report", "refuted"})
  <2> SUFFICES ASSUME stage \in {"report", "refuted"} PROVE FALSE
      OBVIOUS
  <2>1. stage = "report" /\ sat
        BY DEF ReportInv
  <2>2. Stored
        BY <2>1 DEF ReportInv
  <2> QED BY <2>1, <2>2, StoredCost
<1>6. stage # "benched"
      BY DEF ReportInv
<1> QED BY <1>2, <1>3, <1>4, <1>5, <1>6

\* The signal handler, and the end.
LEMMA SignalStepInv ==
  ASSUME MainInv, SignalCost \/ SignalEnds \/ HandlerStatus \/ HandlerValues \/ HandlerExit \/ UNCHANGED vars
  PROVE  MainInv'
<1> USE DEF MainInv, StageInv, SolveInv, ReportInv, HandlerInv, CodeInv, UnknownOnlyWhileStoring, Before, Storing,
        Handling, Running, In, store, answer
<1>1. DOMAIN out = {"o", "s", "v", "bench"}
      OBVIOUS
<1>2. ASSUME UNCHANGED <<parserVars, store>>
      PROVE  /\ ParserInv' /\ pc' = pc /\ file' = file /\ f' = f /\ (Stored' <=> Stored) /\ (BestKnown' <=> BestKnown)
             /\ (Pending' <=> Pending) /\ GetSolution' = GetSolution /\ nInputVars' = nInputVars
  <2>1. ParserInv' /\ pc' = pc /\ file' = file /\ f' = f /\ nInputVars' = nInputVars
        BY <1>2, ParserKept DEF parserVars
  <2> QED BY <1>2, <2>1 DEF Stored, BestKnown, GetSolution, Pending
<1>3. CASE SignalCost
  <2>1. PICK c : c = CalculateCost(curFile, GetSolution)
        OBVIOUS
  <2>2. c.cost # MaxWeight /\ out' = Printed(O(CalculateCost(curFile, c.vec).cost)) /\ result' = c.vec
        BY <1>3, <2>1 DEF SignalCost
  <2>3. /\ code = -1 /\ stage' = "handler o" /\ UNCHANGED <<parserVars, bench, curFile, store, sat, code>>
        BY <1>3 DEF SignalCost
  <2>4. DOMAIN out' = {"o", "s", "v", "bench"} /\ out'["o"].cost = CalculateCost(curFile, c.vec).cost
        BY ONLY <1>1, <2>2, PrintO
  <2>5. Handled'
        BY <1>2, <2>1, <2>2, <2>3, <2>4 DEF Handled, HandledBy
  <2>6. ParserInv' /\ pc' = pc /\ file' = file
        BY <1>2, <2>3
  <2>7. StageInv'
        BY <2>3, <2>4, <2>6
  <2>8. /\ SolveInv' /\ ReportInv'
        /\ CodeInv'
    <3>1. stage' = "handler o" /\ code' = -1
          BY <2>3
    <3>2. SolveInv' /\ ReportInv'
          BY ONLY <3>1 DEF SolveInv, ReportInv, Before, Storing
    <3>3. CodeInv'
      <4>1. code' = -1
            BY ONLY <3>1
      <4>2. code' # 10 /\ code' # 20 /\ code' # 30 /\ code' # 0
            BY ONLY <4>1, RunningStatus
      <4> QED BY ONLY <3>1, <4>2, Zenon DEF CodeInv, UnknownOnlyWhileStoring
    <3> QED BY <3>2, <3>3
  <2>9. HandlerInv'
        BY <2>3, <2>5
  <2> QED BY <2>6, <2>7, <2>8, <2>9
<1>4. CASE SignalEnds
  <2>1. code = -1 /\ UNCHANGED <<parserVars, stage, bench, curFile, store, answer>>
        BY <1>4 DEF SignalEnds
  <2>2. /\ ParserInv' /\ pc' = pc /\ file' = file /\ f' = f /\ (Stored' <=> Stored) /\ (BestKnown' <=> BestKnown)
        /\ (Pending' <=> Pending) /\ GetSolution' = GetSolution /\ nInputVars' = nInputVars
        BY <1>2, <2>1
  <2>3. \/ stage = "args" /\ code' = 0 /\ out' = out
        \/ code' = 3 /\ out' = out
        \/ bench /\ code' = 0 /\ \E c : out' = Printed(Bench(c))
        \/ /\ ~bench /\ CalculateCost(curFile, GetSolution).cost = MaxWeight
           /\ code' = 0 /\ out' = Printed(S("UNKNOWN"))
        BY <1>4 DEF SignalEnds
  <2>4. DOMAIN out' = {"o", "s", "v", "bench"} /\ out'["o"] = out["o"]
    <3>1. CASE out' = out
          BY <1>1, <3>1
    <3>2. CASE \E c : out' = Printed(Bench(c))
      <4>1. PICK c : out' = Printed(Bench(c))
            BY <3>2
      <4> QED BY ONLY <1>1, <4>1, PrintBench
    <3>3. CASE out' = Printed(S("UNKNOWN"))
          BY ONLY <1>1, <3>3, PrintS
    <3> QED BY <2>3, <3>1, <3>2, <3>3
  <2>5. ASSUME out["v"].vec # out'["v"].vec
        PROVE  FALSE
    <3>1. CASE out' = out
          BY <2>5, <3>1
    <3>2. CASE \E c : out' = Printed(Bench(c))
      <4>1. PICK c : out' = Printed(Bench(c))
            BY <3>2
      <4>2. out'["v"] = out["v"]
            BY ONLY <1>1, <4>1 DEF Printed, Bench
      <4> QED BY <2>5, <4>2
    <3>3. CASE out' = Printed(S("UNKNOWN"))
      <4>1. out'["v"] = out["v"]
            BY ONLY <1>1, <3>3 DEF Printed, S
      <4> QED BY <2>5, <4>1
    <3> QED BY <2>3, <3>1, <3>2, <3>3
  <2>6. Handled' <=> Handled
        BY <2>1, <2>2, <2>4 DEF Handled
  <2>7. ParserInv' /\ StageInv' /\ SolveInv' /\ ReportInv' /\ HandlerInv'
    <3>1. StageInv'
          BY <2>1, <2>2, <2>4
    <3>2. SolveInv'
          BY <2>1, <2>2, <2>4
    <3>3. ReportInv'
          BY <2>1, <2>2, <2>4, <2>5
    <3>4. HandlerInv'
          BY <2>1, <2>5, <2>6
    <3> QED BY <2>2, <3>1, <3>2, <3>3, <3>4
  <2>8. UnknownOnlyWhileStoring'
    <3> SUFFICES ASSUME code' = 0, ~bench', out'["o"] # NoLine PROVE stage' \in {"announced", "store", "storing"}
        OBVIOUS
    <3>1. ~bench /\ out["o"] # NoLine /\ stage # "args" /\ stage' = stage
          BY <2>1, <2>4
    <3>2. CalculateCost(curFile, GetSolution).cost = MaxWeight
          BY ONLY <2>3, <3>1, code' = 0
    <3>3. stage \in Storing
          BY <3>1, <3>2, NoCostOnlyWhileStoring
    <3> QED BY <3>1, <3>3
  <2>9. CodeInv'
    <3>1. code' = 0 \/ code' = 3
          BY ONLY <2>3
    <3>2. code' # 10 /\ code' # 20 /\ code' # 30
          BY ONLY <3>1
    <3> QED BY ONLY <2>8, <3>2, Zenon DEF CodeInv
  <2> QED BY <2>7, <2>9
<1>5. CASE HandlerStatus
  <2>1. /\ out' = Printed(S("SATISFIABLE")) /\ stage = "handler o" /\ stage' = "handler s" /\ code = -1
        /\ UNCHANGED <<parserVars, bench, curFile, store, answer, code>>
        BY <1>5 DEF HandlerStatus, Say
  <2>2. DOMAIN out' = {"o", "s", "v", "bench"} /\ out'["o"] = out["o"]
        BY ONLY <1>1, <2>1, PrintS
  <2>3. Handled'
        BY <1>2, <2>1, <2>2 DEF Handled
  <2> QED BY <1>2, <2>1, <2>2, <2>3
<1>6. CASE HandlerValues
  <2>1. /\ out' = Printed(V(result)) /\ stage = "handler s" /\ stage' = "handler v" /\ code = -1
        /\ UNCHANGED <<parserVars, bench, curFile, store, answer, code>>
        BY <1>6 DEF HandlerValues, Say
  <2>2. DOMAIN out' = {"o", "s", "v", "bench"} /\ out'["o"] = out["o"] /\ out'["v"].vec = result
        BY ONLY <1>1, <2>1, PrintV
  <2>3. Handled'
        BY <1>2, <2>1, <2>2 DEF Handled
  <2> QED BY <1>2, <2>1, <2>2, <2>3
<1>7. CASE HandlerExit
  <2>1. stage = "handler v" /\ code' = 10 /\ UNCHANGED <<parserVars, stage, bench, curFile, store, answer, out>>
        BY <1>7 DEF HandlerExit, Exit
  <2>2. Handled'
        BY <1>2, <2>1 DEF Handled
  <2>3. ParserInv' /\ pc' = pc /\ file' = file
        BY <1>2, <2>1
  <2>4. StageInv'
        BY <2>1, <2>3
  <2>5. /\ SolveInv' /\ ReportInv'
        /\ CodeInv'
    <3>1. stage' = "handler v" /\ code' = 10
          BY <2>1
    <3>2. SolveInv' /\ ReportInv'
          BY ONLY <3>1 DEF SolveInv, ReportInv, Before, Storing
    <3>3. CodeInv'
      <4>1. code' = 10
            BY ONLY <3>1
      <4>2. code' # 20 /\ code' # 30 /\ code' # 0
            BY ONLY <4>1, HandlerStatusCode
      <4> QED BY ONLY <3>1, <4>2, Zenon DEF CodeInv, UnknownOnlyWhileStoring
    <3> QED BY <3>2, <3>3
  <2>6. HandlerInv'
        BY <2>1, <2>2
  <2> QED BY <2>3, <2>4, <2>5, <2>6
<1>8. CASE UNCHANGED vars
  <2>1. UNCHANGED <<parserVars, stage, bench, curFile, store, answer, out, signals, code>>
        BY <1>8 DEF vars, mainVars
  <2>2. /\ ParserInv' /\ pc' = pc /\ file' = file /\ f' = f /\ (Stored' <=> Stored) /\ (BestKnown' <=> BestKnown)
        /\ (Pending' <=> Pending) /\ GetSolution' = GetSolution /\ nInputVars' = nInputVars
        BY <1>2, <2>1
  <2>3. Handled' <=> Handled
        BY <2>1, <2>2 DEF Handled
  <2>4. StageInv'
        BY <2>1, <2>2
  <2>5. SolveInv'
        BY <2>1, <2>2
  <2>6. ReportInv'
        BY <2>1, <2>2
  <2>7. HandlerInv' /\ CodeInv'
        BY <2>1, <2>3
  <2> QED BY <2>2, <2>4, <2>5, <2>6, <2>7
<1> QED BY <1>3, <1>4, <1>5, <1>6, <1>7, <1>8

\* Every step of the program.
LEMMA MainNextInv == MainInv /\ [Next]_vars => MainInv'
  BY BeginInv, SolveStepInv, ReportStepInv, SignalStepInv DEF Next, Step, Finished

\* What the program keeps true, wherever a signal falls.
THEOREM MainInvariant == Spec => []MainInv
  BY MainInitInv, MainNextInv, PTL DEF Spec

-----------------------------------------------------------------------------
(***************************************************************************)
(* What the program promises.                                              *)
(***************************************************************************)
\* A solution at hand, printed: it is a solution of the file, of that cost.
LEMMA HeldPrinted ==
  ASSUME ParserInv, pc = "parsed", NEW vec, NEW k, HeldBy(f, nInputVars, vec, k),
         NEW p \in Points, \A v \in DOMAIN vec : (v \in p) = vec[v]
  PROVE  Allowed(file, p) /\ PriceOf(file, p) = k
<1>1. PICK q \in f.live : vec = VecOf(q, nInputVars) /\ k = CostOf(f, q)
      BY DEF HeldBy
<1>2. q \in Points /\ nInputVars \in Nat
      BY ParsedFacts
<1>3. DOMAIN vec = 1..nInputVars /\ \A v \in 1..nInputVars : vec[v] <=> v \in q
      BY ONLY <1>1 DEF VecOf
<1>4. \A v \in 1..nInputVars : v \in p <=> v \in q
      BY ONLY <1>3, \A v \in DOMAIN vec : (v \in p) = vec[v]
<1>5. PICK r : r = p \cap 1..nInputVars
      OBVIOUS
<1>6. r = q \cap 1..nInputVars
      BY ONLY <1>4, <1>5
<1>7. CostOf(f, r) = CostOf(f, p) /\ (r \in f.live <=> p \in f.live)
      /\ CostOf(f, p) = PriceOf(file, p) /\ (p \in f.live <=> Allowed(file, p))
      BY <1>5, CutSame
<1>8. CostOf(f, r) = CostOf(f, q) /\ (r \in f.live <=> q \in f.live)
      BY <1>2, <1>6, CutSame
<1> QED BY ONLY <1>1, <1>7, <1>8

\* The state behind exit status 30.
LEMMA ProvedFacts ==
  ASSUME MainInv, code = 30
  PROVE  /\ ParserInv /\ pc = "parsed" /\ Stored /\ BestKnown
         /\ out["v"].vec = solution /\ out["o"].cost = solutionCost
<1>1. stage = "proved" /\ ParserInv
      BY DEF MainInv, CodeInv
<1>2. pc = "parsed" /\ Stored /\ BestKnown /\ result = GetSolution
      /\ out["o"].cost = CalculateCost(file, result).cost /\ out["v"].vec = result
      BY <1>1 DEF MainInv, StageInv, ReportInv, Storing
<1>3. HeldBy(f, nInputVars, solution, solutionCost)
      BY <1>2 DEF Stored
<1>4. VecOf(PointOf(solution), nInputVars) = solution /\ CalculateCost(file, solution).cost = solutionCost
      BY <1>1, <1>2, <1>3, HeldFacts
<1> QED BY <1>1, <1>2, <1>4 DEF GetSolution

\* Exit status 30 is only reached with an optimum printed.
LEMMA MainInvOptimum == MainInv => OptimumIsOptimal
<1>1. ASSUME MainInv, code = 30
      PROVE  PrintedIsTrue /\ \A p \in Points : Allowed(file, p) => out["o"].cost <= PriceOf(file, p)
  <2>1. /\ ParserInv /\ pc = "parsed" /\ Stored /\ BestKnown
        /\ out["v"].vec = solution /\ out["o"].cost = solutionCost
        BY <1>1, ProvedFacts
  <2>2. HeldBy(f, nInputVars, solution, solutionCost)
        BY <2>1 DEF Stored
  <2>3. ASSUME NEW p \in Points, \A v \in DOMAIN solution : (v \in p) = solution[v]
        PROVE  Allowed(file, p) /\ PriceOf(file, p) = solutionCost
        BY <2>1, <2>2, <2>3, HeldPrinted
  <2>4. PrintedIsTrue
        BY ONLY <2>1, <2>3 DEF PrintedIsTrue
  <2>5. ASSUME NEW p \in Points, Allowed(file, p)
        PROVE  solutionCost <= PriceOf(file, p)
    <3>1. p \in f.live /\ CostOf(f, p) = PriceOf(file, p)
          BY <2>1, <2>5, ParsedFacts
    <3> QED BY <2>1, <3>1 DEF BestKnown, Cheapest
  <2> QED BY <2>1, <2>4, <2>5
<1> QED BY <1>1 DEF OptimumIsOptimal

\* Exit status 20 is only reached with no live assignment left.
LEMMA MainInvUnsat == MainInv => UnsatIsUnsat
<1>1. ASSUME MainInv, code = 20, file # <<>>, WellFormed(file), NEW p \in Points
      PROVE  ~Allowed(file, p)
  <2>1. stage = "refuted" /\ ParserInv
        BY <1>1 DEF MainInv, CodeInv
  <2>2. pc = "failed" \/ (pc = "parsed" /\ f.live = {})
        BY <1>1, <2>1 DEF MainInv, ReportInv
  <2>3. pc # "failed"
        BY <1>1, <2>1 DEF ParserInv
  <2> QED BY <2>1, <2>2, <2>3, ParsedFacts
<1> QED BY <1>1 DEF UnsatIsUnsat

\* The solution at hand when solve() returns has the cost it keeps.
LEMMA MainInvCost == MainInv => CostIsOfSolution
<1>1. ASSUME MainInv, stage = "found"
      PROVE  CalculateCost(file, GetSolution).cost = solutionCost
  <2>1. ParserInv /\ pc = "parsed" /\ Stored
        BY <1>1 DEF MainInv, StageInv, SolveInv
  <2>2. HeldBy(f, nInputVars, solution, solutionCost)
        BY <2>1 DEF Stored
  <2>3. VecOf(PointOf(solution), nInputVars) = solution /\ CalculateCost(file, solution).cost = solutionCost
        BY <2>1, <2>2, HeldFacts
  <2> QED BY <2>3 DEF GetSolution
<1> QED BY <1>1 DEF CostIsOfSolution

\* Exit status 10 is only reached with a solution printed.
LEMMA MainInvSignal == MainInv => SignalIsTruthful
<1>1. ASSUME MainInv, code = 10, curFile = file, WellFormed(file),
             NEW p \in Points, \A v \in DOMAIN out["v"].vec : (v \in p) = out["v"].vec[v]
      PROVE  Allowed(file, p) /\ PriceOf(file, p) = out["o"].cost
  <2>1. stage = "handler v" /\ ParserInv
        BY <1>1 DEF MainInv, CodeInv
  <2>2. Handled /\ out["v"].vec = result
        BY <1>1, <2>1 DEF MainInv, HandlerInv, Handling
  <2>3. PICK q : q = PointOf(solution)
        OBVIOUS
  <2>4. PICK c : c = CalculateCost(file, VecOf(q, nInputVars))
        OBVIOUS
  <2>5. c.cost # MaxWeight /\ out["v"].vec = c.vec /\ out["o"].cost = CalculateCost(file, c.vec).cost
        BY <1>1, <2>2, <2>3, <2>4 DEF Handled, HandledBy, GetSolution
  <2>6. IsFile(file) /\ nInputVars \in Nat
        BY <2>1, FilesAre DEF ParserInv
  <2>7. \A v \in DOMAIN c.vec : (v \in p) = c.vec[v]
        BY ONLY <1>1, <2>5
  <2>8. Allowed(file, p) /\ PriceOf(file, p) = CalculateCost(file, c.vec).cost
        BY <1>1, <2>4, <2>5, <2>6, <2>7, HandlerFacts
  <2> QED BY ONLY <2>5, <2>8
<1> QED BY <1>1 DEF SignalIsTruthful, PrintedIsTrue

\* parse: the formula that solve() works on allows the assignments the file
\* allows, at the cost the file gives them.
THEOREM ProgramFormulaIsFile == Spec => []FormulaIsFile
<1>1. MainInv => FormulaIsFile
      BY ParserInvFormula DEF MainInv
<1> QED BY <1>1, MainInvariant, PTL

\* calculateCost agrees with the formula on every solution of the size parse
\* has set, and never meets a variable beyond it.
THEOREM ProgramSolutionFits == Spec => []SolutionFits
<1>1. MainInv => SolutionFits
      BY ParserInvSolution DEF MainInv
<1> QED BY <1>1, MainInvariant, PTL

\* When solve() returns true, the solution stored has the cost it keeps.
THEOREM ProgramCostIsOfSolution == Spec => []CostIsOfSolution
  BY MainInvCost, MainInvariant, PTL

\* Exit status 30: the v line is an optimum of the file, the o line its cost.
THEOREM ProgramOptimumIsOptimal == Spec => []OptimumIsOptimal
  BY MainInvOptimum, MainInvariant, PTL

\* Exit status 20 on a readable file: its hard clauses have no solution.
THEOREM ProgramUnsatIsUnsat == Spec => []UnsatIsUnsat
  BY MainInvUnsat, MainInvariant, PTL

\* Exit status 10: wherever the signal fell, what the handler printed is a
\* solution of the file and its cost.
THEOREM ProgramSignalIsTruthful == Spec => []SignalIsTruthful
  BY MainInvSignal, MainInvariant, PTL

\* After a solution was announced, "s UNKNOWN" is only printed if the signal
\* fell between the announcement and the end of the assignment.
THEOREM ProgramUnknownOnlyWhileStoring == Spec => []UnknownOnlyWhileStoring
<1>1. MainInv => UnknownOnlyWhileStoring
      BY DEF MainInv, CodeInv
<1> QED BY <1>1, MainInvariant, PTL
=============================================================================
