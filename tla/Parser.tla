------------------------------ MODULE Parser ------------------------------
(***************************************************************************)
(* parse (utile.h): a WCNF file becomes a formula of class EvalMaxSAT.     *)
(* Variables are created as literals name them, hard clauses are added as  *)
(* they are read, soft clauses are kept back until the number of variables *)
(* is known: the variable a soft clause is given must not be one that the  *)
(* file still has to name.  One action per line read, and one per soft     *)
(* clause added, because the signal handler may run between them.          *)
(***************************************************************************)
EXTENDS Wcnf

CONSTANT Files   \* the files: sequences of lines

Lines == [kind : {"top", "clause", "bad", "junk"}, weight : Nat, lits : Seq(Int \ {0})]

\* The soft weights of a file, as they are read, sum to less than 2^63.
ASSUME FilesAssumption ==
    \A x \in Files : /\ x \in Seq(Lines)
                     /\ 2 * SumFunctionOnSet(WeightsOf(x), SoftOf(x)) < MaxWeight

\* Points are all the assignments of some variables.
ASSUME AllPointsAssumption == Points = SUBSET UNION Points

VARIABLES file,         \* the file, as the program finds it
          pos,          \* the next line
          top,          \* weightForHardClause
          f,            \* the formula
          softClauses,  \* the soft clauses kept back
          nInputVars,   \* the size of a solution
          pc            \* where parse is

parserVars == <<file, pos, top, f, softClauses, nInputVars, pc>>

ParserInit ==
    /\ file \in Files
    /\ pos = 1
    /\ top = MaxWeight
    /\ f = Empty
    /\ softClauses = <<>>
    /\ nInputVars = 0
    /\ pc = "open"

\* An empty file is refused.
OpenFile ==
    /\ pc = "open"
    /\ pc' = IF file = <<>> THEN "failed" ELSE "read"
    /\ UNCHANGED <<file, pos, top, f, softClauses, nInputVars>>

AtLine(kind) ==
    /\ pc = "read"
    /\ pos <= Len(file)
    /\ file[pos].kind = kind

ReadTop ==
    /\ AtLine("top")
    /\ top' = ParseWeight(file[pos].weight)
    /\ pos' = pos + 1
    /\ UNCHANGED <<file, f, softClauses, nInputVars, pc>>

ReadBad ==
    /\ AtLine("bad")
    /\ pc' = "failed"
    /\ UNCHANGED <<file, pos, top, f, softClauses, nInputVars>>

ReadJunk ==
    /\ AtLine("junk")
    /\ pc' = "exit"
    /\ UNCHANGED <<file, pos, top, f, softClauses, nInputVars>>

\* newVar until every literal of the clause has its variable.
NameVars(g, lits) == NewVars(g, Max({0} \cup {Var(lits[k]) : k \in DOMAIN lits}))

\* The weight, a t_weight, becomes the long long of addClause.
LongLong(w) == IF w > MaxWeight \div 2 THEN w - (MaxWeight + 1) ELSE w

\* Faulty variant: a soft clause is added as soon as it is read.
ReadClauseAddsSoft ==
    /\ AtLine("clause")
    /\ LET w == ParseWeight(file[pos].weight)
           C == Range(file[pos].lits)
           g == NameVars(f, file[pos].lits)
       IN  f' = IF w >= top THEN AddHardClause(g, C) ELSE AddSoft(g, C, LongLong(w))
    /\ pos' = pos + 1
    /\ UNCHANGED <<file, top, softClauses, nInputVars, pc>>

ReadClause ==
    /\ AtLine("clause")
    /\ LET w == ParseWeight(file[pos].weight)
           C == Range(file[pos].lits)
           g == NameVars(f, file[pos].lits)
       IN  IF w >= top
           THEN /\ f' = AddHardClause(g, C)
                /\ UNCHANGED softClauses
           ELSE /\ f' = g
                /\ softClauses' = Append(softClauses, [lits |-> C, weight |-> w])
    /\ pos' = pos + 1
    /\ UNCHANGED <<file, top, nInputVars, pc>>

\* Faulty variant: the size of a solution misses the last variable.
EndOfFileShort ==
    /\ pc = "read"
    /\ pos > Len(file)
    /\ nInputVars' = Max({0, Len(f.poids) - 1})
    /\ pc' = "soft"
    /\ UNCHANGED <<file, pos, top, f, softClauses>>

EndOfFile ==
    /\ pc = "read"
    /\ pos > Len(file)
    /\ nInputVars' = Len(f.poids)
    /\ pc' = "soft"
    /\ UNCHANGED <<file, pos, top, f, softClauses>>

AddSoftClause ==
    /\ pc = "soft"
    /\ softClauses # <<>>
    /\ f' = AddSoft(f, Head(softClauses).lits, LongLong(Head(softClauses).weight))
    /\ softClauses' = Tail(softClauses)
    /\ UNCHANGED <<file, pos, top, nInputVars, pc>>

ParseReturns ==
    /\ pc = "soft"
    /\ softClauses = <<>>
    /\ pc' = "parsed"
    /\ UNCHANGED <<file, pos, top, f, softClauses, nInputVars>>

ParserNext ==
    \/ OpenFile \/ ReadTop \/ ReadBad \/ ReadJunk \/ ReadClause
    \/ EndOfFile \/ AddSoftClause \/ ParseReturns

-----------------------------------------------------------------------------
\* The formula parse builds, with its soft variables and rewritten weights,
\* is the file's: it allows the same assignments of the file's variables and
\* gives each of them the same cost.
FormulaIsFile ==
    pc = "parsed" =>
      /\ WellFormed(file)
      /\ \A p \in Points :
           /\ p \in f.live <=> Allowed(file, p)
           /\ p \in f.live => CostOf(f, p) = PriceOf(file, p)

\* calculateCost, which reads the file a second time, agrees with the formula
\* on every solution cut to nInputVars, and never meets a variable beyond it:
\* assert(!"Error size result") and assert(getCost() == calculateCost(...)).
SolutionFits ==
    pc = "parsed" =>
      \A p \in Points :
        LET c == CalculateCost(file, VecOf(p, nInputVars))
        IN  /\ Len(c.vec) = nInputVars
            /\ c.cost = IF p \in f.live THEN CostOf(f, p) ELSE MaxWeight
=============================================================================
