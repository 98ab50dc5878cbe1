-------------------------------- MODULE Main --------------------------------
(***************************************************************************)
(* The program (main.cpp): it makes the solver object, parses the file,    *)
(* solves and prints, and at any instant a SIGINT or SIGTERM may run       *)
(* signalHandler, which prints what is known and exits.  The handler reads *)
(* cur_file, monMaxSat, nInputVars and solution wherever the interrupted   *)
(* code left them; solve() is here what module MaxSATBounds promises of    *)
(* it, cut at the assignments the handler can fall between.                *)
(*                                                                         *)
(* Asserts are compiled out, as in the Release build; the properties state *)
(* them.                                                                   *)
(***************************************************************************)
EXTENDS Parser

CONSTANT MaxSignals   \* bound: signals that arrive

VARIABLES stage,        \* where main, solve() or the handler is
          bench,        \* --bench
          curFile,      \* cur_file: what the handler will read
          solution,     \* the solution member; empty before the first one
          solutionCost,
          pending,      \* a better solution that is being stored
          after,        \* where solve() goes on once it is stored
          sat, result,  \* what solveFile returns, or the handler's vector
          out,          \* the last line printed of each kind
          signals,      \* signals received
          code          \* the exit status, or Running

store == <<solution, solutionCost, pending, after>>

answer == <<sat, result>>

mainVars == <<stage, bench, curFile, store, answer, out, signals, code>>

vars == <<parserVars, mainVars>>

Running == -1

O(c) == [line |-> "o", cost |-> c, says |-> "", vec |-> <<>>]

S(status) == [line |-> "s", cost |-> 0, says |-> status, vec |-> <<>>]

V(vec) == [line |-> "v", cost |-> 0, says |-> "", vec |-> vec]

Bench(c) == [line |-> "bench", cost |-> c, says |-> "", vec |-> <<>>]

NoLine == [line |-> "none", cost |-> 0, says |-> "", vec |-> <<>>]

Printed(x) == [out EXCEPT ![x.line] = x]

Init ==
    /\ ParserInit
    /\ stage = "args"
    /\ bench \in BOOLEAN
    /\ curFile = <<>>
    /\ solution = <<>>
    /\ solutionCost = MaxWeight
    /\ pending = <<>>
    /\ after = "search"
    /\ sat = FALSE
    /\ result = <<>>
    /\ out = [kind \in {"o", "s", "v", "bench"} |-> NoLine]
    /\ signals = 0
    /\ code = Running

In(s) == stage = s /\ code = Running

Goto(from, to) ==
    /\ In(from)
    /\ stage' = to
    /\ UNCHANGED <<parserVars, bench, curFile, store, answer, out, signals, code>>

Say(line, from, to) ==
    /\ In(from)
    /\ out' = Printed(line)
    /\ stage' = to
    /\ UNCHANGED <<parserVars, bench, curFile, store, answer, signals, code>>

Exit(from, status) ==
    /\ In(from)
    /\ code' = status
    /\ UNCHANGED <<parserVars, stage, bench, curFile, store, answer, out, signals>>

(***************************************************************************)
(* main and solveFile up to solve().                                       *)
(***************************************************************************)
MakeSolver == Goto("args", "made")

SetCurFile ==
    /\ In("made")
    /\ curFile' = file
    /\ stage' = "parse"
    /\ UNCHANGED <<parserVars, bench, store, answer, out, signals, code>>

ParseStep == In("parse") /\ ParserNext /\ UNCHANGED mainVars

\* "Unable to read the file": solveFile returns as if there were no solution.
ParseFails == pc = "failed" /\ Goto("parse", "report")

ParseExits == pc = "exit" /\ Exit("parse", 3)

StartSolve == pc = "parsed" /\ Goto("parse", "search")

(***************************************************************************)
(* solve(): better solutions are announced and stored, then the optimum.   *)
(***************************************************************************)
IsWeighted == Cardinality(DOMAIN f.map) > 1

Best == Min({CostOf(f, p) : p \in f.live})

\* Faulty variant: a solution that is no better is announced again.
AnnounceEqual ==
    /\ In("search")
    /\ IsWeighted
    /\ \E p \in f.live :
         /\ CostOf(f, p) <= solutionCost
         /\ out' = IF CostOf(f, p) = solutionCost THEN out ELSE Printed(O(CostOf(f, p)))
         /\ pending' = VecOf(p, nInputVars)
    /\ stage' = "announced"
    /\ UNCHANGED <<parserVars, bench, curFile, solution, solutionCost, after, answer, signals, code>>

\* The local optimizer has a better solution; disableOptimize() without
\* different weights.
Announce ==
    /\ In("search")
    /\ IsWeighted
    /\ \E p \in f.live :
         /\ CostOf(f, p) < solutionCost
         /\ out' = Printed(O(CostOf(f, p)))
         /\ pending' = VecOf(p, nInputVars)
    /\ stage' = "announced"
    /\ UNCHANGED <<parserVars, bench, curFile, solution, solutionCost, after, answer, signals, code>>

SetSolutionCost ==
    /\ In("announced")
    /\ solutionCost' = CostOf(f, PointOf(pending))
    /\ stage' = "store"
    /\ UNCHANGED <<parserVars, bench, curFile, solution, pending, after, answer, out, signals,
                   code>>

\* Faulty variant: the last model is taken for an optimum.
ReachAnyModel ==
    /\ In("search")
    /\ \E p \in f.live : /\ solutionCost' = CostOf(f, p)
                         /\ pending' = VecOf(p, nInputVars)
    /\ stage' = "store"
    /\ after' = "found"
    /\ UNCHANGED <<parserVars, bench, curFile, solution, answer, out, signals, code>>

\* Every assumption holds: solutionCost = cost, then the model is stored.
ReachOptimum ==
    /\ In("search")
    /\ \E p \in f.live : /\ CostOf(f, p) = Best
                         /\ solutionCost' = CostOf(f, p)
                         /\ pending' = VecOf(p, nInputVars)
    /\ stage' = "store"
    /\ after' = "found"
    /\ UNCHANGED <<parserVars, bench, curFile, solution, answer, out, signals, code>>

\* Inside the assignment of a vector<bool> its memory holds anything.
StoreBegins ==
    /\ In("store")
    /\ solution' \in {<<>>} \cup [1..nInputVars -> BOOLEAN]
    /\ stage' = "storing"
    /\ UNCHANGED <<parserVars, bench, curFile, solutionCost, pending, after, answer, out, signals,
                   code>>

\* Faulty variant: a better solution is not stored.
StoreDropped ==
    /\ In("storing")
    /\ solution' = IF after = "search" THEN solution ELSE pending
    /\ stage' = after
    /\ UNCHANGED <<parserVars, bench, curFile, solutionCost, pending, after, answer, out, signals,
                   code>>

StoreEnds ==
    /\ In("storing")
    /\ solution' = pending
    /\ stage' = after
    /\ UNCHANGED <<parserVars, bench, curFile, solutionCost, pending, after, answer, out, signals,
                   code>>

\* cost >= solutionCost: the solution stored is an optimum.
ReturnBest ==
    /\ solutionCost # MaxWeight
    /\ solutionCost = Best
    /\ Goto("search", "found")

\* Faulty variant: assumptions that cannot hold together are taken for UNSAT.
ReturnUnsatUnderAssumptions == ~Sat(f, SoftLits(f)) /\ Goto("search", "report")

ReturnUnsat == f.live = {} /\ Goto("search", "report")

\* getSolution() cuts or extends the solution to nInputVars.
GetSolution == VecOf(PointOf(solution), nInputVars)

Deliver ==
    /\ In("found")
    /\ sat' = TRUE
    /\ result' = GetSolution
    /\ stage' = "report"
    /\ UNCHANGED <<parserVars, bench, curFile, store, out, signals, code>>

(***************************************************************************)
(* The end of main: three lines, or one, then the exit status.             *)
(***************************************************************************)
ReportBench == bench /\ Say(Bench(CalculateCost(file, result).cost), "report", "benched")

ReportCost == ~bench /\ sat /\ Say(O(CalculateCost(file, result).cost), "report", "optimum")

ReportOptimum == Say(S("OPTIMUM FOUND"), "optimum", "values")

ReportValues == Say(V(result), "values", "proved")

ReportUnsat == ~bench /\ ~sat /\ Say(S("UNSATISFIABLE"), "report", "refuted")

Return == Exit("benched", 0) \/ Exit("proved", 30) \/ Exit("refuted", 20)

(***************************************************************************)
(* signalHandler.  The code it interrupts never resumes.  A second signal, *)
(* of the other kind, may interrupt it in turn.                            *)
(***************************************************************************)
\* Faulty variant: the handler prints the cost solve() keeps.
SignalPrintsBound ==
    /\ code = Running
    /\ stage # "args"
    /\ signals < MaxSignals
    /\ signals' = signals + 1
    /\ LET c == CalculateCost(curFile, GetSolution)
       IN  /\ ~c.exits /\ ~bench /\ c.cost # MaxWeight
           /\ out' = Printed(O(solutionCost))
           /\ result' = c.vec
    /\ stage' = "handler o"
    /\ UNCHANGED <<parserVars, bench, curFile, store, sat, code>>

SignalCost ==
    /\ code = Running
    /\ stage # "args"
    /\ signals < MaxSignals
    /\ signals' = signals + 1
    /\ LET c == CalculateCost(curFile, GetSolution)
       IN  /\ ~c.exits /\ ~bench /\ c.cost # MaxWeight
           /\ out' = Printed(O(CalculateCost(curFile, c.vec).cost))
           /\ result' = c.vec
    /\ stage' = "handler o"
    /\ UNCHANGED <<parserVars, bench, curFile, store, sat, code>>

\* Faulty variant: a cost of 0 is taken for no solution.
SignalEndsAtZero ==
    /\ code = Running /\ stage # "args"
    /\ signals < MaxSignals
    /\ signals' = signals + 1
    /\ LET c == CalculateCost(curFile, GetSolution)
       IN  ~c.exits /\ ~bench /\ c.cost \in {0, MaxWeight}
    /\ code' = 0 /\ out' = Printed(S("UNKNOWN"))
    /\ UNCHANGED <<parserVars, stage, bench, curFile, store, answer>>

\* No solution object yet, an unreadable file, bench mode, or no solution.
SignalEnds ==
    /\ code = Running
    /\ signals < MaxSignals
    /\ signals' = signals + 1
    /\ LET c == CalculateCost(curFile, GetSolution)
       IN  \/ stage = "args" /\ code' = 0 /\ UNCHANGED out
           \/ stage # "args" /\ c.exits /\ code' = 3 /\ UNCHANGED out
           \/ /\ stage # "args" /\ ~c.exits /\ bench
              /\ code' = 0 /\ out' = Printed(Bench(c.cost))
           \/ /\ stage # "args" /\ ~c.exits /\ ~bench /\ c.cost = MaxWeight
              /\ code' = 0 /\ out' = Printed(S("UNKNOWN"))
    /\ UNCHANGED <<parserVars, stage, bench, curFile, store, answer>>

HandlerStatus == Say(S("SATISFIABLE"), "handler o", "handler s")

HandlerValues == Say(V(result), "handler s", "handler v")

HandlerExit == Exit("handler v", 10)

Finished == code # Running /\ UNCHANGED vars

Step ==
    \/ MakeSolver \/ SetCurFile \/ ParseStep \/ ParseFails \/ ParseExits \/ StartSolve
    \/ Announce \/ SetSolutionCost \/ ReachOptimum \/ StoreBegins \/ StoreEnds
    \/ ReturnBest \/ ReturnUnsat \/ Deliver
    \/ ReportBench \/ ReportCost \/ ReportOptimum \/ ReportValues \/ ReportUnsat \/ Return
    \/ HandlerStatus \/ HandlerValues \/ HandlerExit

Next == Step \/ SignalCost \/ SignalEnds \/ Finished

Spec == Init /\ [][Next]_vars

\* The process is scheduled until it exits; signals need not come.
FairSpec == Spec /\ WF_vars(Step)

-----------------------------------------------------------------------------
\* The last v line, however the variables it leaves out are chosen, allows
\* the file's hard clauses and costs what the last o line says.
PrintedIsTrue ==
    \A p \in Points :
      (\A v \in DOMAIN out["v"].vec : (v \in p) = out["v"].vec[v]) =>
        Allowed(file, p) /\ PriceOf(file, p) = out["o"].cost

\* Wherever the signal falls once cur_file is set (while the file is parsed,
\* before a solution, inside the assignment of one, while printing), what the
\* handler prints is a solution of the whole file and its cost.
SignalIsTruthful ==
    code = 10 /\ curFile = file /\ WellFormed(file) => PrintedIsTrue

\* Exit status 30: the v line is an optimum of the file, all its variables
\* included, and the o line its cost.
OptimumIsOptimal ==
    code = 30 =>
      /\ PrintedIsTrue
      /\ \A p \in Points : Allowed(file, p) => out["o"].cost <= PriceOf(file, p)

\* Exit status 20 on a file that could be read: nothing satisfies its hard
\* clauses.
UnsatIsUnsat ==
    code = 20 /\ file # <<>> /\ WellFormed(file) => \A p \in Points : ~Allowed(file, p)

\* assert(monMaxSat->getCost() == calculateCost(file, solution)): whichever
\* way solve() returned true, the solution stored is the one solutionCost is
\* the cost of.
CostIsOfSolution ==
    stage = "found" => CalculateCost(file, GetSolution).cost = solutionCost

\* "The solver cannot find a solution satisfying the hard clauses" (s UNKNOWN)
\* is printed after a solution was announced only if the signal fell into the
\* few lines between the announcement and the end of the assignment.
UnknownOnlyWhileStoring ==
    code = 0 /\ ~bench /\ out["o"] # NoLine =>
        stage \in {"announced", "store", "storing"}

\* The program ends.
Ends == <>(code # Running)
=============================================================================
