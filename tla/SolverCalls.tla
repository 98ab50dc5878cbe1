---------------------------- MODULE SolverCalls ----------------------------
(***************************************************************************)
(* The one SAT solver of class EvalMaxSAT and those who call it: solve()   *)
(* and the rewritings (SatClient), the minimization of a core              *)
(* (CoreMinimize) and the local optimizer (LocalOptimizer).  They take     *)
(* turns, and each finds the solver as the last one left it.               *)
(***************************************************************************)
EXTENDS CoreMinimize, LocalOptimizer

vars == <<client, core, optimizer>>

Init == ClientInit /\ CoreIdle /\ OptimizerIdle

Next ==
    \/ ClientNext /\ UNCHANGED <<core, optimizer>>
    \/ CoreNext /\ UNCHANGED optimizer
    \/ OptimizerNext /\ UNCHANGED core

\* A component that has begun goes on: the program is sequential, and every
\* call of the SAT solver returns.
Busy == pc \notin {"idle", "retry"}

Spec == Init /\ [][Next]_vars

FairSpec == Spec /\ WF_vars(Busy /\ Next)

-----------------------------------------------------------------------------
TypeOK ==
    /\ ClientTypeOK /\ CoreTypeOK /\ OptimizerTypeOK
    /\ pc \in {"idle", "retry",
               "unsat", "first", "second", "scored", "timeCheck", "multi", "final",
               "done", "hardUnsat",
               "start", "try", "take", "optimized"}
=============================================================================
