CONSTANTS
    MaxVar = 3
    MaxWeight = 63
    MaxSignals = 2
    Points <- MCPoints
    Files <- MCFiles
SPECIFICATION FairSpec
INVARIANTS SignalIsTruthful OptimumIsOptimal UnsatIsUnsat CostIsOfSolution UnknownOnlyWhileStoring
    FormulaIsFile SolutionFits
PROPERTY Ends
