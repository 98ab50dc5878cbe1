CONSTANTS
    MaxWeight = 63
    MaxSteps = {1, 100}
    Points <- MCPoints
    Problems <- MCProblems
SPECIFICATION FairSpec
INVARIANTS EdgesAreConflicts PlacesSuffice AlwaysClique MaximumIfFinished MemorySafe
PROPERTY ExactEnds
