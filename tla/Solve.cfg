CONSTANTS
    N = 4
    MaxWeight = 63
    Extra <- SoftUnits
    ExtraHard <- HardClauses
    Points <- MCPoints
    Instances <- AllInstances
    Options <- AllOptions
SPECIFICATION MCSpec
INVARIANTS TypeOK OptimalOnReturn ObjectivePreserved CutNotBetter AssumInSync IndexConsistent
PROPERTIES Monotone
