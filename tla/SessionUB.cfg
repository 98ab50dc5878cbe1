CONSTANTS
    N = 3
    MaxWeight = 63
    Extra <- SoftUnits
    ExtraHard <- HardClauses
    Points <- MCPoints
    Instances <- Session
    Options <- SessionUBOptions
SPECIFICATION Spec
INVARIANTS CostIsOfSolution
