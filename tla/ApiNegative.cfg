CONSTANTS
    NInputs = 2
    MaxOps = 3
    MaxWeight = 63
    NegativeClauses = TRUE
    Points <- MCPoints
    Weights <- MCWeights
    VarWeights <- MCVarWeights
SPECIFICATION Spec
INVARIANTS NegativeWeightIsOffset
