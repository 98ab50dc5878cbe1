CONSTANTS
    N = 4
    MaxWeight = 63
    Extra = {}
    ExtraHard = {}
    Points <- MCPoints
    Instances <- Weighted
    Options <- TwoCallOptions
SPECIFICATION Spec
INVARIANTS FalseMeansUnsat
