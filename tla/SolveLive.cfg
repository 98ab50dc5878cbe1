CONSTANTS
    N = 3
    MaxWeight = 63
    Extra = {}
    ExtraHard = {}
    Points <- MCPoints
    Instances <- Small
    Options <- OneCallOptions
SPECIFICATION FairSpec
PROPERTIES Termination ImplementsSearch
