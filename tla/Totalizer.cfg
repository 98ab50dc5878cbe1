CONSTANTS
    MaxLits = 7
    Bound = 1
SPECIFICATION Spec
INVARIANTS TypeOK OutputsExact ImpliquantsInSolver
