CONSTANTS
    Assignments = {p1, p2, p3}
    Infinity = 3
SPECIFICATION MCSpec
INVARIANTS Answer BoundInv
