SPECIFICATION Spec
CONSTANTS
    Callers = {c1, c2}
    Published = 6
    Percent = 50
    Window = 7
    Costs = {0, 1, 2, 4}
    Timeouts = {0, 2}
    MaxNow = 7
    MaxGrants = 5
SYMMETRY CallerSymmetry
INVARIANTS
    BurstBound
CHECK_DEADLOCK FALSE
