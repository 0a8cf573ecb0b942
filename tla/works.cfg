SPECIFICATION Spec
CONSTANTS
    N = 2
    Base = 3
    Size = 3
    Worker = {w1, w2}
    MaxFailures = 1
SYMMETRY Symmetry
INVARIANTS
    NoIntervalLost
    IndexesAgree
    ArithmeticExact
CHECK_DEADLOCK FALSE
