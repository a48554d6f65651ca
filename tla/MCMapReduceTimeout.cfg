SPECIFICATION Spec
CONSTANTS
    Worker = {w1, w2}
    NMap = 2
    NReduce = 1
    Unreadable = {}
    MaxCrashes = 1
SYMMETRY Symmetry
INVARIANTS TimeoutRecovers
CHECK_DEADLOCK FALSE
