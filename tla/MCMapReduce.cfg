SPECIFICATION Spec
CONSTANTS
    Worker = {w1, w2}
    NMap = 3
    NReduce = 2
    Unreadable = {1}
    MaxCrashes = 2
INVARIANTS ReportsMatchPhase OutputComplete
PROPERTIES OutputFinal JobFinishes
CHECK_DEADLOCK FALSE
