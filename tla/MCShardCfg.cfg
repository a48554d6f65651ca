SPECIFICATION Spec
CONSTANTS
    NShards = 12
    Gid = {1, 2, 3, 4, 5}
    ServersOf <- MCServersOf
    MaxNum = 4
    MaxLoad = 257
INVARIANTS CheckConfig
PROPERTIES MinimalMoves SameInEveryOrder
CHECK_DEADLOCK FALSE
