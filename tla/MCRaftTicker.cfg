SPECIFICATION TickerSpec
CONSTANTS
    MinTimeout = 6
    MaxTimeout = 12
    MinSleep = 1
    MaxSleep = 7
    MaxTime = 20
CHECK_DEADLOCK FALSE
INVARIANTS SilenceEndsInElection HeartbeatsInTime
