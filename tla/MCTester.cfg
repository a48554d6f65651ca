SPECIFICATION Spec
CONSTANTS
    c1 = c1
    c2 = c2
    e1 = e1
    k1 = k1
    s1 = s1
    End <- MCEnd
    Clnt <- MCClnt
    ServerName <- MCServerName
    Call <- MCCall
    MaxInstance = 2
INVARIANTS AckedIsSaved ReachAsAllowed
PROPERTIES OldInstancesIsolated CallsReturn
CHECK_DEADLOCK FALSE
