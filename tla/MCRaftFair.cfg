SPECIFICATION FairSpec
CONSTANTS
    Server = {s1, s2, s3}
    NoVote = NoVote
    MaxTerm = 2
    MaxEntries = 0
    MaxRpcs = 3
    MaxRestarts = 0
PROPERTIES StaleLeaderStepsDown LeaderTermSpreads
CHECK_DEADLOCK FALSE
