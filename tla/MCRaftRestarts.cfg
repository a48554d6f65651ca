SPECIFICATION RestartSpec
CONSTANTS
    Server = {s1, s2, s3}
    NoVote = NoVote
    MaxTerm = 1
    MaxEntries = 1
    MaxRpcs = 4
    MaxRestarts = 1
SYMMETRY Symmetry
INVARIANTS QuorumBehindLeader
CHECK_DEADLOCK FALSE
