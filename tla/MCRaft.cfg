SPECIFICATION Spec
CONSTANTS
    Server = {s1, s2, s3}
    NoVote = NoVote
    MaxTerm = 2
    MaxEntries = 1
    MaxRpcs = 4
    MaxRestarts = 0
SYMMETRY Symmetry
INVARIANTS TypeOK ElectionSafety VoteAccounting LogProvenance
PROPERTIES TermsAndVotesStable LeaderAppendOnly
CHECK_DEADLOCK FALSE
