SPECIFICATION ProtectedSpec
CONSTANTS
    f1 = f1
    f2 = f2
    File <- MCFile
    Candidate <- MCCandidate
    Good <- MCGood
INVARIANT IncompleteStaysUnverified
