SPECIFICATION FairSpec
CONSTANTS
    Job = {j1, j2}
    Task = {t1, t2}
    Steps = 2
    Size = 2
    Kinds <- MCKinds
    Verdict = {"PASS", "FAIL"}
    j1 = j1
    j2 = j2
    Nobody = Nobody
    Others = Others
INVARIANTS
    NothingRunsOn
    PassIsEarned
PROPERTIES
    FilesAreKept
    KeepsPromise
    OperationsEnd
CHECK_DEADLOCK FALSE
