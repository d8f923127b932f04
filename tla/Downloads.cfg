SPECIFICATION FairSpec
CONSTANTS
    Job = {j}
    Files = 2
    Size <- Sizes
    Version = {v, w}
    NoTag = NoTag
    NoHash = NoHash
    Nobody = Nobody
INVARIANTS
    PublishedIsGenuine
    CompleteIsDurable
PROPERTIES
    PartialsArePreserved
    ResumeCompletes
CHECK_DEADLOCK FALSE
