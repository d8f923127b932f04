SPECIFICATION BoundedSpec
CONSTANTS
    MaxEpoch = 2
    Path <- MCPath
INVARIANTS
    RunningRanksAreRecorded
    NeverFalselyOff
    OneModelAtATime
    OnePair
    StopDrains
    RestoredAreRecorded
PROPERTIES
    EventuallyReconciled
