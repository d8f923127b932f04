SPECIFICATION Spec
CONSTANTS
    MaxEpoch = 2
    Recovery = 1
INVARIANTS
    AdmissionExcludesManagement
    ReadyPairIsOurs
    AnnouncementsAreTrue
PROPERTIES
    EventuallyServes
