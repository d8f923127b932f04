SPECIFICATION Spec
CONSTANTS
    Req = {r1, r2}
    NoReq = NoReq
    Outputs = {a, b}
SYMMETRY Symmetry
INVARIANTS
    MarkedUnlessInSync
    GenerationExcludesManagement
PROPERTIES
    CompleteMeansAgreed
    ImplementsLease
