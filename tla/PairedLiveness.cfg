SPECIFICATION FairSpec
CONSTANTS
    Req = {r1}
    NoReq = NoReq
    Outputs = {a}
PROPERTIES
    NothingIsHeld
