SPECIFICATION Spec
CONSTANTS
    attackRun = a
    remediationRun = d
    Runs = {a}
    Workers = {w1, w2}
    Req <- MCReq
    MaxTries = 3
    NoRun = NoRun
INVARIANT NoLostRun
