SPECIFICATION FairSpec
CONSTANTS
    attackRun = a
    remediationRun = d
    Runs = {d}
    Workers = {w1, w2}
    Req <- MCReq
    MaxTries = 2
    NoRun = NoRun
INVARIANTS TypeOK OneExecutor AnsweredCancelHolds
PROPERTIES ResultsWereConsented ImplementsContract RunSettles CancelIsAnswered
