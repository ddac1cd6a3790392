SPECIFICATION Spec
CONSTANTS
    Items = {1, 2}
    Late = {3}
    Tokens <- MCTokens
    Budget = 2
    TopK = 1
    Queries = 2
    RecencyN = 1
    Ensembles = {1, 2, 4}
    Ages = {20, 23, 26, 29}
    Tolerance = 3
    Labels = {"cook", "chef"}
    Places <- MCPlaces
    Finest <- MCFinest
    NoName = NoName
    MaxStated = 1
    Fabricated = 0
    Calibrated <- MCCalibrated
\* the execution ends in "done" or "failed"
CHECK_DEADLOCK FALSE
INVARIANTS
    SelectionKept
    SurfacedHasHalf
    AbstentionIsDisagreement
    LevelIsFinest
    CandidatesAreRanked
