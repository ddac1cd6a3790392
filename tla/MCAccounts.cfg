SPECIFICATION FairSpec
CONSTANTS
    up = up  del = del
    ia = ia  ib = ib  q = q  w = w  x = x  y = y
    Ids = {1, 2}
    Deliveries = {up, del}
    Deletes = {del}
    Imports = {ia, ib}
    Requests = {q}
    Workers = {w}
    RunOf <- MCRunOf
    Contents = {x, y}
    Texts <- MCTexts
    MaxRetries = 1
    NoId = NoId
INVARIANT DedupeLosesNothing
PROPERTIES ImplementsContract ErasureCompletes
CHECK_DEADLOCK FALSE
