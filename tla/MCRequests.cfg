SPECIFICATION Spec
CONSTANTS
    first = first
    retry = retry
    other = other
    defend = defend
    k = k
    Posts = {first, retry, other, defend}
    Owner <- MCOwner
    Key <- MCKey
    Kind <- MCKind
    NoKey = NoKey
    None = None
INVARIANTS OneRunPerKey EveryRunEnqueued AnswersAreRuns RunsHaveProfiles
