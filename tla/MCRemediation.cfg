SPECIFICATION Spec
CONSTANTS
    Items = {1, 2, 3}
    Caps <- MCCaps
    MaxConf = 1
    NoItem = NoItem
    Hops = 2
    N = 2
    Floor = 0
    Edits <- MCEdits
\* the execution ends in "done" or "failed"
CHECK_DEADLOCK FALSE
INVARIANTS
    CapKept
    RemovalWasSeenToWork
    EffectOnlyOnMembers
    EveryMemberIsNeeded
    GivingUpIsHonest
    ShownIsProved
    FrontierIsWhole
PROPERTIES
    ProvenIsHonest
