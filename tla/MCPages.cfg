SPECIFICATION Spec
CONSTANTS
    Keys <- MCKeys
    Limits <- MCLimits
    None = None
INVARIANTS NoRepeat NothingSkipped CursorLeadsOn
