SPECIFICATION Spec
CONSTANTS
    Categorical = {"relationship"}
    Allowed <- MCAllowed
    Synonyms <- MCSynonyms
    Gazetteer <- MCGazetteer
    Aliases <- MCAliases
    NoName = NoName
    Blank = Blank
    Dropped = Dropped
    Tolerance = 3
    Personas <- MCPersonas
    Truth <- MCTruth
    Emissions <- MCEmissions
    Ensembles = {1, 2}
    Versions = {"v1", "v2"}
    Evals = {e1, e2}
    Attributes <- MCAttributes
    Attacks = {"a1"}
    Defences = {"d1", "d2"}
SYMMETRY EvalsAreAlike
CONSTRAINT OneThingAtATime
INVARIANTS TrustViewIsOneEngine MaskedUnlessConsented ReadsAreSnapshots
PROPERTIES ReliabilityWasMeasured AccuracyMatchesMap
\* every run ends, the user may be erased, and the requests are answered
CHECK_DEADLOCK FALSE
