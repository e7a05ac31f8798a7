CONSTANTS
    n1 = n1 n2 = n2 n3 = n3
    Node <- Pair
    NodeOrder <- PairOrder
    Slices <- Both
    Value <- ThreeValues
    NoValue = NoValue
    Proposal <- PairMixed
    validateValue <- PairStrict
    extractValidValue <- PairVariant
    hashValue <- Hashes
    combineCandidates <- Highest
    Priority <- Tie
    MaxRound = 3
    Validating <- Pair
    MayStop <- Pair
    MayRestart <- Pair
    MaxRestart = 2
SPECIFICATION Spec
CHECK_DEADLOCK FALSE
INVARIANTS NoException TimerRuns CompositeIsCurrent
PROPERTIES EmitsInOrder
