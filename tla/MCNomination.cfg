CONSTANTS
    n1 = n1 n2 = n2 n3 = n3
    Node <- Nodes
    NodeOrder <- Order
    Slices <- TwoOfThree
    Value <- Values
    NoValue = NoValue
    Proposal <- Mixed
    validateValue <- AllValid
    extractValidValue <- NoVariant
    hashValue <- Hashes
    combineCandidates <- Highest
    Priority <- Late
    MaxRound = 3
    Validating <- Nodes
    MayStop = {}
    MayRestart = {}
    MaxRestart = 0
SPECIFICATION FairSpec
CHECK_DEADLOCK FALSE
INVARIANTS CandidatesAccepted
PROPERTIES EventuallyCandidate
