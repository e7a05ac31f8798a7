SPECIFICATION Spec
CONSTANTS
    MaxNode = 4
    MaxNesting = 2
    MaxInner = 2
    MaxFlat = 3
INVARIANTS
    SliceMatches
    QuorumMatches
    VBlockingMatches
    ClosestIsClosest
    NormalizeKeepsSlices
    ExtraChecksIntersect
