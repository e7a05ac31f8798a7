CONSTANTS
    UINT32_MAX = 99
    Frequency = 3
    First = {2, 3}
    Empty = {1, 4}
    MaxLedger = 8
    MaxCrash = 3
    MaxFail = 1
    FollowExposed = FALSE
SPECIFICATION FairSpec
CHECK_DEADLOCK FALSE
INVARIANTS NoThrow FinalIsWhole PublishedIsWhole
PROPERTIES EventuallyPublished
