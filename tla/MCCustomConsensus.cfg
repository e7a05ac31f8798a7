CONSTANTS
    n1 = n1 n2 = n2 n3 = n3 n4 = n4
    Node <- Nodes
    Network <- Networks
SPECIFICATION FairSpec
CHECK_DEADLOCK FALSE
INVARIANTS CommitCertified CommittedExtendsCommitted CollectedWasPrepared
PROPERTIES EventuallyCommits
