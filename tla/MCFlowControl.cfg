CONSTANTS
    a = a b = b
    Scenario <- Scenarios
    PEER_READING_CAPACITY = 3
    PEER_FLOOD_READING_CAPACITY = 2
    FLOW_CONTROL_SEND_MORE_BATCH_SIZE = 2
    INITIAL_PEER_FLOOD_READING_CAPACITY_BYTES = 4
    INITIAL_FLOW_CONTROL_SEND_MORE_BATCH_SIZE_BYTES = 2
    OUTBOUND_TX_QUEUE_BYTE_LIMIT = 4
    QueueLimit = 2
    checkpointSeq = 9
    UpgradesEarly = FALSE
SPECIFICATION FairSpec
CHECK_DEADLOCK FALSE
INVARIANTS NoThrow
PROPERTIES ImplementsCreditWindow EventuallyDelivered
