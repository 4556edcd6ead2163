CONSTANTS
    NumRows = 5
    InvalidRows = {2}
    QueueMax = 2
    MaxRetries = 2
SPECIFICATION FairSpec
CHECK_DEADLOCK FALSE
INVARIANT TypeOK
INVARIANT EveryRowAccountedFor
PROPERTY ProducerEnds
