CONSTANTS
    MaxMessages = {0, 2}
    MaxTopic = 3
    MaxStops = 2
SPECIFICATION FairSpec
INVARIANT TypeOK
INVARIANT LossIsBounded
PROPERTY EveryMessagePassed
