CONSTANTS
    Merchants <- MCMerchants
    k1 = k1
    k2 = k2
    r1 = r1
    r2 = r2
    Key = {k1, k2}
    Rest = {r1}
    StepOf <- MCStepOf
    FeatureVector <- MCFeatureVector
    FeatureOf <- MCFeatureOf
    Malformed = Malformed
    Overflowing = {}
    Missing = Missing
    Dataset <- MCDataset
    SampleSizes = {2}
    Jobs = {}
    StreamEpoch = 2
    MaxClock = 1
    MaxTopic = 3
    MaxCrashes = 1
SPECIFICATION FairSpec
INVARIANT TypeOK
INVARIANT NoUnexplainedGap
PROPERTY TableSpec
PROPERTY WorkerPassesEveryRecord
PROPERTY BoundedRunEnds
