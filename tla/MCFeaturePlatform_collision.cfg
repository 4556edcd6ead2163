CONSTANTS
    Merchants <- MCMerchants
    k1 = k1
    k2 = k2
    r1 = r1
    r2 = r2
    Key = {k1, k2}
    Rest = {r1, r2}
    StepOf <- MCStepOf
    FeatureVector <- PipelineFeatureVector
    FeatureOf <- PipelineFeatureOf
    Malformed = Malformed
    Overflowing = {o1}
    Missing = Missing
    Dataset <- MCDataset
    SampleSizes = {2}
    Jobs = {}
    StreamEpoch = 2
    MaxClock = 0
    MaxTopic = 2
    MaxCrashes = 0
SPECIFICATION Spec
INVARIANT ServedFeaturesAreOwn
