CONSTANTS
    Merchants <- MCMerchants
    k1 = k1
    k2 = k2
    r1 = r1
    r2 = r2
    Key = {k1, k2}
    Rest = {r1, r2}
    StepOf <- MCStepOf
    FeatureVector <- MCFeatureVector
    FeatureOf <- MCFeatureOf
    Malformed = Malformed
    Overflowing = {o1}
    Missing = Missing
    Dataset <- MCDataset
    SampleSizes = {1, 2}
    Jobs = {j1, j2}
    StreamEpoch = 2
    MaxClock = 1
    MaxTopic = 1
    MaxCrashes = 0
SPECIFICATION Spec
SYMMETRY MCSymmetry
INVARIANT SuccessServesCommonRows
 
