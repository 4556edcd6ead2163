SPECIFICATION Spec
CONSTANTS
    Row <- MCRow
    Fraud <- MCFraud
    Type = {"TRANSFER", "PAYMENT"}
    TypeOf <- MCTypeOf
    Csv <- MCCsv
    Splittable <- MCCsv
    FirstCsv <- Both
    Seed = {42, 7}
    RandomState = 42
    SplitWith <- MCSplitWith
    Pipelines = {"weekly", "daily"}
    Commands <- MCCommands
    DirOf <- MCDirOf
    Ephemeral = {}
    Retries <- MCRetries
    Scheduled = {"weekly", "daily"}
    NumSpecs = 1
    MaxActive = 2
    MaxChanges = 1
    MaxAttempts <- MCMaxAttempts
    MaxAborts = 2
PROPERTIES
    ChainsEnd
    TornSplitRepaired
CHECK_DEADLOCK FALSE
