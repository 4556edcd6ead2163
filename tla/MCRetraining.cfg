SPECIFICATION Spec
CONSTANTS
    Row <- MCRow
    Fraud <- MCFraud
    Type = {"TRANSFER", "PAYMENT"}
    TypeOf <- MCTypeOf
    Csv <- MCCsv
    Splittable <- MCCsv
    FirstCsv <- Both
    Seed = {42, 7}
    RandomState = 42
    SplitWith <- MCSplitWith
    Pipelines = {"weekly", "daily", "job"}
    Commands <- MCCommands
    DirOf <- MCDirOf
    Ephemeral = {"job"}
    Retries <- MCRetries
    Scheduled = {"weekly", "daily"}
    NumSpecs = 2
    MaxActive = 2
    MaxChanges = 1
    MaxAttempts <- MCMaxAttempts
    MaxAborts = 1
INVARIANTS
    TypeOK
    HeldOut
    RegisteredIsServable
    PrivateSplitsAreReadable
    OneVersionPerAttempt
    EvaluatesNoOlder
    ReportDescribesItsVersion
CHECK_DEADLOCK FALSE
