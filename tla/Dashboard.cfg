SPECIFICATION Spec
CONSTANTS
    NumRows = 5
    Invalid = {4}
    Servers = {s1, s2}
    FirstServers = s1
    Unreachable = {s2}
    NoServers = NoServers
    Batch = 2
    HistoryLimit = 2
    MaxClicks = 4
    MaxRows = 8
INVARIANTS
    TypeOK
    HistoryInOrder
    MissingRowsWereCut
    HistoryBounded
    SentWhereShown
PROPERTY RowEnds
CHECK_DEADLOCK FALSE
