SPECIFICATION Spec
CONSTANTS
    Requests = {r1, r2}
    Readers = {dag, person}
    Checked = {dag}
    NoOne = NoOne
    MaxFaults = 2
INVARIANTS
    TypeOK
    AppendedLinesAreWhole
    ReportIsComplete
    UnparsableIsExplained
    CheckedHasRows
PROPERTIES
    AppendsEnd
    ReportsEnd
