CONSTANTS
    Replicas = {r1, r2}
    Clients = {c1, c2}
    Columns = {s1, s2}
    NoColumns = NoColumns
    NoAnswer = NoAnswer
    MaxVersions = 2
SPECIFICATION Spec
SYMMETRY MCSymmetry
INVARIANT TypeOK
INVARIANT LoadedAsOne
INVARIANT CountsOnce
PROPERTY RestartNeverGoesBack
PROPERTY GateSpec
