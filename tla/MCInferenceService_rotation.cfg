CONSTANTS
    Replicas = {r1}
    Clients = {c1}
    Columns = {s1}
    NoColumns = NoColumns
    NoAnswer = NoAnswer
    MaxVersions = 1
SPECIFICATION Spec
INVARIANT RotationMeansLoaded
