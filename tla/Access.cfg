SPECIFICATION AccessSpec

CONSTANTS
    Uuids = {u1, u2}
    NoUuid = NoUuid
    Requests = {r1, r2, r3, r4}
    MaxInflight = 3
    MaxInflightPerUuid = 2
    Calls = {f1}
    PageSize = 2
    FieldValues = {9, 10}
    StartValue = 10
    Ops = {"lte"}
    MaxEvents = 3

SYMMETRY Symmetry

INVARIANT AccessTypeOK
INVARIANT InflightTrue
INVARIANT CoercionExact
PROPERTY ReachesOnlyRunning
PROPERTY FlagEarned
PROPERTY WinRecognised
