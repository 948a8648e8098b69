SPECIFICATION AccessSpec

CONSTANTS
    Uuids = {u1}
    NoUuid = NoUuid
    Requests = {r1}
    MaxInflight = 1
    MaxInflightPerUuid = 1
    Calls = {f1}
    PageSize = 2
    FieldValues = {9, 10}
    StartValue = 10
    Ops = {"lte"}
    MaxEvents = 3

PROPERTY EventFound
