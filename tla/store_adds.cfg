SPECIFICATION Spec
CONSTANTS
    x = x
    c1 = c1
    c2 = c2
    NoExt = NoExt
    Global = Global
    Unrestricted = Unrestricted
    NoId = NoId
    Missing = Missing
    ExtIds = {x}
    Channels = {c1, c2}
    Requests = {r1, r2, r3}
    Webhooks <- AddsOnly
    Limits = {1, 2}
    KVMayFail = TRUE
    NodesMayDie = TRUE
INVARIANTS
    ListedIsStored
    SettledIsConsistent
PROPERTIES
    EveryRequestAnswered
