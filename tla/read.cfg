SPECIFICATION MCSpec
CONSTANTS
    Unset = Unset
    Global = Global
    Channel = Channel
    Events = {1, 2, 3}
    Contexts <- MCContexts
    ScopeOf <- MCScopeOf
    Requests = {r1, r2, r3}
    Ops <- MCOps
    Limits = {1}
    MaxDisplayed = 2
    MaxRetries = 2
    MaxClock = 2
    MaxInFlight = 1
    KVMayFail = TRUE
SYMMETRY Symmetry
INVARIANTS
    TypeOK
    OnlyRequestedAreSeen
    MarkedStaysSeen
PROPERTIES
    BaselineKept
    ImplementsAtomicReadState
