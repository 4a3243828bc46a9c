SPECIFICATION PagingSpec
CONSTANTS
    Unset = Unset
    Global = Global
    Channel = Channel
    Events = {1, 2}
    Contexts <- MCContexts
    ScopeOf <- AllGlobal
    Requests = {r1, r2, r3}
    Ops <- Paging
    Limits = {2}
    MaxDisplayed = 1
    MaxRetries = 2
    MaxClock = 3
    MaxInFlight = 1
    KVMayFail = FALSE
INVARIANTS
    ReturnedAreMarked
