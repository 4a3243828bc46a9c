SPECIFICATION Spec
CONSTANTS
    NoTeam = NoTeam
    NoChannel = NoChannel
    NoSummary = NoSummary
    NoError = NoError
    ReactionError = ReactionError
    Pending = Pending
    Failed = Failed
    NoUsers = NoUsers
    Me = Me
    u1 = u1
    u2 = u2
    u3 = u3
    Others = {u1, u2, u3}
    Acts <- MCActs
    eyes = eyes
    rocket = rocket
    Icons = {eyes, rocket}
    Contexts <- NoContexts
    Scenarios <- MCScenarios
INVARIANTS
    SettledAgreesWithServer
    TooltipFromNewestRequest
CHECK_DEADLOCK FALSE
