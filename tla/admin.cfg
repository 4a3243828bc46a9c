SPECIFICATION Spec
CONSTANTS
    p1 = p1
    p2 = p2
    Pages = {p1, p2}
    NoPage = NoPage
    ci = ci
    deploy = deploy
    Names = {ci, deploy}
    NoName = NoName
    s1 = s1
    s2 = s2
    shared = shared
    Secrets = {s1, s2, shared}
    Blank = Blank
    Legacy = shared
    Edits <- MCEdits
    Scenarios <- MCScenarios
INVARIANTS
    SavesWhatIsShown
PROPERTIES
    UnseenTokensSurvive
    UntypedSecretsSurvive
    RequestsEnd
CHECK_DEADLOCK FALSE
