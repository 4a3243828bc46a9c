SPECIFICATION Spec
CONSTANTS
    NoTeam = NoTeam
    NoChannel = NoChannel
    NoSummary = NoSummary
    NoError = NoError
    LoadError = LoadError
    NoFilter = NoFilter
    PinnedOnly = PinnedOnly
    UnreadOnly = UnreadOnly
    Pending = Pending
    Failed = Failed
    Team = Team
    Here = Here
    There = There
    Icons = {}
    Contexts <- MCContexts
    Hosts <- MCHosts
    Publications <- MCPublications
    Looks <- MCLooks
    Parents <- MCParents
    Scenarios <- MCScenarios
    PageSize = 1
    MaxDisplayed = 2
INVARIANTS
    TypeOK
    ListedOnce
    NoForeignAnswer
    SettledListIsCurrent
    FilteredListIsExact
PROPERTIES
    ViewedGetsRead
    LoadingEnds
CHECK_DEADLOCK FALSE
