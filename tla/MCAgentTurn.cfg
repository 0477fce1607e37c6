SPECIFICATION FairSpec
CONSTANTS
    app = app
    other = other
    first = first
    second = second
    none = none
    Tools <- MCTools
    Registrations <- MCRegistrations
    Generations <- MCGenerations
    Syncs <- MCSyncs
    Callers <- MCCallers
    Modes <- MCModes
    Unknown <- MCUnknown
    Lifetimes = {1, 3}
    Margin = 1
    Services <- MCServices
    Offers <- MCOffers
    Guarded <- MCGuarded
    AuthConfigured = TRUE
    Leeway = 1
    Absent = none
    Agents <- MCAgents
    MaxIterations = 2
    MaxToolCalls = 1
    Plans <- MCPlans
INVARIANTS
    TypeOK
    SettledAgrees
    RevokedStaysRevoked
    ReusedIsFresh
    ListsAreExact
    ServedAsLabelled
    OnlyFailuresRaise
    ListedIsCallable
    VersionsAgree
PROPERTIES
    TurnsEnd
CHECK_DEADLOCK FALSE
