SPECIFICATION SpecB
CONSTANTS
    app = app
    sales = sales
    finance = finance
    Threads <- MCThreads
    ClientOf <- MCClientOf
    Order <- MCOrder
    Names <- MCNames
    Gated <- MCGated
    Consented <- MCConsented
    Finance <- MCFinance
    Catalogs <- MCCatalogs
    Profiles <- MCProfiles
    MaxInvocations = 2
    MaxEvents = 1
    MaxRounds = 1
INVARIANT
    ApprovedBeforeDispatch
CHECK_DEADLOCK FALSE
