SPECIFICATION FairSpec
CONSTANTS
    None = None
    Calls = {c1, c2}
    Requests <- McRequests
    Registrations <- McRegistrations
    Versions <- McVersions
    Manifests <- McManifests
    Backends <- McBackends
    Ttl = 1
    MaxTime = 1
    Weight <- McWeight
    MaxCalls = 3
    MaxDecisions = 2
    MaxSyncs = 2
    MaxFailures = 1
CHECK_DEADLOCK FALSE
INVARIANTS
    TypeOK
    DecidedByPolicy
    GatedRunsBackedByGrants
    DeniedIsNotRun
PROPERTIES
    CallsAnswered
    KeepsGrants
