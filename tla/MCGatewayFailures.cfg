SPECIFICATION Spec
CONSTANTS
    None = None
    Calls = {c1, c2}
    Requests <- McRequests
    Registrations <- McRegistrations
    Versions <- McVersions
    Manifests <- McManifests
    Backends <- McBackends
    Ttl = 1
    MaxTime = 1
    Weight <- McWeight
    MaxCalls = 4
    MaxDecisions = 0
    MaxSyncs = 2
    MaxFailures = 0
CHECK_DEADLOCK FALSE
INVARIANT
    FailuresAreDenials
