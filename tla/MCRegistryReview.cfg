SPECIFICATION Spec
CONSTANTS
    Callers = {p1, p2}
    Names = {n1}
    Manifests <- McManifests
    Absent = Absent
    MaxCalls = 4
CHECK_DEADLOCK FALSE
INVARIANT
    LifecycleKept
