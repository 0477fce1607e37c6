SPECIFICATION FairSpec
CONSTANTS
    Workers = {w1, w2}
    Approvers = {p1}
    Ops = {pay, refund}
    NoWorker = NoWorker
    Ttl = 1
    MaxTime = 1
    MaxAttempts = 3
    MaxDecisions = 2
CHECK_DEADLOCK FALSE
INVARIANTS
    TypeOK
    ReleasesBackedByGrants
    OneLivePendingPerWorker
    AnnouncedGrantsHappened
PROPERTIES
    AttemptsEnd
    KeepsPromise
