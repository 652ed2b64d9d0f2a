\* One record, two owners: saves, leases, cancellation, idempotency; the evidence of one
\* task under two controllers; three admissions to a pool of three routes.
CONSTANTS
    o1 = o1
    o2 = o2
    Jobs = {j1}
    Owners = {o1, o2}
    Keys = {k1}
    Hashes = {h1, h2}
    Sources = {cli, http}
    Payloads = {d1}
    EventTypes = {e1, e2}
    ImportStatuses = {"queued", "succeeded"}
    LimitOf <- MCLimitOf
    MaxLimit = 2
    StaleClock = TRUE
    NoOwner = NoOwner
    NoKey = NoKey
    NoSource = NoSource
    NoPayload = NoPayload
    MaxFence = 3
    MaxRevision = 3
    MaxEvents = 2
    Controllers = {a, b}
    Decisions = {"accept", "discard"}
    MaxOrders = 1
    MaxTaskJobs = 2
    MaxCandidates = 2
    MaxReviews = 2
    MaxCalls = 3
    RouteCount = 3
    Requests <- MCRequests
SPECIFICATION MCSpec
INVARIANTS TypeOK CancellationExcludesSuccess DecisionsAgree EvidenceStands AdmissionLeavesNothing
PROPERTIES FencedSavesInOrder NothingForgotten OrdersStayBound PoolRotates
CHECK_DEADLOCK FALSE
