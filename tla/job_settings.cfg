\* One Job: stalls, cancellation, repeated recovery; crashes, failing stores, snapshots and
\* adapters, callbacks.  Jobs that compete for a slot.  Two brokers, two shells.
CONSTANTS
    Jobs = {j1, j2}
    j1 = j1
    j2 = j2
    o1 = o1
    Owners = {o1, o2}
    Keys = {}
    Hashes = {h1}
    Sources = {cli}
    EventTypes <- MCEventTypes
    Payloads <- MCPayloads
    ImportStatuses = {}
    LimitOf <- MCLimitOf
    MaxLimit = 1
    MaxBrokers = 2
    Scripts <- MCScripts
    StaleClock = FALSE
    NoOwner = NoOwner
    NoKey = NoKey
    NoSource = NoSource
    NoPayload = NoPayload
    MaxFence = 3
    MaxRevision = 20
    MaxEvents = 20
    MaxAttempts = 2
    SingleBroker = FALSE
    MayStall = TRUE
    MayCrash = {}
    StoreFaults = FALSE
    SnapshotFaults = FALSE
    Callbacks = FALSE
SPECIFICATION MCSpec
INVARIANTS TerminalEventAgrees ExecutionHoldsSlot ServingBrokerKeepsRecord CommandsAnswerTruly OwnershipFollowsWork
PROPERTIES ImplementsContract
CHECK_DEADLOCK FALSE
