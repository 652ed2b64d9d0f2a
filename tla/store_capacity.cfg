\* Three Jobs of two owners with different limits compete for capacity.
CONSTANTS
    o1 = o1
    o2 = o2
    Jobs = {j1, j2, j3}
    Owners = {o1, o2}
    Keys = {}
    Hashes = {h1}
    Sources = {}
    Payloads = {d1}
    EventTypes = {e1}
    ImportStatuses = {}
    LimitOf <- MCLimitOf
    MaxLimit = 2
    StaleClock = TRUE
    NoOwner = NoOwner
    NoKey = NoKey
    NoSource = NoSource
    NoPayload = NoPayload
    MaxFence = 2
    MaxRevision = 2
    MaxEvents = 1
SYMMETRY Symmetry
SPECIFICATION ContentionSpec
INVARIANT CapacityHeld
PROPERTIES LeaseHandover NoOvertaking
CHECK_DEADLOCK FALSE
