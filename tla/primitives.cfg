\* Four callers and two slots; a follower and a waiter; two Jobs and two processes.
CONSTANTS
    Callers = {c1, c2, c3, c4}
    Capacity = 2
    Followers = {f1}
    Waiters = {w1}
    MaxEvents = 3
    j1 = j1
    j2 = j2
    o1 = o1
    o2 = o2
    h1 = h1
    cli = cli
    NoOwner = NoOwner
    NoKey = NoKey
    NoSource = NoSource
    NoPayload = NoPayload
SPECIFICATION MCFairSpec
INVARIANTS SlotsKept NobodyEndsEarly
PROPERTIES WaitersServed SubscribersServed EveryJobSettles
CHECK_DEADLOCK FALSE
