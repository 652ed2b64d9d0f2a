\* Does a newcomer ever take a slot past a queued caller?
CONSTANTS
    Callers = {c1, c2, c3, c4}
    Capacity = 2
SPECIFICATION Spec
PROPERTIES FifoGrants
CHECK_DEADLOCK FALSE
