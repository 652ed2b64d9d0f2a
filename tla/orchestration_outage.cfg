\* A parent whose cancellation is durable before the broker starts again.
CONSTANTS
    Callers = {c1}
    MaxSubtasks = 2
    Inputs <- MCOutage
SPECIFICATION OrchSpec
INVARIANTS SettlesAfterItsJobs
CHECK_DEADLOCK FALSE
