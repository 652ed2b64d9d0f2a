\* Two callers of one request: dispatch, evidence, cancellation, faults and a crash.
CONSTANTS
    Callers = {c1, c2}
    MaxSubtasks = 2
    Inputs <- MCInputs
SPECIFICATION MCFairSpec
INVARIANTS JobsWithinPlan ChildrenAgree UninterruptedLeavesNothing OutcomeOnRecord
PROPERTIES ImplementsPlanContract ParentSettles RestartHonoursCancellation
CHECK_DEADLOCK FALSE
