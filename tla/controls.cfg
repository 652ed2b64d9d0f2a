\* Two controls, two attempts, and two of: an event of the adapter, faults of different kinds; a
\* call of Pi with one control, an unread line in its pipe and one fault; a Job of two attempts
\* with two faults; an observer that loses four requests; a Job of seven events.
CONSTANTS
    c1 = c1
    c2 = c2
    t1 = t1
    t2 = t2
    Controls = {c1, c2}
    NoControl = NoControl
    MaxAttempts = 2
    MaxEmits = 1
    MaxFaults = 2
    LiveControls = {c1}
    MaxLines = 1
    MaxTexts = 1
    MaxMishaps = 1
    Attempts = 2
    MaxTroubles = 2
    Reconnects = 3
    LastEvent = 4
    MaxLosses = 4
    ToolCalls = {t1, t2}
    MaxWorkerEvents = 4
    MaxLog = 7
SPECIFICATION MCSpec
INVARIANTS DeliveredOnce FencedByEvidence ReceiptsAgree NoTurnWaitsInVain ControlsStayAdvisory
    ArtifactsStand ValidationReportsTruly ObserversKeepUp ActivityTruthful
PROPERTIES CloseDrains
CHECK_DEADLOCK FALSE
