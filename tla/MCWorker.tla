------------------------------- MODULE MCWorker -------------------------------
(***************************************************************************)
(* Five models of what surrounds a worker, checked in one run: the live    *)
(* controls of a Job (WorkerControl), a call of the adapter of Pi (PiRun), *)
(* the files of a Job (Workspace), an observer of its record (Observation) *)
(* and what the broker tells of its activity (JobActivity).                *)
(*                                                                         *)
(* They do not share state: in every behaviour one of them runs and the    *)
(* others have nothing left to do.                                         *)
(***************************************************************************)
EXTENDS WorkerControl, PiRun, Workspace, Observation, JobActivity

ControlsOver ==
    /\ log = <<>> /\ saved = 0 /\ chain = <<>> /\ poisoned = FALSE
    /\ main = [step |-> "done", res |-> "none"] /\ active = FALSE
    /\ ops = <<>> /\ delivered = [c \in Controls |-> 0] /\ told = [c \in Controls |-> {}]
    /\ unrecorded = FALSE /\ faults = {}

RunOver ==
    /\ kind = "run" /\ step = "done" /\ verdict = "ok" /\ completed = TRUE /\ recovering = FALSE
    /\ turn = "settled" /\ failed = FALSE /\ reported = TRUE /\ aborted = FALSE
    /\ child = "none" /\ pi = "idle" /\ texts = 0 /\ pipe = <<>>
    /\ reader = "ended" /\ exit = "no" /\ read = "absent"
    /\ control = [c \in LiveControls |-> "rejected"] /\ pending = {} /\ obeyed = {}
    /\ mishaps = {}

FilesOver ==
    /\ source = 1 /\ snapshot = "none" /\ input = 0 /\ attempt = 1 /\ phase = "over" /\ failure = "worker"
    /\ worktrees = [n \in 1..Validation |-> Gone]
    /\ patches = {} /\ listed = {} /\ recorded = {} /\ announced = {}
    /\ status = "failed" /\ stray = "none"
    /\ check = "idle" /\ base = 0 /\ limits = {} /\ report = NoReport /\ troubles = {}

ObserverGone ==
    /\ committed = LastEvent /\ serving = TRUE
    /\ observer = [kind |-> "wait", step |-> "done", cursor |-> LastEvent, tries |-> 0, result |-> "record"]
    /\ request = NoRequest /\ given = Numbers(LastEvent) /\ silence = 0 /\ losses = MaxLosses

ActivityOver == events = <<>> /\ jobStatus = "terminal" /\ stage = "over" /\ busy = {}

MCInit ==
    \/ Init /\ RunOver /\ FilesOver /\ ObserverGone /\ ActivityOver
    \/ ControlsOver /\ PiInit /\ FilesOver /\ ObserverGone /\ ActivityOver
    \/ ControlsOver /\ RunOver /\ WorkspaceInit /\ ObserverGone /\ ActivityOver
    \/ ControlsOver /\ RunOver /\ FilesOver /\ ObservationInit /\ ActivityOver
    \/ ControlsOver /\ RunOver /\ FilesOver /\ ObserverGone /\ ActivityInit

MCNext ==
    \/ Next /\ UNCHANGED <<piRunVars, workspaceVars, observationVars, activityVars>>
    \/ PiNext /\ UNCHANGED <<vars, workspaceVars, observationVars, activityVars>>
    \/ WorkspaceNext /\ UNCHANGED <<vars, piRunVars, observationVars, activityVars>>
    \/ ObservationNext /\ UNCHANGED <<vars, piRunVars, workspaceVars, activityVars>>
    \/ ActivityNext /\ UNCHANGED <<vars, piRunVars, workspaceVars, observationVars>>

MCSpec ==
    /\ MCInit
    /\ [][MCNext]_<<vars, piRunVars, workspaceVars, observationVars, activityVars>>
    /\ Fairness
=============================================================================
