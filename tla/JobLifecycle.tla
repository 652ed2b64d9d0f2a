---------------------------- MODULE JobLifecycle ----------------------------
(***************************************************************************)
(* The Jobs of src/orchestrator.ts as executed by processes that share one *)
(* durable record store through the coordinator of                         *)
(* src/durable-execution.ts.  Each owner is one process incarnation; its   *)
(* execution of a Job is a sequence of awaits, and every transaction in    *)
(* between is one action here, taken from DurableRecordStore.              *)
(*                                                                         *)
(* exec[o][j] is what process o holds of Job j: the program counter of     *)
(* #execute, #activate or #recoverInterruptedJob, the in-memory status,    *)
(* attempt and revision, the fence of its registered lease, whether the    *)
(* Job's AbortController fired, and the outcome of the adapter call.       *)
(* invoked is a history variable: how often the adapter was called for     *)
(* each attempt number.                                                    *)
(*                                                                         *)
(* The payload of a record is its attempt number.  Worker events, live     *)
(* controls and observer failures are left to modules of their own.        *)
(*                                                                         *)
(* An operator commented "Bug:" is a mistake one could make in the         *)
(* definition after it; no specification uses it.                          *)
(***************************************************************************)
EXTENDS DurableRecordStore

CONSTANTS
    MaxAttempts,   \* route.maxAttempts
    SingleBroker,  \* the lifetime lock: one living process at a time
    MayStall,      \* may a lease expire under a living process that works under it?
    MayCrash,      \* the owners that may crash
    StoreFaults,   \* may a call to the store fail for no reason of its own?
    SnapshotFaults,\* may the admitted snapshot or the adapter be unavailable?
    Callbacks      \* do requests name a callback URL?

ASSUME AttemptsAssumption == MaxAttempts \in Nat \ {0} /\ Payloads = 0..MaxAttempts
ASSUME SwitchesAssumption ==
    /\ {SingleBroker, MayStall, StoreFaults, SnapshotFaults, Callbacks} \subseteq BOOLEAN
    /\ MayCrash \subseteq Owners
ASSUME EventTypesAssumption ==
    EventTypes = {"job.queued", "job.capacity.waiting", "job.started", "job.retrying",
                  "job.artifact", "job.attempt.lost", "job.recovery.started",
                  "job.succeeded", "job.failed", "job.cancelled"}

VARIABLES up, exec, invoked

procVars == <<up, exec, invoked>>
vars == <<storeVars, procVars>>

\* The phases between #activate and the settlement of the completion.
Executing == {"capacity", "reporting", "polling", "admitted", "attempt", "working",
              "returned", "settling", "cancelling", "callback"}
Recovering == {"listed", "claimed", "deciding", "losing", "restarting", "concluding"}
Phases == Executing \cup Recovering \cup {"idle", "releasing", "unleasing"}

\* How the adapter call ended, or what recovery settles the Job with.
WorkerOutcomes == {"success", "blocked", "error", "fatal"}
RecoveryOutcomes == {"refused", "cancel"}
Outcomes == {"none"} \cup WorkerOutcomes \cup RecoveryOutcomes

Exec == [phase: Phases, status: Statuses \cup {"none"}, attempt: Payloads,
         revision: Nat, fence: Nat, aborted: BOOLEAN, outcome: Outcomes]
Idle == [phase |-> "idle", status |-> "none", attempt |-> 0, revision |-> 0,
         fence |-> 0, aborted |-> FALSE, outcome |-> "none"]

Phase(o, j) == exec[o][j].phase
At(o, j, phase) == up[o] = "up" /\ Phase(o, j) = phase
Goto(o, j, phase) == exec' = [exec EXCEPT ![o][j].phase = phase]

\* Only the lease survives into the finally block that releases it.
Leave(o, j) ==
    exec' = [exec EXCEPT ![o][j] = [Idle EXCEPT !.phase = "releasing",
                                                   !.fence = exec[o][j].fence]]

\* The lease monitor of #activate runs; recovery settles a Job without one.
Monitored(o, j) ==
    up[o] = "up" /\ Phase(o, j) \in Executing /\ exec[o][j].outcome \notin RecoveryOutcomes

-----------------------------------------------------------------------------
(* #appendEvent and the coordinator's save.                                *)

\* One lifecycle event, saved with the status and attempt it reports.
Append1(o, j, st, att, type) ==
    \E seen \in Views :
        Save(j, exec[o][j].fence, exec[o][j].revision, st, att,
             Append(records[j].events, type), seen)

\* The save is rejected: stale revision, lost lease, or a fault of the store.
SaveFails(o, j) ==
    \/ StoreFaults
    \/ exec[o][j].revision # records[j].revision
    \/ \E seen \in Views : ~ MaySave(j, exec[o][j].fence, seen)

Saved(o, j, st, att, phase) ==
    exec' = [exec EXCEPT ![o][j] = [@ EXCEPT !.phase = phase, !.status = st, !.attempt = att,
                                             !.revision = exec[o][j].revision + 1]]

\* A JobPersistenceError rejects the completion; the finally block releases.
GiveUp(o, j) ==
    /\ SaveFails(o, j)
    /\ Leave(o, j)
    /\ UNCHANGED <<storeVars, up, invoked>>

AppendThen(o, j, st, att, type, phase) ==
    \/ /\ Append1(o, j, st, att, type)
       /\ Saved(o, j, st, att, phase)
       /\ UNCHANGED <<up, invoked>>
    \/ GiveUp(o, j)

-----------------------------------------------------------------------------
Init ==
    /\ StoreInit
    /\ up = [o \in Owners |-> "down"]
    /\ exec = [o \in Owners |-> [j \in Jobs |-> Idle]]
    /\ invoked = [j \in Jobs |-> [n \in 1..MaxAttempts |-> 0]]

\* createRuntime: the lifetime lock admits one process at a time.
Boot(o) ==
    /\ up[o] = "down"
    /\ SingleBroker => \A p \in Owners : up[p] # "up"
    /\ up' = [up EXCEPT ![o] = "up"]
    /\ UNCHANGED <<storeVars, exec, invoked>>

Crash(o) ==
    /\ up[o] = "up"
    /\ o \in MayCrash
    /\ up' = [up EXCEPT ![o] = "dead"]
    /\ exec' = [exec EXCEPT ![o] = [j \in Jobs |-> Idle]]
    /\ UNCHANGED <<storeVars, invoked>>

\* startInspected and #activate: admission, then execution from attempt 1.
Start(o, j) ==
    /\ At(o, j, "idle")
    /\ \E seen \in Views, h \in Hashes : Admit(j, o, NoKey, h, 0, <<"job.queued">>, seen)
    /\ exec' = [exec EXCEPT ![o][j] = [Idle EXCEPT !.phase = "capacity", !.status = "queued",
                                                   !.revision = 1, !.fence = 1]]
    /\ UNCHANGED <<up, invoked>>

\* cancel, served by process o: only the durable request; the abort of a local
\* execution follows in ObserveCancellation.
Cancel(o, j, s) ==
    /\ up[o] = "up"
    /\ RequestCancellation(j, s)
    /\ UNCHANGED procVars

\* The direct abort of cancel, or the monitor's tick reading the request.
ObserveCancellation(o, j) ==
    /\ Monitored(o, j)
    /\ cancellations[j] # NoSource
    /\ ~ exec[o][j].aborted
    /\ exec' = [exec EXCEPT ![o][j].aborted = TRUE]
    /\ UNCHANGED <<storeVars, up, invoked>>

\* The monitor's tick renews the lease.
Heartbeat(o, j) ==
    /\ Monitored(o, j)
    /\ \E seen \in Views : RenewLease(j, exec[o][j].fence, seen)
    /\ UNCHANGED procVars

\* The renewal was refused, or a store call of the tick or of cancel failed.
HeartbeatFails(o, j) ==
    /\ Monitored(o, j)
    /\ ~ exec[o][j].aborted
    /\ \/ StoreFaults
       \/ \E seen \in Views : ~ (Current(j, exec[o][j].fence) /\ j \in seen)
    /\ exec' = [exec EXCEPT ![o][j].aborted = TRUE]
    /\ UNCHANGED <<storeVars, up, invoked>>

-----------------------------------------------------------------------------
(* waitForCapacity.                                                        *)

Fail(o, j, outcome) ==
    exec' = [exec EXCEPT ![o][j] = [@ EXCEPT !.phase = "settling", !.outcome = outcome]]

\* Bug: a recovered Job is taken to hold its slot still (ExecutionHoldsSlot).
PollUnlessRecovered(o, j) ==
    /\ up[o] = "up"
    /\ Phase(o, j) \in {"capacity", "polling"}
    /\ ~ exec[o][j].aborted
    /\ \E seen \in Views : TryAcquireCapacity(j, exec[o][j].fence, seen)
    /\ Goto(o, j, IF capacity'[j].acquired \/ exec[o][j].attempt > 0 THEN "admitted"
                  ELSE IF Phase(o, j) = "capacity" THEN "reporting" ELSE "polling")
    /\ UNCHANGED <<up, invoked>>

Poll(o, j) ==
    /\ up[o] = "up"
    /\ Phase(o, j) \in {"capacity", "polling"}
    /\ ~ exec[o][j].aborted
    /\ \E seen \in Views : TryAcquireCapacity(j, exec[o][j].fence, seen)
    /\ Goto(o, j, IF capacity'[j].acquired THEN "admitted"
                  ELSE IF Phase(o, j) = "capacity" THEN "reporting" ELSE "polling")
    /\ UNCHANGED <<up, invoked>>

\* The wait is aborted, or the acquisition throws.
PollFails(o, j) ==
    /\ up[o] = "up"
    /\ Phase(o, j) \in {"capacity", "polling"}
    /\ \/ exec[o][j].aborted
       \/ StoreFaults
       \/ \E seen \in Views : ~ (Current(j, exec[o][j].fence) /\ j \in seen)
    /\ Fail(o, j, "fatal")
    /\ UNCHANGED <<storeVars, up, invoked>>

ReportWaiting(o, j) ==
    /\ At(o, j, "reporting")
    /\ AppendThen(o, j, exec[o][j].status, exec[o][j].attempt, "job.capacity.waiting", "polling")

-----------------------------------------------------------------------------
(* The attempts of #execute.                                               *)

\* A queued Job becomes running under attempt 1; a recovered running one
\* already reserved its attempt.
MarkStarted(o, j) ==
    /\ At(o, j, "admitted")
    /\ \/ /\ exec[o][j].status = "queued"
          /\ AppendThen(o, j, "running", 1, "job.started", "attempt")
       \/ /\ exec[o][j].status = "running"
          /\ Goto(o, j, "attempt")
          /\ UNCHANGED <<storeVars, up, invoked>>

InvokeAdapter(o, j) ==
    /\ At(o, j, "attempt")
    /\ ~ exec[o][j].aborted
    /\ Goto(o, j, "working")
    /\ invoked' = [invoked EXCEPT ![j][exec[o][j].attempt] = @ + 1]
    /\ UNCHANGED <<storeVars, up>>

\* The worktree was not created, or an abort or the route's timeout was noticed
\* after its creation; only then is there a patch to capture.
AttemptFails(o, j) ==
    /\ At(o, j, "attempt")
    /\ \E phase \in {"settling", "returned"} :
         exec' = [exec EXCEPT ![o][j] = [@ EXCEPT !.phase = phase, !.outcome = "error"]]
    /\ UNCHANGED <<storeVars, up, invoked>>

\* The adapter settles: result, blocked report, retryable or settled failure.
WorkerReturns(o, j, outcome) ==
    /\ At(o, j, "working")
    /\ exec[o][j].aborted => outcome \notin {"success", "blocked"}
    /\ exec' = [exec EXCEPT ![o][j] = [@ EXCEPT !.phase = "returned", !.outcome = outcome]]
    /\ UNCHANGED <<storeVars, up, invoked>>

\* A failure of the capture or of the cleanup counts unless the worker failed.
AfterCapture(o, j) ==
    IF exec[o][j].outcome \in {"success", "blocked"}
    THEN {exec[o][j].outcome, "error", "fatal"}
    ELSE {exec[o][j].outcome}

\* The patch of the attempt is captured and recorded.
CaptureArtifact(o, j) ==
    /\ At(o, j, "returned")
    /\ \E outcome \in AfterCapture(o, j) :
         /\ Append1(o, j, exec[o][j].status, exec[o][j].attempt, "job.artifact")
         /\ exec' = [exec EXCEPT ![o][j] = [@ EXCEPT !.phase = "settling", !.outcome = outcome,
                                                     !.revision = exec[o][j].revision + 1]]
    /\ UNCHANGED <<up, invoked>>

\* No patch was captured, or its event was not saved: that failure rejects the
\* completion, unless the worker had failed before.
CaptureFails(o, j) ==
    /\ At(o, j, "returned")
    /\ \/ \E outcome \in AfterCapture(o, j) \ {"success", "blocked"} :
            exec' = [exec EXCEPT ![o][j] = [@ EXCEPT !.phase = "settling", !.outcome = outcome]]
       \/ SaveFails(o, j) /\ exec[o][j].outcome \in {"success", "blocked"} /\ Leave(o, j)
    /\ UNCHANGED <<storeVars, up, invoked>>

TerminalEvent == [succeeded |-> "job.succeeded", failed |-> "job.failed",
                  cancelled |-> "job.cancelled"]

\* The terminal event and status, then the callback when the request names one.
Finish(o, j, st) ==
    \/ /\ Append1(o, j, st, exec[o][j].attempt, TerminalEvent[st])
       /\ IF Callbacks THEN Saved(o, j, st, exec[o][j].attempt, "callback") ELSE Leave(o, j)
       /\ UNCHANGED <<up, invoked>>
    \/ GiveUp(o, j)

\* The save of a success throws CancellationRequestedError once its revision and
\* lease checks passed.
Succeed(o, j) ==
    /\ At(o, j, "settling")
    /\ exec[o][j].outcome = "success"
    /\ \/ Finish(o, j, "succeeded")
       \/ /\ cancellations[j] # NoSource
          /\ exec[o][j].revision = records[j].revision
          /\ \E seen \in Views : MaySave(j, exec[o][j].fence, seen)
          /\ Goto(o, j, "cancelling")
          /\ UNCHANGED <<storeVars, up, invoked>>

\* The refused success becomes a cancellation.
CancelInstead(o, j) ==
    /\ At(o, j, "cancelling")
    /\ Finish(o, j, "cancelled")

Retryable(o, j) ==
    /\ exec[o][j].outcome = "error"
    /\ ~ exec[o][j].aborted
    /\ exec[o][j].attempt < MaxAttempts

\* Bug: job.retrying is saved before the next attempt is reserved (ImplementsContract).
RetryUnreserved(o, j) ==
    /\ At(o, j, "settling")
    /\ Retryable(o, j)
    /\ Append1(o, j, "running", exec[o][j].attempt, "job.retrying")
    /\ Saved(o, j, "running", exec[o][j].attempt + 1, "attempt")
    /\ UNCHANGED <<up, invoked>>

Retry(o, j) ==
    /\ At(o, j, "settling")
    /\ Retryable(o, j)
    /\ AppendThen(o, j, "running", exec[o][j].attempt + 1, "job.retrying", "attempt")

\* Bug: the event follows the abort and the status the outcome (TerminalEventAgrees).
SettleFailureMixed(o, j) ==
    /\ At(o, j, "settling")
    /\ exec[o][j].outcome \in {"blocked", "error", "fatal"}
    /\ ~ Retryable(o, j)
    /\ Append1(o, j, "failed", exec[o][j].attempt,
               IF exec[o][j].aborted THEN "job.cancelled" ELSE "job.failed")
    /\ Leave(o, j)
    /\ UNCHANGED <<up, invoked>>

\* A blocked report fails the Job even if it was aborted meanwhile.
SettleFailure(o, j) ==
    /\ At(o, j, "settling")
    /\ exec[o][j].outcome \in {"blocked", "error", "fatal"}
    /\ ~ Retryable(o, j)
    /\ Finish(o, j, IF exec[o][j].aborted /\ exec[o][j].outcome # "blocked"
                    THEN "cancelled" ELSE "failed")

\* #deliverCallback saves its outcome; the status stays.
DeliverCallback(o, j) ==
    /\ At(o, j, "callback")
    /\ \/ /\ \E seen \in Views :
                Save(j, exec[o][j].fence, exec[o][j].revision, exec[o][j].status,
                     exec[o][j].attempt, records[j].events, seen)
          /\ Leave(o, j)
          /\ UNCHANGED <<up, invoked>>
       \/ GiveUp(o, j)

-----------------------------------------------------------------------------
(* release: the slot first, then the lease, even if the first call failed. *)

ReleaseSlot(o, j) ==
    /\ At(o, j, "releasing")
    /\ Goto(o, j, "unleasing")
    /\ \/ ReleaseCapacity(j, exec[o][j].fence)
       \/ /\ \/ StoreFaults
             \/ capacity[j].fence # exec[o][j].fence
             \/ capacity[j].owner # o
          /\ UNCHANGED storeVars
    /\ UNCHANGED <<up, invoked>>

ReleaseOwnLease(o, j) ==
    /\ At(o, j, "unleasing")
    /\ exec' = [exec EXCEPT ![o][j] = Idle]
    /\ \/ ReleaseLease(j, exec[o][j].fence)
       \/ /\ StoreFaults \/ ~ Current(j, exec[o][j].fence)
          /\ UNCHANGED storeVars
    /\ UNCHANGED <<up, invoked>>

-----------------------------------------------------------------------------
(* #recoverInterruptedJob.                                                 *)

\* recoverInterruptedJobs lists the records before it claims any lease.
List(o, j) ==
    /\ At(o, j, "idle")
    /\ records[j].status \in {"queued", "running"}
    /\ Goto(o, j, "listed")
    /\ UNCHANGED <<storeVars, up, invoked>>

Claim(o, j) ==
    /\ At(o, j, "listed")
    /\ \E seen \in Views : ClaimLease(j, o, seen)
    /\ exec' = [exec EXCEPT ![o][j] = [Idle EXCEPT !.phase = "claimed",
                                                   !.fence = leases'[j].fence]]
    /\ UNCHANGED <<up, invoked>>

\* Another owner's lease is unexpired, and this call does not wait for it.
ClaimRefused(o, j) ==
    /\ At(o, j, "listed")
    /\ leases[j].owner # o
    /\ \E seen \in Views : j \in seen
    /\ Goto(o, j, "idle")
    /\ UNCHANGED <<storeVars, up, invoked>>

\* The record is read again under the lease.
Reread(o, j) ==
    /\ At(o, j, "claimed")
    /\ IF records[j].status \in Terminal
       THEN Leave(o, j)
       ELSE exec' = [exec EXCEPT ![o][j] =
                       [@ EXCEPT !.phase = "deciding", !.status = records[j].status,
                                 !.attempt = records[j].data,
                                 !.revision = records[j].revision]]
    /\ UNCHANGED <<storeVars, up, invoked>>

Conclude(o, j, outcome) ==
    exec' = [exec EXCEPT ![o][j] = [@ EXCEPT !.phase = "concluding", !.outcome = outcome]]

\* Bug: a cancelled Job is left as it is (EveryJobSettles).
LeaveCancelled(o, j) ==
    /\ At(o, j, "deciding")
    /\ cancellations[j] # NoSource
    /\ Leave(o, j)
    /\ UNCHANGED <<storeVars, up, invoked>>

\* The durable cancellation is read after the record, and comes first.
DecideCancelled(o, j) ==
    /\ At(o, j, "deciding")
    /\ cancellations[j] # NoSource
    /\ Conclude(o, j, "cancel")
    /\ UNCHANGED <<storeVars, up, invoked>>

\* A running Job lost its attempt; a queued one restarts unless some recovery
\* numbered it already, or its adapter or snapshot is gone.
DecideInterrupted(o, j) ==
    /\ At(o, j, "deciding")
    /\ cancellations[j] = NoSource
    /\ \/ exec[o][j].status = "running" /\ Goto(o, j, "losing")
       \/ /\ exec[o][j].status = "queued"
          /\ \/ exec[o][j].attempt = 0 /\ Goto(o, j, "restarting")
             \/ /\ exec[o][j].attempt # 0 \/ SnapshotFaults
                /\ Conclude(o, j, "refused")
    /\ UNCHANGED <<storeVars, up, invoked>>

\* A read fails: the lease is released and the Job stays as it is.
RecoveryFails(o, j) ==
    /\ StoreFaults
    /\ At(o, j, "claimed") \/ At(o, j, "deciding")
    /\ Leave(o, j)
    /\ UNCHANGED <<storeVars, up, invoked>>

\* job.attempt.lost precedes the next attempt or the exhausted budget.
LoseAttempt(o, j) ==
    /\ At(o, j, "losing")
    /\ \/ /\ Append1(o, j, exec[o][j].status, exec[o][j].attempt, "job.attempt.lost")
          /\ \/ /\ exec[o][j].attempt < MaxAttempts
                /\ exec' = [exec EXCEPT ![o][j] =
                              [@ EXCEPT !.phase = "restarting", !.revision = exec[o][j].revision + 1]]
             \/ /\ exec[o][j].attempt = MaxAttempts \/ SnapshotFaults
                /\ exec' = [exec EXCEPT ![o][j] =
                              [@ EXCEPT !.phase = "concluding", !.revision = exec[o][j].revision + 1,
                                        !.outcome = "refused"]]
          /\ UNCHANGED <<up, invoked>>
       \/ GiveUp(o, j)

\* #settleRecoveredJob
SettleRecovered(o, j) ==
    /\ At(o, j, "concluding")
    /\ Finish(o, j, IF exec[o][j].outcome = "cancel" THEN "cancelled" ELSE "failed")

\* job.recovery.started reserves the attempt; execution starts at capacity.
Restart(o, j) ==
    /\ At(o, j, "restarting")
    /\ AppendThen(o, j, exec[o][j].status, exec[o][j].attempt + 1,
                  "job.recovery.started", "capacity")

-----------------------------------------------------------------------------
\* A deadline passes only if the process that must renew the lease is gone, or
\* takes longer than the lease lasts: it stalls, or works on a recovery or a
\* release, which no monitor accompanies.
Lapse(j) ==
    /\ \/ MayStall
       \/ \A o \in Owners : up[o] = "up" /\ leases[j].owner = o => Phase(o, j) = "idle"
    /\ Expire(j)
    /\ UNCHANGED procVars

\* Bounds of the instance: how often a Job is recovered.
MayRecover(j) == leases[j].fence < MaxFence /\ records[j].revision < MaxRevision

Progress(o, j) ==
    \/ Poll(o, j) \/ PollFails(o, j) \/ ReportWaiting(o, j)
    \/ MarkStarted(o, j) \/ InvokeAdapter(o, j) \/ AttemptFails(o, j)
    \/ \E outcome \in WorkerOutcomes : WorkerReturns(o, j, outcome)
    \/ CaptureArtifact(o, j) \/ CaptureFails(o, j) \/ Succeed(o, j) \/ CancelInstead(o, j)
    \/ Retry(o, j) \/ SettleFailure(o, j) \/ DeliverCallback(o, j)
    \/ ReleaseSlot(o, j) \/ ReleaseOwnLease(o, j)
    \/ Reread(o, j) \/ DecideCancelled(o, j) \/ DecideInterrupted(o, j) \/ RecoveryFails(o, j)
    \/ LoseAttempt(o, j) \/ SettleRecovered(o, j) \/ Restart(o, j)

Next ==
    \/ \E o \in Owners : Boot(o) \/ Crash(o)
    \/ \E o \in Owners, j \in Jobs :
        \/ Start(o, j)
        \/ \E s \in Sources : Cancel(o, j, s)
        \/ ObserveCancellation(o, j)
        \/ Heartbeat(o, j) \/ HeartbeatFails(o, j)
        \/ List(o, j) \/ (MayRecover(j) /\ Claim(o, j)) \/ ClaimRefused(o, j)
        \/ Progress(o, j)
    \/ \E j \in Jobs : Lapse(j)

Spec == Init /\ [][Next]_vars

\* A living process takes its next step, boots when it can, lists what it finds
\* interrupted and claims it once the lease allows; abandoned leases expire.  But for the
\* listing, the steps need not take turns: it is enough that one is taken while there is
\* any.
Fairness ==
    /\ WF_vars(\/ \E o \in Owners : Boot(o)
               \/ \E o \in Owners, j \in Jobs :
                    Progress(o, j) \/ ObserveCancellation(o, j) \/ (MayRecover(j) /\ Claim(o, j))
               \/ \E j \in Jobs : Lapse(j))
    /\ \A j \in Jobs : WF_vars(\E o \in Owners : List(o, j))

FairSpec == Spec /\ Fairness

-----------------------------------------------------------------------------
(* Properties.                                                             *)

ExecTypeOK ==
    /\ TypeOK
    /\ up \in [Owners -> {"down", "up", "dead"}]
    /\ exec \in [Owners -> [Jobs -> Exec]]
    /\ invoked \in [Jobs -> [1..MaxAttempts -> Nat]]

\* While a process runs attempts under a current lease, its Job holds a slot, so
\* the capacity bound of the store bounds the adapters that run.
ExecutionHoldsSlot ==
    \A o \in Owners, j \in Jobs :
        Monitored(o, j) /\ Phase(o, j) \in {"admitted", "attempt", "working"} =>
            (Current(j, exec[o][j].fence) /\ leases[j].live => capacity[j].acquired)

\* The log of a settled Job ends with its only terminal event, which agrees
\* with the status, whichever of several processes settled it; an unsettled Job
\* has none.
TerminalEventAgrees ==
    \A j \in Stored :
        LET log == records[j].events
            final == {n \in 1..Len(log) : log[n] \in {"job.succeeded", "job.failed", "job.cancelled"}}
        IN IF records[j].status \in Terminal
           THEN final = {Len(log)} /\ log[Len(log)] = TerminalEvent[records[j].status]
           ELSE final = {}

\* The record history is a run of the Job contract: whoever crashes, stalls or recovers, the
\* status goes forward once, the budget of attempts is kept, and no attempt is handed to the
\* adapter twice.
Contract == INSTANCE JobContract WITH
    status <- [j \in Jobs |-> records[j].status],
    attempt <- [j \in Jobs |-> IF j \in Stored THEN records[j].data ELSE 0]
ImplementsContract == Contract!Spec

\* Every admitted Job reaches a terminal status although processes crash, at any step of an
\* execution or of a recovery.
EveryJobSettles == \A j \in Jobs : j \in Stored ~> records[j].status \in Terminal

\* docs/SPEC.md:522: after lease expiry a recovery owner may start the same
\* queued Job from its admitted input.  Stated as: with its input intact and the
\* store working, a queued Job nobody invoked is not failed by recovery.
QueuedRecoveryRestarts ==
    [][\A j \in Jobs :
          records[j].status = "queued" => records'[j].status # "failed"]_vars
=============================================================================
