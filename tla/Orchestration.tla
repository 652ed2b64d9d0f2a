--------------------------- MODULE Orchestration ---------------------------
(***************************************************************************)
(* One parent Orchestration of src/orchestration.ts: its admission by      *)
(* callers that share an idempotency key, its dispatch of child Jobs, the  *)
(* optional reviewer Job and artifact validation, cancellation, and the    *)
(* restart of the broker process that owns the Jobs and the parent.        *)
(*                                                                         *)
(* Every store call of the program is synchronous, so the code between two *)
(* awaits of other work is one step here: an append is the change of the   *)
(* record in memory and its save.  A process may die between two steps.    *)
(*                                                                         *)
(* parent is the saved record and run what the living process holds of it: *)
(* the program counter of #execute, its copy of the record, the children   *)
(* it waits for, and the threads of the review (rv) and of the validation  *)
(* (vl).  jobs[k] are the Jobs admitted for subtask k, or for the reviewer *)
(* if k = 0; JobLifecycle is their own model.  The slot of the validation  *)
(* is taken whenever other parents leave it (see Semaphore).               *)
(*                                                                         *)
(* An operator commented "Bug:" is a mistake one could make in the         *)
(* definition after it; no specification uses it.                          *)
(***************************************************************************)
EXTENDS Naturals, Sequences, FiniteSets

CONSTANTS
    Callers,        \* calls of start() with one request and key
    MaxSubtasks,
    Inputs          \* what a behaviour picks from: request, policy, store, bound on crashes

ASSUME OrchestrationAssumption ==
    /\ MaxSubtasks \in Nat
    /\ Inputs \subseteq [plan: 0..MaxSubtasks, concurrency: Nat \ {0}, review: BOOLEAN,
                         validation: BOOLEAN, faults: BOOLEAN, crashes: Nat]

VARIABLES
    input,      \* the length of the plan, the policy, may the store fail, how often
                \* may the process die?
    broker,     \* the process: down, recovering Jobs or parents, or up
    crashes,
    calls,      \* start() per caller
    snapshots,  \* the admission snapshots on disk, by the caller that wrote them
    parent, run, jobs,
    requested,  \* the durable cancellation request
    answer      \* history: how completion settled last

envVars == <<input, broker, crashes, calls, snapshots, requested, answer>>
orchVars == <<envVars, parent, run, jobs>>

Final == {"succeeded", "failed", "cancelled"}
Subtasks == 1..MaxSubtasks
Evidence == {"none", "skipped", "pending", "unavailable", "completed"}

Job == [status: {"active"} \cup Final, running: BOOLEAN, cancel: BOOLEAN, patch: BOOLEAN]
NewJob == [status |-> "active", running |-> TRUE, cancel |-> FALSE, patch |-> FALSE]

OrchestrationRecord ==
    [status: {"none", "queued", "dispatching"} \cup Final, owner: SUBSET Callers,
     accepted: BOOLEAN, dispatched: BOOLEAN, child: [Subtasks -> {"none", "active"} \cup Final],
     childJob: [Subtasks -> Nat], evidence: BOOLEAN, review: Evidence, validation: Evidence]
NoParent ==
    [status |-> "none", owner |-> {}, accepted |-> FALSE, dispatched |-> FALSE,
     child |-> [k \in Subtasks |-> "none"], childJob |-> [k \in Subtasks |-> 0],
     evidence |-> FALSE, review |-> "none", validation |-> "none"]

Steps == {"none", "handoff", "plan", "skip", "loop", "admit", "record", "follow", "orphan", "unwind", "post",
          "evidence", "finish", "refused", "catch"}
Threads == {"idle", "check", "record", "orphan", "wait", "slot", "work", "done", "threw"}
Run == [pc: Steps, record: OrchestrationRecord, next: Nat, active: SUBSET Subtasks,
        started: SUBSET (0..MaxSubtasks), aborted: BOOLEAN,
        error: {"none", "plain", "persistence"}, rv: Threads, vl: Threads]
NoRun == [pc |-> "none", record |-> NoParent, next |-> 1, active |-> {}, started |-> {},
          aborted |-> FALSE, error |-> "none", rv |-> "idle", vl |-> "idle"]

mem == run.record
RunAt(pc) == run.pc = pc

\* #appendEvent and #setEvidenceAndAppend: the record is saved, or the event and
\* its mutation are taken back and the caller sees an error.
Appends(record, ok, kept, failed) ==
    \/ /\ parent' = record
       /\ run' = [ok EXCEPT !.record = record]
    \/ /\ input.faults
       /\ run' = [failed EXCEPT !.record = kept]
       /\ UNCHANGED parent

Throw(pc, error) == [run EXCEPT !.pc = pc, !.error = error]

\* The Job of a child in the record, and whether an execution of it stopped short of its end.
ChildJob(k) == jobs[k][mem.childJob[k]]
Stopped(job) == job.status = "active" /\ ~ job.running
Active(k) == {i \in DOMAIN jobs[k] : jobs[k][i].status = "active"}

\* The completion of an execution of this process (run.started) may reject when that has ended,
\* even if the Job settled: an event or the release of the lease fails behind it.  The wait for
\* any other Job is a read, which may fail at any time.
MayReject(k, job) == input.faults /\ (k \in run.started => ~ job.running)

\* #recoverInterruptedJob: a Job no execution works on runs on, or settles at once.
Settled(job) == [job EXCEPT !.status = IF job.cancel THEN "cancelled" ELSE "failed"]
RecoverStopped(k, mayRun) ==
    \E i \in Active(k) :
        /\ ~ jobs[k][i].running
        /\ \/ mayRun /\ ~ jobs[k][i].cancel /\ jobs' = [jobs EXCEPT ![k][i].running = TRUE]
           \/ jobs' = [jobs EXCEPT ![k][i] = Settled(@)]

-----------------------------------------------------------------------------
(* start                                                                   *)

Capture(c) ==
    /\ broker = "up"
    /\ calls[c] = "idle"
    /\ calls' = [calls EXCEPT ![c] = "captured"]
    /\ snapshots' = IF input.plan > 0 THEN snapshots \cup {c} ELSE snapshots
    /\ UNCHANGED <<input, broker, crashes, parent, run, jobs, requested, answer>>

\* Admission creates the record and activates it; a duplicate, or a failed call,
\* discards the snapshot it wrote itself.
Admission(c) ==
    /\ calls[c] = "captured"
    /\ calls' = [calls EXCEPT ![c] = "done"]
    /\ \/ /\ parent.status = "none"
          /\ parent' = [NoParent EXCEPT !.status = "queued", !.owner = {c}]
          /\ run' = [NoRun EXCEPT !.pc = "handoff", !.record = parent']
          /\ UNCHANGED snapshots
       \/ /\ parent.status # "none" \/ input.faults
          /\ snapshots' = snapshots \ {c}
          /\ UNCHANGED <<parent, run>>
    /\ UNCHANGED <<input, broker, crashes, jobs, requested, answer>>

-----------------------------------------------------------------------------
(* Cancellation.                                                           *)

Abort(k) == jobs' = [jobs EXCEPT ![k] = [i \in DOMAIN @ |->
                        IF @[i].status = "active" THEN [@[i] EXCEPT !.cancel = TRUE] ELSE @[i]]]

\* cancel persists the request of any controller, whoever runs the parent.
RequestCancel ==
    /\ parent.status \in {"queued", "dispatching"}
    /\ ~ requested
    /\ requested' = TRUE
    /\ UNCHANGED <<input, broker, crashes, calls, snapshots, parent, run, jobs, answer>>

\* cancelWithEvidence, called by cancel or by the lease monitor: the event is
\* appended, and the abort follows even if it was not saved.
ObserveRequest ==
    /\ run.pc # "none" /\ requested /\ ~ run.aborted
    /\ mem.status \notin Final
    /\ LET aborted == [run EXCEPT !.aborted = TRUE]
       IN Appends([mem EXCEPT !.evidence = TRUE], aborted, mem, aborted)
    /\ UNCHANGED <<envVars, jobs>>

\* A tick of the monitor fails, or the lease is lost.
MonitorFails ==
    /\ input.faults
    /\ run.pc # "none" /\ ~ run.aborted
    /\ run' = [run EXCEPT !.aborted = TRUE]
    /\ UNCHANGED <<envVars, parent, jobs>>

\* onAbort of a child or reviewer, or the cancel() of dispatch's catch block.
CancelJob(k) ==
    /\ run.aborted \/ RunAt("unwind")
    /\ k \in run.active \/ (k = 0 /\ run.rv = "wait")
    /\ \E i \in DOMAIN jobs[k] : jobs[k][i].status = "active" /\ ~ jobs[k][i].cancel
    /\ Abort(k)
    /\ UNCHANGED <<envVars, parent, run>>

\* throwIfAborted before an await or after it.
ThrowIfAborted ==
    /\ run.pc \in {"handoff", "plan", "post"} \/ (RunAt("finish") /\ input.plan > 0)
    /\ run.aborted
    /\ run' = Throw("catch", "plain")
    /\ UNCHANGED <<envVars, parent, jobs>>

-----------------------------------------------------------------------------
(* #execute up to dispatch.                                                *)

HandOff ==
    /\ RunAt("handoff") /\ ~ run.aborted
    /\ \/ /\ ~ mem.accepted
          /\ Appends([mem EXCEPT !.accepted = TRUE], [run EXCEPT !.pc = "plan"],
                     mem, Throw("catch", "plain"))
       \/ /\ mem.accepted
          /\ run' = [run EXCEPT !.pc = "plan"]
          /\ UNCHANGED parent
    /\ UNCHANGED <<envVars, jobs>>

\* Nothing is delegated: configured evidence is skipped, then the parent succeeds.
Upstream ==
    /\ input.plan = 0
    /\ RunAt("skip") \/ (RunAt("plan") /\ ~ run.aborted)
    /\ \/ /\ RunAt("plan")
          /\ run' = [run EXCEPT !.pc = "skip"]
          /\ UNCHANGED parent
       \/ /\ RunAt("skip") /\ input.review /\ mem.review = "none"
          /\ Appends([mem EXCEPT !.review = "skipped"], run, mem, Throw("catch", "plain"))
       \/ /\ RunAt("skip") /\ (input.review => mem.review # "none")
          /\ input.validation /\ mem.validation = "none"
          /\ Appends([mem EXCEPT !.validation = "skipped"], run, mem, Throw("catch", "plain"))
       \/ /\ RunAt("skip") /\ (input.review => mem.review # "none")
          /\ input.validation => mem.validation # "none"
          /\ run' = [run EXCEPT !.pc = "finish"]
          /\ UNCHANGED parent
    /\ UNCHANGED <<envVars, jobs>>

Dispatching ==
    /\ RunAt("plan") /\ ~ run.aborted /\ input.plan > 0
    /\ \/ /\ ~ mem.dispatched
          /\ Appends([mem EXCEPT !.status = "dispatching", !.dispatched = TRUE],
                     [run EXCEPT !.pc = "loop"],
                     [mem EXCEPT !.status = "dispatching"], Throw("catch", "plain"))
       \/ /\ mem.dispatched
          /\ run' = [run EXCEPT !.pc = "loop"]
          /\ UNCHANGED parent
    /\ UNCHANGED <<envVars, jobs>>

-----------------------------------------------------------------------------
(* #dispatch                                                               *)

MayLaunch ==
    /\ RunAt("loop") /\ ~ run.aborted
    /\ run.next <= input.plan
    /\ Cardinality(run.active) < input.concurrency

\* A child of an earlier process that settled must agree with its Job, which may be unreadable.
LaunchSettled ==
    LET agrees == ChildJob(run.next).status = mem.child[run.next]
    IN /\ MayLaunch
       /\ mem.child[run.next] \in Final
       /\ \/ agrees /\ run' = [run EXCEPT !.next = @ + 1]
          \/ (~ agrees \/ input.faults) /\ run' = Throw("unwind", "plain")
       /\ UNCHANGED <<envVars, parent, jobs>>

\* A child of an earlier process that did not is followed again.
LaunchKnown ==
    /\ MayLaunch
    /\ mem.child[run.next] = "active"
    /\ run' = [run EXCEPT !.pc = "follow"]
    /\ UNCHANGED <<envVars, parent, jobs>>

\* recoverInterruptedJob takes over a Job no execution works on.  It may fail before
\* that runs on, be it at a read or after the Job was settled.
TakeOver(k, job) == IF Stopped(job) THEN RecoverStopped(k, TRUE) ELSE UNCHANGED jobs
TakeOverFails(k) == input.faults /\ (UNCHANGED jobs \/ RecoverStopped(k, FALSE))
TakeOverErrors(job) == IF Stopped(job) THEN {"plain", "persistence"} ELSE {"plain"}

\* A Job this process did not start is taken over, unless it was found settled, and followed.
FollowChild ==
    LET k == run.next
    IN /\ RunAt("follow")
       /\ \/ /\ run' = [run EXCEPT !.pc = "loop", !.active = @ \cup {k}, !.next = @ + 1]
             /\ TakeOver(k, ChildJob(k))
          \/ /\ mem.child[k] = "active" /\ TakeOverFails(k)
             /\ \E error \in TakeOverErrors(ChildJob(k)) : run' = Throw("unwind", error)
       /\ UNCHANGED <<envVars, parent>>

\* Bug: the key of a child names the process (JobsWithinPlan).
EnsureJobPerProcess(k) == jobs' = [jobs EXCEPT ![k] = Append(@, NewJob)]

\* findIdempotent and startFromWorkspaceSnapshot under the deterministic key.
EnsureJob(k) ==
    IF jobs[k] = <<>> THEN jobs' = [jobs EXCEPT ![k] = <<NewJob>>] ELSE UNCHANGED jobs

\* The Job that the process started itself, so that its completion may reject.
Started(k) == IF Len(jobs'[k]) > Len(jobs[k]) THEN run.started \cup {k} ELSE run.started

\* The admission takes its time: an abort that comes meanwhile does not stop it.
LaunchNew ==
    /\ MayLaunch
    /\ mem.child[run.next] = "none"
    /\ run' = [run EXCEPT !.pc = "admit"]
    /\ UNCHANGED <<envVars, parent, jobs>>

AdmitChild ==
    /\ RunAt("admit")
    /\ \/ /\ parent.owner \subseteq snapshots
          /\ EnsureJob(run.next)
          /\ run' = [run EXCEPT !.pc = "record", !.started = Started(run.next)]
       \/ /\ input.faults
          /\ \E error \in {"plain", "persistence"} : run' = Throw("unwind", error)
          /\ UNCHANGED jobs
    /\ UNCHANGED <<envVars, parent>>

\* The child is pushed and child.started saved; if that fails the Job is cancelled
\* and awaited, and the child stays in the record in memory.
RecordChild ==
    LET k == run.next
        job == jobs[k][Len(jobs[k])]
        with == [mem EXCEPT !.child[k] = job.status, !.childJob[k] = Len(jobs[k])]
    IN /\ RunAt("record")
       /\ \/ /\ parent' = with
             /\ run' = IF k \in run.started
                       THEN [run EXCEPT !.pc = "loop", !.record = with, !.next = @ + 1,
                                        !.active = @ \cup {k}]
                       ELSE [run EXCEPT !.pc = "follow", !.record = with]
             /\ UNCHANGED jobs
          \/ /\ input.faults
             /\ run' = [run EXCEPT !.pc = "orphan", !.record = with, !.error = "plain"]
             /\ Abort(k) \/ UNCHANGED jobs
             /\ UNCHANGED parent
       /\ UNCHANGED envVars

OrphanSettles ==
    /\ RunAt("orphan")
    /\ LET k == run.next
       IN \/ /\ ChildJob(k).status \in Final
             /\ run' = [run EXCEPT !.pc = "unwind", !.record.child[k] = ChildJob(k).status]
          \/ /\ MayReject(k, ChildJob(k))
             /\ run' = [run EXCEPT !.pc = "unwind"]
    /\ UNCHANGED <<envVars, parent, jobs>>

\* Bug: an aborted parent takes its children for cancelled (ChildrenAgree).
OutcomesByAbort(k) ==
    IF ChildJob(k).status \in Final
    THEN {IF run.aborted THEN "cancelled" ELSE ChildJob(k).status} ELSE {}

\* What settleNext may record: how the Job settled, or, whatever has become of it, that its
\* completion rejected.
ChildOutcomes(k) ==
    (IF ChildJob(k).status \in Final THEN {ChildJob(k).status} ELSE {}) \cup
    (IF MayReject(k, ChildJob(k)) THEN {IF run.aborted THEN "cancelled" ELSE "failed"} ELSE {})

\* Bug: the parent goes on when the first child settled (UninterruptedLeavesNothing).
SettleAll(k) ==
    /\ run.pc \in {"loop", "unwind"} /\ ~ MayLaunch
    /\ k \in run.active
    /\ ChildJob(k).status \in Final
    /\ parent' = [mem EXCEPT !.child[k] = ChildJob(k).status]
    /\ run' = [run EXCEPT !.record = parent', !.active = {}]
    /\ UNCHANGED <<envVars, jobs>>

\* settleNext.  A JobPersistenceError is no outcome and ends the dispatch; what fails
\* while that unwinds leaves the other children to themselves.
SettleChild(k) ==
    LET rest == [run EXCEPT !.active = @ \ {k}]
        after == IF RunAt("loop") THEN "unwind" ELSE "catch"
    IN /\ run.pc \in {"loop", "unwind"} /\ ~ MayLaunch
       /\ k \in run.active
       /\ \/ \E status \in ChildOutcomes(k) :
                LET settled == [mem EXCEPT !.child[k] = status]
                IN Appends(settled, rest, settled, [rest EXCEPT !.pc = after, !.error = "plain"])
          \/ /\ k \in run.started /\ MayReject(k, ChildJob(k))
             /\ run' = [rest EXCEPT !.pc = after, !.error = "persistence"]
             /\ UNCHANGED parent
       /\ UNCHANGED <<envVars, jobs>>

Dispatched ==
    /\ run.active = {} /\ ~ MayLaunch
    /\ \/ RunAt("loop") /\ run' = [run EXCEPT !.pc = "post"]
       \/ RunAt("unwind") /\ run' = [run EXCEPT !.pc = "catch"]
    /\ UNCHANGED <<envVars, parent, jobs>>

-----------------------------------------------------------------------------
(* Quality review and artifact validation, side by side.                   *)

PostChild ==
    /\ RunAt("post") /\ ~ run.aborted
    /\ run' = [run EXCEPT !.pc = "evidence",
                          !.rv = IF input.review THEN "check" ELSE "done",
                          !.vl = IF input.validation THEN "check" ELSE "done"]
    /\ UNCHANGED <<envVars, parent, jobs>>

\* One succeeded child with one valid patch that is not empty.
Eligible == input.plan = 1 /\ mem.child[1] = "succeeded" /\ ChildJob(1).patch

Reviewed(value, next) ==
    Appends([mem EXCEPT !.review = value], [run EXCEPT !.rv = next],
            mem, [run EXCEPT !.rv = "threw"])
Validated(value, next) ==
    Appends([mem EXCEPT !.validation = value], [run EXCEPT !.vl = next],
            mem, [run EXCEPT !.vl = "threw"])

\* The error of a thread that throws counts if it is one of persistence.
ReviewThrows(error) == run' = [run EXCEPT !.rv = "threw", !.error = error]

SkipReview ==
    /\ run.rv = "check" /\ ~ Eligible
    /\ Reviewed("skipped", "done")
    /\ UNCHANGED <<envVars, jobs>>

\* The reviewer is admitted under its key, or found: start() returns the completion of the
\* execution that works on it, if one does, and else waits for its record.
AdmitReviewer ==
    /\ run.rv = "check" /\ Eligible
    /\ \/ /\ parent.owner \subseteq snapshots
          /\ EnsureJob(0)
          /\ run' = [run EXCEPT !.rv = "record",
                                !.started = IF jobs'[0][1].running THEN @ \cup {0} ELSE @]
          /\ UNCHANGED parent
       \/ /\ input.faults
          /\ \/ Reviewed("unavailable", "done")
             \/ ReviewThrows("persistence") /\ UNCHANGED parent
          /\ UNCHANGED jobs
    /\ UNCHANGED envVars

\* The pending evidence of an earlier process names the same Job.
RecordReviewer ==
    /\ run.rv = "record"
    /\ \/ /\ mem.review # "pending"
          /\ parent' = [mem EXCEPT !.review = "pending"]
          /\ run' = [run EXCEPT !.rv = "wait", !.record = parent']
          /\ UNCHANGED jobs
       \/ /\ mem.review = "pending"
          /\ run' = [run EXCEPT !.rv = "wait"]
          /\ TakeOver(0, jobs[0][1])
          /\ UNCHANGED parent
       \/ /\ mem.review = "pending" /\ jobs[0][1].status = "active"
          /\ TakeOverFails(0)
          /\ \E error \in TakeOverErrors(jobs[0][1]) : ReviewThrows(error)
          /\ UNCHANGED parent
       \/ /\ mem.review # "pending" /\ input.faults
          /\ run' = [run EXCEPT !.rv = "orphan"]
          /\ Abort(0) \/ UNCHANGED jobs
          /\ UNCHANGED parent
    /\ UNCHANGED envVars

ReviewerOrphanSettles ==
    /\ run.rv = "orphan"
    /\ jobs[0][1].status \in Final \/ MayReject(0, jobs[0][1])
    /\ run' = [run EXCEPT !.rv = "threw"]
    /\ UNCHANGED <<envVars, parent, jobs>>

\* The reviewer settles: a verdict, output that is none, or no output at all.
ReviewerSettles ==
    /\ run.rv = "wait"
    /\ \/ /\ jobs[0][1].status \in Final
          /\ \/ run.aborted /\ Reviewed("unavailable", "threw")
             \/ ~ run.aborted /\ Reviewed("unavailable", "done")
             \/ ~ run.aborted /\ jobs[0][1].status = "succeeded" /\ Reviewed("completed", "done")
       \/ /\ MayReject(0, jobs[0][1])
          /\ ReviewThrows("plain") \/ (0 \in run.started /\ ReviewThrows("persistence"))
          /\ UNCHANGED parent
    /\ UNCHANGED <<envVars, jobs>>

CheckValidation ==
    /\ run.vl = "check"
    /\ \/ ~ Eligible /\ Validated("skipped", "done")
       \/ Eligible /\ Validated("pending", "slot")
    /\ UNCHANGED <<envVars, jobs>>

TakeSlot ==
    /\ run.vl = "slot"
    /\ \/ run.aborted /\ Validated("unavailable", "threw")
       \/ ~ run.aborted /\ run' = [run EXCEPT !.vl = "work"] /\ UNCHANGED parent
    /\ UNCHANGED <<envVars, jobs>>

\* The command ended, or could not start, or its clean-up failed.
Validate ==
    /\ run.vl = "work"
    /\ \/ run.aborted /\ Validated("unavailable", "threw")
       \/ ~ run.aborted /\ \E value \in {"completed", "unavailable"} : Validated(value, "done")
    /\ UNCHANGED <<envVars, jobs>>

\* Promise.allSettled: the first rejection counts once both have ended.
EvidenceSettled ==
    /\ RunAt("evidence")
    /\ {run.rv, run.vl} \subseteq {"done", "threw"}
    /\ run' = IF "threw" \in {run.rv, run.vl}
              THEN Throw("catch", IF run.error = "persistence" THEN "persistence" ELSE "plain")
              ELSE [run EXCEPT !.pc = "finish"]
    /\ UNCHANGED <<envVars, parent, jobs>>

-----------------------------------------------------------------------------
(* The terminal event and the catch block of #activate.                    *)

\* The lease is released behind it, and if that fails, completion rejects.
Settle(value) == answer' = value \/ (input.faults /\ answer' = "rejected")
Ended == run' = NoRun
stillVars == <<input, broker, crashes, calls, snapshots, requested>>

\* Bug: the completion is answered although the save failed (OutcomeOnRecord).
FinishParentUnsaved ==
    /\ RunAt("finish") /\ ~ run.aborted
    /\ LET status == IF \A k \in 1..input.plan : mem.child[k] = "succeeded"
                     THEN "succeeded" ELSE "failed"
       IN /\ \/ parent' = [mem EXCEPT !.status = status]
             \/ (requested \/ input.faults) /\ UNCHANGED parent
          /\ Ended /\ Settle(status)
    /\ UNCHANGED <<stillVars, jobs>>

\* A child that did not succeed fails the parent; a success meets the durable
\* cancellation in the transaction that saves it.
FinishParent ==
    /\ RunAt("finish") /\ (input.plan > 0 => ~ run.aborted)
    /\ LET status == IF \A k \in 1..input.plan : mem.child[k] = "succeeded"
                     THEN "succeeded" ELSE "failed"
           final == [mem EXCEPT !.status = status]
       IN \/ /\ status = "succeeded" => ~ requested
             /\ parent' = final
             /\ Ended /\ Settle(status)
          \/ /\ status = "succeeded" /\ requested
             /\ run' = [run EXCEPT !.pc = "refused"]
             /\ UNCHANGED <<parent, answer>>
          \/ /\ input.faults
             /\ run' = [Throw("catch", "plain") EXCEPT !.record = final]
             /\ UNCHANGED <<parent, answer>>
    /\ UNCHANGED <<stillVars, jobs>>

\* CancellationRequestedError: the status is taken back, evidence appended.
Refused ==
    /\ RunAt("refused")
    /\ \/ /\ parent' = [mem EXCEPT !.evidence = @ \/ ~ run.aborted]
          /\ run' = [Throw("catch", "plain") EXCEPT !.aborted = TRUE, !.record = parent']
          /\ UNCHANGED answer
       \/ /\ input.faults
          /\ Ended /\ Settle("rejected")
          /\ UNCHANGED parent
    /\ UNCHANGED <<stillVars, jobs>>

\* A persistence error of a Job rejects the completion and settles nothing.  A
\* record that is failed in memory is answered, even if its save failed.
Catch ==
    /\ RunAt("catch")
    /\ LET status == IF run.aborted THEN "cancelled" ELSE "failed"
       IN \/ /\ run.error = "plain" /\ mem.status # "failed"
             /\ \/ parent' = [mem EXCEPT !.status = status] /\ Settle(status)
                \/ input.faults /\ UNCHANGED parent /\ Settle("rejected")
          \/ /\ run.error = "plain" /\ mem.status = "failed"
             /\ UNCHANGED parent /\ Settle("failed")
          \/ run.error = "persistence" /\ UNCHANGED parent /\ Settle("rejected")
    /\ Ended
    /\ UNCHANGED <<stillVars, jobs>>

-----------------------------------------------------------------------------
(* The Jobs, as the parent sees them, and the broker process.              *)

\* A durable cancellation excludes success; only a success leaves a patch.  A lease that is
\* lost aborts the Job without a request.
JobSettles(k) ==
    /\ \E i \in Active(k), status \in Final, patch \in BOOLEAN :
         /\ jobs[k][i].running
         /\ status = "cancelled" => jobs[k][i].cancel \/ input.faults
         /\ status = "succeeded" => ~ jobs[k][i].cancel
         /\ patch => status = "succeeded"
         /\ jobs' = [jobs EXCEPT ![k][i] = [@ EXCEPT !.status = status, !.running = FALSE,
                                                     !.patch = patch]]
    /\ UNCHANGED <<envVars, parent, run>>

\* The Job's own save fails and its completion rejects.
JobGivesUp(k) ==
    /\ input.faults
    /\ \E i \in Active(k) : jobs[k][i].running /\ jobs' = [jobs EXCEPT ![k][i].running = FALSE]
    /\ UNCHANGED <<envVars, parent, run>>

Halted(js) == [k \in 0..MaxSubtasks |-> [i \in DOMAIN js[k] |-> [js[k][i] EXCEPT !.running = FALSE]]]

Die ==
    /\ broker' = "down"
    /\ calls' = [c \in Callers |-> IF calls[c] = "captured" THEN "done" ELSE calls[c]]
    /\ run' = NoRun
    /\ jobs' = Halted(jobs)

CrashBroker ==
    /\ broker # "down"
    /\ crashes < input.crashes
    /\ crashes' = crashes + 1
    /\ Die
    /\ UNCHANGED <<input, snapshots, parent, requested, answer>>

\* createRuntime recovers the Jobs first.
BootBroker ==
    /\ broker = "down"
    /\ broker' = "jobs"
    /\ UNCHANGED <<input, crashes, calls, snapshots, requested, answer, parent, run, jobs>>

\* recoverInterruptedJobs.
RecoverJob(k) ==
    /\ broker = "jobs"
    /\ RecoverStopped(k, TRUE)
    /\ UNCHANGED <<envVars, parent, run>>

\* Every interrupted Job runs or is settled, unless its execution failed again.
JobsRecovered ==
    /\ broker = "jobs"
    /\ input.faults \/ \A k \in 0..MaxSubtasks : \A i \in Active(k) : jobs[k][i].running
    /\ broker' = "parents"
    /\ UNCHANGED <<input, crashes, calls, snapshots, requested, answer, parent, run, jobs>>

\* Bug: a restart forgets the durable cancellation (RestartHonoursCancellation).
RecoverParentUncancelled ==
    /\ broker = "parents"
    /\ broker' = "up"
    /\ run' = IF parent.status \in {"queued", "dispatching"}
              THEN [NoRun EXCEPT !.pc = "handoff", !.record = parent] ELSE run
    /\ UNCHANGED <<input, crashes, calls, snapshots, requested, answer, parent, jobs>>

\* Bug: only a queued parent is taken for interrupted (ParentSettles).
RecoverQueuedParent ==
    /\ broker = "parents"
    /\ broker' = "up"
    /\ LET found == [parent EXCEPT !.evidence = @ \/ requested]
       IN IF parent.status = "queued"
          THEN /\ parent' = found
               /\ run' = [NoRun EXCEPT !.pc = "handoff", !.record = found, !.aborted = requested]
          ELSE UNCHANGED <<parent, run>>
    /\ UNCHANGED <<input, crashes, calls, snapshots, requested, answer, jobs>>

\* Bug: a settled parent is taken for interrupted (ImplementsPlanContract).
RecoverEveryParent ==
    /\ broker = "parents"
    /\ broker' = "up"
    /\ LET found == [parent EXCEPT !.evidence = @ \/ requested]
       IN IF parent.status # "none"
          THEN /\ parent' = found
               /\ run' = [NoRun EXCEPT !.pc = "handoff", !.record = found, !.aborted = requested]
          ELSE UNCHANGED <<parent, run>>
    /\ UNCHANGED <<input, crashes, calls, snapshots, requested, answer, jobs>>

\* recoverInterruptedOrchestrations: an interrupted parent is executed again, or,
\* if a cancellation is durable, activated as aborted.
RecoverParent ==
    /\ broker = "parents"
    /\ broker' = "up"
    /\ LET found == [parent EXCEPT !.evidence = @ \/ requested]
       IN IF parent.status \in {"queued", "dispatching"}
          THEN /\ parent' = found
               /\ run' = [NoRun EXCEPT !.pc = "handoff", !.record = found, !.aborted = requested]
          ELSE UNCHANGED <<parent, run>>
    /\ UNCHANGED <<input, crashes, calls, snapshots, requested, answer, jobs>>

\* An event of the recovery is not saved: createRuntime fails and the process ends.
RecoverParentFails ==
    /\ broker = "parents" /\ input.faults
    /\ crashes < input.crashes
    /\ crashes' = crashes + 1
    /\ parent.status \in {"queued", "dispatching"}
    /\ Die
    /\ UNCHANGED <<input, snapshots, parent, requested, answer>>

-----------------------------------------------------------------------------
OrchInit ==
    /\ input \in Inputs
    /\ broker = "up" /\ crashes = 0
    /\ calls = [c \in Callers |-> "idle"]
    /\ snapshots = {}
    /\ parent = NoParent /\ run = NoRun
    /\ jobs = [k \in 0..MaxSubtasks |-> <<>>]
    /\ requested = FALSE
    /\ answer = "none"

Execution ==
    \/ ObserveRequest \/ ThrowIfAborted
    \/ HandOff \/ Upstream \/ Dispatching
    \/ LaunchSettled \/ LaunchKnown \/ LaunchNew \/ AdmitChild \/ RecordChild \/ FollowChild \/ OrphanSettles \/ Dispatched
    \/ PostChild \/ EvidenceSettled \/ FinishParent \/ Refused \/ Catch
ReviewThread == SkipReview \/ AdmitReviewer \/ RecordReviewer \/ ReviewerOrphanSettles \/ ReviewerSettles
ValidationThread == CheckValidation \/ TakeSlot \/ Validate
Startup == BootBroker \/ JobsRecovered \/ RecoverParent

OrchNext ==
    \/ \E c \in Callers : Capture(c) \/ Admission(c)
    \/ RequestCancel \/ MonitorFails
    \/ Execution \/ ReviewThread \/ ValidationThread
    \/ \E k \in Subtasks : SettleChild(k)
    \/ \E k \in 0..MaxSubtasks : CancelJob(k) \/ JobSettles(k) \/ JobGivesUp(k) \/ RecoverJob(k)
    \/ Startup \/ CrashBroker \/ RecoverParentFails

OrchSpec == OrchInit /\ [][OrchNext]_orchVars

\* The process runs on between its crashes, is started again, and Jobs end.
OrchFairness ==
    /\ WF_orchVars(Execution) /\ WF_orchVars(ReviewThread) /\ WF_orchVars(ValidationThread)
    /\ WF_orchVars(Startup \/ \E k \in Subtasks : SettleChild(k))
    /\ WF_orchVars(\E k \in 0..MaxSubtasks : CancelJob(k) \/ JobSettles(k) \/ RecoverJob(k))

OrchFairSpec == OrchSpec /\ OrchFairness

-----------------------------------------------------------------------------
(* Properties.                                                             *)

OrchTypeOK ==
    /\ input \in Inputs
    /\ broker \in {"down", "jobs", "parents", "up"} /\ crashes \in 0..input.crashes
    /\ calls \in [Callers -> {"idle", "captured", "done"}]
    /\ snapshots \subseteq Callers
    /\ parent \in OrchestrationRecord /\ run \in Run
    /\ jobs \in [0..MaxSubtasks -> Seq(Job)]
    /\ requested \in BOOLEAN /\ answer \in {"none", "rejected"} \cup Final

\* The snapshot an admitted parent names stays on disk, whichever duplicates of
\* it discarded theirs: children start from it after every restart.
AdmittedSnapshotKept == input.plan > 0 => parent.owner \subseteq snapshots

\* A subtask, and the review, has one Job, however often the process dies between
\* the admission of the Job and the event that records it; a recorded child names it.
OneJobPerSubtask ==
    /\ \A k \in 0..MaxSubtasks : Len(jobs[k]) <= 1
    /\ \A k \in Subtasks : parent.childJob[k] \in {0} \cup DOMAIN jobs[k]

\* The children of a parent never work more at a time than the policy allows, also when a restart
\* brings the Jobs back before their parent.  With a store that fails, a child whose completion
\* rejected is recorded as failed and no longer counted, although its Job may work on.
ConcurrencyBound ==
    /\ Cardinality({k \in Subtasks : Active(k) # {} /\ parent.child[k] \notin Final}) <= input.concurrency
    /\ ~ input.faults => Cardinality({k \in Subtasks : Active(k) # {}}) <= input.concurrency

\* A restart finds the admitted snapshot, starts no second Job for a subtask, and none beyond
\* the bound.
JobsWithinPlan == OrchTypeOK /\ AdmittedSnapshotKept /\ OneJobPerSubtask /\ ConcurrencyBound

\* While the store works, what the record says of a settled child is what its Job
\* ended with, and a success says it of every subtask of the plan.
ChildrenAgree ==
    ~ input.faults =>
        /\ \A k \in Subtasks : parent.child[k] \in Final =>
             jobs[k][parent.childJob[k]].status = parent.child[k]
        /\ parent.status = "succeeded" =>
             \A k \in 1..input.plan : parent.child[k] = "succeeded"

\* docs/SPEC.md:617: the parent completes only after launched work settles.
SettlesAfterItsJobs ==
    parent.status \in Final => \A k \in 0..MaxSubtasks : Active(k) = {}

\* While nothing interrupts the process or its store, that is so, and no evidence
\* of a review or of a validation stays pending.
UninterruptedLeavesNothing ==
    crashes = 0 /\ ~ input.faults /\ parent.status \in Final =>
        /\ SettlesAfterItsJobs
        /\ "pending" \notin {parent.review, parent.validation}

\* A parent is recorded as cancelled for a durable request only, and after the
\* event that says who asked for it.
CancelledWithEvidence ==
    ~ input.faults /\ parent.status = "cancelled" => requested /\ parent.evidence

\* A completion that reports success or cancellation reports what is saved.
AnswerRecorded == answer \in {"succeeded", "cancelled"} => parent.status = answer

\* What is told about an outcome is on record, and so is the reason of a cancellation.
OutcomeOnRecord == CancelledWithEvidence /\ AnswerRecorded

-----------------------------------------------------------------------------
(* The contract.                                                           *)

\* What the Jobs of the subtasks, and of the reviewer, have come to.
Outcomes(js) == [k \in 0..MaxSubtasks |-> IF js[k] = <<>> THEN "none" ELSE js[k][1].status]

Contract == INSTANCE OrchestrationContract WITH
    Terms <- Inputs, terms <- input, status <- parent.status, child <- parent.child,
    job <- Outcomes(jobs), asked <- requested

\* Every behaviour is one of the contract: whatever is restarted, fails to be saved or races a
\* cancellation, a settled parent changes no more and starts no Job, children start in order while
\* the saved parent is dispatching, and no outcome that was recorded is taken back.
ImplementsPlanContract == Contract!Spec

\* A cancellation that is durable when a restart finds the parent interrupted ends
\* it as cancelled, whatever its children come to.
RestartHonoursCancellation ==
    (~ input.faults /\ requested /\ broker = "parents" /\ parent.status \in {"queued", "dispatching"})
        ~> parent.status = "cancelled"

\* Every admitted parent settles, however children, review and validation end and
\* whenever the process dies, if the store works.
ParentSettles == (~ input.faults /\ parent.status = "queued") ~> parent.status \in Final
=============================================================================
