------------------------------ MODULE Workspace ------------------------------
(***************************************************************************)
(* The files of one Job in git-worktree mode: workspace-isolation.ts under *)
(* the attempts of orchestrator.ts, and the validation of an artifact      *)
(* (artifact-validation.ts).                                               *)
(*                                                                         *)
(* An attempt works in a worktree made from the admitted input, not from   *)
(* the source repository, which may have changed since.  What it changed   *)
(* becomes a patch file, and an artifact on the record.  The append of     *)
(* job.artifact may wait behind the append of an event of the worker that  *)
(* the adapter did not await; both save the whole record.                  *)
(*                                                                         *)
(* A tree is named by what it was made from: 0 is the admitted input, 1    *)
(* anything else.                                                          *)
(***************************************************************************)
EXTENDS Naturals, FiniteSets

CONSTANTS
    Attempts,     \* maxAttempts of the route
    MaxTroubles   \* bound: faults, each of another kind

ASSUME WorkspaceAssumption == Attempts \in Nat \ {0} /\ MaxTroubles \in Nat

VARIABLES
    source,     \* the tree of the source repository
    snapshot,   \* the admitted patch: "none" (a clean tree), "intact", "altered"
    input,      \* the tree the inspection in memory describes
    attempt,
    phase,      \* where #execute is
    failure,    \* the failure of the attempt: "none", "worker", "final", "persistence"
    worktrees,  \* [1..Attempts + 1 -> 0, 1 or Gone]: the last one is the validation's
    patches,    \* attempts whose patch file exists
    listed,     \* attempts with an artifact on the record in memory
    recorded,   \* the same on the saved record
    announced,  \* attempts with a saved job.artifact event
    status,     \* of the saved record
    stray,      \* an append of the worker nobody awaited: "none", "queued", "failed"
    check,      \* where validateArtifact is
    base,       \* the tree its inspection found
    limits,     \* what the validation command ran into
    report,     \* what it returns
    troubles    \* faults that happened

Gone == 2
Validation == Attempts + 1

recordVars == <<listed, recorded, announced, status, stray>>
attemptVars == <<input, attempt, phase, failure>>
checkVars == <<check, base, limits, report>>
workspaceVars == <<source, snapshot, attemptVars, worktrees, patches, recordVars, checkVars, troubles>>

NoReport == [status |-> "none", reason |-> "none", cleanup |-> "none"]

WorkspaceInit ==
    /\ source = 0 /\ snapshot \in {"none", "intact"}
    /\ input = 0 /\ attempt = 1 /\ phase = "creating" /\ failure = "none"
    /\ worktrees = [n \in 1..Validation |-> Gone]
    /\ patches = {} /\ listed = {} /\ recorded = {} /\ announced = {}
    /\ status = "running" /\ stray = "none"
    /\ check = "idle" /\ base = 0 /\ limits = {} /\ report = NoReport
    /\ troubles = {}

Trouble(what) ==
    /\ what \notin troubles
    /\ Cardinality(troubles) < MaxTroubles
    /\ troubles' = troubles \cup {what}

At(p) == phase = p
FailWith(f) == failure' = IF failure = "none" THEN f ELSE failure

-----------------------------------------------------------------------------
(* The world outside.                                                      *)

SourceDrifts ==
    /\ source = 0
    /\ source' = 1
    /\ UNCHANGED <<snapshot, attemptVars, worktrees, patches, recordVars, checkVars, troubles>>

\* Somebody edits or removes a file under the artifact directory.
SnapshotAltered ==
    /\ snapshot = "intact"
    /\ Trouble("tampering")
    /\ snapshot' = "altered"
    /\ UNCHANGED <<source, attemptVars, worktrees, patches, recordVars, checkVars>>

PatchLost ==
    /\ phase \in {"over", "stopped"}
    /\ Trouble("tampering")
    /\ \E n \in patches : patches' = patches \ {n}
    /\ UNCHANGED <<source, snapshot, attemptVars, worktrees, recordVars, checkVars>>

-----------------------------------------------------------------------------
(* create, capturePatch, discardPatch and cleanup within an attempt.       *)

\* create: a worktree at the base commit with the admitted patch applied.
Create ==
    /\ At("creating")
    /\ worktrees' = [worktrees EXCEPT ![attempt] = input]
    /\ phase' = "working"
    /\ UNCHANGED <<source, snapshot, input, attempt, failure, patches, recordVars, checkVars,
                   troubles>>

\* It removes what a failed add or apply left, and does not say when it cannot.
CreateFails ==
    /\ At("creating")
    /\ Trouble("create")
    /\ \E tree \in {Gone, input} : worktrees' = [worktrees EXCEPT ![attempt] = tree]
    /\ phase' = "settling" /\ failure' = "worker"
    /\ UNCHANGED <<source, snapshot, input, attempt, patches, recordVars, checkVars>>

\* The adapter returns or throws; the append of an event it emitted may not have ended.
WorkerReturns ==
    /\ At("working")
    /\ failure' \in {"none", "worker", "final"}
    /\ stray' \in {"none", "queued"}
    /\ phase' = "capturing"
    /\ UNCHANGED <<source, snapshot, input, attempt, worktrees, patches, listed, recorded, announced,
                   status, checkVars, troubles>>

\* capturePatch: written beside and renamed; then job.artifacts names it, and the append of
\* job.artifact begins or waits.
Capture ==
    /\ At("capturing")
    /\ patches' = patches \cup {attempt}
    /\ listed' = listed \cup {attempt}
    /\ phase' = "recording"
    /\ UNCHANGED <<source, snapshot, input, attempt, failure, worktrees, recorded, announced, status,
                   stray, checkVars, troubles>>

\* git fails, or the patch is too large, after which the Job is not tried again.
CaptureFails ==
    /\ At("capturing")
    /\ Trouble("capture")
    /\ \E f \in {"worker", "final"} : FailWith(f)
    /\ phase' = "cleaning"
    /\ UNCHANGED <<source, snapshot, input, attempt, worktrees, patches, recordVars, checkVars>>

\* Every save stores the whole record.  A failure rejects what waits behind it.
StrayEnds ==
    /\ stray = "queued"
    /\ \/ /\ stray' = "none"
          /\ recorded' = listed
          /\ UNCHANGED troubles
       \/ /\ Trouble("stray")
          /\ stray' = IF phase \in {"recording", "settling"} THEN "failed" ELSE "none"
          /\ UNCHANGED recorded
    /\ UNCHANGED <<source, snapshot, attemptVars, worktrees, patches, listed, announced, status,
                   checkVars>>

\* The append of job.artifact succeeds, after which an observer may fail whose failure
\* cannot be saved.
Recorded ==
    /\ stray = "none"
    /\ recorded' = listed
    /\ announced' = announced \cup {attempt}
    /\ \/ UNCHANGED <<failure, troubles>>
       \/ Trouble("observer") /\ FailWith("persistence")
    /\ UNCHANGED <<listed, stray>>

\* Its save fails: the artifact is taken off the record in memory.
NotRecorded ==
    /\ stray = "none"
    /\ Trouble("save")
    /\ listed' = listed \ {attempt}
    /\ UNCHANGED <<recorded, announced, stray, failure>>

\* It is rejected with the append it waited behind: the artifact stays listed.
RejectedWithStray ==
    /\ stray = "failed"
    /\ stray' = "none"
    /\ FailWith("persistence")
    /\ UNCHANGED <<listed, recorded, announced, troubles>>

\* Bug: the patch is discarded whichever event could not be saved (ArtifactsStand).
RecordOrDiscard ==
    /\ At("recording")
    /\ \/ Recorded /\ phase' = IF failure' = "persistence" THEN "discarding" ELSE "cleaning"
       \/ NotRecorded /\ phase' = "discarding"
       \/ RejectedWithStray /\ phase' = "discarding"
    /\ UNCHANGED <<source, snapshot, input, attempt, worktrees, patches, status, checkVars>>

\* The append of job.artifact ends; only if it was its own save that failed is the patch
\* discarded.
Record ==
    /\ At("recording")
    /\ \/ Recorded /\ phase' = "cleaning"
       \/ NotRecorded /\ phase' = "discarding"
       \/ RejectedWithStray /\ phase' = "cleaning"
    /\ UNCHANGED <<source, snapshot, input, attempt, worktrees, patches, status, checkVars>>

\* discardPatch; the failure of the save stands in either case.
Discard ==
    /\ At("discarding")
    /\ \/ patches' = patches \ {attempt} /\ UNCHANGED troubles
       \/ Trouble("discard") /\ UNCHANGED patches
    /\ FailWith("persistence")
    /\ phase' = "cleaning"
    /\ UNCHANGED <<source, snapshot, input, attempt, worktrees, recordVars, checkVars>>

\* cleanup: git forgets the worktree, and its directory is removed.
CleanUp ==
    /\ At("cleaning")
    /\ \/ /\ worktrees' = [worktrees EXCEPT ![attempt] = Gone]
          /\ UNCHANGED <<failure, troubles>>
       \/ /\ Trouble("cleanup")
          /\ \E tree \in {Gone, worktrees[attempt]} :
               worktrees' = [worktrees EXCEPT ![attempt] = tree]
          /\ FailWith("worker")
    /\ phase' = "settling"
    /\ UNCHANGED <<source, snapshot, input, attempt, patches, recordVars, checkVars>>

-----------------------------------------------------------------------------
(* After the attempt.                                                      *)

\* The next save of the record: a terminal event or job.retrying, or it fails and the Job
\* is left to the next owner.  It is saved behind a stray append, and rejected with it.
SettleJob ==
    /\ At("settling")
    /\ stray # "queued"
    /\ \/ /\ failure # "persistence" /\ stray = "none"
          /\ recorded' = listed
          /\ IF failure = "worker" /\ attempt < Attempts
             THEN /\ attempt' = attempt + 1 /\ phase' = "creating" /\ failure' = "none"
                  /\ UNCHANGED status
             ELSE /\ status' = IF failure = "none" THEN "succeeded" ELSE "failed"
                  /\ phase' = "over"
                  /\ UNCHANGED <<attempt, failure>>
          /\ UNCHANGED <<stray, troubles>>
       \/ /\ \/ failure = "persistence" /\ UNCHANGED troubles
             \/ failure # "persistence" /\ stray = "none" /\ Trouble("save")
             \/ failure # "persistence" /\ stray = "failed" /\ UNCHANGED troubles
          /\ phase' = "stopped"
          /\ stray' = "none"
          /\ UNCHANGED <<recorded, status, attempt, failure>>
    /\ UNCHANGED <<source, snapshot, input, worktrees, patches, listed, announced, checkVars>>

\* The process ends; files and the saved record stay.
ProcessEnds ==
    /\ phase \notin {"over", "stopped"}
    /\ Trouble("crash")
    /\ phase' = "stopped"
    /\ stray' = "none"
    /\ UNCHANGED <<source, snapshot, input, attempt, failure, worktrees, patches, listed, recorded,
                   announced, status, checkVars>>

\* restoreAdmissionSnapshot: the tree that the admitted commit and patch give, and whether
\* it is the one the record names.
RestoredTree == IF snapshot = "altered" THEN 1 ELSE 0
Restorable == RestoredTree = 0

\* The next owner reads the record: another attempt on the admitted input, or the end.
RecoverAttempt ==
    /\ At("stopped")
    /\ status = "running"
    /\ listed' = recorded
    /\ IF attempt < Attempts /\ Restorable
       THEN /\ input' = RestoredTree
            /\ attempt' = attempt + 1 /\ phase' = "creating" /\ failure' = "none"
            /\ UNCHANGED status
       ELSE /\ status' = "failed" /\ phase' = "over"
            /\ UNCHANGED <<input, attempt, failure>>
    /\ UNCHANGED <<source, snapshot, worktrees, patches, recorded, announced, stray, checkVars, troubles>>

-----------------------------------------------------------------------------
(* validateArtifact, for the artifact of a Job that succeeded.             *)

Unavailable(reason, cleanup) ==
    report' = [status |-> "unavailable", reason |-> reason, cleanup |-> cleanup]

\* An artifact without a change is not validated; else the source is inspected, or cannot be.
InspectSource ==
    /\ check = "idle"
    /\ status = "succeeded"
    /\ \/ check' = "inspected" /\ base' = source /\ UNCHANGED <<report, troubles>>
       \/ /\ Unavailable("artifact-invalid", "not-started")
          /\ check' = "done" /\ UNCHANGED <<base, troubles>>
       \/ /\ Trouble("git")
          /\ Unavailable("validation-start-failed", "not-started")
          /\ check' = "done" /\ UNCHANGED base
    /\ UNCHANGED <<source, snapshot, attemptVars, worktrees, patches, recordVars, limits>>

\* #inspectArtifact: the patch and the source must be those the artifact names.  Then the
\* signal is read.
InspectArtifact ==
    /\ check = "inspected"
    /\ IF base # 0 THEN Unavailable("source-drift", "not-started")
       ELSE IF attempt \notin patches THEN Unavailable("artifact-invalid", "not-started")
       ELSE IF "cancelled" \in limits THEN Unavailable("parent-cancelled", "not-started")
       ELSE UNCHANGED report
    /\ check' = IF report' = report THEN "making" ELSE "done"
    /\ UNCHANGED <<source, snapshot, attemptVars, worktrees, patches, recordVars, base, limits,
                   troubles>>

MakeWorktree ==
    /\ check = "making"
    /\ \/ /\ worktrees' = [worktrees EXCEPT ![Validation] = base]
          /\ check' = "applying"
          /\ UNCHANGED <<report, troubles>>
       \/ /\ Trouble("create")
          /\ \E tree \in {Gone, base} : worktrees' = [worktrees EXCEPT ![Validation] = tree]
          /\ Unavailable("validation-start-failed", "not-confirmed")
          /\ check' = "done"
    /\ UNCHANGED <<source, snapshot, attemptVars, patches, recordVars, base, limits>>

ApplyPatch ==
    /\ check = "applying"
    /\ \/ check' = "running" /\ UNCHANGED <<report, troubles>>
       \/ /\ Trouble("git")
          /\ Unavailable("patch-apply-failed", "cleaned")
          /\ check' = "cleaning"
    /\ UNCHANGED <<source, snapshot, attemptVars, worktrees, patches, recordVars, base, limits>>

\* The parent is cancelled, the command takes too long or writes too much: it is told to
\* terminate, and goes on until it does.
LimitHit(limit) ==
    /\ check \in IF limit = "cancelled" THEN {"inspected", "making", "applying", "running"}
                                        ELSE {"running"}
    /\ limits' = limits \cup {limit}
    /\ UNCHANGED <<source, snapshot, attemptVars, worktrees, patches, recordVars, check, base, report,
                   troubles>>

\* The command is closed; what became of it is the first of these that happened.  (It may
\* be that there was no way to start it.)
CommandOutcome(exited) ==
    IF "cancelled" \in limits THEN "cancelled"
    ELSE IF "output-limit" \in limits THEN "output-limit"
    ELSE IF "timed-out" \in limits THEN "timed-out"
    ELSE exited

CommandCloses ==
    /\ check = "running"
    /\ \/ /\ \E exited \in {"passed", "failed"} :
               IF CommandOutcome(exited) = "cancelled"
               THEN Unavailable("parent-cancelled", "cleaned")
               ELSE report' = [status |-> "completed", reason |-> CommandOutcome(exited),
                               cleanup |-> "cleaned"]
          /\ UNCHANGED troubles
       \/ Trouble("git") /\ Unavailable("validation-start-failed", "cleaned")
    /\ check' = "cleaning"
    /\ UNCHANGED <<source, snapshot, attemptVars, worktrees, patches, recordVars, base, limits>>

\* Bug: the outcome stands although its worktree could not be removed (ValidationReportsTruly).
CleanUpValidationQuietly ==
    /\ check = "cleaning"
    /\ \/ worktrees' = [worktrees EXCEPT ![Validation] = Gone] /\ UNCHANGED troubles
       \/ Trouble("cleanup") /\ UNCHANGED worktrees
    /\ check' = "done"
    /\ UNCHANGED <<source, snapshot, attemptVars, patches, recordVars, base, limits, report>>

CleanUpValidation ==
    /\ check = "cleaning"
    /\ \/ /\ worktrees' = [worktrees EXCEPT ![Validation] = Gone]
          /\ UNCHANGED <<report, troubles>>
       \/ /\ Trouble("cleanup")
          /\ \E tree \in {Gone, base} : worktrees' = [worktrees EXCEPT ![Validation] = tree]
          /\ Unavailable("cleanup-failed", "failed")
    /\ check' = "done"
    /\ UNCHANGED <<source, snapshot, attemptVars, patches, recordVars, base, limits>>

-----------------------------------------------------------------------------
WorkspaceNext ==
    \/ SourceDrifts \/ SnapshotAltered \/ PatchLost
    \/ Create \/ CreateFails \/ WorkerReturns \/ Capture \/ CaptureFails \/ StrayEnds \/ Record
    \/ Discard \/ CleanUp \/ SettleJob \/ ProcessEnds \/ RecoverAttempt
    \/ InspectSource \/ InspectArtifact \/ MakeWorktree \/ ApplyPatch
    \/ \E limit \in {"cancelled", "output-limit", "timed-out"} : LimitHit(limit)
    \/ CommandCloses \/ CleanUpValidation

WorkspaceSpec == WorkspaceInit /\ [][WorkspaceNext]_workspaceVars

-----------------------------------------------------------------------------
Untroubled(kinds) == kinds \cap troubles = {}

\* Every attempt, of whichever process, works on the admitted input.  An artifact the log
\* announces has its patch, a Job that succeeded has one for its last attempt, and when
\* the Job is over nothing else is left behind, unless something failed that the code
\* does not make up for: a crash, a removal, an append of the worker.
ArtifactsStand ==
    /\ \A n \in 1..Attempts : worktrees[n] \in {0, Gone}
    /\ announced \subseteq recorded
    /\ Untroubled({"tampering"}) => announced \subseteq patches
    /\ status = "succeeded" => attempt \in announced
    /\ phase = "over" /\ Untroubled({"crash", "discard", "stray"}) => patches \subseteq announced
    /\ phase = "over" /\ Untroubled({"crash", "create", "cleanup"}) =>
           \A n \in 1..Attempts : worktrees[n] = Gone

\* What a validation says of its worktree is so, and a command that ran to its end ran on
\* the tree the artifact was made from.
ValidationReportsTruly ==
    check = "done" =>
        /\ worktrees[Validation] # Gone => report.cleanup \in {"failed", "not-confirmed"}
        /\ report.status = "completed" => base = 0 /\ "cancelled" \notin limits
=============================================================================
