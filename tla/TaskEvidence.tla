---------------------------- MODULE TaskEvidence ----------------------------
(***************************************************************************)
(* The evidence a controller keeps about one task: the WorkOrder, the Job  *)
(* that executes it, the Candidates taken from the Job's patch, the        *)
(* Reviews of a Candidate and the Disposition that decides it              *)
(* (src/work-order.ts, candidate.ts, review.ts, disposition.ts, their      *)
(* stores, and the task commands of src/cli.ts).                           *)
(*                                                                         *)
(* Every kind lives in a store of its own, and no transaction spans two of *)
(* them.  A controller runs one command at a time, as a sequence of reads  *)
(* and one write; other controllers run theirs in between, and a           *)
(* controller may stop anywhere.                                           *)
(***************************************************************************)
EXTENDS Naturals, Sequences, FiniteSets

CONSTANTS Controllers,   \* processes that run task commands
          Decisions,     \* what a disposition request says: decision, decider, rationale
          MaxOrders, MaxTaskJobs, MaxCandidates, MaxReviews   \* bounds

VARIABLES orders,        \* WorkOrders: bound Job (0: none) and number of events
          taskJobs,      \* executor Jobs: status, and whether a patch is recorded
          candidates, reviews, dispositions,
          ctl,           \* what each controller is doing
          told           \* dispositions reported to a controller as recorded

taskVars == <<orders, taskJobs, candidates, reviews, dispositions, ctl, told>>

-----------------------------------------------------------------------------
Outcomes == {"succeeded", "failed", "cancelled"}
\* What verifying a recorded patch finds on disk, any time: it is intact, its source moved
\* on or cannot be read, or the file is damaged.
Verdicts == {"valid", "drifted", "unavailable", "damaged"}

Idle == [step |-> "idle", order |-> 0, revision |-> 0, job |-> 0, status |-> "none",
         candidate |-> 0, review |-> 0, decision |-> "none",
         seen |-> {}, seenReviews |-> {}, advice |-> "none"]

At(c, step) == ctl[c].step = step
Done(c) == ctl' = [ctl EXCEPT ![c] = Idle]
Continue(c, command) == ctl' = [ctl EXCEPT ![c] = command]
Begin(c, command) == At(c, "idle") /\ Continue(c, command)

EvidenceUnchanged == UNCHANGED <<candidates, reviews, dispositions, told>>

TaskInit ==
    /\ orders = <<>>
    /\ taskJobs = <<[status |-> "running", patch |-> FALSE]>>  \* a Job somebody else started
    /\ candidates = <<>>
    /\ reviews = <<>>
    /\ dispositions = {}
    /\ ctl = [c \in Controllers |-> Idle]
    /\ told = {}

-----------------------------------------------------------------------------
(* agentknot task: issue, start the Job, bind it.                          *)

IssueOrder(c) ==
    /\ Len(orders) < MaxOrders
    /\ orders' = Append(orders, [job |-> 0, revision |-> 1])
    /\ Begin(c, [Idle EXCEPT !.step = "start", !.order = Len(orders) + 1, !.revision = 1])
    /\ UNCHANGED taskJobs /\ EvidenceUnchanged

\* A stop after this step leaves a running Job that no WorkOrder names.
StartTaskJob(c) ==
    /\ At(c, "start")
    /\ Len(taskJobs) < MaxTaskJobs
    /\ taskJobs' = Append(taskJobs, [status |-> "running", patch |-> FALSE])
    /\ Continue(c, [ctl[c] EXCEPT !.step = "bind", !.job = Len(taskJobs) + 1])
    /\ UNCHANGED orders /\ EvidenceUnchanged

\* bindExecutorJob called by itself, with the revision the caller read last.
RequestBinding(c) ==
    /\ \E o \in DOMAIN orders, j \in DOMAIN taskJobs :
        Begin(c, [Idle EXCEPT !.step = "bind", !.order = o, !.job = j,
                              !.revision = orders[o].revision])
    /\ UNCHANGED <<orders, taskJobs>> /\ EvidenceUnchanged

\* The service reads the WorkOrder and refuses what it can tell is a conflict.
CheckBinding(c) ==
    /\ At(c, "bind")
    /\ IF orders[ctl[c].order].job \in {0, ctl[c].job}
         THEN Continue(c, [ctl[c] EXCEPT !.step = "commit"])
         ELSE Done(c)
    /\ UNCHANGED <<orders, taskJobs>> /\ EvidenceUnchanged

Bound(o) == orders[o].job # 0

\* Bug: the transaction relies on the service's check. (OrdersStayBound)
BindableUnchecked(c) == TRUE

\* The transaction looks again: unbound, and at the revision the caller names.
Bindable(c) == ~ Bound(ctl[c].order) /\ orders[ctl[c].order].revision = ctl[c].revision

CommitBinding(c) ==
    /\ At(c, "commit")
    /\ IF Bindable(c)
         THEN orders' = [orders EXCEPT ![ctl[c].order] =
                            [job |-> ctl[c].job, revision |-> @.revision + 1]]
         ELSE UNCHANGED orders
    /\ Done(c)
    /\ UNCHANGED taskJobs /\ EvidenceUnchanged

-----------------------------------------------------------------------------
(* agentknot task-candidate                                                *)

Of(o) == {n \in DOMAIN candidates : candidates[n].order = o /\ candidates[n].job = orders[o].job}

\* The bound Job must have succeeded and recorded a patch, which is verified next.
ReadCandidateSource(c) ==
    /\ \E o \in DOMAIN orders :
        /\ Bound(o)
        /\ taskJobs[orders[o].job].status = "succeeded"
        /\ taskJobs[orders[o].job].patch
        /\ Begin(c, [Idle EXCEPT !.step = "list", !.order = o, !.job = orders[o].job])
    /\ UNCHANGED <<orders, taskJobs>> /\ EvidenceUnchanged

\* A Candidate that is on record is reloaded, whatever became of the patch.
ListCandidates(c) ==
    /\ At(c, "list")
    /\ \E verdict \in Verdicts :
        IF Of(ctl[c].order) = {} /\ verdict = "valid"
          THEN Continue(c, [ctl[c] EXCEPT !.step = "create"])
          ELSE Done(c)
    /\ UNCHANGED <<orders, taskJobs>> /\ EvidenceUnchanged

CandidateSource(o, j) == orders[o].job = j /\ taskJobs[j].patch

RecordCandidate(c, o, j) ==
    /\ Len(candidates) < MaxCandidates
    /\ IF CandidateSource(o, j)
         THEN candidates' = Append(candidates, [order |-> o, job |-> j])
         ELSE UNCHANGED candidates
    /\ Done(c)
    /\ UNCHANGED <<orders, taskJobs, reviews, dispositions, told>>

CreateCandidate(c) == At(c, "create") /\ RecordCandidate(c, ctl[c].order, ctl[c].job)

\* CandidateService.create called by itself, with a recorded patch of any Job.
RequestCandidate(c) ==
    /\ \E o \in DOMAIN orders, j \in DOMAIN taskJobs :
        Begin(c, [Idle EXCEPT !.step = "create", !.order = o, !.job = j])
    /\ UNCHANGED <<orders, taskJobs>> /\ EvidenceUnchanged

-----------------------------------------------------------------------------
(* agentknot task-review                                                   *)

\* The Candidate named with --candidate, or the only one the task has.
SelectCandidate(c) ==
    /\ \E o \in DOMAIN orders : \E n \in Of(o) :
        Begin(c, [Idle EXCEPT !.step = "review", !.candidate = n])
    /\ UNCHANGED <<orders, taskJobs>> /\ EvidenceUnchanged

CreateReview(c) ==
    /\ At(c, "review")
    /\ Len(reviews) < MaxReviews
    /\ reviews' = Append(reviews, [candidate |-> ctl[c].candidate])
    /\ Done(c)
    /\ UNCHANGED <<orders, taskJobs, candidates, dispositions, told>>

-----------------------------------------------------------------------------
(* agentknot task-disposition, and DispositionService.record               *)

\* The service may be asked about any pair; task-disposition asks about a matching one.
RequestDisposition(c) ==
    /\ \E n \in DOMAIN candidates, r \in DOMAIN reviews, d \in Decisions :
        Begin(c, [Idle EXCEPT !.step = "check", !.candidate = n, !.review = r, !.decision = d])
    /\ UNCHANGED <<orders, taskJobs>> /\ EvidenceUnchanged

CheckDisposition(c) ==
    /\ At(c, "check")
    /\ IF reviews[ctl[c].review].candidate = ctl[c].candidate
         THEN Continue(c, [ctl[c] EXCEPT !.step = "record"])
         ELSE Done(c)
    /\ UNCHANGED <<orders, taskJobs>> /\ EvidenceUnchanged

\* The one identity a Candidate's Disposition may have.
DispositionIdentity(n) == n

Requested(c) ==
    [id |-> DispositionIdentity(ctl[c].candidate), candidate |-> ctl[c].candidate,
     review |-> ctl[c].review, decision |-> ctl[c].decision]

Taken(id) == \E d \in dispositions : d.id = id

\* The insert commits, or the store refuses it: the identity is taken, or it fails.
RecordDisposition(c) ==
    /\ At(c, "record")
    /\ \/ /\ ~ Taken(Requested(c).id)
          /\ dispositions' = dispositions \cup {Requested(c)}
          /\ told' = told \cup {Requested(c)}
          /\ Done(c)
       \/ /\ Continue(c, [ctl[c] EXCEPT !.step = "reread"])
          /\ UNCHANGED <<dispositions, told>>
    /\ UNCHANGED <<orders, taskJobs, candidates, reviews>>

\* Bug: whatever is on record is taken for the caller's own decision. (DecisionsAgree)
AnySemanticInput(d, request) == TRUE

SameSemanticInput(d, request) == d = request

\* An exact replay is answered with the record; anything else is an error.
RereadDisposition(c) ==
    /\ At(c, "reread")
    /\ told' = told \cup
        (IF \E d \in dispositions : d.id = Requested(c).id /\ SameSemanticInput(d, Requested(c))
           THEN {Requested(c)} ELSE {})
    /\ Done(c)
    /\ UNCHANGED <<orders, taskJobs, candidates, reviews, dispositions>>

-----------------------------------------------------------------------------
(* agentknot task-show: four reads, each of another store, then advice.   *)

ShowTask(c) ==
    /\ \E o \in DOMAIN orders :
        /\ Bound(o)
        /\ Begin(c, [Idle EXCEPT !.step = "showCandidates", !.order = o, !.job = orders[o].job,
                                 !.status = taskJobs[orders[o].job].status])
    /\ UNCHANGED <<orders, taskJobs>> /\ EvidenceUnchanged

ShowCandidates(c) ==
    /\ At(c, "showCandidates")
    /\ Continue(c, [ctl[c] EXCEPT !.step = "showReviews", !.seen = Of(ctl[c].order)])
    /\ UNCHANGED <<orders, taskJobs>> /\ EvidenceUnchanged

ShowReviews(c) ==
    /\ At(c, "showReviews")
    /\ Continue(c, [ctl[c] EXCEPT !.step = "showDispositions", !.seenReviews =
                        {r \in DOMAIN reviews : reviews[r].candidate \in ctl[c].seen}])
    /\ UNCHANGED <<orders, taskJobs>> /\ EvidenceUnchanged

\* dispositionsForTask: only those whose Review is among the ones read before.
Shown(c, d) == d.candidate \in ctl[c].seen /\ d.review \in ctl[c].seenReviews

Decision(c, n) ==
    LET ds == {d \in dispositions : d.candidate = n /\ Shown(c, d)}
    IN IF Cardinality(ds) = 1 THEN (CHOOSE d \in ds : TRUE).decision ELSE "undisposed"

\* Bug: one accepted Candidate speaks for all of them. (EvidenceStands)
AdviceOfAny(ds) ==
    IF "accept" \in ds THEN "promote" ELSE IF "undisposed" \in ds THEN "decide" ELSE "discarded"

\* taskEvidenceNextAction
AdviceOf(ds) ==
    CASE "undisposed" \in ds -> "decide"
      [] ds = {"accept"} -> "promote"
      [] Cardinality(ds) > 1 -> "mixed"
      [] OTHER -> "discarded"

\* taskNextAction: the Job's outcome, the patch, its source, then the evidence.
NextAction(c, verdict) ==
    LET ds == {Decision(c, n) : n \in ctl[c].seen}
        single == Cardinality(ctl[c].seen) = 1
    IN CASE ctl[c].status = "running" -> "wait"
         [] ctl[c].status \in {"failed", "cancelled"} -> "reissue"
         [] verdict = "damaged" -> "inspect integrity"
         [] verdict = "unavailable" -> "inspect evidence"
         [] verdict = "drifted" /\ single /\ ds = {"accept"} -> "promoted or stale"
         [] verdict = "drifted" /\ ~ (single /\ ds = {"discard"}) -> "review drift"
         [] ctl[c].seen = {} -> "review result"
         [] OTHER -> AdviceOf(ds)

ShowDispositions(c) ==
    /\ At(c, "showDispositions")
    /\ \E verdict \in IF taskJobs[ctl[c].job].patch THEN Verdicts ELSE {"valid"} :
        Continue(c, [ctl[c] EXCEPT !.step = "shown", !.advice = NextAction(c, verdict)])
    /\ UNCHANGED <<orders, taskJobs>> /\ EvidenceUnchanged

-----------------------------------------------------------------------------
(* What happens around the commands                                        *)

\* The command ends, or its process stops in the middle.
EndCommand(c) ==
    /\ ~ At(c, "idle")
    /\ Done(c)
    /\ UNCHANGED <<orders, taskJobs>> /\ EvidenceUnchanged

\* The patch is recorded while the Job runs; the outcome follows.
CaptureTaskPatch ==
    /\ \E j \in DOMAIN taskJobs :
        /\ taskJobs[j].status = "running"
        /\ taskJobs' = [taskJobs EXCEPT ![j].patch = TRUE]
    /\ UNCHANGED <<orders, ctl>> /\ EvidenceUnchanged

SettleTaskJob ==
    /\ \E j \in DOMAIN taskJobs, outcome \in Outcomes :
        /\ taskJobs[j].status = "running"
        /\ taskJobs' = [taskJobs EXCEPT ![j].status = outcome]
    /\ UNCHANGED <<orders, ctl>> /\ EvidenceUnchanged

TaskNext ==
    \/ CaptureTaskPatch \/ SettleTaskJob
    \/ \E c \in Controllers :
        \/ IssueOrder(c) \/ StartTaskJob(c)
        \/ RequestBinding(c) \/ CheckBinding(c) \/ CommitBinding(c)
        \/ ReadCandidateSource(c) \/ ListCandidates(c) \/ CreateCandidate(c) \/ RequestCandidate(c)
        \/ SelectCandidate(c) \/ CreateReview(c)
        \/ RequestDisposition(c) \/ CheckDisposition(c)
        \/ RecordDisposition(c) \/ RereadDisposition(c)
        \/ ShowTask(c) \/ ShowCandidates(c) \/ ShowReviews(c) \/ ShowDispositions(c)
        \/ EndCommand(c)

TaskSpec == TaskInit /\ [][TaskNext]_taskVars

-----------------------------------------------------------------------------
\* A WorkOrder keeps the Job it was bound to, however many controllers bind it and
\* whatever they read before: it changes once, and its events say so.
OrdersStayBound ==
    [][\A o \in DOMAIN orders :
        \/ orders'[o] = orders[o]
        \/ ~ Bound(o) /\ orders'[o].revision = orders[o].revision + 1]_orders

\* A Candidate is decided once, and every controller that was told a decision was told
\* the one on record, although it may have been another controller's.
DecisionsAgree ==
    /\ \A d, e \in dispositions : d.candidate = e.candidate => d = e
    /\ told \subseteq dispositions

\* Every record's sources are on record and belong together: the Disposition's Review is of
\* its Candidate, the Candidate of its WorkOrder's Job, and that Job recorded its patch.
EvidenceChained ==
    /\ \A n \in DOMAIN candidates :
        LET k == candidates[n] IN orders[k.order].job = k.job /\ taskJobs[k.job].patch
    /\ \A d \in dispositions :
        d.review \in DOMAIN reviews /\ reviews[d.review].candidate = d.candidate

\* The evidence is chained, and advice rests on it: a controller that was told to promote a
\* task's patch was shown Candidates that are all accepted on record, each after a Review
\* it was shown too, whatever was recorded between its reads and since.
EvidenceStands ==
    /\ EvidenceChained
    /\ \A c \in Controllers : ctl[c].advice \in {"promote", "promoted or stale"} =>
        \A n \in ctl[c].seen : \E d \in dispositions :
            d.candidate = n /\ d.decision = "accept" /\ d.review \in ctl[c].seenReviews
=============================================================================
