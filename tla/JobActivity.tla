----------------------------- MODULE JobActivity -----------------------------
(***************************************************************************)
(* What the broker tells of a Job beside its record: projectJobActivity in *)
(* job-activity.ts derives from the durable events alone what the Job is   *)
(* doing, and for how much of it the events speak.                         *)
(*                                                                         *)
(* The events are those the orchestrator appends as the Job goes on; the   *)
(* worker's are cut off at a number for the whole Job, and one that was    *)
(* too large may have lost the identity of its tool.                       *)
(***************************************************************************)
EXTENDS Naturals, SequencesExt

CONSTANTS
    ToolCalls,        \* tool calls of a worker
    MaxWorkerEvents,  \* MAX_WORKER_EVENTS
    MaxLog            \* bound: events of the Job

ASSUME ActivityAssumption == MaxWorkerEvents \in Nat /\ MaxLog \in Nat

NoCall == "no call"
ASSUME CallsAssumption == NoCall \notin ToolCalls

VARIABLES
    events,    \* JobRecord.events
    jobStatus, \* JobRecord.status
    stage,     \* where the execution is: "admitted", "waiting", "attempt", "worker", "over"
    busy       \* the tool calls the worker of this attempt is in the middle of

activityVars == <<events, jobStatus, stage, busy>>

ActivityInit == events = <<>> /\ jobStatus = "queued" /\ stage = "admitted" /\ busy = {}

-----------------------------------------------------------------------------
(* projectJobActivity, one event at a time.                                *)

Nothing == [started |-> FALSE, retrying |-> FALSE, waiting |-> FALSE, coverage |-> "complete",
            tools |-> {}]

ToolEvents == {"worker.tool.started", "worker.tool.updated", "worker.tool.completed"}
RetryEvents == {"worker.retry.started", "worker.retry.completed"}
WorkerEvents == ToolEvents \union RetryEvents \union {"worker.started", "worker.text"}

\* Bug: an event that does not name its tool is passed over (ActivityTruthful).
ToolPassedOver(seen, event) ==
    [seen EXCEPT !.tools = CASE event.type = "worker.tool.started" -> @ \union ({event.call} \ {NoCall})
                             [] event.type = "worker.tool.completed" -> @ \ {event.call}
                             [] event.type = "worker.tool.updated" -> @]

ToolObserved(seen, event) ==
    IF event.call = NoCall
    THEN [seen EXCEPT !.coverage = "partial", !.tools = {}]
    ELSE [seen EXCEPT !.tools = CASE event.type = "worker.tool.started" -> @ \union {event.call}
                                  [] event.type = "worker.tool.completed" -> @ \ {event.call}
                                  [] event.type = "worker.tool.updated" -> @]

Observed(seen, event) ==
    CASE event.type = "job.capacity.waiting" -> [seen EXCEPT !.waiting = TRUE]
      [] event.type = "job.started" -> [seen EXCEPT !.waiting = FALSE]
      [] event.type = "job.worker.events.truncated" ->
           [seen EXCEPT !.coverage = "truncated", !.tools = {}, !.retrying = FALSE]
      [] event.type \in {"job.retrying", "job.attempt.lost", "job.recovery.started"} ->
           [Nothing EXCEPT !.coverage = seen.coverage]
      [] event.type = "worker.started" ->
           [Nothing EXCEPT !.started = TRUE,
                           !.coverage = IF seen.coverage = "partial" THEN "complete" ELSE seen.coverage]
      [] event.type \in WorkerEvents \ {"worker.started"} ->
           IF seen.coverage = "truncated" THEN seen
           ELSE IF event.type \in ToolEvents THEN ToolObserved(seen, event)
           ELSE IF event.type \in RetryEvents
           THEN [seen EXCEPT !.retrying = event.type = "worker.retry.started"]
           ELSE seen
      [] OTHER -> seen

ActivityState(seen) ==
    IF jobStatus = "terminal" THEN "terminal"
    ELSE IF seen.waiting THEN "capacity-waiting"
    ELSE IF jobStatus = "queued" THEN "queued"
    ELSE IF ~ seen.started THEN "starting"
    ELSE IF seen.coverage = "complete" /\ seen.retrying THEN "retrying"
    ELSE IF seen.coverage = "complete" /\ seen.tools # {} THEN "tools-running"
    ELSE "running"

Activity ==
    LET seen == FoldLeft(Observed, Nothing, events)
        state == ActivityState(seen)
    IN  [state |-> state, coverage |-> seen.coverage,
         activeTools |-> IF state = "tools-running" THEN seen.tools ELSE {}]

-----------------------------------------------------------------------------
(* The Job, as far as its events go.                                       *)

EventOf(type, call) == [type |-> type, call |-> call]
Happened(type) == \E i \in DOMAIN events : events[i].type = type

JobEvents(types) ==
    /\ Len(events) + Len(types) <= MaxLog
    /\ events' = events \o [i \in DOMAIN types |-> EventOf(types[i], NoCall)]

\* #appendEvent: at the limit one event says so, and the worker's events are dropped.
WorkerEvent(type, call) ==
    IF Len(SelectSeq(events, LAMBDA e : e.type \in WorkerEvents)) < MaxWorkerEvents
    THEN Len(events) < MaxLog /\ events' = Append(events, EventOf(type, call))
    ELSE IF Happened("job.worker.events.truncated")
    THEN UNCHANGED events
    ELSE JobEvents(<<"job.worker.events.truncated">>)

AwaitsCapacity ==
    /\ stage = "admitted"
    /\ JobEvents(<<"job.capacity.waiting">>)
    /\ stage' = "waiting"
    /\ UNCHANGED <<jobStatus, busy>>

\* A recovered Job is running already, and its attempt begins without an event.
Starts ==
    /\ stage \in {"admitted", "waiting"}
    /\ IF jobStatus = "queued" THEN JobEvents(<<"job.started">>) ELSE UNCHANGED events
    /\ jobStatus' = "running"
    /\ stage' = "attempt"
    /\ UNCHANGED busy

\* Another prompt to the same worker starts its agent again.
AgentStarts ==
    /\ stage \in {"attempt", "worker"}
    /\ WorkerEvent("worker.started", NoCall)
    /\ stage' = "worker"
    /\ busy' = {}
    /\ UNCHANGED jobStatus

\* What limitedJobEventData keeps of a large event names the tool if the adapter did.
ToolReports(type, call, named) ==
    /\ stage = "worker"
    /\ call \in busy <=> type # "worker.tool.started"
    /\ WorkerEvent(type, IF named THEN call ELSE NoCall)
    /\ busy' = CASE type = "worker.tool.started" -> busy \union {call}
                 [] type = "worker.tool.completed" -> busy \ {call}
                 [] OTHER -> busy
    /\ UNCHANGED <<jobStatus, stage>>

WorkerReports(type) ==
    /\ stage = "worker"
    /\ WorkerEvent(type, NoCall)
    /\ UNCHANGED <<jobStatus, stage, busy>>

RetriesJob ==
    /\ stage \in {"attempt", "worker"}
    /\ JobEvents(<<"job.retrying">>)
    /\ stage' = "attempt"
    /\ busy' = {}
    /\ UNCHANGED jobStatus

\* The process stopped in the middle of an attempt, and another one found the record.
RecoversJob ==
    /\ jobStatus = "running"
    /\ JobEvents(<<"job.attempt.lost", "job.recovery.started">>)
    /\ stage' = "admitted"
    /\ busy' = {}
    /\ UNCHANGED jobStatus

Settles ==
    /\ jobStatus # "terminal"
    /\ JobEvents(<<"job.settled">>)
    /\ jobStatus' = "terminal"
    /\ stage' = "over"
    /\ busy' = {}

ActivityNext ==
    \/ AwaitsCapacity \/ Starts \/ AgentStarts \/ RetriesJob \/ RecoversJob \/ Settles
    \/ \E type \in ToolEvents, call \in ToolCalls, named \in BOOLEAN : ToolReports(type, call, named)
    \/ \E type \in RetryEvents \union {"worker.text"} : WorkerReports(type)

ActivitySpec == ActivityInit /\ [][ActivityNext]_activityVars

-----------------------------------------------------------------------------
\* A running tool is claimed only if the worker is in the middle of that call, whatever events
\* were cut off or have lost their tool, and none of an attempt that is over; and while the
\* coverage is said to be complete no tool that runs is left out, and a Job whose worker runs is
\* not said to wait or to start.
ActivityTruthful ==
    /\ Activity.activeTools \subseteq busy
    /\ Activity.state \in {"retrying", "tools-running"} => stage = "worker"
    /\ Activity.coverage = "complete" /\ stage = "worker" =>
         /\ Activity.state \in {"running", "retrying", "tools-running"}
         /\ Activity.state # "retrying" => Activity.activeTools = busy
=============================================================================
