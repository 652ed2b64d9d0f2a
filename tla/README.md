# Verification of AgentKnot

AgentKnot runs coding-agent Jobs for upstream controllers: it admits a request, persists it, waits
for capacity, calls a worker adapter in an isolated worktree, and records what happened in an
append-only event log that survives crashes of the process. Above Jobs it runs orchestrations
(plans of child Jobs with review and validation), keeps the evidence of tasks, and is served by a
broker process that commands start, find and stop. This directory models the parts of it that have
to be right under concurrency and failure, checks the models with TLC, and proves their safety
properties for every value of the constants with TLAPS. Source files are named relative
to the repository's `src/` directory.

## The system

| Part | State it keeps | Operations | What makes it correct |
|---|---|---|---|
| Durable record store (`durable-record-store.ts`, `store.ts`) | SQLite tables: records and events, idempotency keys, execution leases, execution capacity, cancellation requests, route-pool cursors | `create`, `admit`, `admitRoutePool`, `save`, `claimLease`, `renewLease`, `releaseLease`, `tryAcquireCapacity`, `releaseCapacity`, `requestCancellation`, `bindWorkOrderExecutorJob` | one writer at a time per record (lease and fence), append-only logs, bounded and FIFO capacity, cancellation excludes success, admission at most once per key |
| Durable execution coordinator (`durable-execution.ts`) | the leases this process holds | `admit`, `save`, `claim`, `waitForCapacity`, `monitor`, `release` | every save carries the lease; execution aborts once the lease is lost |
| Job orchestrator (`orchestrator.ts`) | in-memory Job per execution, active Jobs, attempts, event-append chains, route reservations | `start`, `cancel`, `control`, `#execute`, `#activate`, `recover`, `#appendEvent`, `#deliverCallback`, `shutdown` | an attempt is never invoked twice, one terminal event that agrees with the status, everything settles |
| Worker control (`worker-control.ts`, the control part of `orchestrator.ts`) | one channel and one queue per attempt | `control`, `deliver`, `bind`, `close` | delivered at most once, one settlement per persisted request |
| Semaphore (`semaphore.ts`) | free slots, queue of waiters | `acquire`, abort, release | no slot lost, no lost wake-up |
| Subscriptions (`durable-subscription.ts`) | version and waiters per record | `subscribe`, `awaitTerminal`, `wait`, `notifyPersisted` | no event missed, no waiter asleep after the terminal event |
| Orchestration service (`orchestration.ts`) | parent records, active parents, append chains | `start`, `cancel`, child dispatch, review, validation, recovery | children admitted once, cancellation evidence precedes the abort, success excluded by cancellation |
| Runtime (`runtime.ts`, `runtime-ownership.ts`) | two directory locks, active work, recoveries | `createRuntime`, `shutdown`, `close` | one execution owner; nothing released while work is active |
| Work orders, candidates, reviews, dispositions | one immutable record store each | issue, bind, create, record, show | identities bound once, conflicts detected |
| Workspace isolation (`workspace-isolation.ts`, `artifact-validation.ts`) | snapshots, worktrees, patches on disk | inspect, persist, restore, create, capture, discard, cleanup, validate | every attempt starts from the admitted input; the record names the patches that exist |
| Pi adapter (`adapters/pi-rpc.ts`, `adapters/subprocess.ts`) | child process, open turn, pending RPC calls | `run`, `probe`, control, artifact reads | every call settles once, with the right verdict |
| Broker (`broker-lifecycle.ts`, `local-discovery.ts`, `cli.ts`) | discovery record, ownership lock, child process | up, status, down, run, publish, cleanup | only the owner's record is removed |
| HTTP and MCP transports (`http-server.ts`, `http-client.ts`, `mcp-server.ts`) | requests in flight, the observer's cursor | start, show, wait, follow, events | an observer gets every event once and in order |
| Activity (`job-activity.ts`) | none: a projection of the events | `projectJobActivity` | it claims nothing that does not run |
| Policy, usage, lists, limits, configuration | none or read-only | parsing, formatting, projection | - |

Interaction: a command starts or finds the broker; a transport calls the runtime, which calls the
orchestrator or the orchestration service; both execute through a coordinator over a durable store;
stores notify subscriptions after a commit; the adapter reports through an event sink back into the
orchestrator's append chain, and takes live controls from a channel of the attempt. A process may
crash between any two awaits; the next process lists the unsettled records, claims their leases and
either restarts or settles them.

What is hard: several processes (or incarnations) act on one record and learn of each other only
through the store; a lease may expire while its owner still believes in it; a caller computes "now"
before it waits for the database; every save may fail; cancellation arrives at any await; events of
one record are appended by several independent callbacks; a child process may exit, fall silent or
answer late at every point; files change outside a transaction. `PROJECT.json` lists each hazard at
its line with the properties that cover it, and the few that no property covers, with the reason.

## Modules

| Module | Models | State and actions |
|---|---|---|
| `DurableRecordStore` | `SqliteDurableRecordStore` for Jobs | One variable per table. One action per method, since every method is one `BEGIN IMMEDIATE` transaction or one statement. Callers are arbitrary: any handle ever issued and any revision that existed may be presented at any time. |
| `RoutePool` | admission to a route pool: `#startInspected`, `#reserveRoute`, `admitRoutePool`, the snapshot and its removal | A call's step, the Job it admitted, the cursor, the reservations of the process and the files on disk. `durable` picks between the transaction of the store and the reservations in memory, the two paths of the code. |
| `TaskEvidence` | `work-order.ts`, `candidate.ts`, `review.ts`, `disposition.ts`, their stores, the `task` commands of `cli.ts` | One sequence per store. A command is a series of reads and one write; other controllers act in between, and it may stop anywhere. |
| `JobContract` | what a Job's record promises (docs/SPEC.md, "Job lifecycle") | status, attempt, and the attempts invoked |
| `JobLifecycle` | `#startInspected`, `#activate`, `#execute`, `recover`, `cancel` and the coordinator | `exec[o][j]` is process `o`'s execution of Job `j`: program counter, in-memory status, attempt, revision, fence, abort flag and outcome. One action per stretch between two awaits; the store's transactions are the operators of `DurableRecordStore`. |
| `Semaphore` | `semaphore.ts` | queue, flags and free slots; one action per event-loop turn |
| `DurableSubscription` | `durable-subscription.ts` | cursor, remembered version and program counter of every subscriber |
| `WorkerControl` | `control`, `#queueControl`, `#deliverControl`, `#settleUntrackedControl`, `#markPendingControlsLost`, `#emit`, `#appendEvent`, the channel of `worker-control.ts`, and the part of `#execute` and of recovery that opens and closes an attempt | `log` is `job.events` in memory, its first `saved` entries are committed; `chain` is the promise chain of `#recordMutations`; `ops` is the queue behind `controlTail`, whose head is the operation that runs; `main` is the execution. |
| `OrchestrationContract` | what a parent's record and its Jobs promise: the status goes forward once, children start in order while the saved parent is dispatching and fewer than the bound work and are not recorded as settled, the reviewer after all of them succeeded, no recorded outcome is taken back, success and durable cancellation exclude each other | the saved status, what the record says of each child, what its Job came to, the request |
| `Orchestration` | `orchestration.ts`: one parent, its child Jobs, reviewer Job, validation and recovery | `parent` is the saved record, `run` what the process holds of it (program counter of `#execute`, its copy of the record, the threads of review and validation); `jobs[k]` are the Jobs of subtask `k`, `running` while an execution works on them. A child is admitted (`AdmitChild`), or found and taken over (`FollowChild`), and settled from its completion or its rejection (`SettleChild`). Every store call is synchronous, so a step is the code between two awaits of other work. |
| `Broker` | `broker run`, `up`, `down`, a local `run`: `broker-lifecycle.ts`, `local-discovery.ts`, `runtime-ownership.ts`, `createRuntime`, `close`, `shutdown`, the drain of the listener | A process walks from its start through registration, locks, recovery, listening and publication to its end; a shell runs one command against them; processes are killed anywhere. |
| `PiRun` | `run` and `probe` of `PiRpcWorkerAdapter`, `terminateChild` | `step` is where the call is, `turn` the promise it awaits; lines of stdout, the exit of Pi, the abort, reads of the artifact and controls are callbacks of their own. Pi is external: `pi` says what it does with a prompt. |
| `Workspace` | `workspace-isolation.ts` under the attempts of `#execute`, and `validateArtifact` with its command | Files (snapshot, worktrees, patches) beside the record in memory and the saved one. A tree is named by what it was made from. Every step on files may fail, once of each kind. |
| `Observation` | the event handlers of `http-server.ts`, the waiting and following clients of `http-client.ts`, the bounded wait of `mcp-server.ts` | The events of one record, one request in flight with what its handler has read, one observer with its cursor. |
| `JobActivity` | `projectJobActivity`, and the appends of the orchestrator and the adapter that it reads | The projection is a fold over the events; the history variable `busy` says what the worker is doing in fact. |
| `DurableRecordStore_proofs`, `JobLifecycle_proofs`, `Orchestration_proofs`, `Broker_proofs` | - | theorems about the module of that name |
| `Primitives_proofs` | - | theorems about `Semaphore` and `DurableSubscription` |
| `Attempt_proofs` | - | theorems about `PiRun` and `Workspace` |
| `Worker_proofs` | - | theorems about `WorkerControl` and `Observation` |
| `Records_proofs` | - | theorems about `RoutePool`, `TaskEvidence` and `JobActivity` |
| `MCDurableRecordStore`, `MCRecords`, `MCPrimitives`, `MCJobLifecycle`, `MCJobSettings`, `MCBroker`, `MCOrchestration`, `MCWorker` | - | instances for TLC |

Composition. `JobLifecycle` extends `DurableRecordStore`, so the steps of an execution are literally
the store's transactions with the arguments the orchestrator passes. It instantiates `JobContract`
with the persisted status and attempt of each record and the calls of the adapter, and TLC checks
that every behaviour is one of the contract (`ImplementsContract`). `Orchestration` instantiates
`OrchestrationContract` with the saved status, the saved children, the outcomes of the Jobs and the
durable request (`ImplementsPlanContract`). `Workspace` composes the files
of a Job with the append chain as far as the two meet: the append of `job.artifact` behind an append
of the worker. `Broker` composes runtime, locks, discovery, listener and commands.

`MCRecords`, `MCPrimitives`, `MCJobSettings` and `MCWorker` host models that share no state (or
several settings of one model) in one run: the initial states pick one of them, the others begin
and stay at rest, and the run costs the sum of their states. A property of one model holds trivially
in the behaviours of the others.

Abstractions common to all of them. A record projection is reduced to what some guard tells apart:
status, revision, event types, and for Jobs the attempt number. Time is kept only as "the lease is
still unexpired"; `Expire` lets a deadline pass, and with `StaleClock` a transaction may still see
an expired lease as unexpired, which is what a `now` computed before a busy wait amounts to. Other
timers may fire at any time. Refused calls leave every table unchanged and are no actions of the
store; how the orchestrator reacts to a refusal is an action of `JobLifecycle`. A crash resets what
the process holds in memory and nothing else.

Operators whose comment starts with `Bug:` are plausible mistakes in the definition that follows
them. No specification uses them; substituting one shows that the property its comment names would
notice the mistake.

## Runs

| Run | Question and bounds |
|---|---|
| `store_records` | `MCRecords`. The store: one record, two owners, fences up to 3, revisions up to 3, two event types, two sources, stale clocks; fence 3 lets two superseded owners act against a third, three revisions let a stale compare-and-swap follow a successful save. Types, cancellation against success, fenced saves, nothing forgotten. The evidence: two controllers, one WorkOrder, two executor Jobs, two Candidates, two Reviews, two decisions; binding is explored up to the first Review and the rest from a bound Job on. An order stays bound to the Job it was bound to (`OrdersStayBound`), a controller is told only of decisions that stand (`DecisionsAgree`), advice follows from evidence that stands (`EvidenceStands`). The pool: three routes and three calls, each to the pool under the one key, to the pool without a key, or to its first member by name; failing calls, lapsing leases, a stop. `PoolRotates`, `AdmissionLeavesNothing`. |
| `store_capacity` | Three Jobs, two owners with limits 1 and 2, fences up to 2, stale clocks, Jobs symmetric; bound `Unsaved`: none of the Jobs is saved meanwhile, since capacity does not depend on revisions. Three Jobs are the least with a holder, a first and a second waiter. The capacity bound and row ownership (`CapacityHeld`), hand-over, FIFO. |
| `primitives` | `MCPrimitives`. The semaphore: four callers, two slots (two holders, a head of the queue and one behind it); `SlotsKept`, `WaitersServed`. Subscriptions: a follower and a waiter, three events; either other processes commit too and the refresh timer fires, or neither, and the notifications of this process must suffice; `NobodyEndsEarly`, `SubscribersServed`. Two Jobs, one slot, two processes one after the other, the first of which may crash; bound `FewFaults`: once both Jobs are admitted none is cancelled, and a crash comes while one works and the other waits; `EveryJobSettles`. |
| `semaphore_fifo` | Violation: a newcomer overtakes the queue (finding 1). |
| `job_settings` | `MCJobSettings`. "recovery": one Job of two attempts, two processes that may stall, for a while or for good (which to the store is a crash), fences up to 3, a cancellation. "faults": a Job with a callback; store calls, the snapshot and the adapter may fail, clocks are stale, a process may crash; fences up to 2, recoveries of records of fewer than four revisions. "handover": two Jobs, one slot, a process that may crash at any point beside one that takes over. `TerminalEventAgrees` (one terminal event, which agrees with the status), `ExecutionHoldsSlot` (workers run only under a slot), `ImplementsContract`. "brokers": two brokers, a local run, two shells with the scripts of `MCBroker` and one kill. `ServingBrokerKeepsRecord`, `CommandsAnswerTruly`, `OwnershipFollowsWork`. In "recovery" one process is the one that admits, in "handover" one Job is admitted first: they are interchangeable. |
| `job_requeued` | Violation: a queued Job whose recovery was interrupted is failed by the next (finding 2). |
| `controls` | `MCWorker`. Live controls: two controls (`InTurn`: the second is not used before the first, they are interchangeable), two attempts, and any two of an event of the adapter, a failing save, a throwing observer and a crash; two controls make the queue and the order of appends matter, the adapter's event is what can poison the chain, the second attempt shows that nothing is delivered again. `DeliveredOnce`, `FencedByEvidence`, `ReceiptsAgree`, `CloseDrains`. A call of Pi: one control, one unread line, one text, one fault (a refusal, a malformed line, a broken pipe, an event that cannot be recorded). `NoTurnWaitsInVain`, `ControlsStayAdvisory`. Files: two attempts, two faults of different kinds, which is what it takes for a failure in the handling of a failure. `ArtifactsStand`, `ValidationReportsTruly`. An observer: four events, four losses, three reconnects (so that giving up and reconnecting both happen). `ObserversKeepUp`. Activity: two tool calls, at most four worker events of seven, so that the log is cut off and goes on. `ActivityTruthful`. |
| `controls_observer` | Violation: a control gets a second settlement (finding 3). |
| `orchestration` | Two callers with one key; plans of zero, one and two children, with concurrency 1 or 2, review and validation, one crash; a failing store with one child and its evidence, with one child and two crashes, with two children side by side, and with two that take turns and one crash, which is where a child that is given up lets the next one start. Two children are the least for which turn-taking, side-by-side execution and a cancellation between them differ. Bound (`MCInit`, `MCFairSpec`): where two children meet a failing store, all callers but one have already failed; what a duplicate does concerns the snapshots alone. `JobsWithinPlan`, `ChildrenAgree`, `UninterruptedLeavesNothing`, `OutcomeOnRecord`, `ImplementsPlanContract`, `ParentSettles`, `RestartHonoursCancellation`. |
| `orchestration_outage` | Violation: a parent settles before its recovered children (finding 4). |
| `broker_drain` | Violation: recovered work is not drained (finding 5). |
| `pi_retry` | Violation: a settled session is run again (finding 6). Two unread lines. |

Some properties are conjunctions of parts that are named where they are defined: `SlotsKept` of
`SlotsConserved` and `NoLostWakeup`, `NobodyEndsEarly` of `EndsAfterTerminalEvent` and
`WaitReturnsTerminal`, `SubscribersServed` of `SubscribersEnd` and `EventsDelivered`, `ReceiptsAgree`
of `SettledOnce` and the agreement of receipts, `CapacityHeld` of `CapacityBound` and
`RowsNameIssuedLeases`, and `JobsWithinPlan` of `OneJobPerSubtask`, `ConcurrencyBound` and `AdmittedSnapshotKept`.

`MaxFence`, `MaxRevision`, `MaxEvents` bound the explored instance and appear only in the guards of
`StoreNext` and in `MayRecover`; `MaxLines`, `MaxTexts`, `MaxMishaps`, `MaxTroubles`, `MaxLosses`,
`MaxEmits`, `MaxFaults`, `MaxLog` and the `Max...` of `TaskEvidence` and `RoutePool` are bounds of
the same kind. `MaxAttempts`, `Attempts`, `Reconnects`, `MaxWorkerEvents`, `LimitOf` and `Capacity` are
parameters of the code. Deadlock is not checked: Jobs settle, commands return and the system comes
to rest.

**Fairness.** `JobLifecycle` (`EveryJobSettles`) assumes that a living process takes its next step
(promises that can run do run), that a process boots once the lifetime lock is free, that boot lists
and claims what it finds interrupted, that the monitor's interval timer observes a cancellation, and
that abandoned leases expire. No fairness is assumed of crashes, of controllers, or of `Heartbeat`.
`Semaphore` assumes that holders release (the `finally` of `#activate`) and that `onWaiting` settles.
`DurableSubscription` assumes that promises run, that a commit is followed by its `notifyPersisted`,
and that the refresh timer fires; nobody is assumed to commit. `WorkerControl` assumes that appends
settle and that the operation at the head of the queue goes on, which for a handler that does not
answer is its timer; neither the adapter nor its handler is assumed to return. `Orchestration` assumes
that the process runs on between its crashes and is started again after one, that each of its
threads takes its steps, and that Jobs end, which is what `EveryJobSettles` says of them; crashes,
cancellations and failures of the store are not assumed. Where one weak fairness condition covers several
actions it is the weaker assumption. The models without a liveness property state none.

## Findings

1. `semaphore_fifo`: `acquire` takes a free slot without looking at the queue, and `#drain` keeps a
   slot free while the waiter at the head has not finished reporting. A caller that arrives then
   overtakes the queue; docs/SPEC.md calls the semaphore FIFO.
2. `job_requeued`: `job.recovery.started` persists attempt 1 while the Job is still queued. If the
   process stops before `job.started`, the next recovery takes the queued Job with attempt 1 for
   invalid and fails it, although docs/SPEC.md says a recovery owner may start the same queued Job.
3. `controls_observer`: `#emit` awaits the observer after the event is saved. If the observer throws
   and `job.observer.failed` cannot be saved, the emission rejects, and `#deliverControl` takes a
   receipt that is in the log for unsaved: it appends `job.control.lost` behind
   `job.control.accepted`. docs/SPEC.md promises exactly one settlement. `ReceiptsAgree` holds as
   long as no observer failure goes unsaved.
4. `orchestration_outage`: a parent that is recovered with a durable cancellation is activated with
   an aborted signal, throws before it looks at its children and is saved as cancelled, while the
   start of the runtime has already recovered and restarted them; they run on. docs/SPEC.md says the
   parent completes only after launched work settles.
5. `broker_drain`: the drain shuts the runtime down only if this listener admitted work itself. A
   broker that has only recovered Jobs closes its listener on SIGTERM without cancelling or awaiting
   them.
6. `pi_retry`: when a session has settled without a completion report the adapter asks for one in a
   second turn. If Pi exits in that turn, the exit is reported as a transient failure and the whole
   worker starts again; postmortems/0087 says only failures before the settlement are eligible.

Seen while modelling and not the question of a run:

- A renewal computes `now` before it waits for the database (`renewLease`), so it may revive a lease
  that has expired meanwhile. If the grant of another Job has purged the capacity row of the expired
  lease in between, the worker goes on under a current lease without a slot, and one more than the
  limit runs. It takes a heartbeat so late that the lease expires during its busy wait, and another
  process that acquires capacity in that wait; `ExecutionHoldsSlot` is proved without stale clocks.
- A control may name another attempt than the active one. Its request is saved before the mismatch
  is noticed, and its rejection after; if the process stops in between, neither a close nor a
  recovery looks for it, since both mark only the requests of their own attempt.
- `status` is set on the in-memory record before the terminal event is appended, so an append still
  queued from an adapter that does not await its events could save the status first; the adapters of
  the repository await theirs.
- docs/SPEC.md:212 has a waiting request answer when an event arrives. `DurableEventSubscription.wait`
  returns only for a terminal record or at its deadline, so the `follow` of a running record shows
  an event up to a heartbeat late. No event is lost (`ObserversKeepUp`).
- If the append of an event that the adapter did not await fails, the append of `job.artifact`
  behind it is rejected too; its patch then stays on disk although no record names it, unlike what
  postmortems/0021:38 has of failed artifact records. `ArtifactsStand` excepts that case by its cause
  (a "stray" failure).
- A recovered Job is said to wait for capacity until its worker reports, because no event tells the
  end of the wait from its beginning; and after the log was cut off, `worker.started` of a later
  attempt is cut off with the rest, so that the activity stays at "starting". `ActivityTruthful` speaks
  of complete coverage there.
- Under a failing store a child may be recorded as failed while its Job works on. The completion of
  an execution rejects with a plain error when the release of the lease fails behind a failed
  terminal save (orchestrator.ts:1651-1655), and so does the wait for a Job that the parent follows
  again after a restart when `jobs.wait` cannot read it. `settleNext` takes any rejection but a
  `JobPersistenceError` for the failure of the child (orchestration.ts:1351-1356) and dispatch goes
  on, so that together with a Job that was given up more children may work than the effective
  concurrency that docs/SPEC.md:613 has the parent fill at most. `JobsWithinPlan` and
  `ImplementsPlanContract` therefore bound all children that work only while the store does, and else
  those that the saved record does not say have settled.
- An error of the assistant before the settlement of a turn is remembered although Pi retries by
  itself and succeeds; the run then ends as failed. And if the reader of Pi's output dies between
  the settlement of the first turn and the opening of the second, only the attempt's timeout ends
  the wait; `NoTurnWaitsInVain` speaks of the abort and the exit.

## Proofs

Every safety property of the passing runs, invariants, action properties and the two refinements
alike, is a theorem of its specification: for all values of the constants that satisfy the `ASSUME`s of its
module, thus for any number of Jobs, processes, callers, attempts, crashes and faults. The
assumptions are types and distinctness (`JobsAssumption`, `OwnersAssumption`, `LimitAssumption`,
`AttemptsAssumption`, `CallersAssumption`, `PoolAssumption` and so on): limits, capacities and
attempts are positive numbers, a placeholder such as `NoOwner` is no owner, and sets that are counted
are finite. The bounds of the runs are constants like the others, and the theorems hold for
every value of them. `PROJECT.json` lists the theorems with the property each of them states.

The shape is the same everywhere: an inductive invariant, one lemma for every action (and under it a
step for every conjunct the action can disturb), the theorem of the invariant, and from it the
properties. None of the properties is inductive alone; what has to be added is the argument why the
code is right.

**The store** (`DurableRecordStore_proofs`). `IInv` adds four facts to the properties. `LeaseHistory`:
the history of issued handles has exactly as many entries as the fence says, and a named owner is the
latest of them; without it `RowsNameIssuedLeases` says nothing about a row whose fence is current.
`NothingBeforeAdmission`: a Job that is not stored has no lease, row, request or history, so that
admission starts from a clean slate. `SlotsAreRows`: an acquired slot is a row in the table, so that
purging rows can only free slots, and a grant, which counts the acquired rows after the purge, adds
at most one below the limit of its caller. `SaverBehindFence`: the last saver's fence was issued, so
a save under a current fence is never behind. Of the action properties, `NoOvertaking` needs that a
waiter that is ahead and backed by a live lease survives what the acquisition does to the table: the
upsert does not touch it, and the purge and the count of any clock see at least the leases that are
live, so the guard that looks for an earlier waiter refuses.

**Jobs** (`JobLifecycle_proofs`, on top of the store's). The invariant relates what a process holds
in memory to the record. `Faithful`: it is never more than was saved, and exactly that as long as the
revision is the record's, which is what the compare-and-swap of a save tests; so a process with a
stale copy may act, but not save. `HeldByOne`: no two processes hold the same attempt, because an
attempt is reserved by a save. `PhaseAgrees` and `InvocationAgrees` say what each step between two
awaits knows of status and attempt. From this follow `TerminalEventAgrees` and the refinement
`ContractImplemented`: initial states map to initial states of `JobContract`, and every step,
crashes and recoveries by several processes included, maps to a step of the contract or to a
stutter; in particular an attempt is handed to an adapter at most once. `StoreInvariantUnderJobs`
carries the capacity bound and the exclusion of cancellation and success over to the store as the
processes call it. `ExecutionSlots` is proved from a second invariant (a process that goes on under
a live lease has its row, and under the handle it holds) and assumes `~ StaleClock`: it is false
otherwise, as the first remark above says. The settings of `job_settings` in which Jobs compete or
processes stall have exact clocks too.

**Primitives** (`Primitives_proofs`). `SlotsKept` is inductive once the queue is known to name no
waiter twice: a drain of n waiters then adds exactly n holders, which is counted with a bijection
between positions and waiters, and it drains the longest prefix it may, so that no slot is left to a
head that could take it. `NobodyEndsEarly`: a follower is done only once it has
seen the terminal record and handed out as many events as the record had then, and the end it saw is
the end, since nothing is appended behind it (`SubscriptionInv`).

**Admissions and evidence** (`Records_proofs`). `AdmissionLeavesNothing`: `CallInv` says of one call
at a time which snapshot and which reservation it can own at which step; both then follow by
counting. `PoolRotates`: the cursor stands behind the member chosen last, and as long as nothing but
choices changed the loads they are within one of each other (`RotationInv`), for the durable
cursor and for reservations in memory. `DecisionsAgree`, `EvidenceStands`, `OrdersStayBound`: what a
command has read of immutable records remains true of them, so the invariant can say of every step
what it still knows when it writes. `ActivityTold`: the activity is a fold over the log, and the
theorems of a proof by induction cannot be instantiated here; but it suffices that the projection of
a log with one more event is one more step of the loop, a lemma on folds (`LogProjected`). The fold is the value of
exactly one recursive function on the log, which exists and is unique because no length can be the
least one at which it fails. The invariant then follows the events as they are appended
(`ActivityInv`): once the log is cut off, coverage is "truncated" and nothing is claimed; what is
claimed the worker is in the middle of; and what is said to be complete leaves nothing out.

**One attempt** (`Attempt_proofs`). `PiRun`: a turn that is awaited can be failed only while the
callbacks concern it, and the one line that ends their concern before the turn was judged, a refused
command, never meets a settled turn, because Pi writes nothing about its prompt after it said that it
settled (`SettledLast`, `CallbacksLive`, `LinesTruthful`). `Workspace`: the saved record, the patches
on disk, the worktrees and the checks are related step by step (`RecordInv`, `PatchInv`, `WorktreeInv`,
`CheckInv`), through failures in the handling of failures.

**Live controls and observers** (`Worker_proofs`). `ControlInv` follows an event from the operation
that asks for it over the chain of appends to the committed log: what the head of the chain may
append (`ChainInv`, `TailInv`), what the head of the queue has established (`QueueInv`: only the
head is past its start, a receipt or a loss finds the request unsettled), what the committed log
says (`LogInv`) and what callers were told (`CallersInv`). `ReceiptsAgree` is stated, and true, as
long as no observer failure goes unsaved (finding 3). `ObserversKeepUp`: a request in flight was
made with the cursor the observer has now, so an answer begins where what it was given ends.

**Brokers** (`Broker_proofs`). Two locks carry the argument: whoever changes the discovery record
holds the lock of discovery, so a broker that was once found in it is in it as long as it answers;
and the directories are taken one by one and given up together (`ProcessesInv`, `RecordInv`,
`EditorInv`, `ShellsInv`).

**Orchestrations** (`Orchestration_proofs`). The record in memory is ahead of the saved one only on
the way to the end, and it forgets no child and no outcome that is saved (`Synced`). Children are
admitted in the order of the plan, each after the one before it was saved, and a child whose Job
works is in the set the process follows, still ahead of its launches, or recorded as settled because
its completion rejected (`LaunchInv`). So the Jobs a dead process leaves are those of its record and
at most the next one, which is why the next process finds the Job it has to take over. What is
bounded is `Counted`, the children that work and that the saved record does not say have settled;
while the store works, a child is said to have settled only when its Job has, and `Counted` is all of
them. A restart and a follow (`FollowChild`) may set Jobs running again, but none that was settled.
That a parent ends after all its work holds of a process that was not interrupted; `Undisturbed`
says which Jobs and which evidence it still has open.
`PlanContractImplemented` is the refinement of `OrchestrationContract`: an admission of a child or of
the reviewer maps to the start of its Job, the end of a Job, also one that a recovery settles, to its
end, a save of the parent to a save, and every other step, crashes and restarts included, to a
stutter. It needs a second invariant (`OnTheWay`) on what the process holds when it saves: its copy
does not go back to "queued" once dispatching is saved, and it is dispatching wherever children start.

Only model-checked:

- liveness, which is out of their reach under fairness: `WaitersServed`, `SubscribersServed`,
  `EveryJobSettles`, `CloseDrains`, `ParentSettles`, `RestartHonoursCancellation`;
- the violations of the findings, which are counterexamples.

## Not modelled

- `JobLifecycle`: worker events, observer failures and live controls are the subject of
  `WorkerControl`, which in turn leaves leases, cancellation and the status to it. The direct
  workspace mode and overlapping recoveries within one process are not modelled.
- `WorkerControl`: an observer throws at once, so that its failure is the next append after those
  already queued; a control call that changes no state (it joins an operation in flight, reuses an
  ID with another request, or finds no active attempt) is no action.
- `Orchestration`: the failure of historical records without a plan (`settleRecoveryFailure`), the
  refusal of records that are too large, what the evidence says beyond its status, and two
  orchestrations that share the slot of the validation (see `Semaphore`).
- `Broker`: malformed or foreign discovery records, reuse of process ids, the contents of the launch
  profile; the read-only runtime, which changes nothing.
- `PiRun`: the doctor and its credential checks, contents of session statistics, the flushing of
  text, the budget of the artifact grant; the mock adapter, which is a few lines for tests.
- `Workspace`: what Git does inside a tree, sparse checkouts, submodules, previews of patches.
- `Observation`: handlers whose observer has left (they only read), cursors ahead of the log, the
  termination signal of the CLI. An answer that breaks off in its body is not retried by the client,
  unlike a request that fails; the model keeps the difference (`AnswerBroken`, `RequestLost`).
- The store: the import of legacy files, the file-based store and limits of sizes.
- Delegation policy and usage ledgers are pure tables of rules and sums over one record, lists and
  output pages read single records, and configuration, formats and command parsing keep no state:
  there is no order of steps to get wrong.

## Plan

What earlier plans listed is modelled, checked and proved. What would say most next: overlapping
recoveries within one process (`claimLease` renews the lease of its own owner), a control that
names another attempt than the active one, and recovery of historical parents without a plan.
