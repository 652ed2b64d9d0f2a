--------------------------- MODULE WorkerControl ---------------------------
(***************************************************************************)
(* Live controls of one Job: Orchestrator.control() and its queue, the     *)
(* channel of src/worker-control.ts, the chain of event appends of one     *)
(* record, the close of an attempt and the recovery after a crash.         *)
(*                                                                         *)
(* A control is queued on the active attempt.  Its operation appends       *)
(* job.control.requested, calls the handler the adapter bound, and appends *)
(* the settlement.  All events of the record, whoever emits them, go       *)
(* through one promise chain; a rejected append rejects those behind it.   *)
(* An observer that throws on an event adds another append to its emission. *)
(*                                                                         *)
(* Events are reduced to type, control and attempt.  "next" stands for the *)
(* event that reserves the next attempt (job.retrying, or the events of a  *)
(* recovery that restarts); the leases behind a recovery are JobLifecycle's *)
(* subject.  A call that joins an operation in flight, reuses a control ID *)
(* with another request, or finds no active attempt for a new control      *)
(* changes nothing and is no action.                                       *)
(*                                                                         *)
(* An operator commented "Bug:" is a mistake one could make in the         *)
(* definition after it; no specification uses it.                          *)
(***************************************************************************)
EXTENDS Naturals, FiniteSets, Sequences

CONSTANTS
    Controls,       \* control IDs
    NoControl,      \* the control of an event that is about none
    MaxAttempts,    \* route.maxAttempts
    MaxEmits,       \* bound on the events the adapter emits
    MaxFaults       \* bound on faults (a failing save, a throwing observer, a crash) and emits together

ASSUME ControlAssumption == NoControl \notin Controls /\ IsFiniteSet(Controls)
ASSUME BoundsAssumption ==
    MaxAttempts \in Nat \ {0} /\ {MaxEmits, MaxFaults} \subseteq Nat

VARIABLES
    log,        \* job.events in memory
    saved,      \* how many of them are committed
    chain,      \* appends not yet settled, the oldest first
    poisoned,   \* was the append before the head of the chain rejected?
    main,       \* the execution: its step and the result of its last append
    active,     \* does activeAttempts hold the Job?
    ops,        \* the queue of control operations of the attempt
    delivered,  \* how often the handler was called for a control
    told,       \* the settlements callers were told of
    unrecorded, \* was a failure of the observer itself not saved?
    faults      \* the kinds of faults there were

vars == <<log, saved, chain, poisoned, main, active, ops, delivered, told, unrecorded,
          faults>>
store == <<log, saved, poisoned, unrecorded, faults>>
caller == <<delivered, told>>

Settlements == {"accepted", "rejected", "lost"}
Event == [type: Settlements \cup {"requested", "worker", "observer", "next", "terminal"},
          control: Controls \cup {NoControl}, attempt: 1..MaxAttempts]

\* A queued operation: what it waits for ("new" and "untracked": its turn), the
\* settlement it appends, and whether the handler was called.
Op == [control: Controls, attempt: 1..MaxAttempts,
       step: {"new", "untracked", "requesting", "handling", "receipt", "lost"},
       status: Settlements, called: BOOLEAN, res: {"none", "ok", "failed"}]

MainSteps == {"gap", "run", "closing", "markSave", "settling", "stopped", "done"}

-----------------------------------------------------------------------------
(* Reading the log.                                                        *)

Committed == SubSeq(log, 1, saved)

\* The record a caller reads: the one in memory while an attempt is active.
View == IF active THEN log ELSE Committed

Requests(events, c) == {i \in DOMAIN events : events[i].type = "requested" /\ events[i].control = c}

\* The settlements of the request at position i.
Answers(events, i) ==
    {k \in DOMAIN events : /\ k > i
                           /\ events[k].type \in Settlements
                           /\ events[k].control = events[i].control}

\* The attempt the committed record is in.
Attempt == 1 + Cardinality({i \in 1..saved : log[i].type = "next"})

Pending == {i \in DOMAIN log : /\ log[i].type = "requested"
                               /\ log[i].attempt = Attempt
                               /\ Answers(log, i) = {}}

Terminated == \E i \in 1..saved : log[i].type = "terminal"

InFlight(c) == \E n \in DOMAIN ops : ops[n].control = c

-----------------------------------------------------------------------------
Init ==
    /\ log = <<>>
    /\ saved = 0
    /\ chain = <<>>
    /\ poisoned = FALSE
    /\ main = [step |-> "gap", res |-> "none"]
    /\ active = FALSE
    /\ ops = <<>>
    /\ delivered = [c \in Controls |-> 0]
    /\ told = [c \in Controls |-> {}]
    /\ unrecorded = FALSE
    /\ faults = {}

-----------------------------------------------------------------------------
(* #appendEvent: the chain.                                                *)

\* The caller `by` appends an event and awaits it.
Appended(by, type, c, a) ==
    chain' = Append(chain, [by |-> by, event |-> [type |-> type, control |-> c, attempt |-> a]])

\* Events of the adapter.
Emitted == Cardinality({i \in DOMAIN log : log[i].type = "worker"})
           + Cardinality({n \in DOMAIN chain : chain[n].by = "worker"})

\* Something goes wrong; once of each kind, at most.
Fault(kind) ==
    /\ kind \notin faults
    /\ Cardinality(faults) + Emitted < MaxFaults
    /\ faults' = faults \cup {kind}

\* The append at the head settles; its caller learns the result.
Settle(res) ==
    LET by == Head(chain).by
    IN  /\ chain' = Tail(chain)
        /\ main' = IF by = "main" THEN [main EXCEPT !.res = res] ELSE main
        /\ ops' = IF by = "op" THEN [ops EXCEPT ![1].res = res] ELSE ops
        /\ unrecorded' = (unrecorded \/ (res = "failed" /\ Head(chain).event.type = "observer"))
        /\ UNCHANGED active
        /\ UNCHANGED caller

\* The event is pushed on the record in memory, then the save begins.
Push ==
    /\ chain # <<>>
    /\ ~ poisoned
    /\ Len(log) = saved
    /\ log' = Append(log, Head(chain).event)
    /\ UNCHANGED <<saved, chain, poisoned, main, active, ops>>
    /\ UNCHANGED <<unrecorded, faults>>
    /\ UNCHANGED caller

Commit ==
    /\ Len(log) = saved + 1
    /\ saved' = saved + 1
    /\ Settle("ok")
    /\ UNCHANGED <<log, poisoned, faults>>

\* The event is committed, but the observer throws on it: the emission goes on
\* with job.observer.failed, whose own result is the result of the emission.
CommitObserverThrows ==
    /\ Len(log) = saved + 1
    /\ Fault("observer")
    /\ Head(chain).event.type # "observer"
    /\ saved' = saved + 1
    /\ chain' = Append(Tail(chain), [by |-> Head(chain).by,
                                     event |-> [Head(chain).event EXCEPT !.type = "observer",
                                                                         !.control = NoControl]])
    /\ UNCHANGED <<log, poisoned, main, active, ops, unrecorded>>
    /\ UNCHANGED caller

\* The save fails: the event is popped, and what waits behind it is rejected too.
Fail ==
    /\ Len(log) = saved + 1
    /\ Fault("save")
    /\ log' = Committed
    /\ poisoned' = (Tail(chain) # <<>>)
    /\ Settle("failed")
    /\ UNCHANGED saved

\* An append behind a rejected one is rejected without a save.
Reject ==
    /\ poisoned
    /\ poisoned' = (Tail(chain) # <<>>)
    /\ Settle("failed")
    /\ UNCHANGED <<log, saved, faults>>

-----------------------------------------------------------------------------
(* control(): what a caller gets at once, and what it queues.              *)

Queued(c, a, step) ==
    /\ ops' = Append(ops, [control |-> c, attempt |-> a, step |-> step, status |-> "lost",
                           called |-> FALSE, res |-> "none"])
    /\ UNCHANGED <<chain, main, active>>
    /\ UNCHANGED store
    /\ UNCHANGED caller

Told(c, status) == told' = [told EXCEPT ![c] = @ \cup {status}]

\* A bound: callers make control IDs up, so that the next new one may be any of them.
InTurn(c) ==
    LET unused == {d \in Controls : /\ ~ InFlight(d) /\ Requests(View, d) = {}
                                    /\ told[d] = {} /\ delivered[d] = 0}
    IN  c \in unused => c = CHOOSE d \in unused : TRUE

\* A control ID that was never requested, while the attempt is open.  The
\* attempt the caller names may be another one than the active.
ControlNew(c, a) ==
    /\ ~ InFlight(c)
    /\ Requests(View, c) = {}
    /\ active
    /\ main.step = "run"
    /\ InTurn(c)
    /\ Queued(c, a, "new")

\* The same request again, settled: the receipt is read from the log.
ControlSettled(c) ==
    /\ ~ InFlight(c)
    /\ \E i \in Requests(View, c) : \E k \in Answers(View, i) : Told(c, View[k].type)
    /\ UNCHANGED <<chain, main, active, ops, delivered>>
    /\ UNCHANGED store

\* Is the request at position i unsettled, and its attempt the open one?
Tracked(i) == active /\ main.step = "run" /\ View[i].attempt = Attempt

\* The same request again, unsettled, when its attempt is over: reported lost,
\* without an event.
ControlUnsettled(c) ==
    /\ ~ InFlight(c)
    /\ \E i \in Requests(View, c) : Answers(View, i) = {} /\ ~ Tracked(i)
    /\ Told(c, "lost")
    /\ UNCHANGED <<chain, main, active, ops, delivered>>
    /\ UNCHANGED store

\* Bug: an unsettled request is delivered again (DeliveredOnce).
ControlRedelivers(c) ==
    /\ ~ InFlight(c)
    /\ \E i \in Requests(View, c) :
         Answers(View, i) = {} /\ Tracked(i) /\ Queued(c, View[i].attempt, "new")

\* The same request again, unsettled, its attempt open: settled as lost.
ControlUntracked(c) ==
    /\ ~ InFlight(c)
    /\ \E i \in Requests(View, c) :
         Answers(View, i) = {} /\ Tracked(i) /\ Queued(c, View[i].attempt, "untracked")

-----------------------------------------------------------------------------
(* The operation at the head of the queue.                                 *)

AtHead(step, res) == ops # <<>> /\ Head(ops).step = step /\ Head(ops).res = res

\* The head goes on to another step; with an append, it awaits that.
HeadAt(step, status, called) ==
    ops' = [ops EXCEPT ![1] = [@ EXCEPT !.step = step, !.status = status,
                                        !.called = called, !.res = "none"]]

HeadAppends(step, type, called) ==
    /\ HeadAt(step, IF type = "requested" THEN "lost" ELSE type, called)
    /\ Appended("op", type, Head(ops).control, Head(ops).attempt)

\* The head ends; its callers get a receipt or an error.
HeadReturns(status) == ops' = Tail(ops) /\ Told(Head(ops).control, status)
HeadThrows == ops' = Tail(ops) /\ UNCHANGED told

Request ==
    /\ AtHead("new", "none")
    /\ HeadAppends("requesting", "requested", FALSE)
    /\ UNCHANGED <<main, active>>
    /\ UNCHANGED store
    /\ UNCHANGED caller

\* The request could not be saved: nothing was started.
RequestFails ==
    /\ AtHead("requesting", "failed")
    /\ HeadThrows
    /\ UNCHANGED <<chain, main, active, delivered>>
    /\ UNCHANGED store

\* The attempt is still the one the request names, and open.
Deliverable == Head(ops).attempt = Attempt /\ main.step = "run"

\* A stale attempt, a kind the adapter does not support or a channel it has not
\* bound; which kinds it supports and when it binds is left open.
Refuse ==
    /\ AtHead("requesting", "ok")
    /\ HeadAppends("receipt", "rejected", FALSE)
    /\ UNCHANGED <<main, active>>
    /\ UNCHANGED store
    /\ UNCHANGED caller

\* The handler is called.
Deliver ==
    /\ AtHead("requesting", "ok")
    /\ Deliverable
    /\ HeadAt("handling", "lost", TRUE)
    /\ delivered' = [delivered EXCEPT ![Head(ops).control] = @ + 1]
    /\ UNCHANGED <<chain, main, active, told>>
    /\ UNCHANGED store

\* The handler accepts or rejects.
Answer ==
    /\ AtHead("handling", "none")
    /\ \E status \in {"accepted", "rejected"} : HeadAppends("receipt", status, TRUE)
    /\ UNCHANGED <<main, active>>
    /\ UNCHANGED store
    /\ UNCHANGED caller

\* Bug: the timer is cleared when the attempt closes (CloseDrains).
TimeoutWhileOpen ==
    /\ AtHead("handling", "none")
    /\ main.step = "run"
    /\ HeadAppends("receipt", "lost", TRUE)
    /\ UNCHANGED <<main, active>>
    /\ UNCHANGED store
    /\ UNCHANGED caller

\* It throws, or does not answer in time; its answer, if it comes, is dropped.
Timeout ==
    /\ AtHead("handling", "none")
    /\ HeadAppends("receipt", "lost", TRUE)
    /\ UNCHANGED <<main, active>>
    /\ UNCHANGED store
    /\ UNCHANGED caller

ReceiptSaved ==
    /\ AtHead("receipt", "ok")
    /\ HeadReturns(Head(ops).status)
    /\ UNCHANGED <<chain, main, active, delivered>>
    /\ UNCHANGED store

\* Bug: the receipt that could not be saved is returned (ReceiptsAgree).
ReceiptUnsaved ==
    /\ AtHead("receipt", "failed")
    /\ \/ Head(ops).called /\ HeadReturns(Head(ops).status)
       \/ ~ Head(ops).called /\ HeadThrows
    /\ UNCHANGED <<chain, main, active, delivered>>
    /\ UNCHANGED store

\* The receipt cannot be saved.  If the handler was called, lost evidence is
\* appended instead; if not, the request stays unsettled.
ReceiptFails ==
    /\ AtHead("receipt", "failed")
    /\ \/ /\ Head(ops).called
          /\ HeadAppends("lost", "lost", TRUE)
          /\ UNCHANGED told
       \/ /\ ~ Head(ops).called
          /\ HeadThrows
          /\ UNCHANGED chain
    /\ UNCHANGED <<main, active, delivered>>
    /\ UNCHANGED store

\* #settleUntrackedControl
Untracked ==
    /\ AtHead("untracked", "none")
    /\ HeadAppends("lost", "lost", FALSE)
    /\ UNCHANGED <<main, active>>
    /\ UNCHANGED store
    /\ UNCHANGED caller

LostSaved ==
    /\ AtHead("lost", "ok")
    /\ HeadReturns("lost")
    /\ UNCHANGED <<chain, main, active, delivered>>
    /\ UNCHANGED store

LostFails ==
    /\ AtHead("lost", "failed")
    /\ HeadThrows
    /\ UNCHANGED <<chain, main, active, delivered>>
    /\ UNCHANGED store

Operate == Request \/ RequestFails \/ Refuse \/ Deliver \/ Timeout \/ ReceiptSaved
           \/ ReceiptFails \/ Untracked \/ LostSaved \/ LostFails

-----------------------------------------------------------------------------
(* The attempt.                                                            *)

MainAt(step) == main' = [step |-> step, res |-> "none"]

\* The loop of #execute: a new channel, a new queue, then the adapter runs.
BeginAttempt ==
    /\ main.step = "gap"
    /\ MainAt("run")
    /\ active' = TRUE
    /\ UNCHANGED <<chain, ops>>
    /\ UNCHANGED store
    /\ UNCHANGED caller

\* An event of the adapter.
WorkerEmit ==
    /\ main.step = "run"
    /\ Emitted < MaxEmits /\ Cardinality(faults) + Emitted < MaxFaults
    /\ Appended("worker", "worker", NoControl, Attempt)
    /\ UNCHANGED <<main, active, ops>>
    /\ UNCHANGED store
    /\ UNCHANGED caller

\* The adapter returns, fails, is aborted or times out.
Close ==
    /\ main.step = "run"
    /\ MainAt("closing")
    /\ UNCHANGED <<chain, active, ops>>
    /\ UNCHANGED store
    /\ UNCHANGED caller

\* await controlTail
Drained == main.step = "closing" /\ ops = <<>>

\* #markPendingControlsLost, the next request without a settlement.
MarkLost ==
    /\ Drained
    /\ \E i \in Pending :
         /\ \A n \in Pending : i <= n
         /\ Appended("main", "lost", log[i].control, Attempt)
    /\ MainAt("markSave")
    /\ UNCHANGED <<active, ops>>
    /\ UNCHANGED store
    /\ UNCHANGED caller

\* A mark that cannot be saved ends the execution, or the recovery.
Marked ==
    /\ main.step = "markSave"
    /\ main.res # "none"
    /\ MainAt(IF main.res = "ok" THEN "closing" ELSE "stopped")
    /\ active' = (active /\ main.res = "ok")
    /\ UNCHANGED <<chain, ops>>
    /\ UNCHANGED store
    /\ UNCHANGED caller

\* The event that ends the Job or reserves the next attempt.
EndAppended ==
    \/ Appended("main", "terminal", NoControl, Attempt)
    \/ Attempt < MaxAttempts /\ Appended("main", "next", NoControl, Attempt)

\* All are settled; the attempt ends.
EndAttempt ==
    /\ Drained
    /\ Pending = {}
    /\ EndAppended
    /\ MainAt("settling")
    /\ active' = FALSE
    /\ UNCHANGED ops
    /\ UNCHANGED store
    /\ UNCHANGED caller

AttemptEnded ==
    /\ main.step = "settling"
    /\ main.res # "none"
    /\ MainAt(CASE main.res = "failed" -> "stopped"
                [] main.res = "ok" /\ Terminated -> "done"
                [] OTHER -> "gap")
    /\ UNCHANGED <<chain, active, ops>>
    /\ UNCHANGED store
    /\ UNCHANGED caller

\* The process stops; what was not committed is gone.
Crash ==
    /\ main.step # "done"
    /\ Fault("crash")
    /\ log' = Committed
    /\ chain' = <<>>
    /\ poisoned' = FALSE
    /\ MainAt("stopped")
    /\ active' = FALSE
    /\ ops' = <<>>
    /\ UNCHANGED <<saved, unrecorded, delivered, told>>

\* Bug: recovery goes on without a look at the controls (FencedByEvidence).
RecoverUnmarked ==
    /\ main.step = "stopped"
    /\ chain = <<>>
    /\ \/ Terminated /\ MainAt("done") /\ UNCHANGED chain
       \/ ~ Terminated /\ MainAt("settling") /\ EndAppended
    /\ UNCHANGED <<active, ops>>
    /\ UNCHANGED store
    /\ UNCHANGED caller

\* The next owner, or this process once its appends have settled, recovers the
\* Job if it is not terminal: lost controls first, then as EndAttempt.
Recover ==
    /\ main.step = "stopped"
    /\ chain = <<>>
    /\ MainAt(IF Terminated THEN "done" ELSE "closing")
    /\ UNCHANGED <<chain, active, ops>>
    /\ UNCHANGED store
    /\ UNCHANGED caller

Execute == BeginAttempt \/ MarkLost \/ Marked \/ EndAttempt \/ AttemptEnded \/ Recover

-----------------------------------------------------------------------------
Next ==
    \/ Push \/ Commit \/ CommitObserverThrows \/ Fail \/ Reject
    \/ \E c \in Controls :
         \/ \E a \in 1..MaxAttempts : ControlNew(c, a)
         \/ ControlSettled(c) \/ ControlUnsettled(c) \/ ControlUntracked(c)
    \/ Operate \/ Answer
    \/ Execute \/ WorkerEmit \/ Close \/ Crash

Spec == Init /\ [][Next]_vars

\* Promises run to completion, saves return, and the handler's timer fires.  The
\* adapter need not answer or return.
Fairness ==
    /\ WF_vars(Push) /\ WF_vars(Commit \/ CommitObserverThrows \/ Fail) /\ WF_vars(Reject)
    /\ WF_vars(Operate)

FairSpec == Spec /\ Fairness

-----------------------------------------------------------------------------
TypeOK ==
    /\ log \in Seq(Event)
    /\ saved \in Nat /\ Len(log) \in {saved, saved + 1}
    /\ \A n \in DOMAIN chain : /\ chain[n].by \in {"main", "op", "worker"}
                               /\ chain[n].event \in Event
    /\ poisoned \in BOOLEAN /\ (poisoned => chain # <<>>)
    /\ main \in [step: MainSteps, res: {"none", "ok", "failed"}]
    /\ active \in BOOLEAN
    /\ ops \in Seq(Op)
    /\ delivered \in [Controls -> Nat]
    /\ told \in [Controls -> SUBSET Settlements]
    /\ unrecorded \in BOOLEAN
    /\ faults \subseteq {"save", "observer", "crash"} /\ Cardinality(faults) <= MaxFaults

\* A control reaches the handler at most once and only after its request is
\* durable, over timeouts, lost receipts, repeated calls, retries and crashes.
DeliveredOnce ==
    /\ TypeOK
    /\ \A c \in Controls : delivered[c] > 0 => delivered[c] = 1 /\ Requests(Committed, c) # {}

\* A control is requested at most once and settled at most once, the second after
\* the first, although the operation, the close of the attempt, a repeated call
\* and a recovery may each append the settlement.
SettledOnce ==
    \A c \in Controls :
        /\ Cardinality(Requests(log, c)) <= 1
        /\ \A k \in DOMAIN log : log[k].type \in Settlements /\ log[k].control = c =>
             \E i \in Requests(log, c) : Answers(log, i) = {k}

Ends(i) == log[i].type \in {"next", "terminal"}

\* An attempt ends only after every control requested of it has its settlement.
FencedByEvidence ==
    \A i \in 1..saved : Ends(i) =>
        \A n \in 1..i : log[n].type = "requested" /\ log[n].attempt = log[i].attempt =>
            \E k \in Answers(log, n) : k < i

\* Unless the failure of an observer could not be saved, a control is settled once, and what
\* callers are told of it is what its settlement says, now or later: a control reported lost
\* is never found accepted.
ReceiptsAgree ==
    ~ unrecorded =>
        /\ SettledOnce
        /\ \A c \in Controls : \A status \in told[c] :
             \A i \in Requests(Committed, c) : \A k \in Answers(Committed, i) :
                 log[k].type = status

\* A closing attempt gets rid of its controls, with a receipt or an error for each:
\* an adapter whose handler never answers does not keep the attempt open.
CloseDrains == main.step = "closing" ~> ops = <<>>
=============================================================================
