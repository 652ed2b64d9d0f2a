---------------------------- MODULE MCPrimitives ----------------------------
(***************************************************************************)
(* The two primitives a process synchronises its own tasks with, and the   *)
(* Jobs that one process after the other executes, side by side.  They     *)
(* share nothing here, so in every initial state all but one are finished  *)
(* and the run costs the sum of their states, not the product.  So do two  *)
(* subscribers, which only read what the writers change.                   *)
(***************************************************************************)
EXTENDS Semaphore, DurableSubscription

CONSTANTS j1, j2, o1, o2, h1, cli, NoOwner, NoKey, NoSource, NoPayload

VARIABLES records, keys, leases, capacity, cancellations, issued, lastSaver, up, exec, invoked

jobVars == <<records, keys, leases, capacity, cancellations, issued, lastSaver, up, exec, invoked>>

\* One slot; the first process may crash, the second takes over.
Succession == INSTANCE JobLifecycle WITH
    Jobs <- {j1, j2}, Owners <- {o1, o2}, Keys <- {}, Hashes <- {h1}, Sources <- {cli},
    EventTypes <- {}, Payloads <- 0..1, ImportStatuses <- {}, LimitOf <- [o \in {o1, o2} |-> 1],
    MaxLimit <- 1, MaxFence <- 2, MaxRevision <- 20, MaxEvents <- 20, MaxAttempts <- 1,
    SingleBroker <- TRUE, MayCrash <- {o1}, MayStall <- FALSE,
    StaleClock <- FALSE, StoreFaults <- FALSE, SnapshotFaults <- FALSE, Callbacks <- FALSE

\* Every caller was rejected.
SemaphoreFinished ==
    /\ available = Capacity
    /\ waiters = <<>>
    /\ ready = [c \in Callers |-> FALSE]
    /\ state = [c \in Callers |-> "rejected"]

\* Every subscriber aborted, every event was committed.
SubscriptionsFinished ==
    /\ count = MaxEvents
    /\ terminalAt = 0
    /\ unnotified = 0
    /\ version = MaxEvents - 1
    /\ shared = FALSE
    /\ sub = [s \in Subs |->
                [step |-> "aborted", cursor |-> MaxEvents, upto |-> MaxEvents, observed |-> 0,
                 seenCount |-> 0, seenTerminal |-> FALSE, expired |-> FALSE]]

\* No Job was admitted, and the processes are gone.
JobsFinished ==
    /\ Succession!StoreInit
    /\ up = [o \in {o1, o2} |-> "dead"]
    /\ exec = [o \in {o1, o2} |-> [j \in {j1, j2} |-> Succession!Idle]]
    /\ invoked = [j \in {j1, j2} |-> <<0>>]

MCInit ==
    \/ Init /\ SubscriptionsFinished /\ JobsFinished
    \/ SemaphoreFinished /\ (\E s \in Subs : SubInitOf({s})) /\ JobsFinished
    \/ SemaphoreFinished /\ SubscriptionsFinished /\ Succession!Init

\* A bound: of two Jobs none is cancelled, and their process crashes, if it does, while one
\* works and the other waits for its slot.
FewFaults ==
    (\A j \in {j1, j2} : records'[j].status # "none") =>
        /\ \A j \in {j1, j2} : cancellations'[j] = NoSource
        /\ up'[o1] # up[o1] =>
               \E j, k \in {j1, j2} : exec[o1][j].phase = "working" /\ exec[o1][k].phase = "polling"

MCNext ==
    \/ Next /\ UNCHANGED <<subVars, jobVars>>
    \/ SubNext /\ UNCHANGED <<vars, jobVars>>
    \/ Succession!Next /\ FewFaults /\ UNCHANGED <<vars, subVars>>

MCFairSpec ==
    /\ MCInit /\ [][MCNext]_<<vars, subVars, jobVars>>
    /\ Fairness /\ SubFairness /\ Succession!Fairness

-----------------------------------------------------------------------------
\* Every admitted Job reaches a terminal status although its process crashes at any step and
\* the next one finds it at any step of its recovery.
EveryJobSettles == Succession!EveryJobSettles
=============================================================================
