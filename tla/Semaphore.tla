------------------------------ MODULE Semaphore ------------------------------
(***************************************************************************)
(* The process-local capacity of src/semaphore.ts, used where the store    *)
(* owns no durable slots.  Everything between two awaits is one action of  *)
(* the single-threaded event loop: an acquire call, the settlement of the  *)
(* onWaiting callback (which persists job.capacity.waiting), an abort, and *)
(* a release together with the drain it triggers.                          *)
(*                                                                         *)
(* A caller asks once.  waiters is #waiters, state[c] tells where caller c *)
(* stands, ready is the waiter's flag, available is #available.            *)
(*                                                                         *)
(* An operator commented "Bug:" is a mistake one could make in the         *)
(* definition after it; no specification uses it.                          *)
(***************************************************************************)
EXTENDS Naturals, Sequences, FiniteSets

CONSTANTS Callers, Capacity

ASSUME CallersAssumption == IsFiniteSet(Callers)
ASSUME CapacityAssumption == Capacity \in Nat \ {0}

VARIABLES available, waiters, ready, state

vars == <<available, waiters, ready, state>>

States == {"new", "queued", "holding", "released", "rejected"}
Holding == {c \in Callers : state[c] = "holding"}
Queued == {waiters[n] : n \in 1..Len(waiters)}

\* indexOf and splice
Position(q, c) == CHOOSE n \in DOMAIN q : q[n] = c
Without(q, c) == SubSeq(q, 1, Position(q, c) - 1) \o SubSeq(q, Position(q, c) + 1, Len(q))

\* #drain grants the ready callers at the head, as far as slots reach.
Drainable(q, slots, rdy) ==
    {n \in 0..Len(q) : n <= slots /\ \A i \in 1..n : rdy[q[i]]}
GrantCount(q, slots, rdy) ==
    CHOOSE n \in Drainable(q, slots, rdy) : \A m \in Drainable(q, slots, rdy) : m <= n

\* The state after a drain that starts from queue q, free slots and flags.
Drain(q, slots, rdy, st) ==
    LET n == GrantCount(q, slots, rdy)
    IN /\ waiters' = SubSeq(q, n + 1, Len(q))
       /\ available' = slots - n
       /\ state' = [c \in Callers |->
                      IF \E i \in 1..n : q[i] = c THEN "holding" ELSE st[c]]
       /\ ready' = rdy

Init ==
    /\ available = Capacity
    /\ waiters = <<>>
    /\ ready = [c \in Callers |-> FALSE]
    /\ state = [c \in Callers |-> "new"]

\* acquire: a free slot is taken at once, without a look at the queue.
AcquireFree(c) ==
    /\ state[c] = "new"
    /\ available > 0
    /\ available' = available - 1
    /\ state' = [state EXCEPT ![c] = "holding"]
    /\ UNCHANGED <<waiters, ready>>

Enqueue(c) ==
    /\ state[c] = "new"
    /\ available = 0
    /\ waiters' = Append(waiters, c)
    /\ state' = [state EXCEPT ![c] = "queued"]
    /\ UNCHANGED <<available, ready>>

\* Bug: the flag is set without a drain (WaitersServed).
AnnounceSilently(c) ==
    /\ state[c] = "queued"
    /\ ~ ready[c]
    /\ ready' = [ready EXCEPT ![c] = TRUE]
    /\ UNCHANGED <<available, waiters, state>>

\* onWaiting resolved: the waiter may be granted.
Announce(c) ==
    /\ state[c] = "queued"
    /\ ~ ready[c]
    /\ Drain(waiters, available, [ready EXCEPT ![c] = TRUE], state)

\* onWaiting rejected, or the signal aborted: the waiter leaves the queue.
AnnounceFails(c) ==
    /\ state[c] = "queued"
    /\ ~ ready[c]
    /\ Drain(Without(waiters, c), available, ready, [state EXCEPT ![c] = "rejected"])

\* Bug: an abort does not drain (SlotsKept).
AbortSilently(c) ==
    /\ state[c] = "queued"
    /\ waiters' = Without(waiters, c)
    /\ state' = [state EXCEPT ![c] = "rejected"]
    /\ UNCHANGED <<available, ready>>

Abort(c) ==
    /\ state[c] = "queued"
    /\ Drain(Without(waiters, c), available, ready, [state EXCEPT ![c] = "rejected"])

\* An acquire under an aborted signal is rejected outright.
AcquireAborted(c) ==
    /\ state[c] = "new"
    /\ state' = [state EXCEPT ![c] = "rejected"]
    /\ UNCHANGED <<available, waiters, ready>>

\* The release handle works once.
Release(c) ==
    /\ state[c] = "holding"
    /\ Drain(waiters, available + 1, ready, [state EXCEPT ![c] = "released"])

Next ==
    \E c \in Callers :
        \/ AcquireFree(c) \/ Enqueue(c) \/ AcquireAborted(c)
        \/ Announce(c) \/ AnnounceFails(c) \/ Abort(c)
        \/ Release(c)

Spec == Init /\ [][Next]_vars

\* onWaiting settles and holders release in the end.
Fairness ==
    \A c \in Callers : WF_vars(Announce(c) \/ AnnounceFails(c)) /\ WF_vars(Release(c))

FairSpec == Spec /\ Fairness

-----------------------------------------------------------------------------
TypeOK ==
    /\ available \in 0..Capacity
    /\ waiters \in Seq(Callers)
    /\ ready \in [Callers -> BOOLEAN]
    /\ state \in [Callers -> States]

\* No slot is lost or duplicated by any mix of grants, aborts and releases,
\* and the queue holds exactly the callers that wait, once each.
SlotsConserved ==
    /\ available + Cardinality(Holding) = Capacity
    /\ Queued = {c \in Callers : state[c] = "queued"}
    /\ Len(waiters) = Cardinality(Queued)

\* A slot never idles while the caller at the head of the queue is ready.
NoLostWakeup == waiters # <<>> /\ available > 0 => ~ ready[Head(waiters)]

\* Aborts, failed callbacks and releases in any order lose neither a slot nor a wake-up.
SlotsKept == TypeOK /\ SlotsConserved /\ NoLostWakeup

\* Whoever waits is granted or rejected.
WaitersServed == \A c \in Callers : state[c] = "queued" ~> state[c] \in {"holding", "rejected"}

\* docs/SPEC.md:613 calls this an abort-aware FIFO semaphore: nobody is granted
\* a slot past a caller that was already queued and stays queued.
FifoGrants ==
    [][\A c, w \in Callers :
          state[c] = "new" /\ state'[c] = "holding" => ~ (state[w] = "queued" /\ state'[w] = "queued")]_vars
=============================================================================
