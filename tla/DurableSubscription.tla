------------------------- MODULE DurableSubscription -------------------------
(***************************************************************************)
(* The event subscription kernel of src/durable-subscription.ts for one    *)
(* record: followers run subscribe() from some cursor, waiters run         *)
(* awaitTerminal() or wait().  Both loop over                              *)
(*    remember the version, read the durable record, wait for a change.    *)
(* The record is changed by this process, which notifies after the commit, *)
(* and by other processes, which do not; the refresh timer covers those.   *)
(* A behaviour has either both or, to see whether the notifications alone   *)
(* suffice for the commits of this process, neither.                       *)
(*                                                                         *)
(* The record is reduced to the number of its events and the sequence of   *)
(* the event that made it terminal (0 while it is not).  An observer       *)
(* failure may be appended after the terminal event.                       *)
(*                                                                         *)
(* An operator commented "Bug:" is a mistake one could make in the         *)
(* definition after it; no specification uses it.                          *)
(***************************************************************************)
EXTENDS Naturals

CONSTANTS
    Followers, Waiters,
    MaxEvents        \* bound on the events of the record

ASSUME SubscribersAssumption == Followers \cap Waiters = {}
ASSUME BoundsAssumption == MaxEvents \in Nat \ {0}

VARIABLES
    count,       \* committed events
    terminalAt,  \* sequence of the terminal event, 0 if none
    unnotified,  \* local commits whose notifyPersisted is still to run
    version,     \* RecordSignal.version
    shared,      \* do other processes commit, and does the refresh timer fire?
    sub          \* the state of every subscriber

subVars == <<count, terminalAt, unnotified, version, shared, sub>>

Subs == Followers \cup Waiters
Steps == {"start", "fetch", "yield", "get", "decide", "wait", "done", "aborted"}

Sub == [step: Steps, cursor: Nat, upto: Nat, observed: Nat,
        seenCount: Nat, seenTerminal: BOOLEAN, expired: BOOLEAN]

\* Only the active subscribe; the signals of the others are aborted.
SubInitOf(active) ==
    /\ count = 1
    /\ terminalAt = 0
    /\ unnotified = 0
    /\ version = 0
    /\ shared \in BOOLEAN
    /\ \E cursors \in [Subs -> 0..1] :
         sub = [s \in Subs |-> [step |-> IF s \in active THEN "start" ELSE "aborted",
                                cursor |-> cursors[s], upto |-> 0, observed |-> 0,
                                seenCount |-> 0, seenTerminal |-> FALSE, expired |-> FALSE]]

SubInit == SubInitOf(Subs)

-----------------------------------------------------------------------------
(* Writers.                                                                *)

\* One more event; it may be the terminal one.
CommitEvent ==
    /\ count < MaxEvents
    /\ count' = count + 1
    /\ terminalAt' \in IF terminalAt = 0 THEN {0, count + 1} ELSE {terminalAt}

CommitLocal ==
    /\ CommitEvent
    /\ unnotified' = unnotified + 1
    /\ UNCHANGED <<version, shared, sub>>

CommitRemote ==
    /\ shared
    /\ CommitEvent
    /\ UNCHANGED <<unnotified, version, shared, sub>>

Waiting(s) == sub[s].step = "wait"
Woken(s) == [sub[s] EXCEPT !.step = "start"]

\* notifyPersisted bumps the version and wakes every registered waiter.
NotifyPersisted ==
    /\ unnotified > 0
    /\ unnotified' = unnotified - 1
    /\ version' = version + 1
    /\ sub' = [s \in Subs |-> IF Waiting(s) THEN Woken(s) ELSE sub[s]]
    /\ UNCHANGED <<count, terminalAt, shared>>

-----------------------------------------------------------------------------
(* Subscribers.                                                            *)

\* The head of the loop remembers the version before it reads.
Begin(s) ==
    /\ sub[s].step = "start"
    /\ sub' = [sub EXCEPT ![s].step = IF s \in Followers THEN "fetch" ELSE "get",
                          ![s].observed = version]
    /\ UNCHANGED <<count, terminalAt, unnotified, version, shared>>

\* eventsAfter(cursor)
Fetch(s) ==
    /\ sub[s].step = "fetch"
    /\ sub' = [sub EXCEPT ![s].step = "yield", ![s].upto = count]
    /\ UNCHANGED <<count, terminalAt, unnotified, version, shared>>

\* The consumer takes the next event of the batch, whenever it likes.
Yield(s) ==
    /\ sub[s].step = "yield"
    /\ sub' = IF sub[s].cursor < sub[s].upto
                THEN [sub EXCEPT ![s].cursor = @ + 1]
                ELSE [sub EXCEPT ![s].step = "get"]
    /\ UNCHANGED <<count, terminalAt, unnotified, version, shared>>

Get(s) ==
    /\ sub[s].step = "get"
    /\ sub' = [sub EXCEPT ![s].step = "decide", ![s].seenCount = count,
                          ![s].seenTerminal = (terminalAt > 0)]
    /\ UNCHANGED <<count, terminalAt, unnotified, version, shared>>

\* Bug: a terminal record ends a follower that is behind (NobodyEndsEarly).
EndsOnStatus(s) == sub[s].seenTerminal \/ (s \in Waiters /\ sub[s].expired)

\* Whether the record just read ends the loop.
Ends(s) ==
    IF s \in Followers
    THEN sub[s].seenTerminal /\ sub[s].seenCount <= sub[s].cursor
    ELSE sub[s].seenTerminal \/ sub[s].expired

\* A follower that is behind reads again without waiting.
Behind(s) == s \in Followers /\ sub[s].seenCount > sub[s].cursor

\* Bug: registers without a look at the version (SubscribersServed).
AfterReadUnchecked(s) ==
    CASE Ends(s) -> "done"
      [] ~ Ends(s) /\ Behind(s) -> "start"
      [] OTHER -> "wait"

\* #waitForChange registers only if no notification arrived since Begin.
AfterRead(s) ==
    CASE Ends(s) -> "done"
      [] ~ Ends(s) /\ (Behind(s) \/ version # sub[s].observed) -> "start"
      [] OTHER -> "wait"

Decide(s) ==
    /\ sub[s].step = "decide"
    /\ sub' = [sub EXCEPT ![s].step = AfterRead(s)]
    /\ UNCHANGED <<count, terminalAt, unnotified, version, shared>>

\* The refresh timer re-reads the source.
RefreshTimer(s) ==
    /\ shared
    /\ Waiting(s)
    /\ sub' = [sub EXCEPT ![s] = Woken(s)]
    /\ UNCHANGED <<count, terminalAt, unnotified, version, shared>>

\* wait(): the deadline passes; the next read is returned whatever it says.  The
\* timer of wait() is the refresh timer, cut to the deadline; a waiter whose
\* deadline never passes is awaitTerminal().
Deadline(s) ==
    /\ s \in Waiters
    /\ shared
    /\ sub[s].step \notin {"done", "aborted"}
    /\ ~ sub[s].expired
    /\ sub' = [sub EXCEPT ![s].expired = TRUE]
    /\ UNCHANGED <<count, terminalAt, unnotified, version, shared>>

\* The signal aborts: the loop head or the wait throws.
AbortSubscription(s) ==
    /\ sub[s].step \in {"start", "wait"}
    /\ sub' = [sub EXCEPT ![s].step = "aborted"]
    /\ UNCHANGED <<count, terminalAt, unnotified, version, shared>>

Step(s) == Begin(s) \/ Fetch(s) \/ Yield(s) \/ Get(s) \/ Decide(s)

SubNext ==
    \/ CommitLocal \/ CommitRemote \/ NotifyPersisted
    \/ \E s \in Subs : Step(s) \/ RefreshTimer(s) \/ Deadline(s) \/ AbortSubscription(s)

SubSpec == SubInit /\ [][SubNext]_subVars

\* Promises run to completion, a commit is followed by its notification, and
\* the refresh timer fires when there is one.  No writer has to commit.
SubFairness ==
    /\ WF_subVars(NotifyPersisted)
    /\ \A s \in Subs : WF_subVars(Step(s)) /\ WF_subVars(RefreshTimer(s))


-----------------------------------------------------------------------------
SubTypeOK ==
    /\ count \in 1..MaxEvents
    /\ terminalAt \in 0..count
    /\ unnotified \in 0..MaxEvents
    /\ version \in 0..MaxEvents
    /\ shared \in BOOLEAN
    /\ sub \in [Subs -> Sub]

\* A subscription ends only after it delivered the terminal event, although it
\* reads the events and the record in two calls with commits in between.
EndsAfterTerminalEvent ==
    \A s \in Followers :
        sub[s].step = "done" => terminalAt > 0 /\ sub[s].cursor >= terminalAt

\* A waiter that returns before its deadline returns a terminal record.
WaitReturnsTerminal ==
    \A s \in Waiters :
        sub[s].step = "done" /\ ~ sub[s].expired => sub[s].seenTerminal

\* Nobody ends early: a follower has the terminal event, a waiter the terminal record.
NobodyEndsEarly == SubTypeOK /\ EndsAfterTerminalEvent /\ WaitReturnsTerminal

\* Every subscriber of a record that is terminal ends.
SubscribersEnd == \A s \in Subs : terminalAt > 0 ~> sub[s].step \in {"done", "aborted"}

\* Every committed event is delivered to a follower that stays subscribed.
EventsDelivered ==
    \A s \in Followers : \A n \in 1..MaxEvents :
        count >= n ~> sub[s].cursor >= n \/ sub[s].step \in {"done", "aborted"}

\* Nobody sleeps through an event, the terminal one or another, whether this process or
\* another one commits it, and wherever between its reads and its wait a subscriber is.
SubscribersServed == SubscribersEnd /\ EventsDelivered
=============================================================================
