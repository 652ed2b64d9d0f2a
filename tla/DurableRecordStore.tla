------------------------- MODULE DurableRecordStore -------------------------
(***************************************************************************)
(* The transactional record store of src/durable-record-store.ts, for      *)
(* records of kind "Job".  Every public method is one SQLite transaction   *)
(* (BEGIN IMMEDIATE ... COMMIT) or one SQL statement, hence one action.    *)
(*                                                                         *)
(* The tables are the variables:                                           *)
(*   records                the status, revision and event log of a record *)
(*   idempotency_keys       the request hash and record bound to a key     *)
(*   execution_leases       owner, fence and whether the deadline lies     *)
(*                          ahead; fence 0 stands for an absent row        *)
(*   execution_capacity     the FIFO of waiting and acquired slots; fence  *)
(*                          0 stands for an absent row                     *)
(*   cancellation_requests  the source of the durable cancellation request *)
(* issued and lastSaver are history variables: the owner every fence was   *)
(* handed to, and the fence of the latest fenced save.                     *)
(*                                                                         *)
(* Callers are arbitrary: a call may present any lease handle that was     *)
(* ever issued and any revision that ever existed, which is what a delayed *)
(* or repeated call of some process amounts to.  A refused call changes    *)
(* nothing and is therefore no action.                                     *)
(*                                                                         *)
(* Time is kept only as far as the code compares it: a lease is live until *)
(* Expire.  A caller computes its "now" before it may have to wait for the *)
(* database lock, so when StaleClock holds a transaction may still see a   *)
(* lease as unexpired although its deadline has passed.                    *)
(*                                                                         *)
(* An operator commented "Bug:" is a mistake one could make in the         *)
(* definition after it; no specification uses it.  It shows that the       *)
(* property named there would notice.                                      *)
(***************************************************************************)
EXTENDS Naturals, Sequences, FiniteSets

CONSTANTS
    Jobs,        \* record identities
    Owners,      \* lease owner identities, one per process incarnation
    Keys,        \* scoped idempotency keys
    Hashes,      \* request hashes
    Sources,     \* cancellation sources
    Payloads,    \* the rest of a record projection, as far as a caller tells it apart
    EventTypes,  \* persisted event types
    ImportStatuses, \* statuses a legacy snapshot is imported with
    LimitOf,     \* the capacity limit each owner passes
    MaxLimit,    \* the largest of those limits
    StaleClock,  \* may a transaction run with a "now" from before a deadline?
    NoOwner, NoKey, NoSource, NoPayload,
    MaxFence, MaxRevision, MaxEvents   \* bounds of the explored instance

ASSUME JobsAssumption == IsFiniteSet(Jobs)
ASSUME OwnersAssumption == NoOwner \notin Owners
ASSUME KeysAssumption == NoKey \notin Keys
ASSUME SourcesAssumption == NoSource \notin Sources
ASSUME ImportAssumption ==
    ImportStatuses \subseteq {"queued", "running", "succeeded", "failed", "cancelled"}
ASSUME LimitAssumption == MaxLimit \in Nat /\ LimitOf \in [Owners -> 1..MaxLimit]
ASSUME BoundsAssumption == MaxFence \in Nat /\ MaxRevision \in Nat /\ MaxEvents \in Nat
ASSUME ClockAssumption == StaleClock \in BOOLEAN

VARIABLES records, keys, leases, capacity, cancellations, issued, lastSaver

tables == <<records, keys, leases, capacity, cancellations>>
storeVars == <<records, keys, leases, capacity, cancellations, issued, lastSaver>>

-----------------------------------------------------------------------------
(* Row types.                                                              *)

Terminal == {"succeeded", "failed", "cancelled"}
Statuses == {"queued", "running"} \cup Terminal

NoRecord == [status |-> "none", data |-> NoPayload, revision |-> 0, events |-> <<>>]
NoLease == [owner |-> NoOwner, fence |-> 0, live |-> FALSE]
NoRow == [owner |-> NoOwner, fence |-> 0, acquired |-> FALSE, ahead |-> {}]
NoBinding == [hash |-> NoKey, job |-> NoKey]

Record == [status: Statuses, data: Payloads, revision: Nat \ {0}, events: Seq(EventTypes)]
Lease == [owner: Owners \cup {NoOwner}, fence: Nat, live: BOOLEAN]
\* ahead: the rows of lower AUTOINCREMENT sequence that are still in the table.
CapacityRow == [owner: Owners \cup {NoOwner}, fence: Nat, acquired: BOOLEAN,
                ahead: SUBSET Jobs]
Binding == [hash: Hashes, job: Jobs]

Stored == {j \in Jobs : records[j] # NoRecord}
Live == {j \in Jobs : leases[j].live}

\* What "expires_at_ms > now" yields for each lease in one transaction.
Views ==
    IF StaleClock
    THEN {S \in SUBSET {j \in Jobs : leases[j].owner # NoOwner} : Live \subseteq S}
    ELSE {Live}

\* The lease row still is the one that handle <<issued[j][f], f>> was issued for.
Current(j, f) ==
    /\ f \in 1..leases[j].fence
    /\ leases[j].fence = f
    /\ leases[j].owner = issued[j][f]

\* The handle ever issued for j under fence f, current or not.
Handles(j) == 1..leases[j].fence

Logs == UNION {[1..n -> EventTypes] : n \in 1..MaxEvents}
Extends(log, old) ==
    /\ Len(old) <= Len(log)
    /\ \A n \in 1..Len(old) : log[n] = old[n]

-----------------------------------------------------------------------------
(* The capacity table as a value.                                          *)

InTable(c) == {j \in Jobs : c[j].fence > 0}
Acquired(c) == {j \in Jobs : c[j].acquired}
Waiting(c) == InTable(c) \ Acquired(c)

\* INSERT ... ON CONFLICT(record_id) DO UPDATE SET owner_id, fence
Upserted(c, j, o, f) ==
    [c EXCEPT ![j] =
        IF j \in InTable(c)
        THEN [@ EXCEPT !.owner = o, !.fence = f]
        ELSE [owner |-> o, fence |-> f, acquired |-> FALSE, ahead |-> InTable(c)]]

\* DELETE of every row outside keep
Kept(c, keep) ==
    [j \in Jobs |->
        IF j \in keep THEN [c[j] EXCEPT !.ahead = @ \cap keep] ELSE NoRow]

\* Rows whose lease is the one they name, unexpired in this transaction's view.
Backed(c, l, seen) ==
    {j \in InTable(c) :
        c[j].owner = l[j].owner /\ c[j].fence = l[j].fence /\ j \in seen}

Purged(c, l, seen) == Kept(c, Backed(c, l, seen))

\* Bug: an off-by-one against the limit (CapacityHeld).
GrantedOneTooMany(c, j, limit) ==
    ~ c[j].acquired /\ Cardinality(Acquired(c)) <= limit /\ c[j].ahead \cap Waiting(c) = {}

\* Bug: whoever polls while a slot is free gets it (NoOvertaking).
GrantedToAnyone(c, j, limit) == ~ c[j].acquired /\ Cardinality(Acquired(c)) < limit

\* The first waiter takes a free slot.
Granted(c, j, limit) ==
    /\ ~ c[j].acquired
    /\ Cardinality(Acquired(c)) < limit
    /\ c[j].ahead \cap Waiting(c) = {}

WithGrant(c, j, limit) ==
    IF Granted(c, j, limit) THEN [c EXCEPT ![j].acquired = TRUE] ELSE c

TryAcquireResult(c, l, j, seen) ==
    WithGrant(Purged(Upserted(c, j, l[j].owner, l[j].fence), l, seen), j,
              LimitOf[l[j].owner])

-----------------------------------------------------------------------------
(* The methods.                                                            *)

StoreInit ==
    /\ records = [j \in Jobs |-> NoRecord]
    /\ keys = [k \in Keys |-> NoBinding]
    /\ leases = [j \in Jobs |-> NoLease]
    /\ capacity = [j \in Jobs |-> NoRow]
    /\ cancellations = [j \in Jobs |-> NoSource]
    /\ issued = [j \in Jobs |-> <<>>]
    /\ lastSaver = [j \in Jobs |-> 0]

\* Bug: the revision column starts at 0 (TypeOK).
CreateAtZero(j, st, d, log) ==
    /\ j \notin Stored
    /\ records' = [records EXCEPT ![j] =
                     [status |-> st, data |-> d, revision |-> 0, events |-> log]]
    /\ UNCHANGED <<keys, leases, capacity, cancellations, issued, lastSaver>>

\* create: a record without a lease, as legacy snapshots are imported.
Create(j, st, d, log) ==
    /\ j \notin Stored
    /\ records' = [records EXCEPT ![j] =
                     [status |-> st, data |-> d, revision |-> 1, events |-> log]]
    /\ UNCHANGED <<keys, leases, capacity, cancellations, issued, lastSaver>>

\* A bound key answers with the record it is bound to, or with a conflict.
KeyFree(k) == k # NoKey => keys[k] = NoBinding

\* admit: record, idempotency key, first lease and capacity row together.
Admit(j, o, k, h, d, log, seen) ==
    /\ j \notin Stored
    /\ KeyFree(k)
    /\ records' = [records EXCEPT ![j] =
                     [status |-> "queued", data |-> d, revision |-> 1, events |-> log]]
    /\ keys' = IF k = NoKey THEN keys ELSE [keys EXCEPT ![k] = [hash |-> h, job |-> j]]
    /\ leases' = [leases EXCEPT ![j] = [owner |-> o, fence |-> 1, live |-> TRUE]]
    /\ issued' = [issued EXCEPT ![j] = <<o>>]
    /\ capacity' = TryAcquireResult(capacity, leases', j, seen \cup {j})
    /\ UNCHANGED <<cancellations, lastSaver>>

\* claimLease by the owner of an unexpired lease renews it.
ClaimOwn(j, o, seen) ==
    /\ j \in Stored
    /\ leases[j].owner = o
    /\ j \in seen
    /\ leases' = [leases EXCEPT ![j].live = TRUE]
    /\ UNCHANGED <<records, keys, capacity, cancellations, issued, lastSaver>>

\* The capacity row follows the lease when it named the previous one.
Transferred(c, j, old, o, f) ==
    IF c[j].fence > 0 /\ c[j].owner = old.owner /\ c[j].fence = old.fence
    THEN [c EXCEPT ![j].owner = o, ![j].fence = f]
    ELSE c

\* claimLease of an absent, released or expired lease takes the next fence.
ClaimFree(j, o, seen) ==
    /\ j \in Stored
    /\ j \notin seen
    /\ LET old == leases[j]
           f == old.fence + 1
       IN /\ leases' = [leases EXCEPT ![j] = [owner |-> o, fence |-> f, live |-> TRUE]]
          /\ issued' = [issued EXCEPT ![j] = Append(@, o)]
          /\ capacity' = Transferred(capacity, j, old, o, f)
    /\ UNCHANGED <<records, keys, cancellations, lastSaver>>

\* Bug: the deadline of the other owner is not compared (LeaseHandover).
ClaimAnyway(j, o, seen) == ClaimFree(j, o, seen \ {j})

ClaimLease(j, o, seen) == ClaimOwn(j, o, seen) \/ ClaimFree(j, o, seen)

RenewLease(j, f, seen) ==
    /\ Current(j, f)
    /\ j \in seen
    /\ leases' = [leases EXCEPT ![j].live = TRUE]
    /\ UNCHANGED <<records, keys, capacity, cancellations, issued, lastSaver>>

\* The fence survives a release so that the next claim increments it.
ReleaseLease(j, f) ==
    /\ Current(j, f)
    /\ leases' = [leases EXCEPT ![j] = [owner |-> NoOwner, fence |-> @.fence, live |-> FALSE]]
    /\ UNCHANGED <<records, keys, capacity, cancellations, issued, lastSaver>>

TryAcquireCapacity(j, f, seen) ==
    /\ Current(j, f)
    /\ j \in seen
    /\ capacity' = TryAcquireResult(capacity, leases, j, seen)
    /\ UNCHANGED <<records, keys, leases, cancellations, issued, lastSaver>>

ReleaseCapacity(j, f) ==
    /\ f \in Handles(j)
    /\ capacity[j].fence = f
    /\ capacity[j].owner = issued[j][f]
    /\ capacity' = Kept(capacity, InTable(capacity) \ {j})
    /\ UNCHANGED <<records, keys, leases, cancellations, issued, lastSaver>>

\* Bug: save compares the owner but not the fence (FencedSavesInOrder).
MaySaveByOwner(j, f, seen) ==
    \/ f = 0
    \/ /\ f \in 1..leases[j].fence
       /\ leases[j].owner = issued[j][f]
       /\ j \in seen

\* The lease check of save: f = 0 is a call without a lease.
MaySave(j, f, seen) == f = 0 \/ (Current(j, f) /\ j \in seen)

\* save: revision compare-and-swap, fence, cancellation and append-only checks.
Save(j, f, rev, st, d, log, seen) ==
    /\ j \in Stored
    /\ rev = records[j].revision
    /\ MaySave(j, f, seen)
    /\ st = "succeeded" => cancellations[j] = NoSource
    /\ Extends(log, records[j].events)
    /\ records' = [records EXCEPT ![j] =
                     [status |-> st, data |-> d, revision |-> rev + 1, events |-> log]]
    /\ lastSaver' = [lastSaver EXCEPT ![j] = IF f = 0 THEN @ ELSE f]
    /\ UNCHANGED <<keys, leases, capacity, cancellations, issued>>

\* Bug: a settled record still accepts a request (CancellationExcludesSuccess).
RequestAnytime(j, s) ==
    /\ j \in Stored
    /\ cancellations' = [cancellations EXCEPT ![j] = IF @ = NoSource THEN s ELSE @]
    /\ UNCHANGED <<records, keys, leases, capacity, issued, lastSaver>>

\* Bug: a later request replaces the first (NothingForgotten).
RequestReplaced(j, s) ==
    /\ j \in Stored
    /\ records[j].status \notin Terminal
    /\ cancellations' = [cancellations EXCEPT ![j] = s]
    /\ UNCHANGED <<records, keys, leases, capacity, issued, lastSaver>>

\* requestCancellation: refused once terminal, and the first request stands.
RequestCancellation(j, s) ==
    /\ j \in Stored
    /\ records[j].status \notin Terminal
    /\ cancellations' = [cancellations EXCEPT ![j] = IF @ = NoSource THEN s ELSE @]
    /\ UNCHANGED <<records, keys, leases, capacity, issued, lastSaver>>

\* The deadline of a lease passes.
Expire(j) ==
    /\ leases[j].live
    /\ leases' = [leases EXCEPT ![j].live = FALSE]
    /\ UNCHANGED <<records, keys, capacity, cancellations, issued, lastSaver>>

-----------------------------------------------------------------------------
StoreNext ==
    \E j \in Jobs :
        \/ \E st \in ImportStatuses, d \in Payloads, log \in Logs : Create(j, st, d, log)
        \/ \E o \in Owners, k \in Keys \cup {NoKey}, h \in Hashes,
              d \in Payloads, log \in Logs, seen \in Views :
               Admit(j, o, k, h, d, log, seen)
        \/ \E o \in Owners, seen \in Views :
               (j \in seen \/ leases[j].fence < MaxFence) /\ ClaimLease(j, o, seen)
        \/ \E f \in Handles(j) :
               \/ \E seen \in Views : RenewLease(j, f, seen)
               \/ ReleaseLease(j, f)
               \/ \E seen \in Views : TryAcquireCapacity(j, f, seen)
               \/ ReleaseCapacity(j, f)
        \/ \E f \in {0} \cup Handles(j), rev \in 1..records[j].revision,
              st \in Statuses, d \in Payloads, log \in Logs, seen \in Views :
               records[j].revision < MaxRevision /\ Save(j, f, rev, st, d, log, seen)
        \/ \E s \in Sources : RequestCancellation(j, s)
        \/ Expire(j)

StoreSpec == StoreInit /\ [][StoreNext]_storeVars

-----------------------------------------------------------------------------
(* Invariants.                                                             *)

TypeOK ==
    /\ records \in [Jobs -> Record \cup {NoRecord}]
    /\ keys \in [Keys -> Binding \cup {NoBinding}]
    /\ leases \in [Jobs -> Lease]
    /\ capacity \in [Jobs -> CapacityRow]
    /\ cancellations \in [Jobs -> Sources \cup {NoSource}]
    /\ issued \in [Jobs -> Seq(Owners)]
    /\ lastSaver \in [Jobs -> Nat]

\* At most MaxLimit Jobs hold an execution slot, whatever the owners' limits,
\* the expiries and the order of their calls.
CapacityBound == Cardinality(Acquired(capacity)) <= MaxLimit

\* A capacity row names a lease that was issued for its record: no call can
\* leave a slot to an owner and fence that never held the lease, and at the
\* current fence only the lease holder's handle can release it.
RowsNameIssuedLeases ==
    \A j \in InTable(capacity) :
        /\ capacity[j].fence <= leases[j].fence
        /\ capacity[j].owner = issued[j][capacity[j].fence]

\* No more slots than the limit, and none of a handle that never was.
CapacityHeld == CapacityBound /\ RowsNameIssuedLeases

\* A success and a durable cancellation request exclude each other: whichever
\* transaction commits second is refused.
CancellationExcludesSuccess ==
    \A j \in Jobs : records[j].status = "succeeded" => cancellations[j] = NoSource

-----------------------------------------------------------------------------
(* Action properties.                                                      *)

\* What the store has made durable stays: events are never removed or
\* rewritten, records and key bindings never disappear or move, the first
\* cancellation request stands and a fence never falls.
NothingForgotten ==
    [][/\ \A j \in Stored : Extends(records'[j].events, records[j].events)
                            /\ records'[j].revision >= records[j].revision
       /\ \A k \in Keys : keys[k] # NoBinding => keys'[k] = keys[k]
       /\ \A j \in Jobs : cancellations[j] # NoSource => cancellations'[j] = cancellations[j]
       /\ \A j \in Jobs : leases'[j].fence >= leases[j].fence]_storeVars

\* Execution passes to another owner only after the previous lease expired or
\* was released, and always under a larger fence.
LeaseHandover ==
    [][\A j \in Jobs :
          leases'[j].owner \notin {NoOwner, leases[j].owner}
              => leases'[j].fence > leases[j].fence /\ ~ leases[j].live]_storeVars

\* After a save under some fence commits, no save under an older fence does:
\* a superseded process cannot write over its successor.
FencedSavesInOrder == [][\A j \in Jobs : lastSaver'[j] >= lastSaver[j]]_storeVars

\* A slot is never granted past an earlier waiter whose lease is still current.
NoOvertaking ==
    [][\A k \in Waiting(capacity) :
          \A j \in Waiting(capacity) \cap capacity[k].ahead :
              j \in Backed(capacity, leases, Live) => ~ capacity'[k].acquired]_storeVars
=============================================================================
