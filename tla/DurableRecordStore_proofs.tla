---------------------- MODULE DurableRecordStore_proofs ----------------------
(***************************************************************************)
(* Machine-checked proofs about DurableRecordStore, for any sets of Jobs,  *)
(* owners, keys and sources, any limits and any bounds, with or without    *)
(* stale clocks.                                                           *)
(***************************************************************************)
EXTENDS DurableRecordStore, FiniteSetTheorems, SequenceTheorems, TLAPS

(* What the lease rows and the history of issued fences have in common.    *)
LeaseHistory ==
    \A j \in Jobs :
        /\ Len(issued[j]) = leases[j].fence
        /\ leases[j].owner # NoOwner =>
               leases[j].fence > 0 /\ leases[j].owner = issued[j][leases[j].fence]
        /\ leases[j].live => leases[j].owner # NoOwner

(* A record that was never admitted has no row in any table.               *)
NothingBeforeAdmission ==
    \A j \in Jobs : j \notin Stored =>
        /\ leases[j] = NoLease
        /\ cancellations[j] = NoSource
        /\ capacity[j].fence = 0
        /\ lastSaver[j] = 0

(* Absent capacity rows hold no slot.                                      *)
SlotsAreRows == Acquired(capacity) \subseteq InTable(capacity)

SaverBehindFence == \A j \in Jobs : lastSaver[j] <= leases[j].fence

(* The inductive invariant.                                                *)
IInv ==
    /\ TypeOK
    /\ LeaseHistory
    /\ NothingBeforeAdmission
    /\ SlotsAreRows
    /\ CapacityBound
    /\ RowsNameIssuedLeases
    /\ CancellationExcludesSuccess
    /\ SaverBehindFence

-----------------------------------------------------------------------------
(* The capacity table as a value: what each statement of                   *)
(* #tryAcquireCapacityInTransaction does to the set of acquired slots.     *)

Table == [Jobs -> CapacityRow]

LEMMA UpsertedFacts ==
    ASSUME NEW c \in Table, Acquired(c) \subseteq InTable(c),
           NEW j \in Jobs, NEW o \in Owners, NEW f \in Nat, f > 0
    PROVE  /\ Upserted(c, j, o, f) \in Table
           /\ Acquired(Upserted(c, j, o, f)) = Acquired(c)
           /\ InTable(Upserted(c, j, o, f)) = InTable(c) \cup {j}
           /\ Upserted(c, j, o, f)[j].owner = o
           /\ Upserted(c, j, o, f)[j].fence = f
           /\ \A k \in Jobs \ {j} : Upserted(c, j, o, f)[k] = c[k]
<1> DEFINE u == Upserted(c, j, o, f)
           row == IF j \in InTable(c)
                  THEN [c[j] EXCEPT !.owner = o, !.fence = f]
                  ELSE [owner |-> o, fence |-> f, acquired |-> FALSE, ahead |-> InTable(c)]
<1>1. u = [c EXCEPT ![j] = row]
  BY DEF Upserted
<1>2. row \in CapacityRow /\ row.owner = o /\ row.fence = f
  <2>1. c[j] \in CapacityRow
    BY DEF Table
  <2>2. InTable(c) \in SUBSET Jobs
    BY DEF InTable
  <2> QED BY <2>1, <2>2 DEF CapacityRow
<1>3. row.acquired <=> j \in Acquired(c)
  <2>1. CASE j \in InTable(c)
    BY <2>1 DEF Acquired, Table, CapacityRow
  <2>2. CASE j \notin InTable(c)
    BY <2>2 DEF Acquired, Table, CapacityRow
  <2> QED BY <2>1, <2>2
<1> HIDE DEF row
<1>4. u \in Table /\ u[j] = row /\ \A k \in Jobs \ {j} : u[k] = c[k]
  BY <1>1, <1>2 DEF Table
<1>5. Acquired(u) = Acquired(c)
  BY <1>3, <1>4 DEF Acquired
<1>6. InTable(u) = InTable(c) \cup {j}
  BY <1>2, <1>4 DEF InTable
<1> QED BY <1>2, <1>4, <1>5, <1>6

LEMMA KeptFacts ==
    ASSUME NEW c \in Table, NEW keep \in SUBSET InTable(c)
    PROVE  /\ Kept(c, keep) \in Table
           /\ Acquired(Kept(c, keep)) = Acquired(c) \cap keep
           /\ InTable(Kept(c, keep)) = keep
           /\ \A k \in keep : /\ Kept(c, keep)[k].owner = c[k].owner
                              /\ Kept(c, keep)[k].fence = c[k].fence
  BY DEF Kept, Table, CapacityRow, Acquired, InTable, NoRow

LEMMA GrantFacts ==
    ASSUME NEW c \in Table, NEW j \in Jobs, NEW limit \in 1..MaxLimit
    PROVE  /\ WithGrant(c, j, limit) \in Table
           /\ InTable(WithGrant(c, j, limit)) = InTable(c)
           /\ \A k \in Jobs : /\ WithGrant(c, j, limit)[k].owner = c[k].owner
                              /\ WithGrant(c, j, limit)[k].fence = c[k].fence
           /\ Acquired(WithGrant(c, j, limit)) \subseteq Acquired(c) \cup {j}
           /\ Acquired(WithGrant(c, j, limit)) # Acquired(c)
                => Cardinality(Acquired(c)) < limit
<1>1. CASE Granted(c, j, limit)
  <2> DEFINE g == [c EXCEPT ![j].acquired = TRUE]
  <2>1. WithGrant(c, j, limit) = g
    BY <1>1 DEF WithGrant
  <2>2. /\ g \in Table
        /\ \A k \in Jobs : g[k].owner = c[k].owner /\ g[k].fence = c[k].fence
        /\ \A k \in Jobs \ {j} : g[k] = c[k]
    <3>1. c[j] \in CapacityRow
      BY DEF Table
    <3>2. /\ [c[j] EXCEPT !.acquired = TRUE] \in CapacityRow
          /\ [c[j] EXCEPT !.acquired = TRUE].owner = c[j].owner
          /\ [c[j] EXCEPT !.acquired = TRUE].fence = c[j].fence
      BY <3>1 DEF CapacityRow
    <3>3. g[j] = [c[j] EXCEPT !.acquired = TRUE] /\ \A k \in Jobs \ {j} : g[k] = c[k]
      BY DEF Table
    <3>4. \A k \in Jobs : g[k].owner = c[k].owner /\ g[k].fence = c[k].fence
      BY <3>2, <3>3
    <3>5. g \in Table
      BY <3>2 DEF Table
    <3> QED BY <3>3, <3>4, <3>5
  <2> HIDE DEF g
  <2>3. InTable(g) = InTable(c)
    BY <2>2 DEF InTable
  <2>4. Acquired(g) \subseteq Acquired(c) \cup {j}
    BY <2>2 DEF Acquired
  <2>5. Cardinality(Acquired(c)) < limit
    BY <1>1 DEF Granted
  <2> QED BY <2>1, <2>2, <2>3, <2>4, <2>5
<1>2. CASE ~ Granted(c, j, limit)
  BY <1>2 DEF WithGrant
<1> QED BY <1>1, <1>2

(* One acquisition keeps the table well-formed and within the limit.       *)
LEMMA TryAcquireFacts ==
    ASSUME NEW c \in Table, Acquired(c) \subseteq InTable(c),
           Cardinality(Acquired(c)) <= MaxLimit,
           NEW l \in [Jobs -> Lease], NEW j \in Jobs, l[j].owner \in Owners, l[j].fence > 0,
           NEW seen \in SUBSET Jobs, j \in seen
    PROVE  LET r == TryAcquireResult(c, l, j, seen)
           IN /\ r \in Table
              /\ Acquired(r) \subseteq InTable(r)
              /\ Cardinality(Acquired(r)) <= MaxLimit
              /\ \A k \in InTable(r) : r[k].owner = l[k].owner /\ r[k].fence = l[k].fence
              /\ InTable(r) \subseteq InTable(c) \cup {j}
              /\ InTable(r) \subseteq seen
<1> DEFINE u == Upserted(c, j, l[j].owner, l[j].fence)
           keep == Backed(u, l, seen)
           p == Kept(u, keep)
           limit == LimitOf[l[j].owner]
           r == WithGrant(p, j, limit)
<1>1. l[j].fence \in Nat /\ limit \in 1..MaxLimit
  BY LimitAssumption DEF Lease
<1>2. /\ u \in Table /\ Acquired(u) = Acquired(c) /\ InTable(u) = InTable(c) \cup {j}
      /\ u[j].owner = l[j].owner /\ u[j].fence = l[j].fence
  BY <1>1, UpsertedFacts
<1>3. keep \in SUBSET InTable(u) /\ j \in keep /\ keep \subseteq seen
  BY <1>2 DEF Backed
<1> HIDE DEF u
<1>4. /\ p \in Table /\ Acquired(p) = Acquired(u) \cap keep /\ InTable(p) = keep
      /\ \A k \in keep : p[k].owner = u[k].owner /\ p[k].fence = u[k].fence
  BY <1>2, <1>3, KeptFacts
<1>5. \A k \in keep : p[k].owner = l[k].owner /\ p[k].fence = l[k].fence
  BY <1>4 DEF Backed
<1> HIDE DEF keep, p, limit
<1>6. /\ r \in Table /\ InTable(r) = InTable(p)
      /\ \A k \in Jobs : r[k].owner = p[k].owner /\ r[k].fence = p[k].fence
      /\ Acquired(r) \subseteq Acquired(p) \cup {j}
      /\ Acquired(r) # Acquired(p) => Cardinality(Acquired(p)) < limit
  BY <1>1, <1>4, GrantFacts, ZenonT(40)
<1> HIDE DEF r
<1>7. Cardinality(Acquired(r)) <= MaxLimit
  <2>1. IsFiniteSet(Acquired(c)) /\ Acquired(p) \subseteq Acquired(c)
    <3>1. Acquired(c) \subseteq Jobs
      BY DEF Acquired
    <3> QED BY <1>2, <1>4, <3>1, JobsAssumption, FS_Subset
  <2>2. /\ IsFiniteSet(Acquired(p))
        /\ Cardinality(Acquired(p)) \in Nat
        /\ Cardinality(Acquired(p)) <= Cardinality(Acquired(c))
    BY <2>1, FS_Subset, FS_CardinalityType
  <2>3. Cardinality(Acquired(c)) \in Nat
    BY <2>1, FS_CardinalityType
  <2>4. CASE Acquired(r) = Acquired(p)
    <3>1. Cardinality(Acquired(r)) = Cardinality(Acquired(p))
      BY <2>4
    <3> QED BY <2>2, <2>3, <3>1, LimitAssumption
  <2>5. CASE Acquired(r) # Acquired(p)
    <3>1. /\ IsFiniteSet(Acquired(p) \cup {j})
          /\ Cardinality(Acquired(p) \cup {j}) <= Cardinality(Acquired(p)) + 1
      <4> DEFINE a == Acquired(p)
      <4>1. IsFiniteSet(a) /\ Cardinality(a) \in Nat
        BY <2>2
      <4> HIDE DEF a
      <4>2. /\ IsFiniteSet(a \cup {j})
            /\ \/ Cardinality(a \cup {j}) = Cardinality(a)
               \/ Cardinality(a \cup {j}) = Cardinality(a) + 1
        BY <4>1, FS_AddElement
      <4>3. Cardinality(a \cup {j}) <= Cardinality(a) + 1
        BY <4>1, <4>2
      <4> QED BY <4>2, <4>3 DEF a
    <3>2. /\ Cardinality(Acquired(r)) <= Cardinality(Acquired(p) \cup {j})
          /\ Cardinality(Acquired(r)) \in Nat
          /\ Cardinality(Acquired(p) \cup {j}) \in Nat
      BY <1>6, <3>1, FS_Subset, FS_CardinalityType
    <3> QED BY <1>1, <1>6, <2>2, <2>5, <3>1, <3>2, LimitAssumption
  <2> QED BY <2>4, <2>5
<1>8. Acquired(r) \subseteq InTable(r)
  BY <1>2, <1>3, <1>4, <1>6
<1>9. \A k \in InTable(r) : k \in keep /\ k \in Jobs
  BY <1>4, <1>6 DEF InTable
<1>10. r = TryAcquireResult(c, l, j, seen)
  BY DEF r, p, keep, u, limit, TryAcquireResult, Purged
<1>11. \A k \in InTable(r) : r[k].owner = l[k].owner /\ r[k].fence = l[k].fence
  BY <1>5, <1>6, <1>9
<1>12. InTable(r) \subseteq InTable(c) \cup {j}
  BY <1>2, <1>3, <1>4, <1>6
<1>13. r \in Table /\ InTable(r) \subseteq seen
  BY <1>3, <1>4, <1>6
<1> HIDE DEF Table
<1> QED
  BY <1>7, <1>8, <1>10, <1>11, <1>12, <1>13

(* The transaction of an acquisition by record i passes no earlier waiter  *)
(* it sees as backed: whoever it grants the slot to, it is not k.          *)
LEMMA EarlierWaiterStands ==
    ASSUME NEW c \in Table, Acquired(c) \subseteq InTable(c),
           NEW l \in [Jobs -> Lease], NEW i \in Jobs, l[i].owner \in Owners, l[i].fence > 0,
           NEW seen \in SUBSET Jobs, i \in seen,
           NEW k \in Waiting(c), NEW j \in Waiting(c), j \in c[k].ahead,
           c[j].owner = l[j].owner, c[j].fence = l[j].fence, j \in seen
    PROVE  ~ TryAcquireResult(c, l, i, seen)[k].acquired
<1> DEFINE u == Upserted(c, i, l[i].owner, l[i].fence)
           keep == Backed(u, l, seen)
           p == Kept(u, keep)
           limit == LimitOf[l[i].owner]
<1>1. TryAcquireResult(c, l, i, seen) = WithGrant(p, i, limit)
  BY DEF TryAcquireResult, Purged
<1>2. /\ k \in Jobs /\ j \in Jobs /\ k \in InTable(c) /\ j \in InTable(c)
      /\ c[k] \in CapacityRow /\ c[j] \in CapacityRow /\ ~ c[k].acquired /\ ~ c[j].acquired
  BY DEF Waiting, InTable, Acquired, Table
<1>3. /\ u \in Table /\ InTable(u) = InTable(c) \cup {i} /\ Acquired(u) = Acquired(c)
      /\ u[i].owner = l[i].owner /\ u[i].fence = l[i].fence
      /\ \A n \in Jobs \ {i} : u[n] = c[n]
  <2>1. l[i].fence \in Nat
    BY DEF Lease
  <2>. QED BY <2>1, UpsertedFacts
<1>4. ~ u[k].acquired /\ ~ u[j].acquired /\ u[k].ahead = c[k].ahead
  <2>1. ASSUME NEW n \in {k, j} PROVE ~ u[n].acquired /\ u[n].ahead = c[n].ahead
    <3>1. CASE n = i
      <4>1. u[i] = [c[i] EXCEPT !.owner = l[i].owner, !.fence = l[i].fence]
        BY <1>2, <2>1, <3>1 DEF Upserted, Table
      <4>. QED BY <1>2, <2>1, <3>1, <4>1 DEF CapacityRow
    <3>2. CASE n # i
      BY <1>2, <1>3, <2>1, <3>2
    <3>. QED BY <3>1, <3>2
  <2>. QED BY <2>1
<1>5. j \in keep /\ keep \subseteq Jobs
  <2>1. u[j].owner = l[j].owner /\ u[j].fence = l[j].fence
    BY <1>2, <1>3
  <2>. QED BY <1>2, <1>3, <2>1 DEF Backed, InTable
<1> HIDE DEF u, keep
<1>6. ~ p[k].acquired /\ ~ p[j].acquired /\ j \in InTable(p) /\ (k \in keep => j \in p[k].ahead)
  <2>1. u[k] \in CapacityRow /\ u[j] \in CapacityRow
    BY <1>2, <1>3 DEF Table
  <2>2. /\ p[j] = [u[j] EXCEPT !.ahead = @ \cap keep]
        /\ p[k] = IF k \in keep THEN [u[k] EXCEPT !.ahead = @ \cap keep] ELSE NoRow
    BY <1>2, <1>5 DEF Kept
  <2>3. ~ p[j].acquired /\ p[j].fence = u[j].fence
    BY <1>4, <2>1, <2>2 DEF CapacityRow
  <2>4. u[j].fence > 0
    <3>1. j \in InTable(u)
      BY <1>2, <1>3
    <3>. QED BY <3>1 DEF InTable
  <2>5. ~ p[k].acquired /\ (k \in keep => j \in p[k].ahead)
    BY <1>4, <1>5, <2>1, <2>2 DEF CapacityRow, NoRow
  <2>. QED BY <1>2, <2>3, <2>4, <2>5 DEF InTable
<1>7. keep \in SUBSET InTable(u)
  BY DEF keep, Backed
<1>8. p \in Table /\ InTable(p) = keep
  BY <1>3, <1>7, KeptFacts
<1> HIDE DEF p, limit
<1>9. CASE Granted(p, i, limit)
  <2>1. WithGrant(p, i, limit) = [p EXCEPT ![i].acquired = TRUE]
    BY <1>9 DEF WithGrant
  <2>2. k # i
    <3>1. SUFFICES ASSUME k = i PROVE FALSE
      OBVIOUS
    <3>2. p[k].ahead \cap Waiting(p) = {}
      BY <1>9, <3>1 DEF Granted
    <3>3. j \in Waiting(p)
      BY <1>6 DEF Waiting, Acquired
    <3>4. k \in keep
      <4>1. i \in InTable(u) /\ u[i].owner = l[i].owner /\ u[i].fence = l[i].fence
        BY <1>3
      <4>. QED BY <3>1, <4>1 DEF keep, Backed
    <3>. QED BY <1>6, <3>2, <3>3, <3>4
  <2>. QED BY <1>1, <1>2, <1>6, <1>8, <2>1, <2>2 DEF Table
<1>10. CASE ~ Granted(p, i, limit)
  BY <1>1, <1>6, <1>10 DEF WithGrant
<1>. QED BY <1>9, <1>10

-----------------------------------------------------------------------------
(* Facts about one record that every step below reads.                     *)

LEMMA RowTypes ==
    ASSUME TypeOK, NEW j \in Jobs
    PROVE  /\ records[j] \in Record \cup {NoRecord}
           /\ leases[j].owner \in Owners \cup {NoOwner}
           /\ leases[j].fence \in Nat
           /\ leases[j].live \in BOOLEAN
           /\ capacity[j] \in CapacityRow
           /\ capacity[j].fence \in Nat
           /\ issued[j] \in Seq(Owners)
           /\ lastSaver[j] \in Nat
  BY DEF TypeOK, Lease, CapacityRow

(* A transaction sees as live only records whose lease has an owner.       *)
LEMMA ViewFacts ==
    ASSUME TypeOK, LeaseHistory, NEW seen \in Views
    PROVE  /\ seen \in SUBSET Jobs
           /\ \A j \in seen : leases[j].owner \in Owners /\ leases[j].fence > 0
<1>1. seen \in SUBSET Jobs /\ \A j \in seen : leases[j].owner # NoOwner
  <2>1. CASE StaleClock
    BY <2>1 DEF Views
  <2>2. CASE ~ StaleClock
    BY <2>2 DEF Views, Live, LeaseHistory
  <2> QED BY <2>1, <2>2
<1> QED BY <1>1, RowTypes DEF LeaseHistory

LEMMA LogFacts == ASSUME NEW log \in Logs PROVE log \in Seq(EventTypes)
<1>1. PICK n \in 1..MaxEvents : log \in [1..n -> EventTypes]
  BY DEF Logs
<1>2. n \in Nat
  BY BoundsAssumption
<1> QED BY <1>1, <1>2

-----------------------------------------------------------------------------
(* One lemma per method.                                                   *)

LEMMA InitEstablishes == StoreInit => IInv
<1> SUFFICES ASSUME StoreInit PROVE IInv
  OBVIOUS
<1>1. TypeOK
  BY DEF StoreInit, TypeOK, NoLease, Lease, NoRow, CapacityRow
<1>2. InTable(capacity) = {} /\ Acquired(capacity) = {}
  BY DEF StoreInit, InTable, Acquired, NoRow
<1>3. CapacityBound
  BY <1>2, FS_EmptySet, LimitAssumption DEF CapacityBound
<1>4. LeaseHistory
  BY DEF StoreInit, LeaseHistory, NoLease
<1>5. NothingBeforeAdmission /\ SaverBehindFence /\ CancellationExcludesSuccess
  BY DEF StoreInit, NothingBeforeAdmission, SaverBehindFence,
         CancellationExcludesSuccess, NoRow, NoLease, NoRecord
<1>6. SlotsAreRows /\ RowsNameIssuedLeases
  BY <1>2 DEF SlotsAreRows, RowsNameIssuedLeases
<1> QED BY <1>1, <1>3, <1>4, <1>5, <1>6 DEF IInv

(* A method that only renews, releases or lets expire one lease, without   *)
(* raising its fence, disturbs neither the rows nor the history.           *)
LEMMA LeaseOnlyPreserves ==
    ASSUME IInv, NEW j \in Jobs, NEW row \in Lease, j \in Stored,
           leases' = [leases EXCEPT ![j] = row],
           row.fence = leases[j].fence,
           row.owner \in {leases[j].owner, NoOwner},
           row.live => row.owner # NoOwner,
           UNCHANGED <<records, keys, capacity, cancellations, issued, lastSaver>>
    PROVE  IInv'
<1>1. TypeOK'
  BY DEF IInv, TypeOK
<1>2. /\ leases'[j] = row
      /\ \A k \in Jobs : k # j => leases'[k] = leases[k]
      /\ \A k \in Jobs : leases'[k].fence = leases[k].fence
  BY DEF IInv, TypeOK
<1>3. LeaseHistory'
  BY <1>2 DEF IInv, LeaseHistory
<1>4. NothingBeforeAdmission'
  BY <1>2 DEF IInv, NothingBeforeAdmission, Stored
<1>5. (SlotsAreRows /\ CapacityBound)'
  BY DEF IInv, SlotsAreRows, CapacityBound, Acquired, InTable
<1>6. RowsNameIssuedLeases'
  BY <1>2 DEF IInv, RowsNameIssuedLeases, InTable
<1>7. (CancellationExcludesSuccess /\ SaverBehindFence)'
  BY <1>2 DEF IInv, CancellationExcludesSuccess, SaverBehindFence
<1> QED BY <1>1, <1>3, <1>4, <1>5, <1>6, <1>7 DEF IInv

LEMMA CreatePreserves ==
    ASSUME IInv, NEW j \in Jobs, NEW st \in ImportStatuses, NEW d \in Payloads,
           NEW log \in Logs, Create(j, st, d, log)
    PROVE  IInv'
<1> DEFINE new == [status |-> st, data |-> d, revision |-> 1, events |-> log]
<1>1. new \in Record
  BY LogFacts, ImportAssumption DEF Record, Statuses, Terminal
<1> HIDE DEF new
<1>2. records' = [records EXCEPT ![j] = new]
  BY DEF Create, new
<1>3. TypeOK'
  BY <1>1, <1>2 DEF IInv, TypeOK, Create
<1>4. UNCHANGED <<leases, capacity, cancellations, issued, lastSaver>>
  BY DEF Create
<1>5. LeaseHistory' /\ SaverBehindFence'
  BY <1>4 DEF IInv, LeaseHistory, SaverBehindFence
<1>6. \A k \in Jobs : k # j => records'[k] = records[k]
  BY <1>2 DEF IInv, TypeOK
<1>7. records'[j] # NoRecord
  BY <1>1, <1>2 DEF IInv, TypeOK, Record, NoRecord
<1>8. NothingBeforeAdmission'
  BY <1>4, <1>6, <1>7 DEF IInv, NothingBeforeAdmission, Stored
<1>9. (SlotsAreRows /\ CapacityBound /\ RowsNameIssuedLeases)'
  BY <1>4 DEF IInv, SlotsAreRows, CapacityBound, Acquired, InTable, RowsNameIssuedLeases
<1>10. CancellationExcludesSuccess'
  <2>1. cancellations[j] = NoSource
    BY DEF Create, IInv, NothingBeforeAdmission
  <2> QED BY <1>4, <1>6, <2>1 DEF IInv, CancellationExcludesSuccess
<1> QED BY <1>3, <1>5, <1>8, <1>9, <1>10 DEF IInv

LEMMA AdmitPreserves ==
    ASSUME IInv, NEW j \in Jobs, NEW o \in Owners, NEW k \in Keys \cup {NoKey},
           NEW h \in Hashes, NEW d \in Payloads, NEW log \in Seq(EventTypes),
           NEW seen \in Views, Admit(j, o, k, h, d, log, seen)
    PROVE  IInv'
<1> DEFINE new == [status |-> "queued", data |-> d, revision |-> 1, events |-> log]
           lease == [owner |-> o, fence |-> 1, live |-> TRUE]
<1>1. new \in Record /\ lease \in Lease
  BY DEF Record, Statuses, Lease
<1>2. /\ new.status # "succeeded" /\ new # NoRecord
      /\ lease.owner = o /\ lease.fence = 1 /\ lease.live
  BY DEF NoRecord
<1> HIDE DEF new, lease
<1>3. /\ records' = [records EXCEPT ![j] = new]
      /\ leases' = [leases EXCEPT ![j] = lease]
      /\ issued' = [issued EXCEPT ![j] = <<o>>]
      /\ capacity' = TryAcquireResult(capacity, leases', j, seen \cup {j})
      /\ UNCHANGED <<cancellations, lastSaver>>
  BY DEF Admit, new, lease
<1>4. j \notin Stored
  BY DEF Admit
<1>5. /\ records'[j] = new /\ leases'[j] = lease /\ issued'[j] = <<o>>
      /\ \A i \in Jobs : i # j => /\ records'[i] = records[i]
                                  /\ leases'[i] = leases[i]
                                  /\ issued'[i] = issued[i]
  BY <1>3 DEF IInv, TypeOK
<1>6. leases' \in [Jobs -> Lease]
  BY <1>1, <1>3 DEF IInv, TypeOK
<1>7. /\ capacity' \in Table
      /\ Acquired(capacity') \subseteq InTable(capacity')
      /\ Cardinality(Acquired(capacity')) <= MaxLimit
      /\ \A i \in InTable(capacity') : /\ capacity'[i].owner = leases'[i].owner
                                       /\ capacity'[i].fence = leases'[i].fence
      /\ InTable(capacity') \subseteq InTable(capacity) \cup {j}
      /\ InTable(capacity') \subseteq seen \cup {j}
  <2>1. /\ capacity \in Table /\ Acquired(capacity) \subseteq InTable(capacity)
        /\ Cardinality(Acquired(capacity)) <= MaxLimit
    BY DEF IInv, TypeOK, Table, SlotsAreRows, CapacityBound
  <2>2. seen \cup {j} \in SUBSET Jobs /\ j \in seen \cup {j}
    BY ViewFacts DEF IInv
  <2>3. leases'[j].owner \in Owners /\ leases'[j].fence > 0
    BY <1>2, <1>5
  <2> DEFINE l == leases'
             view == seen \cup {j}
             r == TryAcquireResult(capacity, l, j, view)
  <2> HIDE DEF l, view, Table
  <2>4. /\ r \in Table
        /\ Acquired(r) \subseteq InTable(r)
        /\ Cardinality(Acquired(r)) <= MaxLimit
        /\ \A i \in InTable(r) : r[i].owner = l[i].owner /\ r[i].fence = l[i].fence
        /\ InTable(r) \subseteq InTable(capacity) \cup {j}
        /\ InTable(r) \subseteq view
    BY <1>6, <2>1, <2>2, <2>3, TryAcquireFacts DEF l, view
  <2>5. capacity' = r
    BY <1>3 DEF l, view
  <2> HIDE DEF r
  <2> QED BY <2>4, <2>5 DEF l, view
<1>8. keys' \in [Keys -> Binding \cup {NoBinding}]
  <2>1. CASE k = NoKey
    BY <2>1 DEF Admit, IInv, TypeOK
  <2>2. CASE k # NoKey
    <3>1. [hash |-> h, job |-> j] \in Binding
      BY DEF Binding
    <3> HIDE DEF Binding
    <3> QED BY <2>2, <3>1 DEF Admit, IInv, TypeOK
  <2> QED BY <2>1, <2>2
<1>9. TypeOK'
  <2>1. records' \in [Jobs -> Record \cup {NoRecord}]
    BY <1>1, <1>3 DEF IInv, TypeOK
  <2>2. issued' \in [Jobs -> Seq(Owners)]
    BY <1>3 DEF IInv, TypeOK
  <2> QED BY <1>3, <1>6, <1>7, <1>8, <2>1, <2>2 DEF IInv, TypeOK, Table
<1>10. LeaseHistory'
  <2>1. \A i \in Jobs : i # j =>
          /\ Len(issued'[i]) = leases'[i].fence
          /\ leases'[i].owner # NoOwner =>
                 leases'[i].fence > 0 /\ leases'[i].owner = issued'[i][leases'[i].fence]
          /\ leases'[i].live => leases'[i].owner # NoOwner
    BY <1>5 DEF IInv, LeaseHistory
  <2>2. Len(issued'[j]) = 1 /\ issued'[j][1] = o /\ o # NoOwner
    BY <1>5, OwnersAssumption
  <2>3. /\ Len(issued'[j]) = leases'[j].fence
        /\ leases'[j].fence > 0
        /\ leases'[j].owner # NoOwner
        /\ leases'[j].owner = issued'[j][leases'[j].fence]
    BY <1>2, <1>5, <2>2
  <2> QED BY <2>1, <2>3 DEF LeaseHistory
<1>11. NothingBeforeAdmission'
  <2> SUFFICES ASSUME NEW i \in Jobs, records'[i] = NoRecord
               PROVE  /\ leases'[i] = NoLease /\ cancellations'[i] = NoSource
                      /\ capacity'[i].fence = 0 /\ lastSaver'[i] = 0
    BY DEF NothingBeforeAdmission, Stored
  <2>1. i # j
    BY <1>2, <1>5
  <2>2. i \notin Stored
    BY <1>5, <2>1 DEF Stored
  <2>3. capacity'[i].fence \in Nat /\ i \notin InTable(capacity')
    BY <1>7, <2>1, <2>2 DEF IInv, NothingBeforeAdmission, InTable, Table, CapacityRow
  <2> QED BY <1>3, <1>5, <2>1, <2>2, <2>3 DEF IInv, NothingBeforeAdmission, InTable
<1>12. SlotsAreRows' /\ CapacityBound'
  BY <1>7 DEF SlotsAreRows, CapacityBound
<1>13. RowsNameIssuedLeases'
  <2> SUFFICES ASSUME NEW i \in InTable(capacity')
               PROVE  /\ capacity'[i].fence <= leases'[i].fence
                      /\ capacity'[i].owner = issued'[i][capacity'[i].fence]
    BY DEF RowsNameIssuedLeases
  <2>1. i \in Jobs /\ leases'[i].fence \in Nat
    BY <1>6 DEF InTable, Lease
  <2>2. leases'[i].owner # NoOwner
    <3>1. CASE i = j
      BY <1>2, <1>5, <3>1, OwnersAssumption
    <3>2. CASE i # j
      <4>1. i \in seen
        BY <1>7, <3>2
      <4> QED BY <1>5, <3>2, <4>1, <2>1, ViewFacts, OwnersAssumption DEF IInv
    <3> QED BY <3>1, <3>2
  <2> QED BY <1>7, <1>10, <2>1, <2>2 DEF LeaseHistory
<1>14. CancellationExcludesSuccess' /\ SaverBehindFence'
  <2>1. lastSaver[j] = 0
    BY <1>4 DEF IInv, NothingBeforeAdmission
  <2> QED BY <1>2, <1>3, <1>5, <2>1 DEF IInv, CancellationExcludesSuccess, SaverBehindFence
<1> QED BY <1>9, <1>10, <1>11, <1>12, <1>13, <1>14 DEF IInv

LEMMA LeaseMethodsPreserve ==
    ASSUME IInv, NEW j \in Jobs,
           \/ \E o \in Owners, seen \in Views : ClaimOwn(j, o, seen)
           \/ \E f \in Handles(j), seen \in Views : RenewLease(j, f, seen)
           \/ \E f \in Handles(j) : ReleaseLease(j, f)
           \/ Expire(j)
    PROVE  IInv'
<1>1. leases[j] \in Lease /\ leases \in [Jobs -> Lease]
  BY DEF IInv, TypeOK
<1>2. leases[j].owner # NoOwner => j \in Stored
  BY DEF IInv, NothingBeforeAdmission, NoLease
<1>3. CASE \/ \E o \in Owners, seen \in Views : ClaimOwn(j, o, seen)
           \/ \E f \in Handles(j), seen \in Views : RenewLease(j, f, seen)
  <2> DEFINE row == [leases[j] EXCEPT !.live = TRUE]
  <2>1. /\ leases' = [leases EXCEPT ![j] = row]
        /\ UNCHANGED <<records, keys, capacity, cancellations, issued, lastSaver>>
    BY <1>3 DEF ClaimOwn, RenewLease
  <2>2. \E seen \in Views : j \in seen
    BY <1>3 DEF ClaimOwn, RenewLease
  <2>3. leases[j].owner # NoOwner
    BY <2>2, ViewFacts, OwnersAssumption DEF IInv
  <2>4. row \in Lease /\ row.fence = leases[j].fence /\ row.owner = leases[j].owner
    BY <1>1 DEF Lease
  <2> HIDE DEF row
  <2> QED BY <1>2, <2>1, <2>3, <2>4, LeaseOnlyPreserves
<1>4. CASE \E f \in Handles(j) : ReleaseLease(j, f)
  <2> DEFINE row == [owner |-> NoOwner, fence |-> leases[j].fence, live |-> FALSE]
  <2>1. PICK f \in Handles(j) : ReleaseLease(j, f)
    BY <1>4
  <2>2. /\ leases' = [leases EXCEPT ![j] = row]
        /\ UNCHANGED <<records, keys, capacity, cancellations, issued, lastSaver>>
    BY <2>1 DEF ReleaseLease
  <2>3. leases[j].fence > 0 /\ leases[j].fence \in Nat
    BY <1>1, <2>1 DEF Handles, Lease
  <2>4. j \in Stored
    BY <2>3 DEF IInv, NothingBeforeAdmission, NoLease
  <2>5. /\ row \in Lease /\ row.fence = leases[j].fence
        /\ row.owner = NoOwner /\ ~ row.live
    BY <2>3 DEF Lease
  <2> HIDE DEF row
  <2> QED BY <2>2, <2>4, <2>5, LeaseOnlyPreserves
<1>5. CASE Expire(j)
  <2> DEFINE row == [leases[j] EXCEPT !.live = FALSE]
  <2>1. /\ leases' = [leases EXCEPT ![j] = row]
        /\ UNCHANGED <<records, keys, capacity, cancellations, issued, lastSaver>>
    BY <1>5 DEF Expire
  <2>2. leases[j].owner # NoOwner
    BY <1>5 DEF Expire, IInv, LeaseHistory
  <2>3. /\ row \in Lease /\ row.fence = leases[j].fence
        /\ row.owner = leases[j].owner /\ ~ row.live
    BY <1>1 DEF Lease
  <2> HIDE DEF row
  <2> QED BY <1>2, <2>1, <2>2, <2>3, LeaseOnlyPreserves
<1> QED BY <1>3, <1>4, <1>5

LEMMA ClaimFreePreserves ==
    ASSUME IInv, NEW j \in Jobs, NEW o \in Owners, NEW seen \in Views,
           ClaimFree(j, o, seen)
    PROVE  IInv'
<1> DEFINE f == leases[j].fence + 1
           lease == [owner |-> o, fence |-> f, live |-> TRUE]
           moved == /\ capacity[j].fence > 0
                    /\ capacity[j].owner = leases[j].owner
                    /\ capacity[j].fence = leases[j].fence
<1>1. /\ leases[j].fence \in Nat /\ f \in Nat /\ f > 0 /\ f > leases[j].fence
      /\ lease \in Lease /\ lease.owner = o /\ lease.fence = f
      /\ o # NoOwner
  BY OwnersAssumption, RowTypes DEF IInv, Lease
<1>2. /\ leases' = [leases EXCEPT ![j] = lease]
      /\ issued' = [issued EXCEPT ![j] = Append(@, o)]
      /\ capacity' = IF moved THEN [capacity EXCEPT ![j].owner = o, ![j].fence = f]
                              ELSE capacity
      /\ UNCHANGED <<records, keys, cancellations, lastSaver>>
      /\ j \in Stored
  BY DEF ClaimFree, Transferred
<1> HIDE DEF lease, f, moved
<1>3. /\ leases'[j] = lease /\ issued'[j] = Append(issued[j], o)
      /\ \A i \in Jobs : i # j => leases'[i] = leases[i] /\ issued'[i] = issued[i]
  BY <1>2 DEF IInv, TypeOK
<1>4. /\ issued[j] \in Seq(Owners) /\ Len(issued[j]) = leases[j].fence
      /\ Len(issued'[j]) = f /\ issued'[j][f] = o /\ issued'[j] \in Seq(Owners)
      /\ \A n \in 1..leases[j].fence : issued'[j][n] = issued[j][n]
  <2>1. issued[j] \in Seq(Owners) /\ Len(issued[j]) = leases[j].fence
    BY RowTypes DEF IInv, LeaseHistory
  <2> QED BY <1>1, <1>3, <2>1, AppendProperties DEF f
<1>5. /\ capacity' \in Table
      /\ Acquired(capacity') = Acquired(capacity)
      /\ InTable(capacity') = InTable(capacity)
      /\ \A i \in Jobs : i # j => capacity'[i] = capacity[i]
      /\ \/ capacity'[j] = capacity[j]
         \/ capacity'[j].owner = o /\ capacity'[j].fence = f
  <2>1. CASE ~ moved
    BY <1>2, <2>1 DEF IInv, TypeOK, Table
  <2>2. CASE moved
    <3> DEFINE row == [capacity[j] EXCEPT !.owner = o, !.fence = f]
    <3>1. capacity[j] \in CapacityRow /\ capacity \in [Jobs -> CapacityRow]
      BY DEF IInv, TypeOK
    <3>2. /\ row \in CapacityRow /\ row.owner = o /\ row.fence = f
          /\ row.acquired <=> capacity[j].acquired
      BY <1>1, <3>1 DEF CapacityRow
    <3>3. capacity' = [capacity EXCEPT ![j] = row]
      BY <1>2, <2>2
    <3> HIDE DEF row
    <3>4. capacity'[j] = row /\ \A i \in Jobs : i # j => capacity'[i] = capacity[i]
      BY <3>1, <3>3
    <3>5. Acquired(capacity') = Acquired(capacity)
      BY <3>2, <3>4 DEF Acquired
    <3>6. InTable(capacity') = InTable(capacity)
      BY <1>1, <2>2, <3>2, <3>4 DEF InTable, moved
    <3>7. capacity' \in Table
      BY <3>1, <3>2, <3>3 DEF Table
    <3> QED BY <3>2, <3>4, <3>5, <3>6, <3>7
  <2> QED BY <2>1, <2>2
<1>6. TypeOK'
  <2>1. leases' \in [Jobs -> Lease]
    BY <1>1, <1>2 DEF IInv, TypeOK
  <2>2. issued' \in [Jobs -> Seq(Owners)]
    BY <1>2, <1>3, <1>4 DEF IInv, TypeOK
  <2> QED BY <1>2, <1>5, <2>1, <2>2 DEF IInv, TypeOK, Table
<1>7. LeaseHistory'
  <2>1. \A i \in Jobs : i # j =>
          /\ Len(issued'[i]) = leases'[i].fence
          /\ leases'[i].owner # NoOwner =>
                 leases'[i].fence > 0 /\ leases'[i].owner = issued'[i][leases'[i].fence]
          /\ leases'[i].live => leases'[i].owner # NoOwner
    BY <1>3 DEF IInv, LeaseHistory
  <2> QED BY <1>1, <1>3, <1>4, <2>1 DEF LeaseHistory
<1>8. NothingBeforeAdmission'
  BY <1>2, <1>3, <1>5 DEF IInv, NothingBeforeAdmission, Stored
<1>9. SlotsAreRows' /\ CapacityBound'
  BY <1>5 DEF IInv, SlotsAreRows, CapacityBound
<1>10. RowsNameIssuedLeases'
  <2> SUFFICES ASSUME NEW i \in InTable(capacity')
               PROVE  /\ capacity'[i].fence <= leases'[i].fence
                      /\ capacity'[i].owner = issued'[i][capacity'[i].fence]
    BY DEF RowsNameIssuedLeases
  <2>1. i \in InTable(capacity) /\ i \in Jobs
    BY <1>5 DEF InTable
  <2>2. capacity[i].fence \in Nat /\ capacity[i].fence > 0
    BY <2>1, RowTypes DEF IInv, InTable
  <2>3. /\ capacity[i].fence <= leases[i].fence
        /\ capacity[i].owner = issued[i][capacity[i].fence]
    BY <2>1 DEF IInv, RowsNameIssuedLeases
  <2>4. CASE i # j
    BY <1>3, <1>5, <2>1, <2>3, <2>4
  <2>5. CASE i = j /\ capacity'[j] = capacity[j]
    <3>1. capacity[j].fence \in 1..leases[j].fence
      BY <1>1, <2>2, <2>3, <2>5
    <3> QED BY <1>1, <1>3, <1>4, <2>2, <2>3, <2>5, <3>1
  <2>6. CASE i = j /\ capacity'[j].owner = o /\ capacity'[j].fence = f
    BY <1>1, <1>3, <1>4, <2>6
  <2> QED BY <1>5, <2>4, <2>5, <2>6
<1>11. CancellationExcludesSuccess'
  BY <1>2 DEF IInv, CancellationExcludesSuccess
<1>12. SaverBehindFence'
  <2> SUFFICES ASSUME NEW i \in Jobs PROVE lastSaver'[i] <= leases'[i].fence
    BY DEF SaverBehindFence
  <2>1. lastSaver[i] <= leases[i].fence /\ lastSaver[i] \in Nat /\ leases[i].fence \in Nat
    BY RowTypes DEF IInv, SaverBehindFence
  <2> QED BY <1>1, <1>2, <1>3, <2>1
<1> QED BY <1>6, <1>7, <1>8, <1>9, <1>10, <1>11, <1>12 DEF IInv

LEMMA TryAcquirePreserves ==
    ASSUME IInv, NEW j \in Jobs, NEW f \in Handles(j), NEW seen \in Views,
           TryAcquireCapacity(j, f, seen)
    PROVE  IInv'
<1>1. /\ j \in seen /\ capacity' = TryAcquireResult(capacity, leases, j, seen)
      /\ UNCHANGED <<records, keys, leases, cancellations, issued, lastSaver>>
  BY DEF TryAcquireCapacity
<1>2. /\ seen \in SUBSET Jobs
      /\ \A i \in seen : leases[i].owner \in Owners /\ leases[i].fence > 0
  BY ViewFacts DEF IInv
<1> DEFINE r == TryAcquireResult(capacity, leases, j, seen)
<1>3. /\ r \in Table
      /\ Acquired(r) \subseteq InTable(r)
      /\ Cardinality(Acquired(r)) <= MaxLimit
      /\ \A i \in InTable(r) : r[i].owner = leases[i].owner /\ r[i].fence = leases[i].fence
      /\ InTable(r) \subseteq InTable(capacity) \cup {j}
      /\ InTable(r) \subseteq seen
  <2>1. /\ capacity \in Table /\ Acquired(capacity) \subseteq InTable(capacity)
        /\ Cardinality(Acquired(capacity)) <= MaxLimit
        /\ leases \in [Jobs -> Lease]
    BY DEF IInv, TypeOK, Table, SlotsAreRows, CapacityBound
  <2> HIDE DEF Table
  <2> QED BY <1>1, <1>2, <2>1, TryAcquireFacts
<1> HIDE DEF r
<1>4. capacity' = r
  BY <1>1 DEF r
<1>5. TypeOK'
  BY <1>1, <1>3, <1>4 DEF IInv, TypeOK, Table
<1>6. LeaseHistory' /\ SaverBehindFence' /\ CancellationExcludesSuccess'
  BY <1>1 DEF IInv, LeaseHistory, SaverBehindFence, CancellationExcludesSuccess
<1>7. NothingBeforeAdmission'
  <2> SUFFICES ASSUME NEW i \in Jobs, i \notin Stored
               PROVE  /\ leases[i] = NoLease /\ cancellations[i] = NoSource
                      /\ r[i].fence = 0 /\ lastSaver[i] = 0
    BY <1>1, <1>4 DEF NothingBeforeAdmission, Stored
  <2>1. leases[i] = NoLease
    BY DEF IInv, NothingBeforeAdmission
  <2>2. i \notin InTable(r)
    BY <1>2, <1>3, <2>1 DEF NoLease
  <2> QED BY <1>3, <2>2 DEF IInv, NothingBeforeAdmission, InTable, Table, CapacityRow
<1>8. SlotsAreRows' /\ CapacityBound'
  BY <1>3, <1>4 DEF SlotsAreRows, CapacityBound
<1>9. RowsNameIssuedLeases'
  <2> SUFFICES ASSUME NEW i \in InTable(r)
               PROVE  /\ r[i].fence <= leases[i].fence
                      /\ r[i].owner = issued[i][r[i].fence]
    BY <1>1, <1>4 DEF RowsNameIssuedLeases
  <2>1. i \in Jobs /\ leases[i].owner # NoOwner /\ leases[i].fence \in Nat
    BY <1>2, <1>3, OwnersAssumption, RowTypes DEF IInv
  <2> QED BY <1>3, <2>1 DEF IInv, LeaseHistory
<1> QED BY <1>5, <1>6, <1>7, <1>8, <1>9 DEF IInv

LEMMA ReleaseCapacityPreserves ==
    ASSUME IInv, NEW j \in Jobs, NEW f \in Handles(j), ReleaseCapacity(j, f)
    PROVE  IInv'
<1> DEFINE keep == InTable(capacity) \ {j}
           r == Kept(capacity, keep)
<1>1. /\ r \in Table
      /\ Acquired(r) = Acquired(capacity) \cap keep
      /\ InTable(r) = keep
      /\ \A i \in keep : r[i].owner = capacity[i].owner /\ r[i].fence = capacity[i].fence
  <2>1. capacity \in Table /\ keep \in SUBSET InTable(capacity)
    BY DEF IInv, TypeOK, Table
  <2> HIDE DEF keep
  <2> QED BY <2>1, KeptFacts
<1>2. /\ capacity' = r
      /\ UNCHANGED <<records, keys, leases, cancellations, issued, lastSaver>>
  BY DEF ReleaseCapacity
<1>3. keep \subseteq InTable(capacity)
  OBVIOUS
<1> HIDE DEF keep, r
<1>4. TypeOK'
  BY <1>1, <1>2 DEF IInv, TypeOK, Table
<1>5. LeaseHistory' /\ SaverBehindFence' /\ CancellationExcludesSuccess'
  BY <1>2 DEF IInv, LeaseHistory, SaverBehindFence, CancellationExcludesSuccess
<1>6. NothingBeforeAdmission'
  <2> SUFFICES ASSUME NEW i \in Jobs, i \notin Stored
               PROVE  /\ leases[i] = NoLease /\ cancellations[i] = NoSource
                      /\ r[i].fence = 0 /\ lastSaver[i] = 0
    BY <1>2 DEF NothingBeforeAdmission, Stored
  <2>1. i \notin InTable(r)
    BY <1>1, <1>3 DEF IInv, NothingBeforeAdmission, InTable
  <2> QED BY <1>1, <2>1 DEF IInv, NothingBeforeAdmission, InTable, Table, CapacityRow
<1>7. SlotsAreRows'
  BY <1>1, <1>2 DEF IInv, SlotsAreRows
<1>8. CapacityBound'
  <2>1. IsFiniteSet(Acquired(capacity)) /\ Acquired(r) \subseteq Acquired(capacity)
    <3>1. Acquired(capacity) \subseteq Jobs
      BY DEF Acquired
    <3> QED BY <1>1, <3>1, JobsAssumption, FS_Subset
  <2>2. /\ Cardinality(Acquired(r)) <= Cardinality(Acquired(capacity))
        /\ Cardinality(Acquired(r)) \in Nat /\ Cardinality(Acquired(capacity)) \in Nat
    BY <2>1, FS_Subset, FS_CardinalityType
  <2>3. Cardinality(Acquired(capacity)) <= MaxLimit /\ MaxLimit \in Nat
    BY LimitAssumption DEF IInv, CapacityBound
  <2> QED BY <1>2, <2>2, <2>3 DEF CapacityBound
<1>9. RowsNameIssuedLeases'
  BY <1>1, <1>2, <1>3 DEF IInv, RowsNameIssuedLeases
<1> QED BY <1>4, <1>5, <1>6, <1>7, <1>8, <1>9 DEF IInv

LEMMA SavePreserves ==
    ASSUME IInv, NEW j \in Jobs, NEW f, NEW rev, NEW st \in Statuses, NEW d \in Payloads,
           NEW log \in Seq(EventTypes), NEW seen \in Views, Save(j, f, rev, st, d, log, seen)
    PROVE  IInv'
<1> DEFINE new == [status |-> st, data |-> d, revision |-> rev + 1, events |-> log]
<1>1. j \in Stored /\ records[j] \in Record /\ rev = records[j].revision
  BY RowTypes DEF Save, IInv, Stored
<1>2. new \in Record /\ new # NoRecord /\ new.status = st
  BY <1>1 DEF Record, NoRecord
<1> HIDE DEF new
<1>3. /\ records' = [records EXCEPT ![j] = new]
      /\ lastSaver' = [lastSaver EXCEPT ![j] = IF f = 0 THEN @ ELSE f]
      /\ UNCHANGED <<keys, leases, capacity, cancellations, issued>>
      /\ st = "succeeded" => cancellations[j] = NoSource
      /\ f = 0 \/ f = leases[j].fence
  BY DEF Save, new, MaySave, Current
<1>4. /\ records'[j] = new /\ \A i \in Jobs : i # j => records'[i] = records[i]
      /\ lastSaver'[j] \in {lastSaver[j], leases[j].fence}
      /\ \A i \in Jobs : i # j => lastSaver'[i] = lastSaver[i]
  BY <1>3 DEF IInv, TypeOK
<1>5. TypeOK'
  <2>1. lastSaver' \in [Jobs -> Nat]
    BY <1>3, RowTypes DEF IInv, TypeOK
  <2> QED BY <1>2, <1>3, <2>1 DEF IInv, TypeOK
<1>6. LeaseHistory'
  BY <1>3 DEF IInv, LeaseHistory
<1>7. NothingBeforeAdmission'
  BY <1>1, <1>2, <1>3, <1>4 DEF IInv, NothingBeforeAdmission, Stored
<1>8. (SlotsAreRows /\ CapacityBound /\ RowsNameIssuedLeases)'
  BY <1>3 DEF IInv, SlotsAreRows, CapacityBound, Acquired, InTable, RowsNameIssuedLeases
<1>9. CancellationExcludesSuccess'
  BY <1>2, <1>3, <1>4 DEF IInv, CancellationExcludesSuccess
<1>10. SaverBehindFence'
  BY <1>3, <1>4, RowTypes DEF IInv, SaverBehindFence
<1> QED BY <1>5, <1>6, <1>7, <1>8, <1>9, <1>10 DEF IInv

LEMMA CancellationPreserves ==
    ASSUME IInv, NEW j \in Jobs, NEW s \in Sources, RequestCancellation(j, s)
    PROVE  IInv'
<1>1. /\ cancellations' = [cancellations EXCEPT ![j] = IF @ = NoSource THEN s ELSE @]
      /\ UNCHANGED <<records, keys, leases, capacity, issued, lastSaver>>
      /\ j \in Stored /\ records[j].status \notin Terminal
  BY DEF RequestCancellation
<1>2. \A i \in Jobs : i # j => cancellations'[i] = cancellations[i]
  BY <1>1 DEF IInv, TypeOK
<1>3. TypeOK'
  BY <1>1 DEF IInv, TypeOK
<1>4. LeaseHistory' /\ SaverBehindFence'
  BY <1>1 DEF IInv, LeaseHistory, SaverBehindFence
<1>5. NothingBeforeAdmission'
  BY <1>1, <1>2 DEF IInv, NothingBeforeAdmission, Stored
<1>6. (SlotsAreRows /\ CapacityBound /\ RowsNameIssuedLeases)'
  BY <1>1 DEF IInv, SlotsAreRows, CapacityBound, Acquired, InTable, RowsNameIssuedLeases
<1>7. CancellationExcludesSuccess'
  BY <1>1, <1>2 DEF IInv, CancellationExcludesSuccess, Terminal
<1> QED BY <1>3, <1>4, <1>5, <1>6, <1>7 DEF IInv

-----------------------------------------------------------------------------
(* The invariant is inductive.                                             *)

LEMMA StepPreserves == IInv /\ [StoreNext]_storeVars => IInv'
<1> SUFFICES ASSUME IInv, [StoreNext]_storeVars PROVE IInv'
  OBVIOUS
<1>1. CASE UNCHANGED storeVars
  BY <1>1 DEF storeVars, IInv, TypeOK, LeaseHistory, NothingBeforeAdmission, Stored,
     SlotsAreRows, CapacityBound, RowsNameIssuedLeases, CancellationExcludesSuccess,
     SaverBehindFence, Acquired, InTable
<1>2. ASSUME NEW j \in Jobs, NEW st \in ImportStatuses, NEW d \in Payloads, NEW log \in Logs,
             Create(j, st, d, log)
      PROVE  IInv'
  BY <1>2, CreatePreserves
<1>3. ASSUME NEW j \in Jobs, NEW o \in Owners, NEW k \in Keys \cup {NoKey}, NEW h \in Hashes,
             NEW d \in Payloads, NEW log \in Logs, NEW seen \in Views,
             Admit(j, o, k, h, d, log, seen)
      PROVE  IInv'
  BY <1>3, LogFacts, AdmitPreserves
<1>4. ASSUME NEW j \in Jobs, NEW o \in Owners, NEW seen \in Views, ClaimLease(j, o, seen)
      PROVE  IInv'
  BY <1>4, LeaseMethodsPreserve, ClaimFreePreserves DEF ClaimLease
<1>5. ASSUME NEW j \in Jobs, NEW f \in Handles(j),
             \/ \E seen \in Views : RenewLease(j, f, seen)
             \/ ReleaseLease(j, f)
             \/ \E seen \in Views : TryAcquireCapacity(j, f, seen)
             \/ ReleaseCapacity(j, f)
      PROVE  IInv'
  BY <1>5, LeaseMethodsPreserve, TryAcquirePreserves, ReleaseCapacityPreserves
<1>6. ASSUME NEW j \in Jobs, NEW f \in {0} \cup Handles(j),
             NEW rev \in 1..records[j].revision, NEW st \in Statuses, NEW d \in Payloads,
             NEW log \in Logs, NEW seen \in Views, Save(j, f, rev, st, d, log, seen)
      PROVE  IInv'
  BY <1>6, LogFacts, SavePreserves
<1>7. ASSUME NEW j \in Jobs, NEW s \in Sources, RequestCancellation(j, s)
      PROVE  IInv'
  BY <1>7, CancellationPreserves
<1>8. ASSUME NEW j \in Jobs, Expire(j) PROVE IInv'
  BY <1>8, LeaseMethodsPreserve
<1> QED BY <1>1, <1>2, <1>3, <1>4, <1>5, <1>6, <1>7, <1>8 DEF StoreNext

(* Every reachable state satisfies the inductive invariant.                *)
THEOREM InvariantHolds == StoreSpec => []IInv
  BY InitEstablishes, StepPreserves, PTL DEF StoreSpec

(* Type correctness of the tables.                                         *)
THEOREM TypeCorrect == StoreSpec => []TypeOK
<1>1. IInv => TypeOK
  BY DEF IInv
<1> QED BY <1>1, InvariantHolds, PTL

(* #tryAcquireCapacityInTransaction never hands out more than the limit,   *)
(* and no row names an owner and fence that never held the lease.          *)
THEOREM CapacityKept == StoreSpec => []CapacityHeld
<1>1. IInv => CapacityHeld
  BY DEF IInv, CapacityHeld
<1> QED BY <1>1, InvariantHolds, PTL

(* requestCancellation and a save as succeeded exclude each other.         *)
THEOREM CancellationRespected == StoreSpec => []CancellationExcludesSuccess
<1>1. IInv => CancellationExcludesSuccess
  BY DEF IInv
<1> QED BY <1>1, InvariantHolds, PTL

-----------------------------------------------------------------------------
(* Action properties.                                                      *)

(* A save under a superseded fence never commits after one under a later   *)
(* fence (the fence comparison in save).                                   *)
THEOREM SavesInOrder == StoreSpec => FencedSavesInOrder
<1>1. ASSUME IInv, StoreNext, NEW i \in Jobs PROVE lastSaver'[i] >= lastSaver[i]
  <2>1. lastSaver[i] \in Nat /\ leases[i].fence \in Nat /\ lastSaver[i] <= leases[i].fence
    BY <1>1, RowTypes DEF IInv, SaverBehindFence
  <2>2. CASE UNCHANGED lastSaver
    BY <2>1, <2>2
  <2>3. ASSUME NEW j \in Jobs, NEW f \in {0} \cup Handles(j), NEW rev \in Nat,
               NEW st \in Statuses, NEW d \in Payloads, NEW log \in Logs,
               NEW seen \in Views, Save(j, f, rev, st, d, log, seen)
        PROVE  lastSaver'[i] >= lastSaver[i]
    <3>1. /\ lastSaver' = [lastSaver EXCEPT ![j] = IF f = 0 THEN @ ELSE f]
          /\ f = 0 \/ f = leases[j].fence
      BY <2>3 DEF Save, MaySave, Current
    <3>2. lastSaver'[i] \in {lastSaver[i], leases[i].fence}
      BY <1>1, <3>1 DEF IInv, TypeOK
    <3> QED BY <2>1, <3>2
  <2>4. \/ UNCHANGED lastSaver
        \/ \E j \in Jobs : \E f \in {0} \cup Handles(j), rev \in 1..records[j].revision,
              st \in Statuses, d \in Payloads, log \in Logs, seen \in Views :
                 Save(j, f, rev, st, d, log, seen)
    <3>1. \A j \in Jobs :
            /\ \A st, d, log : Create(j, st, d, log) => UNCHANGED lastSaver
            /\ \A o, k, h, d, log, seen : Admit(j, o, k, h, d, log, seen) => UNCHANGED lastSaver
            /\ \A o, seen : ClaimLease(j, o, seen) => UNCHANGED lastSaver
            /\ \A f, seen : RenewLease(j, f, seen) => UNCHANGED lastSaver
            /\ \A f : ReleaseLease(j, f) => UNCHANGED lastSaver
            /\ \A f, seen : TryAcquireCapacity(j, f, seen) => UNCHANGED lastSaver
            /\ \A f : ReleaseCapacity(j, f) => UNCHANGED lastSaver
            /\ \A s : RequestCancellation(j, s) => UNCHANGED lastSaver
            /\ Expire(j) => UNCHANGED lastSaver
      BY DEF Create, Admit, ClaimLease, ClaimOwn, ClaimFree, RenewLease, ReleaseLease,
         TryAcquireCapacity, ReleaseCapacity, RequestCancellation, Expire
    <3> QED BY <1>1, <3>1 DEF StoreNext
  <2>5. \A j \in Jobs : 1..records[j].revision \subseteq Nat
    BY <1>1, RowTypes DEF IInv, Record, NoRecord
  <2> QED BY <2>2, <2>3, <2>4, <2>5
<1>2. IInv /\ [StoreNext]_storeVars
        => [\A j \in Jobs : lastSaver'[j] >= lastSaver[j]]_storeVars
  BY <1>1
<1> QED BY <1>2, InvariantHolds, PTL DEF StoreSpec, FencedSavesInOrder

(* What one step of the store can do to the lease of one record.           *)
LEMMA LeaseSteps ==
    ASSUME IInv, StoreNext, NEW i \in Jobs
    PROVE  \/ /\ leases'[i].owner \in {leases[i].owner, NoOwner}
              /\ leases'[i].fence = leases[i].fence
           \/ /\ leases'[i].fence = leases[i].fence + 1
              /\ ~ leases[i].live
<1>1. leases \in [Jobs -> Lease] /\ leases[i] \in Lease
  BY DEF IInv, TypeOK
<1>2. CASE UNCHANGED leases
  BY <1>2
<1>3. ASSUME NEW j \in Jobs,
             \/ \E o \in Owners, seen \in Views : ClaimOwn(j, o, seen)
             \/ \E f \in Handles(j), seen \in Views : RenewLease(j, f, seen)
             \/ \E f \in Handles(j) : ReleaseLease(j, f)
             \/ Expire(j)
      PROVE  /\ leases'[i].owner \in {leases[i].owner, NoOwner}
             /\ leases'[i].fence = leases[i].fence
  <2>1. \/ leases' = [leases EXCEPT ![j].live = TRUE]
        \/ leases' = [leases EXCEPT ![j].live = FALSE]
        \/ leases' = [leases EXCEPT
                        ![j] = [owner |-> NoOwner, fence |-> @.fence, live |-> FALSE]]
    BY <1>3 DEF ClaimOwn, RenewLease, ReleaseLease, Expire
  <2>2. CASE i = j
    BY <1>1, <2>1, <2>2 DEF Lease
  <2>3. CASE i # j
    BY <1>1, <2>1, <2>3
  <2> QED BY <2>2, <2>3
<1>4. ASSUME NEW j \in Jobs, NEW o \in Owners, NEW seen \in Views, ClaimFree(j, o, seen)
      PROVE  \/ leases'[i] = leases[i]
             \/ leases'[i].fence = leases[i].fence + 1 /\ ~ leases[i].live
  <2>1. leases' = [leases EXCEPT ![j] =
                     [owner |-> o, fence |-> leases[j].fence + 1, live |-> TRUE]]
    BY <1>4 DEF ClaimFree
  <2>2. CASE i # j
    BY <1>1, <2>1, <2>2
  <2>3. CASE i = j
    <3>1. \A k \in Jobs \ seen : ~ leases[k].live
      <4>1. Live \subseteq seen
        BY DEF Views
      <4> QED BY <4>1 DEF Live
    <3>2. ~ leases[j].live
      BY <1>4, <3>1 DEF ClaimFree
    <3> QED BY <1>1, <2>1, <2>3, <3>2
  <2> QED BY <2>2, <2>3
<1>5. ASSUME NEW j \in Jobs, NEW o \in Owners, NEW k \in Keys \cup {NoKey}, NEW h \in Hashes,
             NEW d \in Payloads, NEW log \in Logs, NEW seen \in Views,
             Admit(j, o, k, h, d, log, seen)
      PROVE  \/ leases'[i] = leases[i]
             \/ leases'[i].fence = leases[i].fence + 1 /\ ~ leases[i].live
  <2>1. leases' = [leases EXCEPT ![j] = [owner |-> o, fence |-> 1, live |-> TRUE]]
    BY <1>5 DEF Admit
  <2>2. leases[j] = NoLease
    BY <1>5 DEF Admit, IInv, NothingBeforeAdmission
  <2>3. CASE i # j
    BY <1>1, <2>1, <2>3
  <2>4. CASE i = j
    BY <1>1, <2>1, <2>2, <2>4 DEF NoLease
  <2> QED BY <2>3, <2>4
<1>6. \/ UNCHANGED leases
      \/ \E j \in Jobs :
           \/ \E o \in Owners, seen \in Views : ClaimOwn(j, o, seen)
           \/ \E f \in Handles(j), seen \in Views : RenewLease(j, f, seen)
           \/ \E f \in Handles(j) : ReleaseLease(j, f)
           \/ Expire(j)
      \/ \E j \in Jobs, o \in Owners, seen \in Views : ClaimFree(j, o, seen)
      \/ \E j \in Jobs, o \in Owners, k \in Keys \cup {NoKey}, h \in Hashes,
            d \in Payloads, log \in Logs, seen \in Views : Admit(j, o, k, h, d, log, seen)
  BY DEF StoreNext, ClaimLease, Create, TryAcquireCapacity, ReleaseCapacity, Save,
     RequestCancellation
<1> QED BY <1>2, <1>3, <1>4, <1>5, <1>6

(* claimLease hands a record to another owner only once the previous lease *)
(* has expired or was released, and under a larger fence.                  *)
THEOREM HandoverFenced == StoreSpec => LeaseHandover
<1>1. ASSUME IInv, StoreNext, NEW i \in Jobs,
             leases'[i].owner \notin {NoOwner, leases[i].owner}
      PROVE  leases'[i].fence > leases[i].fence /\ ~ leases[i].live
  <2>1. leases[i].fence \in Nat
    BY <1>1, RowTypes DEF IInv
  <2> QED BY <1>1, <2>1, LeaseSteps
<1>2. IInv /\ [StoreNext]_storeVars
        => [\A j \in Jobs :
              leases'[j].owner \notin {NoOwner, leases[j].owner}
                => leases'[j].fence > leases[j].fence /\ ~ leases[j].live]_storeVars
  BY <1>1
<1> QED BY <1>2, InvariantHolds, PTL DEF StoreSpec, LeaseHandover

(* Nothing the store has committed is ever lost: logs only grow, revisions *)
(* and fences never fall, key bindings and cancellations stay.             *)
THEOREM CommittedStays == StoreSpec => NothingForgotten
<1>1. ASSUME IInv, StoreNext, NEW i \in Stored
      PROVE  /\ Extends(records'[i].events, records[i].events)
             /\ records'[i].revision >= records[i].revision
  <2>1. i \in Jobs /\ records[i] \in Record
    BY <1>1, RowTypes DEF IInv, Stored
  <2>2. records[i].events \in Seq(EventTypes) /\ records[i].revision \in Nat
    BY <2>1 DEF Record
  <2>3. CASE records'[i] = records[i]
    BY <2>2, <2>3 DEF Extends
  <2>4. ASSUME NEW f, NEW rev, NEW st, NEW d, NEW log, NEW seen, NEW j \in Jobs,
               Save(j, f, rev, st, d, log, seen)
        PROVE  /\ Extends(records'[i].events, records[i].events)
               /\ records'[i].revision >= records[i].revision
    <3> DEFINE new == [status |-> st, data |-> d, revision |-> rev + 1, events |-> log]
    <3>1. /\ records' = [records EXCEPT ![j] = new]
          /\ rev = records[j].revision /\ Extends(log, records[j].events)
      BY <2>4 DEF Save
    <3>2. CASE i = j
      <4>1. records'[i] = new
        BY <1>1, <2>1, <3>1, <3>2 DEF IInv, TypeOK
      <4> QED BY <2>2, <3>1, <3>2, <4>1
    <3>3. CASE i # j
      <4>1. records'[i] = records[i]
        BY <1>1, <2>1, <3>1, <3>3 DEF IInv, TypeOK
      <4> QED BY <2>3, <4>1
    <3> QED BY <3>2, <3>3
  <2>5. \A j \in Jobs :
          /\ \A st, d, log : Create(j, st, d, log) => records'[i] = records[i]
          /\ \A o, k, h, d, log, seen :
               Admit(j, o, k, h, d, log, seen) => records'[i] = records[i]
          /\ \A o, seen : ClaimLease(j, o, seen) => records'[i] = records[i]
          /\ \A f, seen : RenewLease(j, f, seen) => records'[i] = records[i]
          /\ \A f : ReleaseLease(j, f) => records'[i] = records[i]
          /\ \A f, seen : TryAcquireCapacity(j, f, seen) => records'[i] = records[i]
          /\ \A f : ReleaseCapacity(j, f) => records'[i] = records[i]
          /\ \A s : RequestCancellation(j, s) => records'[i] = records[i]
          /\ Expire(j) => records'[i] = records[i]
    BY <1>1, <2>1 DEF Create, Admit, ClaimLease, ClaimOwn, ClaimFree, RenewLease,
       ReleaseLease, TryAcquireCapacity, ReleaseCapacity, RequestCancellation, Expire,
       IInv, TypeOK
  <2>6. CASE \E j \in Jobs, f \in Nat, rev \in Nat, st \in Statuses, d \in Payloads,
               log \in Logs, seen \in Views : Save(j, f, rev, st, d, log, seen)
    BY <2>4, <2>6
  <2>7. \A j \in Jobs : 1..records[j].revision \subseteq Nat /\ {0} \cup Handles(j) \subseteq Nat
    BY <1>1, RowTypes DEF IInv, Record, NoRecord, Handles
  <2> QED BY <1>1, <2>3, <2>5, <2>6, <2>7 DEF StoreNext
<1>2. ASSUME IInv, StoreNext, NEW k \in Keys, keys[k] # NoBinding
      PROVE  keys'[k] = keys[k]
  <2>1. CASE UNCHANGED keys
    BY <2>1
  <2>2. ASSUME NEW j \in Jobs, NEW o, NEW key, NEW h, NEW d, NEW log, NEW seen,
               Admit(j, o, key, h, d, log, seen)
        PROVE  keys'[k] = keys[k]
    BY <1>2, <2>2 DEF Admit, KeyFree, IInv, TypeOK
  <2>3. \A j \in Jobs :
          /\ \A st, d, log : Create(j, st, d, log) => UNCHANGED keys
          /\ \A o, seen : ClaimLease(j, o, seen) => UNCHANGED keys
          /\ \A f, seen : RenewLease(j, f, seen) => UNCHANGED keys
          /\ \A f : ReleaseLease(j, f) => UNCHANGED keys
          /\ \A f, seen : TryAcquireCapacity(j, f, seen) => UNCHANGED keys
          /\ \A f : ReleaseCapacity(j, f) => UNCHANGED keys
          /\ \A f, rev, st, d, log, seen : Save(j, f, rev, st, d, log, seen) => UNCHANGED keys
          /\ \A s : RequestCancellation(j, s) => UNCHANGED keys
          /\ Expire(j) => UNCHANGED keys
    BY DEF Create, ClaimLease, ClaimOwn, ClaimFree, RenewLease, ReleaseLease,
       TryAcquireCapacity, ReleaseCapacity, Save, RequestCancellation, Expire
  <2> QED BY <1>2, <2>1, <2>2, <2>3 DEF StoreNext
<1>3. ASSUME IInv, StoreNext, NEW i \in Jobs, cancellations[i] # NoSource
      PROVE  cancellations'[i] = cancellations[i]
  <2>1. CASE UNCHANGED cancellations
    BY <2>1
  <2>2. ASSUME NEW j \in Jobs, NEW s, RequestCancellation(j, s)
        PROVE  cancellations'[i] = cancellations[i]
    BY <1>3, <2>2 DEF RequestCancellation, IInv, TypeOK
  <2>3. \A j \in Jobs :
          /\ \A st, d, log : Create(j, st, d, log) => UNCHANGED cancellations
          /\ \A o, k, h, d, log, seen :
               Admit(j, o, k, h, d, log, seen) => UNCHANGED cancellations
          /\ \A o, seen : ClaimLease(j, o, seen) => UNCHANGED cancellations
          /\ \A f, seen : RenewLease(j, f, seen) => UNCHANGED cancellations
          /\ \A f : ReleaseLease(j, f) => UNCHANGED cancellations
          /\ \A f, seen : TryAcquireCapacity(j, f, seen) => UNCHANGED cancellations
          /\ \A f : ReleaseCapacity(j, f) => UNCHANGED cancellations
          /\ \A f, rev, st, d, log, seen :
               Save(j, f, rev, st, d, log, seen) => UNCHANGED cancellations
          /\ Expire(j) => UNCHANGED cancellations
    BY DEF Create, Admit, ClaimLease, ClaimOwn, ClaimFree, RenewLease, ReleaseLease,
       TryAcquireCapacity, ReleaseCapacity, Save, Expire
  <2> QED BY <1>3, <2>1, <2>2, <2>3 DEF StoreNext
<1>4. ASSUME IInv, StoreNext, NEW i \in Jobs PROVE leases'[i].fence >= leases[i].fence
  <2>1. leases[i].fence \in Nat
    BY <1>4, RowTypes DEF IInv
  <2> QED BY <1>4, <2>1, LeaseSteps
<1>5. IInv /\ [StoreNext]_storeVars
        => [/\ \A j \in Stored : Extends(records'[j].events, records[j].events)
                                /\ records'[j].revision >= records[j].revision
            /\ \A k \in Keys : keys[k] # NoBinding => keys'[k] = keys[k]
            /\ \A j \in Jobs : cancellations[j] # NoSource
                                 => cancellations'[j] = cancellations[j]
            /\ \A j \in Jobs : leases'[j].fence >= leases[j].fence]_storeVars
  BY <1>1, <1>2, <1>3, <1>4
<1> QED BY <1>5, InvariantHolds, PTL DEF StoreSpec, NothingForgotten

(* What one step of the store can do to a waiting row.                     *)
LEMMA WaiterSteps ==
    ASSUME IInv, StoreNext, NEW k \in Waiting(capacity), NEW j \in Waiting(capacity),
           j \in capacity[k].ahead, j \in Backed(capacity, leases, Live)
    PROVE  ~ capacity'[k].acquired
<1>1. /\ k \in Jobs /\ j \in Jobs /\ ~ capacity[k].acquired /\ capacity[k].fence > 0
      /\ capacity[j].fence > 0 /\ capacity \in Table /\ capacity[k] \in CapacityRow
      /\ leases \in [Jobs -> Lease] /\ Acquired(capacity) \subseteq InTable(capacity)
      /\ capacity[j].owner = leases[j].owner /\ capacity[j].fence = leases[j].fence /\ j \in Live
  BY DEF Waiting, InTable, Acquired, Backed, IInv, TypeOK, Table, SlotsAreRows
<1>2. \A seen \in Views : Live \subseteq seen
  BY DEF Views
<1>3. CASE UNCHANGED capacity
  BY <1>1, <1>3
<1>4. ASSUME NEW i \in Jobs, NEW f \in Handles(i), NEW seen \in Views,
             TryAcquireCapacity(i, f, seen)
      PROVE  ~ capacity'[k].acquired
  <2>1. /\ capacity' = TryAcquireResult(capacity, leases, i, seen) /\ i \in seen
    BY <1>4 DEF TryAcquireCapacity
  <2>2. seen \in SUBSET Jobs /\ leases[i].owner \in Owners /\ leases[i].fence > 0 /\ j \in seen
    BY <1>1, <1>2, <2>1, ViewFacts DEF IInv
  <2> HIDE DEF Table
  <2>. QED BY <1>1, <2>1, <2>2, EarlierWaiterStands
<1>5. ASSUME NEW i \in Jobs, NEW o \in Owners, NEW key, NEW h, NEW d, NEW log,
             NEW seen \in Views, Admit(i, o, key, h, d, log, seen)
      PROVE  ~ capacity'[k].acquired
  <2>1. i \notin Stored
    BY <1>5 DEF Admit
  <2>2. i # j
    BY <1>1, <2>1 DEF IInv, NothingBeforeAdmission
  <2>3. PICK l : l = [leases EXCEPT ![i] = [owner |-> o, fence |-> 1, live |-> TRUE]]
    OBVIOUS
  <2>4. /\ l \in [Jobs -> Lease] /\ l[i].owner \in Owners /\ l[i].fence > 0
        /\ l[j] = leases[j]
    BY <1>1, <2>2, <2>3 DEF Lease
  <2>5. PICK view : view = seen \cup {i}
    OBVIOUS
  <2>6. view \in SUBSET Jobs /\ i \in view /\ j \in view
    BY <1>1, <1>2, <2>5, ViewFacts DEF IInv
  <2>7. capacity' = TryAcquireResult(capacity, l, i, view)
    BY <1>5, <2>3, <2>5 DEF Admit
  <2> HIDE DEF Table
  <2>. QED BY <1>1, <2>4, <2>6, <2>7, EarlierWaiterStands
<1>6. ASSUME NEW i \in Jobs, NEW o \in Owners, NEW seen \in Views, ClaimFree(i, o, seen)
      PROVE  ~ capacity'[k].acquired
  <2>1. capacity' = Transferred(capacity, i, leases[i], o, leases[i].fence + 1)
    BY <1>6 DEF ClaimFree
  <2>. QED BY <1>1, <2>1 DEF Transferred, Table, CapacityRow
<1>7. ASSUME NEW i \in Jobs, NEW f \in Handles(i), ReleaseCapacity(i, f)
      PROVE  ~ capacity'[k].acquired
  <2>1. capacity' = Kept(capacity, InTable(capacity) \ {i})
    BY <1>7 DEF ReleaseCapacity
  <2>. QED BY <1>1, <2>1 DEF Kept, NoRow, CapacityRow
<1>8. \/ UNCHANGED capacity
      \/ \E i \in Jobs : \E f \in Handles(i), seen \in Views : TryAcquireCapacity(i, f, seen)
      \/ \E i \in Jobs : \E f \in Handles(i) : ReleaseCapacity(i, f)
      \/ \E i \in Jobs, o \in Owners, seen \in Views : ClaimFree(i, o, seen)
      \/ \E i \in Jobs, o \in Owners, key \in Keys \cup {NoKey}, h \in Hashes,
            d \in Payloads, log \in Logs, seen \in Views : Admit(i, o, key, h, d, log, seen)
  <2>1. \A i \in Jobs :
          /\ \A st, d, log : Create(i, st, d, log) => UNCHANGED capacity
          /\ \A o, seen : ClaimOwn(i, o, seen) => UNCHANGED capacity
          /\ \A f, seen : RenewLease(i, f, seen) => UNCHANGED capacity
          /\ \A f : ReleaseLease(i, f) => UNCHANGED capacity
          /\ \A f, rev, st, d, log, seen : Save(i, f, rev, st, d, log, seen) => UNCHANGED capacity
          /\ \A s : RequestCancellation(i, s) => UNCHANGED capacity
          /\ Expire(i) => UNCHANGED capacity
    BY DEF Create, ClaimOwn, RenewLease, ReleaseLease, Save, RequestCancellation, Expire
  <2> QED BY <2>1 DEF StoreNext, ClaimLease
<1>. QED BY <1>3, <1>4, <1>5, <1>6, <1>7, <1>8

(* #tryAcquireCapacityInTransaction serves the waiters in the order of     *)
(* their rows: one whose lease is current is passed by nobody behind it,   *)
(* whatever stale leases the transaction of the other still sees as live.  *)
THEOREM WaitersInOrder == StoreSpec => NoOvertaking
<1>1. IInv /\ [StoreNext]_storeVars
        => [\A k \in Waiting(capacity) :
              \A j \in Waiting(capacity) \cap capacity[k].ahead :
                  j \in Backed(capacity, leases, Live) => ~ capacity'[k].acquired]_storeVars
  BY WaiterSteps
<1> QED BY <1>1, InvariantHolds, PTL DEF StoreSpec, NoOvertaking
=============================================================================
