--------------------------- MODULE Records_proofs ---------------------------
(***************************************************************************)
(* Three uses of the record store in which its transactions are single     *)
(* steps: the admission to a pool of routes, for any number of calls,      *)
(* routes and requests, the evidence about a task, for any number of       *)
(* controllers and records, and what is told of a Job from its events, for *)
(* a log of any length.                                                    *)
(*                                                                         *)
(* RoutePool.  Every call owns at most one snapshot file and one           *)
(* reservation, so what is on disk and what is counted follow from where   *)
(* each call stands; the invariant says that of one call at a time.        *)
(* That choices rotate is an action property: a second invariant says that *)
(* the cursor stands behind the member chosen last and that the loads are  *)
(* within one of each other as long as nothing but a choice changed them.  *)
(***************************************************************************)
EXTENDS RoutePool, TaskEvidence, JobActivity, FiniteSetTheorems, SequenceTheorems, TLAPS

-----------------------------------------------------------------------------
(* Admission to a pool                                                     *)

PoolSteps == {"new", "persisted", "reserved", "admitted", "duplicate", "threw", "running", "done",
              "stopped"}
CallRecord == [step: PoolSteps, target: 0..RouteCount, dirty: BOOLEAN, keyed: BOOLEAN,
               reserved: 0..RouteCount]
PooledJob == [route: 0..RouteCount, live: BOOLEAN, settled: BOOLEAN]

\* What holds of call c that stands at call, with its Job, in view of the files on disk.
CallInv(c, call, job, disk, left) ==
    /\ call \in CallRecord /\ job \in PooledJob
    /\ job.route = 0 => job = NoJob
    /\ call.step \in {"new", "persisted", "reserved", "duplicate", "threw"} => job.route = 0
    /\ call.step \in {"admitted", "running"} => job.route # 0
    /\ call.step \in {"new", "persisted", "done", "stopped"} => call.reserved = 0
    /\ call.reserved # 0 =>
            call.step \in {"reserved", "duplicate", "threw", "admitted", "running"}
    /\ call.step = "reserved" => call.reserved # 0
    /\ call.step \in {"persisted", "reserved"} /\ call.dirty => c \in disk
    /\ job.route # 0 /\ call.dirty => c \in disk
    /\ c \in disk => \/ job.route # 0
                     \/ c \in left
                     \/ call.step \in {"persisted", "reserved", "duplicate"}

\* A call that ended holds nothing any more.
LEMMA CallEnds ==
    ASSUME NEW call \in CallRecord, NEW at \in PoolSteps
    PROVE  LET end == [[call EXCEPT !.step = at] EXCEPT !.reserved = 0]
           IN end \in CallRecord /\ end.step = at /\ end.reserved = 0 /\ end.dirty = call.dirty
<1>1. 0 \in 0..RouteCount
  BY PoolAssumption
<1>. QED BY <1>1 DEF CallRecord

\* The calls that hold a reservation of route r.
ReservedBy(calls, r) == {c \in Calls : calls[c].reserved = r}

PoolInv ==
    /\ poolCall = [c \in Calls |-> poolCall[c]]
    /\ poolJob = [c \in Calls |-> poolJob[c]]
    /\ files \subseteq Calls
    /\ \A c \in Calls : CallInv(c, poolCall[c], poolJob[c], files, orphans)
    /\ routeActivity = [r \in Routes |-> Cardinality(ReservedBy(poolCall, r))]

LEMMA CallsFinite == IsFiniteSet(Calls) /\ IsFiniteSet({}) /\ Cardinality({}) = 0
BY PoolAssumption, FS_Interval, FS_EmptySet DEF Calls

LEMMA PoolSuffices == PoolInv => AdmissionLeavesNothing
<1>1. SUFFICES ASSUME PoolInv PROVE AdmissionLeavesNothing
  OBVIOUS
<1> DEFINE Holds(c) == poolCall[c].step \in {"reserved", "duplicate", "threw", "admitted", "running"}
<1>2. ASSUME NEW r \in Routes
      PROVE  routeActivity[r] = Cardinality({c \in Calls : poolCall[c].reserved = r /\ Holds(c)})
  <2>1. r # 0
    BY DEF Routes
  <2>2. {c \in Calls : poolCall[c].reserved = r /\ Holds(c)} = ReservedBy(poolCall, r)
    BY <1>1, <2>1 DEF PoolInv, CallInv, ReservedBy
  <2>. QED BY <1>1, <2>2 DEF PoolInv
<1>3. \A c \in Calls : poolJob[c].route # 0 /\ poolCall[c].dirty => c \in files
  BY <1>1 DEF PoolInv, CallInv
<1>4. \A c \in files : \/ poolJob[c].route # 0
                       \/ c \in orphans
                       \/ poolCall[c].step \in {"persisted", "reserved", "duplicate"}
  BY <1>1 DEF PoolInv, CallInv
<1>. QED BY <1>2, <1>3, <1>4 DEF AdmissionLeavesNothing

LEMMA PoolBegins == PoolInit => PoolInv
<1>1. SUFFICES ASSUME PoolInit PROVE PoolInv
  OBVIOUS
<1>2. /\ poolCall = [c \in Calls |-> [step |-> "new", target |-> 0, dirty |-> FALSE,
                                      keyed |-> FALSE, reserved |-> 0]]
      /\ poolJob = [c \in Calls |-> NoJob] /\ files = {}
      /\ routeActivity = [r \in Routes |-> 0]
  BY <1>1 DEF PoolInit
<1>3. ASSUME NEW c \in Calls PROVE CallInv(c, poolCall[c], poolJob[c], files, orphans)
  BY <1>2, PoolAssumption DEF CallInv, CallRecord, PooledJob, NoJob, PoolSteps
<1>4. ASSUME NEW r \in Routes PROVE Cardinality(ReservedBy(poolCall, r)) = 0
  <2>1. ReservedBy(poolCall, r) = {}
    BY <1>2 DEF ReservedBy, Routes
  <2>. QED BY <2>1, CallsFinite
<1>5. routeActivity = [r \in Routes |-> Cardinality(ReservedBy(poolCall, r))]
  BY <1>2, <1>4
<1>. QED BY <1>2, <1>3, <1>5 DEF PoolInv

\* A call that takes, keeps or gives up a reservation changes the count of its route only.
LEMMA OneReservation ==
    ASSUME NEW calls, calls = [b \in Calls |-> calls[b]], NEW c \in Calls, NEW call,
           calls[c].reserved \in 0..RouteCount, call.reserved \in 0..RouteCount,
           call.reserved = 0 \/ calls[c].reserved = 0 \/ call.reserved = calls[c].reserved,
           NEW r \in Routes
    PROVE  Cardinality(ReservedBy([calls EXCEPT ![c] = call], r)) =
               Cardinality(ReservedBy(calls, r))
                 + (IF call.reserved = r THEN 1 ELSE 0)
                 - (IF calls[c].reserved = r THEN 1 ELSE 0)
<1> DEFINE old == ReservedBy(calls, r)
           new == ReservedBy([calls EXCEPT ![c] = call], r)
<1>1. IsFiniteSet(old) /\ Cardinality(old) \in Nat
  BY CallsFinite, FS_Subset, FS_CardinalityType DEF ReservedBy
<1>2. r # 0
  BY DEF Routes
<1>3. CASE call.reserved = calls[c].reserved
  <2>1. new = old
    BY <1>3 DEF ReservedBy
  <2>. HIDE DEF new, old
  <2>. QED BY <2>1, <1>1, <1>3 DEF new, old
<1>4. CASE call.reserved # calls[c].reserved /\ call.reserved = r
  <2>1. new = old \cup {c} /\ c \notin old
    BY <1>2, <1>4 DEF ReservedBy
  <2>2. Cardinality(new) = Cardinality(old) + 1
    BY <2>1, <1>1, FS_AddElement
  <2>. QED BY <2>2, <1>1, <1>4
<1>5. CASE call.reserved # calls[c].reserved /\ calls[c].reserved = r
  <2>1. new = old \ {c} /\ c \in old
    BY <1>2, <1>5 DEF ReservedBy
  <2>2. Cardinality(new) = Cardinality(old) - 1
    BY <2>1, <1>1, FS_RemoveElement
  <2>. QED BY <2>2, <1>1, <1>5
<1>6. CASE call.reserved # r /\ calls[c].reserved # r
  <2>1. new = old
    BY <1>6 DEF ReservedBy
  <2>. QED BY <2>1, <1>1, <1>6
<1>. QED BY <1>3, <1>4, <1>5, <1>6

\* A step of one call: it and its Job move, its own file comes or goes, and the routes are
\* charged for what it reserves afterwards.
LEMMA CallMoves ==
    ASSUME PoolInv, NEW c \in Calls, NEW call, NEW job,
           poolCall' = [poolCall EXCEPT ![c] = call], poolJob' = [poolJob EXCEPT ![c] = job],
           files' \subseteq Calls, \A b \in Calls \ {c} : b \in files' <=> b \in files,
           \A b \in Calls \ {c} : b \in orphans' <=> b \in orphans,
           CallInv(c, call, job, files', orphans'),
           call.reserved = 0 \/ poolCall[c].reserved = 0 \/ call.reserved = poolCall[c].reserved,
           routeActivity' = [r \in Routes |-> routeActivity[r]
                                + (IF call.reserved = r THEN 1 ELSE 0)
                                - (IF poolCall[c].reserved = r THEN 1 ELSE 0)]
    PROVE  PoolInv'
<1>1. poolCall = [b \in Calls |-> poolCall[b]] /\ poolJob = [b \in Calls |-> poolJob[b]]
  BY DEF PoolInv
<1>2. poolCall' = [b \in Calls |-> poolCall'[b]] /\ poolJob' = [b \in Calls |-> poolJob'[b]]
  BY <1>1
<1>3. ASSUME NEW b \in Calls PROVE CallInv(b, poolCall'[b], poolJob'[b], files', orphans')
  <2>1. CASE b = c
    BY <2>1, <1>1
  <2>2. CASE b # c
    <3>1. CallInv(b, poolCall[b], poolJob[b], files, orphans)
      BY DEF PoolInv
    <3>2. poolCall'[b] = poolCall[b] /\ poolJob'[b] = poolJob[b]
      BY <2>2, <1>1
    <3>. QED BY <2>2, <3>1, <3>2 DEF CallInv
  <2>. QED BY <2>1, <2>2
<1>4. ASSUME NEW r \in Routes
      PROVE  routeActivity'[r] = Cardinality(ReservedBy(poolCall', r))
  <2>1. CallInv(c, poolCall[c], poolJob[c], files, orphans)
    BY DEF PoolInv
  <2>2. poolCall[c].reserved \in 0..RouteCount /\ call.reserved \in 0..RouteCount
    BY <2>1 DEF CallInv, CallRecord
  <2>3. Cardinality(ReservedBy([poolCall EXCEPT ![c] = call], r)) =
            Cardinality(ReservedBy(poolCall, r))
              + (IF call.reserved = r THEN 1 ELSE 0)
              - (IF poolCall[c].reserved = r THEN 1 ELSE 0)
    <3> DEFINE calls == poolCall
    <3>1. calls = [b \in Calls |-> calls[b]] /\ calls[c].reserved \in 0..RouteCount
      BY <1>1, <2>2
    <3>2. call.reserved = 0 \/ calls[c].reserved = 0 \/ call.reserved = calls[c].reserved
      OBVIOUS
    <3> HIDE DEF calls
    <3>3. Cardinality(ReservedBy([calls EXCEPT ![c] = call], r)) =
            Cardinality(ReservedBy(calls, r))
              + (IF call.reserved = r THEN 1 ELSE 0)
              - (IF calls[c].reserved = r THEN 1 ELSE 0)
      BY <3>1, <3>2, <2>2, OneReservation
    <3>. QED BY <3>3 DEF calls
  <2>4. routeActivity[r] = Cardinality(ReservedBy(poolCall, r))
    BY DEF PoolInv
  <2>. QED BY <2>3, <2>4
<1>5. routeActivity' = [r \in Routes |-> Cardinality(ReservedBy(poolCall', r))]
  BY <1>4
<1>. QED BY <1>2, <1>3, <1>5 DEF PoolInv

\* A step that leaves the reservation of its call alone.
LEMMA CallGoesOn ==
    ASSUME PoolInv, NEW c \in Calls, NEW call, NEW job,
           poolCall' = [poolCall EXCEPT ![c] = call], poolJob' = [poolJob EXCEPT ![c] = job],
           files' \subseteq Calls, \A b \in Calls \ {c} : b \in files' <=> b \in files,
           \A b \in Calls \ {c} : b \in orphans' <=> b \in orphans,
           CallInv(c, call, job, files', orphans'),
           call.reserved = poolCall[c].reserved, routeActivity' = routeActivity
    PROVE  PoolInv'
<1>1. ASSUME NEW r \in Routes
      PROVE  routeActivity[r] = routeActivity[r] + (IF call.reserved = r THEN 1 ELSE 0)
                                                 - (IF poolCall[c].reserved = r THEN 1 ELSE 0)
  <2>1. routeActivity[r] = Cardinality(ReservedBy(poolCall, r))
    BY DEF PoolInv
  <2>2. Cardinality(ReservedBy(poolCall, r)) \in Nat
    BY CallsFinite, FS_Subset, FS_CardinalityType DEF ReservedBy
  <2>. QED BY <2>1, <2>2
<1>2. routeActivity' = [r \in Routes |-> routeActivity[r]
                                + (IF call.reserved = r THEN 1 ELSE 0)
                                - (IF poolCall[c].reserved = r THEN 1 ELSE 0)]
  BY <1>1 DEF PoolInv
<1>. QED BY <1>2, CallMoves, ZenonT(40)

\* A step that gives up the reservation of its call, if it has one.
LEMMA CallReleases ==
    ASSUME PoolInv, NEW c \in Calls, NEW call, NEW job,
           poolCall' = [poolCall EXCEPT ![c] = call], poolJob' = [poolJob EXCEPT ![c] = job],
           files' \subseteq Calls, \A b \in Calls \ {c} : b \in files' <=> b \in files,
           \A b \in Calls \ {c} : b \in orphans' <=> b \in orphans,
           CallInv(c, call, job, files', orphans'),
           call.reserved = 0, Release(c)
    PROVE  PoolInv'
<1>1. ASSUME NEW r \in Routes
      PROVE  routeActivity[r] - (IF poolCall[c].reserved = r THEN 1 ELSE 0)
                = routeActivity[r] + (IF call.reserved = r THEN 1 ELSE 0)
                                   - (IF poolCall[c].reserved = r THEN 1 ELSE 0)
  <2>1. routeActivity[r] = Cardinality(ReservedBy(poolCall, r))
    BY DEF PoolInv
  <2>2. Cardinality(ReservedBy(poolCall, r)) \in Nat
    BY CallsFinite, FS_Subset, FS_CardinalityType DEF ReservedBy
  <2>3. call.reserved # r
    BY DEF Routes
  <2>. QED BY <2>1, <2>2, <2>3
<1>2. routeActivity' = [r \in Routes |-> routeActivity[r]
                                + (IF call.reserved = r THEN 1 ELSE 0)
                                - (IF poolCall[c].reserved = r THEN 1 ELSE 0)]
  BY <1>1 DEF Release
<1>. QED BY <1>2, CallMoves

LEMMA PoolStep == PoolInv /\ [PoolNext]_poolVars => PoolInv'
<1>1. SUFFICES ASSUME PoolInv, [PoolNext]_poolVars PROVE PoolInv'
  OBVIOUS
<1> USE <1>1
<1>2. ASSUME NEW c \in Calls
      PROVE  /\ CallInv(c, poolCall[c], poolJob[c], files, orphans)
             /\ poolCall[c] \in CallRecord /\ poolJob[c] \in PooledJob
             /\ poolCall = [poolCall EXCEPT ![c] = poolCall[c]]
             /\ poolJob = [poolJob EXCEPT ![c] = poolJob[c]]
             /\ files \subseteq Calls
  BY DEF PoolInv, CallInv
<1>3. ASSUME UNCHANGED poolVars PROVE PoolInv'
  <2>1. /\ poolCall' = poolCall /\ poolJob' = poolJob /\ files' = files /\ orphans' = orphans
        /\ routeActivity' = routeActivity
    BY <1>3 DEF poolVars
  <2>2. \A r \in Routes : ReservedBy(poolCall', r) = ReservedBy(poolCall, r)
    BY <2>1
  <2>3. routeActivity' = [r \in Routes |-> Cardinality(ReservedBy(poolCall', r))]
    BY <2>1, <2>2 DEF PoolInv
  <2>. QED BY <2>1, <2>3 DEF PoolInv
<1>4. ASSUME NEW c \in Calls, PersistSnapshot(c) PROVE PoolInv'
  <2>1. PICK q \in Requests :
            /\ poolCall' = [poolCall EXCEPT ![c] =
                    [step |-> "persisted", target |-> q.target, dirty |-> q.dirty,
                     keyed |-> q.keyed, reserved |-> 0]]
            /\ files' = IF q.dirty THEN files \cup {c} ELSE files
    BY <1>4 DEF PersistSnapshot
  <2> DEFINE call == [step |-> "persisted", target |-> q.target, dirty |-> q.dirty,
                      keyed |-> q.keyed, reserved |-> 0]
  <2>2. /\ poolCall[c].step = "new" /\ poolJob' = poolJob /\ orphans' = orphans
        /\ routeActivity' = routeActivity
    BY <1>4 DEF PersistSnapshot, CallAt
  <2>3. q.target \in 0..RouteCount /\ q.dirty \in BOOLEAN /\ q.keyed \in BOOLEAN
    BY PoolAssumption
  <2>4. call \in CallRecord
    BY <2>3, PoolAssumption DEF CallRecord, PoolSteps
  <2>5. CallInv(c, call, poolJob[c], files', orphans')
    BY <1>2, <2>1, <2>2, <2>4 DEF CallInv
  <2>6. files' \subseteq Calls /\ \A b \in Calls \ {c} : b \in files' <=> b \in files
    BY <1>2, <2>1
  <2>7. call.reserved = poolCall[c].reserved
    BY <1>2, <2>2 DEF CallInv
  <2>8. poolCall' = [poolCall EXCEPT ![c] = call]
    BY <2>1
  <2> HIDE DEF call
  <2>. QED BY <1>2, <2>2, <2>5, <2>6, <2>7, <2>8, CallGoesOn
<1>5. ASSUME NEW c \in Calls, ReserveRoute(c) PROVE PoolInv'
  <2>1. PICK k \in Routes :
            /\ routeActivity' = [routeActivity EXCEPT ![k] = @ + 1]
            /\ poolCall' = [poolCall EXCEPT ![c].step = "reserved", ![c].reserved = k]
    BY <1>5 DEF ReserveRoute
  <2> DEFINE call == [[poolCall[c] EXCEPT !.step = "reserved"] EXCEPT !.reserved = k]
  <2>2. /\ poolCall[c].step = "persisted" /\ poolJob' = poolJob /\ files' = files
        /\ orphans' = orphans
    BY <1>5 DEF ReserveRoute, CallAt
  <2>3. k \in 0..RouteCount /\ k # 0
    BY PoolAssumption DEF Routes
  <2>4. poolCall' = [poolCall EXCEPT ![c] = call]
    BY <1>2, <2>1 DEF CallRecord
  <2>5. CallInv(c, call, poolJob[c], files', orphans') /\ poolCall[c].reserved = 0
    BY <1>2, <2>2, <2>3 DEF CallInv, CallRecord, PoolSteps
  <2>6. call.reserved = k
    BY <1>2 DEF CallRecord
  <2> HIDE DEF call
  <2>7. ASSUME NEW r \in Routes
        PROVE  routeActivity'[r] = routeActivity[r]
                                      + (IF call.reserved = r THEN 1 ELSE 0)
                                      - (IF poolCall[c].reserved = r THEN 1 ELSE 0)
    <3>1. routeActivity[r] = Cardinality(ReservedBy(poolCall, r)) /\ r # 0
      BY DEF PoolInv, Routes
    <3>2. Cardinality(ReservedBy(poolCall, r)) \in Nat
      BY CallsFinite, FS_Subset, FS_CardinalityType DEF ReservedBy
    <3>3. routeActivity'[r] = IF r = k THEN routeActivity[k] + 1 ELSE routeActivity[r]
      BY <2>1 DEF PoolInv
    <3>. QED BY <3>1, <3>2, <3>3, <2>5, <2>6
  <2>8. routeActivity' = [r \in Routes |-> routeActivity[r]
                                + (IF call.reserved = r THEN 1 ELSE 0)
                                - (IF poolCall[c].reserved = r THEN 1 ELSE 0)]
    <3>1. routeActivity' = [r \in Routes |-> routeActivity'[r]]
      BY <2>1 DEF PoolInv
    <3>. QED BY <3>1, <2>7
  <2>. QED BY <1>2, <2>2, <2>4, <2>5, <2>8, CallMoves
<1>6. ASSUME NEW c \in Calls, AdmitDurably(c) PROVE PoolInv'
  <2>1. /\ poolCall[c].step = "persisted" /\ routeActivity' = routeActivity
        /\ files' = files /\ orphans' = orphans
    BY <1>6 DEF AdmitDurably, CallAt
  <2>2. ASSUME NEW r \in Routes, Enter(c, r) PROVE PoolInv'
    <3> DEFINE call == [poolCall[c] EXCEPT !.step = "admitted"]
               job == [route |-> r, live |-> TRUE, settled |-> FALSE]
    <3>1. poolCall' = [poolCall EXCEPT ![c] = call] /\ poolJob' = [poolJob EXCEPT ![c] = job]
      BY <2>2, <1>2 DEF Enter, GoTo, CallRecord
    <3>2. job \in PooledJob /\ job.route # 0
      BY PoolAssumption DEF PooledJob, Routes
    <3>3. CallInv(c, call, job, files', orphans') /\ call.reserved = poolCall[c].reserved
      BY <1>2, <2>1, <3>2 DEF CallInv, CallRecord, PoolSteps
    <3> HIDE DEF call, job
    <3>. QED BY <1>2, <2>1, <3>1, <3>3, CallGoesOn
  <2>3. ASSUME GoTo(c, "duplicate"), poolJob' = poolJob PROVE PoolInv'
    <3> DEFINE call == [poolCall[c] EXCEPT !.step = "duplicate"]
    <3>1. poolCall' = [poolCall EXCEPT ![c] = call]
      BY <2>3, <1>2 DEF GoTo, CallRecord
    <3>2. CallInv(c, call, poolJob[c], files', orphans') /\ call.reserved = poolCall[c].reserved
      BY <1>2, <2>1 DEF CallInv, CallRecord, PoolSteps
    <3> HIDE DEF call
    <3>. QED BY <1>2, <2>1, <2>3, <3>1, <3>2, CallGoesOn
  <2>. QED BY <1>6, <2>2, <2>3 DEF AdmitDurably
<1>7. ASSUME NEW c \in Calls, AdmitReserved(c) PROVE PoolInv'
  <2>1. /\ poolCall[c].step = "reserved" /\ routeActivity' = routeActivity
        /\ files' = files /\ orphans' = orphans
    BY <1>7 DEF AdmitReserved, CallAt
  <2>2. ASSUME Enter(c, poolCall[c].reserved) PROVE PoolInv'
    <3> DEFINE call == [poolCall[c] EXCEPT !.step = "admitted"]
               job == [route |-> poolCall[c].reserved, live |-> TRUE, settled |-> FALSE]
    <3>1. poolCall' = [poolCall EXCEPT ![c] = call] /\ poolJob' = [poolJob EXCEPT ![c] = job]
      BY <2>2, <1>2 DEF Enter, GoTo, CallRecord
    <3>2. job \in PooledJob /\ job.route # 0
      BY <1>2, <2>1 DEF PooledJob, CallInv, CallRecord
    <3>3. CallInv(c, call, job, files', orphans') /\ call.reserved = poolCall[c].reserved
      BY <1>2, <2>1, <3>2 DEF CallInv, CallRecord, PoolSteps
    <3> HIDE DEF call, job
    <3>. QED BY <1>2, <2>1, <3>1, <3>3, CallGoesOn
  <2>3. ASSUME GoTo(c, "duplicate"), poolJob' = poolJob PROVE PoolInv'
    <3> DEFINE call == [poolCall[c] EXCEPT !.step = "duplicate"]
    <3>1. poolCall' = [poolCall EXCEPT ![c] = call]
      BY <2>3, <1>2 DEF GoTo, CallRecord
    <3>2. CallInv(c, call, poolJob[c], files', orphans') /\ call.reserved = poolCall[c].reserved
      BY <1>2, <2>1 DEF CallInv, CallRecord, PoolSteps
    <3> HIDE DEF call
    <3>. QED BY <1>2, <2>1, <2>3, <3>1, <3>2, CallGoesOn
  <2>. QED BY <1>7, <2>2, <2>3 DEF AdmitReserved
<1>8. ASSUME NEW c \in Calls, AdmissionFails(c) PROVE PoolInv'
  <2> DEFINE call == [[poolCall[c] EXCEPT !.step = "done"] EXCEPT !.reserved = 0]
  <2>1. /\ poolCall[c].step \in {"persisted", "reserved"} /\ Release(c) /\ poolJob' = poolJob
        /\ \/ files' = files \ {c} /\ orphans' = orphans
           \/ orphans' = orphans \cup (files \cap {c}) /\ files' = files
    BY <1>8 DEF AdmissionFails
  <2>2. poolCall' = [poolCall EXCEPT ![c] = call]
    BY <1>2, <1>8 DEF AdmissionFails, CallRecord
  <2>3. call \in CallRecord /\ call.step = "done" /\ call.reserved = 0
    BY <1>2, CallEnds DEF PoolSteps
  <2>4. CallInv(c, call, poolJob[c], files', orphans')
    BY <1>2, <2>1, <2>3 DEF CallInv
  <2>5. /\ files' \subseteq Calls /\ \A b \in Calls \ {c} : b \in files' <=> b \in files
        /\ \A b \in Calls \ {c} : b \in orphans' <=> b \in orphans
    BY <1>2, <2>1
  <2> HIDE DEF call
  <2>. QED BY <1>2, <2>1, <2>2, <2>3, <2>4, <2>5, CallReleases
<1>9. ASSUME NEW c \in Calls, AnswerDuplicate(c) PROVE PoolInv'
  <2>1. poolCall[c].step = "duplicate" /\ poolJob' = poolJob
    BY <1>9 DEF AnswerDuplicate, CallAt
  <2>2. CASE files' = files \ {c} /\ GivesUpReservation(c) /\ orphans' = orphans
    <3> DEFINE call == [[poolCall[c] EXCEPT !.step = "done"] EXCEPT !.reserved = 0]
    <3>1. poolCall' = [poolCall EXCEPT ![c] = call] /\ Release(c)
      BY <1>2, <2>2 DEF GivesUpReservation, CallRecord
    <3>2. call \in CallRecord /\ call.step = "done" /\ call.reserved = 0
      BY <1>2, CallEnds DEF PoolSteps
    <3>3. CallInv(c, call, poolJob[c], files', orphans')
      BY <1>2, <2>1, <2>2, <3>2 DEF CallInv
    <3>4. files' \subseteq Calls /\ \A b \in Calls \ {c} : b \in files' <=> b \in files
      BY <1>2, <2>2
    <3> HIDE DEF call
    <3>. QED BY <1>2, <2>1, <2>2, <3>1, <3>2, <3>3, <3>4, CallReleases
  <2>3. CASE orphans' = orphans \cup {c} /\ GoTo(c, "threw") /\ files' = files
             /\ routeActivity' = routeActivity
    <3> DEFINE call == [poolCall[c] EXCEPT !.step = "threw"]
    <3>1. poolCall' = [poolCall EXCEPT ![c] = call]
      BY <1>2, <2>3 DEF GoTo, CallRecord
    <3>2. CallInv(c, call, poolJob[c], files', orphans') /\ call.reserved = poolCall[c].reserved
      BY <1>2, <2>1, <2>3 DEF CallInv, CallRecord, PoolSteps
    <3>3. \A b \in Calls \ {c} : b \in orphans' <=> b \in orphans
      BY <2>3
    <3> HIDE DEF call
    <3>. QED BY <1>2, <2>1, <2>3, <3>1, <3>2, <3>3, CallGoesOn
  <2>. QED BY <1>9, <2>2, <2>3 DEF AnswerDuplicate
<1>10. ASSUME NEW c \in Calls, Activate(c) PROVE PoolInv'
  <2>1. poolCall[c].step = "admitted" /\ files' = files /\ orphans' = orphans
    BY <1>10 DEF Activate, CallAt
  <2>2. CASE GoTo(c, "running") /\ poolJob' = poolJob /\ routeActivity' = routeActivity
    <3> DEFINE call == [poolCall[c] EXCEPT !.step = "running"]
    <3>1. poolCall' = [poolCall EXCEPT ![c] = call]
      BY <1>2, <2>2 DEF GoTo, CallRecord
    <3>2. CallInv(c, call, poolJob[c], files', orphans') /\ call.reserved = poolCall[c].reserved
      BY <1>2, <2>1 DEF CallInv, CallRecord, PoolSteps
    <3> HIDE DEF call
    <3>. QED BY <1>2, <2>1, <2>2, <3>1, <3>2, CallGoesOn
  <2>3. CASE poolJob' = [poolJob EXCEPT ![c].live = FALSE] /\ GivesUpReservation(c)
    <3> DEFINE call == [[poolCall[c] EXCEPT !.step = "done"] EXCEPT !.reserved = 0]
               job == [poolJob[c] EXCEPT !.live = FALSE]
    <3>1. /\ poolCall' = [poolCall EXCEPT ![c] = call] /\ Release(c)
          /\ poolJob' = [poolJob EXCEPT ![c] = job]
      BY <1>2, <2>3 DEF GivesUpReservation, CallRecord, PooledJob
    <3>2. call \in CallRecord /\ call.step = "done" /\ call.reserved = 0 /\ call.dirty = poolCall[c].dirty
      BY <1>2, CallEnds DEF PoolSteps
    <3>3. job \in PooledJob /\ job.route = poolJob[c].route
      BY <1>2 DEF PooledJob
    <3>4. CallInv(c, call, job, files', orphans')
      BY <1>2, <2>1, <3>2, <3>3 DEF CallInv
    <3> HIDE DEF call, job
    <3>. QED BY <1>2, <2>1, <3>1, <3>2, <3>4, CallReleases
  <2>. QED BY <1>10, <2>2, <2>3 DEF Activate
<1>11. ASSUME NEW c \in Calls, SettlePooled(c) PROVE PoolInv'
  <2>1. /\ poolCall[c].step = "running" /\ files' = files /\ orphans' = orphans
        /\ poolJob' = [poolJob EXCEPT ![c].live = FALSE, ![c].settled = TRUE]
        /\ GivesUpReservation(c)
    BY <1>11 DEF SettlePooled, CallAt
  <2> DEFINE call == [[poolCall[c] EXCEPT !.step = "done"] EXCEPT !.reserved = 0]
             job == [[poolJob[c] EXCEPT !.live = FALSE] EXCEPT !.settled = TRUE]
  <2>2. /\ poolCall' = [poolCall EXCEPT ![c] = call] /\ Release(c)
        /\ poolJob' = [poolJob EXCEPT ![c] = job]
    BY <1>2, <2>1, ZenonT(40) DEF GivesUpReservation, CallRecord, PooledJob
  <2>3. call \in CallRecord /\ call.step = "done" /\ call.reserved = 0 /\ call.dirty = poolCall[c].dirty
    BY <1>2, CallEnds DEF PoolSteps
  <2>4. job \in PooledJob /\ job.route = poolJob[c].route
    BY <1>2 DEF PooledJob
  <2>5. CallInv(c, call, job, files', orphans')
    BY <1>2, <2>1, <2>3, <2>4 DEF CallInv
  <2> HIDE DEF call, job
  <2>. QED BY <1>2, <2>1, <2>2, <2>3, <2>5, CallReleases
<1>12. ASSUME NEW c \in Calls, LeaseLapses(c) PROVE PoolInv'
  <2>1. /\ poolJob[c].live /\ poolCall' = poolCall /\ files' = files /\ orphans' = orphans
        /\ routeActivity' = routeActivity /\ poolJob' = [poolJob EXCEPT ![c].live = FALSE]
    BY <1>12 DEF LeaseLapses
  <2> DEFINE job == [poolJob[c] EXCEPT !.live = FALSE]
  <2>2. poolJob' = [poolJob EXCEPT ![c] = job]
    BY <1>2, <2>1 DEF PooledJob
  <2>3. job \in PooledJob /\ job.route = poolJob[c].route /\ poolJob[c].route # 0
    <3>1. poolJob[c] # NoJob
      BY <2>1 DEF NoJob
    <3>. QED BY <1>2, <3>1 DEF CallInv, PooledJob
  <2>4. CallInv(c, poolCall[c], job, files', orphans')
    BY <1>2, <2>1, <2>3 DEF CallInv
  <2> HIDE DEF job
  <2>. QED BY <1>2, <2>1, <2>2, <2>4, CallGoesOn
<1>13. ASSUME NEW c \in Calls, RecoverPooled(c) PROVE PoolInv'
  <2>1. /\ poolCall[c].step \in {"done", "stopped"} /\ poolJob[c].route # 0
        /\ files' = files /\ orphans' = orphans /\ routeActivity' = routeActivity
        /\ poolJob' = [poolJob EXCEPT ![c].live = TRUE] /\ GoTo(c, "running")
    BY <1>13 DEF RecoverPooled
  <2> DEFINE call == [poolCall[c] EXCEPT !.step = "running"]
             job == [poolJob[c] EXCEPT !.live = TRUE]
  <2>2. poolCall' = [poolCall EXCEPT ![c] = call] /\ poolJob' = [poolJob EXCEPT ![c] = job]
    BY <1>2, <2>1 DEF GoTo, CallRecord, PooledJob
  <2>3. job \in PooledJob /\ job.route = poolJob[c].route
    BY <1>2 DEF PooledJob
  <2>4. CallInv(c, call, job, files', orphans') /\ call.reserved = poolCall[c].reserved
    BY <1>2, <2>1, <2>3 DEF CallInv, CallRecord, PoolSteps
  <2> HIDE DEF call, job
  <2>. QED BY <1>2, <2>1, <2>2, <2>4, CallGoesOn
<1>14. ASSUME ProcessStops PROVE PoolInv'
  <2> DEFINE open == {c \in Calls : poolCall[c].step \notin {"new", "done", "stopped"}}
  <2>1. /\ poolCall' = [c \in Calls |->
                IF c \in open THEN [poolCall[c] EXCEPT !.step = "stopped", !.reserved = 0]
                              ELSE poolCall[c]]
        /\ orphans' = orphans \cup {c \in files \cap open : poolJob[c] = NoJob}
        /\ routeActivity' = [r \in Routes |-> 0]
        /\ poolJob' = poolJob /\ files' = files
    BY <1>14 DEF ProcessStops
  <2>2. ASSUME NEW c \in Calls
        PROVE  CallInv(c, poolCall'[c], poolJob'[c], files', orphans') /\ poolCall'[c].reserved = 0
    <3>1. CASE c \in open
      <4>1. poolCall'[c] = [poolCall[c] EXCEPT !.step = "stopped", !.reserved = 0]
        BY <2>1, <3>1
      <4>2. /\ poolCall'[c] \in CallRecord /\ poolCall'[c].step = "stopped"
            /\ poolCall'[c].reserved = 0 /\ poolCall'[c].dirty = poolCall[c].dirty
        <5> DEFINE call == [[poolCall[c] EXCEPT !.step = "stopped"] EXCEPT !.reserved = 0]
        <5>1. poolCall'[c] = call
          BY <1>2, <4>1 DEF CallRecord
        <5>2. /\ call \in CallRecord /\ call.step = "stopped" /\ call.reserved = 0
              /\ call.dirty = poolCall[c].dirty
          BY <1>2, CallEnds DEF PoolSteps
        <5> HIDE DEF call
        <5>. QED BY <5>1, <5>2
      <4>. QED BY <1>2, <2>1, <3>1, <4>2 DEF CallInv
    <3>2. CASE c \notin open
      <4>1. poolCall'[c] = poolCall[c] /\ poolCall[c].step \in {"new", "done", "stopped"}
        BY <2>1, <3>2
      <4>. QED BY <1>2, <2>1, <4>1 DEF CallInv
    <3>. QED BY <3>1, <3>2
  <2>3. ASSUME NEW r \in Routes PROVE Cardinality(ReservedBy(poolCall', r)) = 0
    <3>1. ReservedBy(poolCall', r) = {}
      BY <2>2 DEF ReservedBy, Routes
    <3>. QED BY <3>1, CallsFinite
  <2>4. routeActivity' = [r \in Routes |-> Cardinality(ReservedBy(poolCall', r))]
    BY <2>1, <2>3
  <2>5. /\ poolCall' = [c \in Calls |-> poolCall'[c]]
        /\ poolJob' = [c \in Calls |-> poolJob'[c]] /\ files' \subseteq Calls
    BY <2>1 DEF PoolInv
  <2>. QED BY <2>2, <2>4, <2>5 DEF PoolInv
<1>. QED
  BY <1>3, <1>4, <1>5, <1>6, <1>7, <1>8, <1>9, <1>10, <1>11, <1>12, <1>13, <1>14 DEF PoolNext

\* Whichever of any number of calls fails, repeats another or is cut off by a stop, an
\* admitted Job keeps its snapshot, any other file on disk is accounted for, and every route
\* carries as many reservations as calls hold.
THEOREM AdmissionsLeaveNothing == PoolSpec => []AdmissionLeavesNothing
BY PoolBegins, PoolStep, PoolSuffices, PTL DEF PoolSpec

HasLeast(S) == \E k \in S : \A i \in S : k <= i

\* A set of numbers that is not empty has a least one.
LEMMA LeastExists ==
    ASSUME NEW S \in SUBSET Nat, NEW s \in S
    PROVE  HasLeast(S)
<1>1. s \in Nat
  OBVIOUS
<1> DEFINE D == {n \in 0..s : \A i \in S : n <= i}
           size == Cardinality(D)
<1>2. D \subseteq 0..s /\ 0 \in D /\ \A m \in D : 0..m \subseteq D
  BY <1>1
<1>3. IsFiniteSet(D) /\ size \in Nat
  <2>1. IsFiniteSet(0..s)
    BY <1>1, FS_Interval
  <2>2. IsFiniteSet(D)
    BY <2>1, <1>2, FS_Subset
  <2>. QED BY <2>2, FS_CardinalityType
<1>4. \A n \in D : \A i \in S : n <= i
  OBVIOUS
<1>5. \A n \in 0..s : (\A i \in S : n <= i) => n \in D
  OBVIOUS
<1> HIDE DEF D, size
<1>6. \A m \in D : m \in Nat /\ m <= size - 1
  <2>1. TAKE m \in D
  <2>2. m \in Nat
    BY <1>1, <1>2
  <2>3. Cardinality(0..m) = m + 1
    BY <2>2, FS_Interval
  <2>4. Cardinality(0..m) <= size
    BY <1>2, <1>3, FS_Subset DEF size
  <2>. QED BY <2>2, <2>3, <2>4, <1>3
<1>7. size - 1 \in D
  <2>1. SUFFICES ASSUME size - 1 \notin D PROVE FALSE
    OBVIOUS
  <2>2. D \subseteq 0..(size - 2)
    <3>1. SUFFICES ASSUME NEW m \in D PROVE m \in 0..(size - 2)
      OBVIOUS
    <3>2. m \in Nat /\ m <= size - 1 /\ m # size - 1
      BY <1>6, <2>1
    <3>. QED BY <3>2, <1>3
  <2>3. size - 2 \in Nat
    BY <2>2, <1>2, <1>3
  <2>4. IsFiniteSet(0..(size - 2)) /\ Cardinality(0..(size - 2)) = size - 1
    BY <2>3, <1>3, FS_Interval
  <2>5. Cardinality(D) <= Cardinality(0..(size - 2))
    BY <2>2, <2>4, FS_Subset
  <2>. QED BY <2>4, <2>5, <1>3 DEF size
<1>8. \A i \in S : size - 1 <= i
  BY <1>4, <1>7
<1>9. size \notin D
  BY <1>3, <1>6
<1>10. size - 1 \in Nat
  BY <1>6, <1>7
<1>11. size - 1 \in S
  <2>1. ASSUME size \in 0..s PROVE size - 1 \in S
    <3>1. PICK i \in S : ~ (size <= i)
      BY <1>5, <1>9, <2>1
    <3>2. size - 1 <= i /\ i \in Nat
      BY <1>8
    <3>. QED BY <3>1, <3>2, <1>3
  <2>2. size \in 0..s \/ size - 1 = s
    BY <1>1, <1>3, <1>8
  <2>. QED BY <2>1, <2>2
<1>. QED BY <1>8, <1>11 DEF HasLeast

-----------------------------------------------------------------------------
(* The rotation.  Where the cursor stands tells which member was chosen    *)
(* last, and choosing the least loaded one keeps the loads within one of   *)
(* each other as long as nothing else changes them.                        *)

\* No member is two Jobs ahead of another.
Balanced == \A q, r \in Routes : Load(q) <= Load(r) + 1

RotationInv ==
    /\ poolCursor \in 0..(RouteCount - 1)
    /\ lastPick.call # 0 => lastPick.route \in Routes /\ poolCursor = CursorAfter(lastPick.route)
    /\ durable \in BOOLEAN /\ (durable => \A c \in Calls : poolCall[c].step # "reserved")
    /\ quiet => Balanced

\* Every member is so many places behind the cursor.
LEMMA MemberAt ==
    ASSUME poolCursor \in 0..(RouteCount - 1), NEW r \in Routes
    PROVE  \E k \in 0..(RouteCount - 1) : ((poolCursor + k) % RouteCount) + 1 = r
<1>1. RouteCount \in Nat \ {0} /\ r \in 1..RouteCount
  BY PoolAssumption DEF Routes
<1>2. CASE r - 1 >= poolCursor
  <2>1. r - 1 - poolCursor \in 0..(RouteCount - 1) /\ poolCursor + (r - 1 - poolCursor) = r - 1
    BY <1>1, <1>2
  <2>2. (r - 1) % RouteCount = r - 1
    BY <1>1
  <2>3. ((poolCursor + (r - 1 - poolCursor)) % RouteCount) + 1 = r
    BY <2>1, <2>2, <1>1
  <2>. QED BY <2>1, <2>3
<1>3. CASE r - 1 < poolCursor
  <2>1. /\ r - 1 - poolCursor + RouteCount \in 0..(RouteCount - 1)
        /\ poolCursor + (r - 1 - poolCursor + RouteCount) = (r - 1) + RouteCount
    BY <1>1, <1>3
  <2>2. ((r - 1) + RouteCount) % RouteCount = r - 1
    BY <1>1
  <2>3. ((poolCursor + (r - 1 - poolCursor + RouteCount)) % RouteCount) + 1 = r
    BY <2>1, <2>2, <1>1
  <2>. QED BY <2>1, <2>3
<1>. QED BY <1>1, <1>2, <1>3

\* The member chosen is one of the least loaded; when all carry the same, the one at the cursor.
LEMMA SelectedIsLeast ==
    ASSUME poolCursor \in 0..(RouteCount - 1), \A r \in Routes : Load(r) \in Nat
    PROVE  /\ Selected \in Routes
           /\ \A r \in Routes : Load(Selected) <= Load(r)
           /\ (\A q, r \in Routes : Load(q) = Load(r)) => Selected = poolCursor + 1
<1> DEFINE Member(k) == ((poolCursor + k) % RouteCount) + 1
           least == {k \in 0..(RouteCount - 1) : \A r \in Routes : Load(Member(k)) <= Load(r)}
           first == CHOOSE k \in least : \A i \in least : k <= i
<1>1. RouteCount \in Nat \ {0} /\ 1 \in Routes /\ 0 \in 0..(RouteCount - 1)
  BY PoolAssumption DEF Routes
<1>2. \A k \in 0..(RouteCount - 1) : Member(k) \in Routes
  <2>1. TAKE k \in 0..(RouteCount - 1)
  <2>2. (poolCursor + k) \in Nat
    BY <1>1
  <2>3. (poolCursor + k) % RouteCount \in 0..(RouteCount - 1)
    BY <2>2, <1>1
  <2>. QED BY <2>3, <1>1 DEF Routes
<1>3. Selected = Member(first)
  BY DEF Selected
<1>4. \A r \in Routes : \E k \in 0..(RouteCount - 1) : Member(k) = r
  BY MemberAt
<1>5. Member(0) = poolCursor + 1
  <2>1. poolCursor + 0 = poolCursor /\ poolCursor % RouteCount = poolCursor
    BY <1>1
  <2>. QED BY <2>1
<1> HIDE DEF Member
<1>6. \E k \in 0..(RouteCount - 1) : k \in least
  <2> DEFINE loads == {Load(r) : r \in Routes}
  <2>1. loads \in SUBSET Nat
    OBVIOUS
  <2>2. \A r \in Routes : Load(r) \in loads
    OBVIOUS
  <2>3. \A x \in loads : \E m \in Routes : x = Load(m)
    OBVIOUS
  <2> HIDE DEF loads
  <2>6. PICK x \in loads : \A i \in loads : x <= i
    <3>1. Load(1) \in loads
      BY <1>1, <2>2
    <3>2. HasLeast(loads)
      BY <2>1, <3>1, LeastExists
    <3>. QED BY <3>2 DEF HasLeast
  <2>7. PICK m \in Routes : x = Load(m)
    BY <2>3
  <2>4. PICK k \in 0..(RouteCount - 1) : Member(k) = m
    BY <1>4
  <2>5. \A r \in Routes : Load(Member(k)) <= Load(r)
    BY <2>2, <2>6, <2>7, <2>4
  <2>. QED BY <2>5
<1>7. least \in SUBSET Nat
  BY <1>1
<1>14. least \subseteq 0..(RouteCount - 1)
  OBVIOUS
<1>12. \A k \in least : \A r \in Routes : Load(Member(k)) <= Load(r)
  OBVIOUS
<1>13. (\A r \in Routes : Load(Member(0)) <= Load(r)) => 0 \in least
  BY <1>1
<1> HIDE DEF least
<1>8. \E k \in least : \A i \in least : k <= i
  <2>1. HasLeast(least)
    BY <1>6, <1>7, LeastExists
  <2>. QED BY <2>1 DEF HasLeast
<1>9. first \in least /\ \A i \in least : first <= i
  BY <1>8
<1>10. Member(first) \in Routes /\ \A r \in Routes : Load(Member(first)) <= Load(r)
  BY <1>2, <1>9, <1>12, <1>7, <1>14
<1>11. ASSUME \A q, r \in Routes : Load(q) = Load(r)
       PROVE  first = 0
  <2>1. \A r \in Routes : Load(Member(0)) <= Load(r)
    <3>1. TAKE r \in Routes
    <3>2. Load(Member(0)) = Load(r) /\ Load(r) \in Nat
      BY <1>1, <1>2, <1>11
    <3>. QED BY <3>2
  <2>2. 0 \in least
    BY <2>1, <1>13
  <2>3. first <= 0 /\ first \in Nat
    BY <2>2, <1>9, <1>7
  <2>. QED BY <2>3
<1>. QED BY <1>3, <1>5, <1>10, <1>11

LEMMA LoadsAreNumbers == PoolInv => \A r \in Routes : Load(r) \in Nat
<1>1. SUFFICES ASSUME PoolInv, NEW r \in Routes PROVE Load(r) \in Nat
  OBVIOUS
<1>2. Cardinality(ReservedBy(poolCall, r)) \in Nat
  BY CallsFinite, FS_Subset, FS_CardinalityType DEF ReservedBy
<1>3. routeActivity[r] \in Nat
  BY <1>1, <1>2 DEF PoolInv
<1>4. Cardinality({c \in Calls : poolJob[c].route = r /\ poolJob[c].live}) \in Nat
  BY CallsFinite, FS_Subset, FS_CardinalityType
<1>. QED BY <1>3, <1>4 DEF Load

LEMMA RotationBegins == PoolInit => RotationInv
<1>1. SUFFICES ASSUME PoolInit PROVE RotationInv
  OBVIOUS
<1>2. poolCursor = 0 /\ lastPick.call = 0 /\ durable \in BOOLEAN /\ RouteCount \in Nat \ {0}
  BY <1>1, PoolAssumption DEF PoolInit
<1>3. \A c \in Calls : poolCall[c].step = "new"
  BY <1>1 DEF PoolInit
<1>4. ASSUME NEW r \in Routes PROVE Load(r) = 0
  <2>1. {c \in Calls : poolJob[c].route = r /\ poolJob[c].live} = {}
    BY <1>1 DEF PoolInit, NoJob
  <2>2. routeActivity[r] = 0
    BY <1>1 DEF PoolInit
  <2>. QED BY <2>1, <2>2, CallsFinite DEF Load
<1>5. Balanced
  BY <1>4 DEF Balanced
<1>. QED BY <1>2, <1>3, <1>5 DEF RotationInv

\* A step that chooses no member: it takes load away or puts it on a route by name, and says so,
\* or leaves the loads alone.
LEMMA RotationKept ==
    ASSUME RotationInv, UNCHANGED <<durable, poolCursor, lastPick>>,
           durable => \A b \in Calls : poolCall'[b].step # "reserved",
           quiet' => quiet /\ UNCHANGED routeActivity /\ (durable => UNCHANGED poolJob)
    PROVE  RotationInv'
<1>1. ASSUME quiet' PROVE Balanced'
  <2>1. \A r \in Routes : Load(r)' = Load(r)
    BY <1>1 DEF RotationInv, Load
  <2>2. Balanced
    BY <1>1 DEF RotationInv
  <2>. QED BY <2>1, <2>2 DEF Balanced
<1>. QED BY <1>1 DEF RotationInv

\* A call at c goes to a step that is not "reserved".
LEMMA NotReserved ==
    ASSUME PoolInv, RotationInv, NEW c \in Calls, NEW call, call.step # "reserved",
           poolCall' = [poolCall EXCEPT ![c] = call]
    PROVE  durable => \A b \in Calls : poolCall'[b].step # "reserved"
BY DEF PoolInv, RotationInv

\* A choice in the pool puts one Job on the member it selects.
LEMMA ChoiceBalances ==
    ASSUME PoolInv, RotationInv, quiet,
           \A r \in Routes : Load(r)' = Load(r) + (IF r = Selected THEN 1 ELSE 0)
    PROVE  Balanced'
<1>1. \A r \in Routes : Load(r) \in Nat
  BY LoadsAreNumbers
<1>2. Selected \in Routes /\ \A r \in Routes : Load(Selected) <= Load(r)
  BY <1>1, SelectedIsLeast DEF RotationInv
<1>3. SUFFICES ASSUME NEW q \in Routes, NEW r \in Routes PROVE Load(q)' <= Load(r)' + 1
  BY DEF Balanced
<1>4. /\ Load(q)' = Load(q) + (IF q = Selected THEN 1 ELSE 0)
      /\ Load(r)' = Load(r) + (IF r = Selected THEN 1 ELSE 0)
      /\ Load(q) \in Nat /\ Load(r) \in Nat /\ Load(q) <= Load(r) + 1 /\ Load(Selected) <= Load(r)
  BY <1>1, <1>2 DEF RotationInv, Balanced
<1>5. CASE q = Selected
  BY <1>4, <1>5
<1>6. CASE q # Selected
  BY <1>4, <1>6
<1>. QED BY <1>5, <1>6

\* What a choice leaves, whoever makes it, once the loads are known to have followed it.
LEMMA ChoiceKeeps ==
    ASSUME PoolInv, RotationInv, NEW c \in Calls, NEW r \in Routes, Chooses(c, r),
           UNCHANGED durable, durable => \A b \in Calls : poolCall'[b].step # "reserved",
           \A q \in Routes : Load(q)' = Load(q) + (IF q = r THEN 1 ELSE 0)
    PROVE  /\ RotationInv'
           /\ lastPick' # lastPick =>
                /\ (lastPick.call # 0 /\ \A q, s \in Routes : Load(q) = Load(s))
                    => lastPick'.route = (lastPick.route % RouteCount) + 1
                /\ quiet' => \A q, s \in Routes : Load(q)' <= Load(s)' + 1
<1>1. /\ RouteCount \in Nat \ {0} /\ r \in 1..RouteCount /\ poolCursor \in 0..(RouteCount - 1)
      /\ durable \in BOOLEAN
  BY PoolAssumption DEF Routes, RotationInv
<1>2. CASE /\ r = Selected /\ poolCursor' = CursorAfter(r) /\ UNCHANGED quiet
           /\ lastPick' = [call |-> c, route |-> r]
  <2>1. poolCursor' \in 0..(RouteCount - 1)
    BY <1>1, <1>2 DEF CursorAfter
  <2>2. quiet' => Balanced'
    BY <1>2, ChoiceBalances
  <2>3. lastPick'.route \in Routes /\ poolCursor' = CursorAfter(lastPick'.route)
    BY <1>2
  <2>4. RotationInv'
    BY <1>1, <2>1, <2>2, <2>3 DEF RotationInv, CursorAfter, Routes
  <2>5. ASSUME lastPick.call # 0, \A q, s \in Routes : Load(q) = Load(s)
        PROVE  lastPick'.route = (lastPick.route % RouteCount) + 1
    <3>1. Selected = poolCursor + 1
      BY <1>1, <2>5, SelectedIsLeast, LoadsAreNumbers
    <3>2. poolCursor = lastPick.route % RouteCount
      BY <2>5 DEF RotationInv, CursorAfter
    <3>. QED BY <1>2, <3>1, <3>2
  <2>. QED BY <2>2, <2>4, <2>5 DEF Balanced
<1>3. CASE quiet' = FALSE /\ UNCHANGED <<poolCursor, lastPick>>
  BY <1>3 DEF RotationInv, CursorAfter, Routes
<1>. QED BY <1>2, <1>3 DEF Chooses


\* What a step that changes lastPick has chosen.
ChoosesEvenly ==
    lastPick' # lastPick =>
        /\ (lastPick.call # 0 /\ \A q, r \in Routes : Load(q) = Load(r))
            => lastPick'.route = (lastPick.route % RouteCount) + 1
        /\ quiet' => \A q, r \in Routes : Load(q)' <= Load(r)' + 1

LEMMA RotationStep ==
    PoolInv /\ RotationInv /\ [PoolNext]_poolVars => RotationInv' /\ ChoosesEvenly
<1> SUFFICES ASSUME PoolInv, RotationInv, [PoolNext]_poolVars PROVE RotationInv' /\ ChoosesEvenly
  OBVIOUS
<1>1. ASSUME NEW c \in Calls
      PROVE  /\ poolCall[c] \in CallRecord /\ poolJob[c] \in PooledJob
             /\ poolCall[c].step = "persisted" => poolJob[c] = NoJob
             /\ poolCall = [b \in Calls |-> poolCall[b]] /\ poolJob = [b \in Calls |-> poolJob[b]]
             /\ routeActivity = [r \in Routes |-> routeActivity[r]]
  BY DEF PoolInv, CallInv
<1>2. ASSUME UNCHANGED <<durable, poolCursor, lastPick>>,
             durable => \A b \in Calls : poolCall'[b].step # "reserved",
             quiet' => quiet /\ UNCHANGED routeActivity /\ (durable => UNCHANGED poolJob)
      PROVE  RotationInv' /\ ChoosesEvenly
  BY <1>2, RotationKept DEF ChoosesEvenly
<1>3. CASE UNCHANGED poolVars
  <2>1. UNCHANGED <<durable, poolCursor, lastPick, quiet, routeActivity, poolJob, poolCall>>
    BY <1>3 DEF poolVars
  <2>. QED BY <2>1, <1>2 DEF RotationInv
<1>4. ASSUME NEW c \in Calls, PersistSnapshot(c) PROVE RotationInv' /\ ChoosesEvenly
  <2>1. PICK q \in Requests :
            poolCall' = [poolCall EXCEPT ![c] =
                    [step |-> "persisted", target |-> q.target, dirty |-> q.dirty,
                     keyed |-> q.keyed, reserved |-> 0]]
    BY <1>4 DEF PersistSnapshot
  <2>2. PICK call : call = [step |-> "persisted", target |-> q.target, dirty |-> q.dirty,
                            keyed |-> q.keyed, reserved |-> 0]
    OBVIOUS
  <2>3. durable => \A b \in Calls : poolCall'[b].step # "reserved"
    BY <2>1, <2>2, NotReserved
  <2>4. UNCHANGED <<durable, poolCursor, lastPick, quiet, routeActivity, poolJob>>
    BY <1>4 DEF PersistSnapshot
  <2>. QED BY <2>3, <2>4, <1>2
<1>5. ASSUME NEW c \in Calls, ReserveRoute(c) PROVE RotationInv' /\ ChoosesEvenly
  <2>1. PICK r \in Routes : Chooses(c, r) /\ routeActivity' = [routeActivity EXCEPT ![r] = @ + 1]
    BY <1>5 DEF ReserveRoute
  <2>2. ~ durable /\ UNCHANGED <<durable, poolJob>>
    BY <1>5 DEF ReserveRoute
  <2>3. ASSUME NEW q \in Routes PROVE Load(q)' = Load(q) + (IF q = r THEN 1 ELSE 0)
    <3>1. routeActivity[q] \in Nat /\ Load(q) = routeActivity[q] /\ Load(q)' = routeActivity'[q]
      BY <2>2, LoadsAreNumbers DEF Load
    <3>2. routeActivity'[q] = IF q = r THEN routeActivity[q] + 1 ELSE routeActivity[q]
      BY <1>1, <1>5, <2>1
    <3>. QED BY <3>1, <3>2
  <2>. QED BY <1>5, <2>1, <2>2, <2>3, ChoiceKeeps DEF ChoosesEvenly
<1>6. ASSUME NEW c \in Calls, AdmitDurably(c) PROVE RotationInv' /\ ChoosesEvenly
  <2>1. poolCall[c].step = "persisted" /\ durable /\ UNCHANGED <<durable, routeActivity>>
    BY <1>6 DEF AdmitDurably, CallAt
  <2>2. ASSUME NEW r \in Routes, Chooses(c, r), Enter(c, r) PROVE RotationInv' /\ ChoosesEvenly
    <3>1. PICK call : call = [poolCall[c] EXCEPT !.step = "admitted"]
      OBVIOUS
    <3>2. call.step # "reserved" /\ poolCall' = [poolCall EXCEPT ![c] = call]
      BY <1>1, <2>2, <3>1 DEF Enter, GoTo, CallRecord
    <3>3. durable => \A b \in Calls : poolCall'[b].step # "reserved"
      BY <3>2, NotReserved
    <3>4. ASSUME NEW q \in Routes PROVE Load(q)' = Load(q) + (IF q = r THEN 1 ELSE 0)
      <4> DEFINE old == {b \in Calls : poolJob[b].route = q /\ poolJob[b].live}
                 new == {b \in Calls : poolJob'[b].route = q /\ poolJob'[b].live}
      <4>1. Load(q) = Cardinality(old) /\ Load(q)' = Cardinality(new)
        BY <2>1 DEF Load
      <4>2. IsFiniteSet(old) /\ Cardinality(old) \in Nat /\ c \notin old
        BY <1>1, <2>1, CallsFinite, FS_Subset, FS_CardinalityType DEF NoJob
      <4>3. /\ \A b \in Calls \ {c} : poolJob'[b] = poolJob[b]
            /\ poolJob'[c].route = r /\ poolJob'[c].live
        BY <1>1, <2>2 DEF Enter
      <4>4. CASE q = r
        <5>1. new = old \cup {c}
          BY <4>3, <4>4
        <5> HIDE DEF old, new
        <5>2. Cardinality(new) = Cardinality(old) + 1
          BY <4>2, <5>1, FS_AddElement
        <5>. QED BY <4>1, <4>4, <5>2
      <4>5. CASE q # r
        <5>1. new = old
          BY <4>2, <4>3, <4>5
        <5> HIDE DEF old, new
        <5>. QED BY <4>1, <4>2, <4>5, <5>1
      <4>. QED BY <4>4, <4>5
    <3>. QED BY <2>1, <2>2, <3>3, <3>4, ChoiceKeeps DEF ChoosesEvenly
  <2>3. ASSUME GoTo(c, "duplicate"), UNCHANGED <<poolJob, poolCursor, lastPick, quiet>>
        PROVE  RotationInv' /\ ChoosesEvenly
    <3>1. PICK call : call = [poolCall[c] EXCEPT !.step = "duplicate"]
      OBVIOUS
    <3>2. call.step # "reserved" /\ poolCall' = [poolCall EXCEPT ![c] = call]
      BY <1>1, <2>3, <3>1 DEF GoTo, CallRecord
    <3>3. durable => \A b \in Calls : poolCall'[b].step # "reserved"
      BY <3>2, NotReserved
    <3>. QED BY <2>1, <2>3, <3>3, <1>2
  <2>. QED BY <1>6, <2>2, <2>3 DEF AdmitDurably
<1>7. ASSUME NEW c \in Calls, AdmitReserved(c) PROVE RotationInv' /\ ChoosesEvenly
  <2>1. /\ poolCall[c].step = "reserved"
        /\ UNCHANGED <<durable, poolCursor, routeActivity, lastPick, quiet>>
    BY <1>7 DEF AdmitReserved, CallAt
  <2>2. ~ durable
    BY <2>1, <1>7 DEF RotationInv
  <2>. QED BY <2>1, <2>2, <1>2
<1>8. ASSUME NEW c \in Calls, NEW at \in {"duplicate", "threw", "running", "done"},
             \/ GoTo(c, at)
             \/ poolCall' = [poolCall EXCEPT ![c].step = at, ![c].reserved = 0]
      PROVE  durable => \A b \in Calls : poolCall'[b].step # "reserved"
  <2>1. CASE GoTo(c, at)
    <3>1. PICK call : call = [poolCall[c] EXCEPT !.step = at]
      OBVIOUS
    <3>2. call.step # "reserved" /\ poolCall' = [poolCall EXCEPT ![c] = call]
      BY <1>1, <1>8, <2>1, <3>1 DEF GoTo, CallRecord
    <3>. QED BY <3>2, NotReserved
  <2>2. CASE poolCall' = [poolCall EXCEPT ![c].step = at, ![c].reserved = 0]
    <3>1. PICK call : call = [[poolCall[c] EXCEPT !.step = at] EXCEPT !.reserved = 0]
      OBVIOUS
    <3>2. call.step # "reserved"
      BY <1>1, <1>8, <3>1 DEF CallRecord
    <3>3. poolCall' = [poolCall EXCEPT ![c] = call]
      BY <1>1, <1>8, <2>2, <3>1 DEF CallRecord
    <3>. QED BY <3>2, <3>3, NotReserved
  <2>. QED BY <1>8, <2>1, <2>2
<1>9. ASSUME NEW c \in Calls, AdmissionFails(c) PROVE RotationInv' /\ ChoosesEvenly
  <2>1. /\ quiet' = FALSE /\ UNCHANGED <<durable, poolCursor, lastPick>>
        /\ poolCall' = [poolCall EXCEPT ![c].step = "done", ![c].reserved = 0]
    BY <1>9 DEF AdmissionFails, Release
  <2>. QED BY <2>1, <1>2, <1>8, <1>9
<1>10. ASSUME NEW c \in Calls, AnswerDuplicate(c) PROVE RotationInv' /\ ChoosesEvenly
  <2>1. UNCHANGED <<durable, poolCursor, lastPick, poolJob>>
    BY <1>10 DEF AnswerDuplicate
  <2>2. CASE GivesUpReservation(c)
    <3>1. quiet' = FALSE /\ poolCall' = [poolCall EXCEPT ![c].step = "done", ![c].reserved = 0]
      BY <2>2 DEF GivesUpReservation, Release
    <3>. QED BY <2>1, <3>1, <1>2, <1>8, <1>10
  <2>3. CASE GoTo(c, "threw") /\ UNCHANGED <<routeActivity, quiet>>
    BY <2>1, <2>3, <1>2, <1>8, <1>10
  <2>. QED BY <1>10, <2>2, <2>3 DEF AnswerDuplicate
<1>11. ASSUME NEW c \in Calls, Activate(c) PROVE RotationInv' /\ ChoosesEvenly
  <2>1. UNCHANGED <<durable, poolCursor, lastPick>>
    BY <1>11 DEF Activate
  <2>2. CASE GivesUpReservation(c)
    <3>1. quiet' = FALSE /\ poolCall' = [poolCall EXCEPT ![c].step = "done", ![c].reserved = 0]
      BY <2>2 DEF GivesUpReservation, Release
    <3>. QED BY <2>1, <3>1, <1>2, <1>8, <1>11
  <2>3. CASE GoTo(c, "running") /\ UNCHANGED <<poolJob, routeActivity, quiet>>
    BY <2>1, <2>3, <1>2, <1>8, <1>11
  <2>. QED BY <1>11, <2>2, <2>3 DEF Activate
<1>12. ASSUME NEW c \in Calls, SettlePooled(c) PROVE RotationInv' /\ ChoosesEvenly
  <2>1. /\ quiet' = FALSE /\ UNCHANGED <<durable, poolCursor, lastPick>>
        /\ poolCall' = [poolCall EXCEPT ![c].step = "done", ![c].reserved = 0]
    BY <1>12 DEF SettlePooled, GivesUpReservation, Release
  <2>. QED BY <2>1, <1>2, <1>8, <1>12
<1>13. ASSUME NEW c \in Calls, LeaseLapses(c) PROVE RotationInv' /\ ChoosesEvenly
  <2>1. quiet' = FALSE /\ UNCHANGED <<durable, poolCursor, lastPick, poolCall>>
    BY <1>13 DEF LeaseLapses
  <2>. QED BY <2>1, <1>2 DEF RotationInv
<1>14. ASSUME NEW c \in Calls, RecoverPooled(c) PROVE RotationInv' /\ ChoosesEvenly
  <2>1. quiet' = FALSE /\ UNCHANGED <<durable, poolCursor, lastPick>> /\ GoTo(c, "running")
    BY <1>14 DEF RecoverPooled
  <2>. QED BY <2>1, <1>2, <1>8, <1>14
<1>15. CASE ProcessStops
  <2>1. quiet' = FALSE /\ UNCHANGED <<durable, poolCursor, lastPick>>
    BY <1>15 DEF ProcessStops
  <2>2. PICK open : poolCall' = [c \in Calls |->
            IF c \in open THEN [poolCall[c] EXCEPT !.step = "stopped", !.reserved = 0]
                          ELSE poolCall[c]]
    BY <1>15 DEF ProcessStops
  <2>3. ASSUME durable, NEW b \in Calls PROVE poolCall'[b].step # "reserved"
    <3>1. CASE b \in open
      <4>1. poolCall'[b] = [poolCall[b] EXCEPT !.step = "stopped", !.reserved = 0]
        BY <2>2, <3>1
      <4>. QED BY <1>1, <4>1 DEF CallRecord
    <3>2. CASE b \notin open
      BY <2>2, <2>3, <3>2 DEF RotationInv
    <3>. QED BY <3>1, <3>2
  <2>. QED BY <2>1, <2>3, <1>2
<1>. QED
  BY <1>3, <1>4, <1>5, <1>6, <1>7, <1>9, <1>10, <1>11, <1>12, <1>13, <1>14, <1>15 DEF PoolNext

LEMMA RotationMaintained == PoolSpec => [](PoolInv /\ RotationInv)
BY PoolBegins, RotationBegins, PoolStep, RotationStep, PTL DEF PoolSpec

\* Whatever is admitted by name, settled, refused as a duplicate or recovered in between: of
\* any number of equally loaded members the next choice is the one behind the last chosen, and
\* while load is only added no member is two Jobs ahead of another.
THEOREM ChoicesRotate == PoolSpec => PoolRotates
<1>1. PoolInv /\ RotationInv /\ [PoolNext]_poolVars =>
        [lastPick' # lastPick =>
            /\ (lastPick.call # 0 /\ \A q, r \in Routes : Load(q) = Load(r))
                => lastPick'.route = (lastPick.route % RouteCount) + 1
            /\ quiet' => \A q, r \in Routes : Load(q)' <= Load(r)' + 1]_poolVars
  BY RotationStep DEF ChoosesEvenly
<1>. QED BY <1>1, RotationMaintained, PTL DEF PoolSpec, PoolRotates

-----------------------------------------------------------------------------
(* Evidence about a task.  Records are only appended, but for the binding  *)
(* of an unbound WorkOrder, the patch and the outcome of a Job; what a     *)
(* command has read therefore stays true until it writes.                  *)

TaskStatuses == {"none", "running"} \cup Outcomes
OrderRecord == [job: Nat, revision: Nat]
TaskJobRecord == [status: TaskStatuses, patch: BOOLEAN]
CandidateRecord == [order: Nat, job: Nat]
ReviewRecord == [candidate: Nat]
DispositionRecord == [id: Nat, candidate: Nat, review: Nat, decision: Decisions]

CommandSteps == {"idle", "start", "bind", "commit", "list", "create", "review", "check", "record",
                 "reread", "showCandidates", "showReviews", "showDispositions", "shown"}
Advices == {"none", "wait", "reissue", "inspect integrity", "inspect evidence",
            "promoted or stale", "review drift", "review result", "decide", "promote", "mixed",
            "discarded"}
Command == [step: CommandSteps, order: Nat, revision: Nat, job: Nat, status: TaskStatuses,
            candidate: Nat, review: Nat, decision: Decisions \cup {"none"},
            seen: SUBSET Nat, seenReviews: SUBSET Nat, advice: Advices]

\* What holds of a command at e, when there are so many orders and Jobs, these reviews and
\* these dispositions: what it names exists, and advice rests on what it was shown.
CommandInv(e, orderCount, jobCount, revs, decided) ==
    /\ e \in Command
    /\ e.step \in {"start", "bind", "commit", "list", "create"} => e.order \in 1..orderCount
    /\ e.step \in {"bind", "commit", "list", "create"} => e.job \in 1..jobCount
    /\ e.step \in {"check", "record", "reread"} =>
            e.review \in 1..Len(revs) /\ e.decision \in Decisions
    /\ e.step \in {"record", "reread"} => revs[e.review].candidate = e.candidate
    /\ e.step # "shown" => e.advice = "none"
    /\ e.advice \in {"promote", "promoted or stale"} =>
            \A n \in e.seen : \E d \in decided :
                d.candidate = n /\ d.decision = "accept" /\ d.review \in e.seenReviews

RecordsTyped ==
    /\ orders \in Seq(OrderRecord) /\ taskJobs \in Seq(TaskJobRecord)
    /\ candidates \in Seq(CandidateRecord) /\ reviews \in Seq(ReviewRecord)
    /\ dispositions \subseteq DispositionRecord

OrdersInv == \A o \in 1..Len(orders) : orders[o].job \in 0..Len(taskJobs)

CandidatesInv ==
    \A n \in 1..Len(candidates) :
        LET k == candidates[n]
        IN /\ k.order \in 1..Len(orders) /\ k.job \in 1..Len(taskJobs)
           /\ orders[k.order].job = k.job /\ taskJobs[k.job].patch

DispositionsInv ==
    /\ told \subseteq dispositions
    /\ \A d \in dispositions :
        d.id = d.candidate /\ d.review \in 1..Len(reviews)
        /\ reviews[d.review].candidate = d.candidate
    /\ \A d, e \in dispositions : d.id = e.id => d = e

CommandsInv ==
    /\ ctl = [c \in Controllers |-> ctl[c]]
    /\ \A c \in Controllers :
        CommandInv(ctl[c], Len(orders), Len(taskJobs), reviews, dispositions)

EvidenceInv == RecordsTyped /\ OrdersInv /\ CandidatesInv /\ DispositionsInv /\ CommandsInv

LEMMA Domains ==
    ASSUME RecordsTyped
    PROVE  /\ DOMAIN orders = 1..Len(orders) /\ Len(orders) \in Nat
           /\ DOMAIN taskJobs = 1..Len(taskJobs) /\ Len(taskJobs) \in Nat
           /\ DOMAIN candidates = 1..Len(candidates) /\ Len(candidates) \in Nat
           /\ DOMAIN reviews = 1..Len(reviews) /\ Len(reviews) \in Nat
           /\ \A o \in 1..Len(orders) : orders[o] \in OrderRecord
           /\ \A j \in 1..Len(taskJobs) : taskJobs[j] \in TaskJobRecord
           /\ \A n \in 1..Len(candidates) : candidates[n] \in CandidateRecord
           /\ \A r \in 1..Len(reviews) : reviews[r] \in ReviewRecord
BY LenProperties DEF RecordsTyped

LEMMA EvidenceSuffices == EvidenceInv => DecisionsAgree /\ EvidenceStands
<1>1. SUFFICES ASSUME EvidenceInv PROVE DecisionsAgree /\ EvidenceStands
  OBVIOUS
<1>2. DecisionsAgree
  BY <1>1 DEF EvidenceInv, DispositionsInv, DecisionsAgree
<1>3. EvidenceChained
  BY <1>1, Domains DEF EvidenceInv, CandidatesInv, DispositionsInv, EvidenceChained
<1>4. ASSUME NEW c \in Controllers, ctl[c].advice \in {"promote", "promoted or stale"},
             NEW n \in ctl[c].seen
      PROVE  \E d \in dispositions :
                d.candidate = n /\ d.decision = "accept" /\ d.review \in ctl[c].seenReviews
  BY <1>1, <1>4 DEF EvidenceInv, CommandsInv, CommandInv
<1>. QED BY <1>2, <1>3, <1>4 DEF EvidenceStands

LEMMA IdleCommand ==
    ASSUME NEW orderCount, NEW jobCount, NEW revs, NEW decided
    PROVE  CommandInv(Idle, orderCount, jobCount, revs, decided)
BY DEF CommandInv, Command, CommandSteps, TaskStatuses, Advices, Idle

LEMMA EvidenceBegins == TaskInit => EvidenceInv
<1>1. SUFFICES ASSUME TaskInit PROVE EvidenceInv
  OBVIOUS
<1>2. /\ orders = <<>> /\ candidates = <<>> /\ reviews = <<>> /\ dispositions = {} /\ told = {}
      /\ taskJobs = <<[status |-> "running", patch |-> FALSE]>>
      /\ ctl = [c \in Controllers |-> Idle]
  BY <1>1 DEF TaskInit
<1>3. [status |-> "running", patch |-> FALSE] \in TaskJobRecord
  BY DEF TaskJobRecord, TaskStatuses
<1>4. RecordsTyped
  BY <1>2, <1>3, EmptySeq DEF RecordsTyped
<1>5. Len(orders) = 0 /\ Len(candidates) = 0
  BY <1>2, EmptySeq
<1>6. OrdersInv /\ CandidatesInv /\ DispositionsInv
  BY <1>2, <1>5 DEF OrdersInv, CandidatesInv, DispositionsInv
<1>7. CommandsInv
  BY <1>2, IdleCommand DEF CommandsInv
<1>. QED BY <1>4, <1>6, <1>7 DEF EvidenceInv

\* The orders, Jobs, reviews and dispositions there were are still there.
RecordsKept ==
    /\ Len(orders) <= Len(orders)' /\ Len(taskJobs) <= Len(taskJobs)'
    /\ Len(reviews) <= Len(reviews)'
    /\ \A r \in 1..Len(reviews) : reviews'[r] = reviews[r]
    /\ dispositions \subseteq dispositions'

\* What a command has read is not taken back.
LEMMA CommandKept ==
    ASSUME EvidenceInv, RecordsKept, RecordsTyped', NEW e,
           CommandInv(e, Len(orders), Len(taskJobs), reviews, dispositions)
    PROVE  CommandInv(e, Len(orders)', Len(taskJobs)', reviews', dispositions')
<1>1. /\ Len(orders) \in Nat /\ Len(taskJobs) \in Nat /\ Len(reviews) \in Nat
      /\ Len(orders)' \in Nat /\ Len(taskJobs)' \in Nat /\ Len(reviews)' \in Nat
  BY LenProperties DEF EvidenceInv, RecordsTyped
<1>2. /\ 1..Len(orders) \subseteq 1..Len(orders)' /\ 1..Len(taskJobs) \subseteq 1..Len(taskJobs)'
      /\ 1..Len(reviews) \subseteq 1..Len(reviews)'
  BY <1>1 DEF RecordsKept
<1>3. /\ e.step \in {"start", "bind", "commit", "list", "create"} => e.order \in 1..Len(orders)'
      /\ e.step \in {"bind", "commit", "list", "create"} => e.job \in 1..Len(taskJobs)'
  BY <1>2 DEF CommandInv
<1>4. e.step \in {"check", "record", "reread"} =>
        e.review \in 1..Len(reviews)' /\ e.decision \in Decisions
        /\ reviews'[e.review] = reviews[e.review]
  BY <1>2 DEF CommandInv, RecordsKept
<1>5. e.step \in {"record", "reread"} => reviews'[e.review].candidate = e.candidate
  BY <1>4 DEF CommandInv
<1>6. e.advice \in {"promote", "promoted or stale"} =>
        \A n \in e.seen : \E d \in dispositions' :
            d.candidate = n /\ d.decision = "accept" /\ d.review \in e.seenReviews
  BY DEF CommandInv, RecordsKept
<1>. QED BY <1>3, <1>4, <1>5, <1>6 DEF CommandInv

\* A controller moves on to e, and what it wrote keeps the records in order.
LEMMA ControllerMoves ==
    ASSUME EvidenceInv, RecordsTyped', OrdersInv', CandidatesInv', DispositionsInv', RecordsKept,
           NEW c \in Controllers, NEW e, ctl' = [ctl EXCEPT ![c] = e],
           CommandInv(e, Len(orders)', Len(taskJobs)', reviews', dispositions')
    PROVE  EvidenceInv'
<1>1. ctl' = [b \in Controllers |-> ctl'[b]]
  BY DEF EvidenceInv, CommandsInv
<1>2. ASSUME NEW b \in Controllers
      PROVE  CommandInv(ctl'[b], Len(orders)', Len(taskJobs)', reviews', dispositions')
  <2>1. CASE b = c
    BY <2>1 DEF EvidenceInv, CommandsInv
  <2>2. CASE b # c
    <3>1. ctl'[b] = ctl[b]
      BY <2>2 DEF EvidenceInv, CommandsInv
    <3>2. CommandInv(ctl[b], Len(orders), Len(taskJobs), reviews, dispositions)
      BY DEF EvidenceInv, CommandsInv
    <3>3. CommandInv(ctl[b], Len(orders)', Len(taskJobs)', reviews', dispositions')
      BY <3>2, CommandKept
    <3>. QED BY <3>1, <3>3
  <2>. QED BY <2>1, <2>2
<1>. QED BY <1>1, <1>2 DEF EvidenceInv, CommandsInv

\* A controller that only reads.
LEMMA ControllerReads ==
    ASSUME EvidenceInv, UNCHANGED <<orders, taskJobs, candidates, reviews, dispositions, told>>,
           NEW c \in Controllers, NEW e, ctl' = [ctl EXCEPT ![c] = e],
           CommandInv(e, Len(orders), Len(taskJobs), reviews, dispositions)
    PROVE  EvidenceInv'
<1>1. RecordsTyped' /\ OrdersInv' /\ CandidatesInv' /\ DispositionsInv'
  BY DEF EvidenceInv, RecordsTyped, OrdersInv, CandidatesInv, DispositionsInv
<1>2. RecordsKept
  BY Domains DEF RecordsKept, EvidenceInv
<1>3. CommandInv(e, Len(orders)', Len(taskJobs)', reviews', dispositions')
  OBVIOUS
<1>. QED BY <1>1, <1>2, <1>3, ControllerMoves

\* The type of a command after some of its fields changed.
LEMMA CommandStepped ==
    ASSUME NEW e \in Command, NEW at \in CommandSteps
    PROVE  LET f == [e EXCEPT !.step = at]
           IN /\ f \in Command /\ f.step = at /\ f.order = e.order /\ f.job = e.job
              /\ f.candidate = e.candidate /\ f.review = e.review /\ f.decision = e.decision
              /\ f.advice = e.advice /\ f.seen = e.seen /\ f.seenReviews = e.seenReviews
              /\ f.revision = e.revision
BY DEF Command

LEMMA IdleFields == Idle \in Command /\ Idle.advice = "none"
<1>1. Idle \in Command
  BY DEF Command, CommandSteps, TaskStatuses, Advices, Idle
<1>. QED BY <1>1 DEF Idle

LEMMA BindingSteps ==
    ASSUME EvidenceInv, NEW c \in Controllers,
           \/ IssueOrder(c) \/ StartTaskJob(c)
           \/ RequestBinding(c) \/ CheckBinding(c) \/ CommitBinding(c)
    PROVE  EvidenceInv'
<1>1. /\ RecordsTyped /\ OrdersInv /\ CandidatesInv /\ DispositionsInv
      /\ ctl[c] \in Command
      /\ CommandInv(ctl[c], Len(orders), Len(taskJobs), reviews, dispositions)
      /\ CommandInv(Idle, Len(orders), Len(taskJobs), reviews, dispositions)
  BY IdleCommand DEF EvidenceInv, CommandsInv, CommandInv
<1>2. CASE IssueOrder(c)
  <2> DEFINE new == [job |-> 0, revision |-> 1]
             e == [Idle EXCEPT !.step = "start", !.order = Len(orders) + 1, !.revision = 1]
  <2>1. /\ orders' = Append(orders, new) /\ ctl' = [ctl EXCEPT ![c] = e]
        /\ taskJobs' = taskJobs /\ candidates' = candidates /\ reviews' = reviews
        /\ dispositions' = dispositions /\ told' = told
    BY <1>2 DEF IssueOrder, Begin, Continue, EvidenceUnchanged
  <2>2. /\ orders' \in Seq(OrderRecord) /\ Len(orders)' = Len(orders) + 1
        /\ \A o \in 1..Len(orders) : orders'[o] = orders[o]
        /\ orders'[Len(orders) + 1] = new
    <3>1. new \in OrderRecord
      BY DEF OrderRecord
    <3>2. /\ Append(orders, new) \in Seq(OrderRecord)
          /\ Len(Append(orders, new)) = Len(orders) + 1
          /\ \A o \in 1..Len(orders) : Append(orders, new)[o] = orders[o]
          /\ Append(orders, new)[Len(orders) + 1] = new
      BY <1>1, <3>1, AppendProperties DEF RecordsTyped
    <3>. QED BY <2>1, <3>2
  <2>3. RecordsTyped'
    BY <1>1, <2>1, <2>2 DEF RecordsTyped
  <2>4. RecordsKept
    BY <1>1, <2>1, <2>2, Domains DEF RecordsKept
  <2>5. OrdersInv'
    <3>1. ASSUME NEW o \in 1..Len(orders)' PROVE orders'[o].job \in 0..Len(taskJobs)'
      <4>1. o \in 1..Len(orders) \/ o = Len(orders) + 1
        BY <1>1, <2>2, Domains
      <4>. QED BY <4>1, <1>1, <2>1, <2>2, Domains DEF OrdersInv
    <3>. QED BY <3>1 DEF OrdersInv
  <2>6. CandidatesInv' /\ DispositionsInv'
    BY <1>1, <2>1, <2>2, Domains DEF CandidatesInv, DispositionsInv
  <2>7. CommandInv(e, Len(orders)', Len(taskJobs)', reviews', dispositions')
    <3>1. Len(orders) + 1 \in Nat /\ "start" \in CommandSteps
      BY <1>1, Domains DEF CommandSteps
    <3>2. e \in Command /\ e.step = "start" /\ e.order = Len(orders) + 1 /\ e.advice = "none"
      BY <3>1, IdleFields DEF Command
    <3>3. Len(orders) + 1 \in 1..Len(orders)'
      BY <1>1, <2>2, Domains
    <3> HIDE DEF e
    <3>. QED BY <3>2, <3>3 DEF CommandInv
  <2> HIDE DEF e
  <2>. QED BY <2>1, <2>3, <2>4, <2>5, <2>6, <2>7, ControllerMoves
<1>3. CASE StartTaskJob(c)
  <2> DEFINE new == [status |-> "running", patch |-> FALSE]
             e == [ctl[c] EXCEPT !.step = "bind", !.job = Len(taskJobs) + 1]
  <2>1. /\ taskJobs' = Append(taskJobs, new) /\ ctl' = [ctl EXCEPT ![c] = e]
        /\ orders' = orders /\ candidates' = candidates /\ reviews' = reviews
        /\ dispositions' = dispositions /\ told' = told /\ ctl[c].step = "start"
    BY <1>3 DEF StartTaskJob, Continue, EvidenceUnchanged, At
  <2>2. /\ taskJobs' \in Seq(TaskJobRecord) /\ Len(taskJobs)' = Len(taskJobs) + 1
        /\ \A j \in 1..Len(taskJobs) : taskJobs'[j] = taskJobs[j]
    <3>1. new \in TaskJobRecord
      BY DEF TaskJobRecord, TaskStatuses
    <3>2. /\ Append(taskJobs, new) \in Seq(TaskJobRecord)
          /\ Len(Append(taskJobs, new)) = Len(taskJobs) + 1
          /\ \A j \in 1..Len(taskJobs) : Append(taskJobs, new)[j] = taskJobs[j]
      BY <1>1, <3>1, AppendProperties DEF RecordsTyped
    <3>. QED BY <2>1, <3>2
  <2>3. RecordsTyped'
    BY <1>1, <2>1, <2>2 DEF RecordsTyped
  <2>4. RecordsKept
    BY <1>1, <2>1, <2>2, Domains DEF RecordsKept
  <2>5. OrdersInv'
    BY <1>1, <2>1, <2>2, Domains DEF OrdersInv
  <2>6. CandidatesInv' /\ DispositionsInv'
    BY <1>1, <2>1, <2>2, Domains DEF CandidatesInv, DispositionsInv
  <2>7. CommandInv(e, Len(orders)', Len(taskJobs)', reviews', dispositions')
    <3>1. Len(taskJobs) + 1 \in Nat /\ "bind" \in CommandSteps
      BY <1>1, Domains DEF CommandSteps
    <3>2. /\ e \in Command /\ e.step = "bind" /\ e.job = Len(taskJobs) + 1
          /\ e.order = ctl[c].order /\ e.advice = ctl[c].advice
      BY <1>1, <3>1 DEF Command
    <3>3. ctl[c].order \in 1..Len(orders) /\ ctl[c].advice = "none"
      BY <1>1, <2>1 DEF CommandInv
    <3>4. ctl[c].order \in 1..Len(orders)' /\ Len(taskJobs) + 1 \in 1..Len(taskJobs)'
      BY <1>1, <2>1, <2>2, <3>3, Domains
    <3> HIDE DEF e
    <3>. QED BY <3>2, <3>3, <3>4 DEF CommandInv
  <2> HIDE DEF e
  <2>. QED BY <2>1, <2>3, <2>4, <2>5, <2>6, <2>7, ControllerMoves
<1>4. CASE RequestBinding(c)
  <2>1. PICK o \in DOMAIN orders, j \in DOMAIN taskJobs :
            ctl' = [ctl EXCEPT ![c] = [Idle EXCEPT !.step = "bind", !.order = o, !.job = j,
                                                   !.revision = orders[o].revision]]
    BY <1>4 DEF RequestBinding, Begin, Continue
  <2> DEFINE e == [Idle EXCEPT !.step = "bind", !.order = o, !.job = j,
                               !.revision = orders[o].revision]
  <2>2. UNCHANGED <<orders, taskJobs, candidates, reviews, dispositions, told>>
    BY <1>4 DEF RequestBinding, EvidenceUnchanged
  <2>3. o \in 1..Len(orders) /\ j \in 1..Len(taskJobs) /\ orders[o].revision \in Nat
        /\ o \in Nat /\ j \in Nat /\ "bind" \in CommandSteps
    BY <1>1, Domains DEF OrderRecord, CommandSteps
  <2>4. e \in Command /\ e.step = "bind" /\ e.order = o /\ e.job = j /\ e.advice = "none"
    BY <2>3, IdleFields DEF Command
  <2>6. ctl' = [ctl EXCEPT ![c] = e]
    BY <2>1
  <2> HIDE DEF e
  <2>7. CommandInv(e, Len(orders), Len(taskJobs), reviews, dispositions)
    BY <2>3, <2>4 DEF CommandInv
  <2>. QED BY <2>2, <2>6, <2>7, ControllerReads
<1>5. CASE CheckBinding(c)
  <2> DEFINE e == [ctl[c] EXCEPT !.step = "commit"]
  <2>1. /\ UNCHANGED <<orders, taskJobs, candidates, reviews, dispositions, told>>
        /\ ctl[c].step = "bind"
        /\ ctl' = [ctl EXCEPT ![c] = e] \/ ctl' = [ctl EXCEPT ![c] = Idle]
    BY <1>5 DEF CheckBinding, EvidenceUnchanged, Continue, Done, At
  <2>2. CommandInv(e, Len(orders), Len(taskJobs), reviews, dispositions)
    <3>1. "commit" \in CommandSteps
      BY DEF CommandSteps
    <3>2. /\ e \in Command /\ e.step = "commit" /\ e.order = ctl[c].order /\ e.job = ctl[c].job
          /\ e.advice = ctl[c].advice
      BY <1>1, <3>1, CommandStepped
    <3> HIDE DEF e
    <3>. QED BY <1>1, <2>1, <3>2 DEF CommandInv
  <2> HIDE DEF e
  <2>. QED BY <1>1, <2>1, <2>2, ControllerReads
<1>6. CASE CommitBinding(c)
  <2> DEFINE o == ctl[c].order
             j == ctl[c].job
             new == [job |-> j, revision |-> orders[o].revision + 1]
  <2>1. /\ taskJobs' = taskJobs /\ candidates' = candidates /\ reviews' = reviews
        /\ dispositions' = dispositions /\ told' = told /\ ctl' = [ctl EXCEPT ![c] = Idle]
        /\ ctl[c].step = "commit"
        /\ \/ orders[o].job = 0 /\ orders' = [orders EXCEPT ![o] = new]
           \/ orders' = orders
    BY <1>6 DEF CommitBinding, Done, At, EvidenceUnchanged, Bindable, Bound
  <2>2. o \in 1..Len(orders) /\ j \in 1..Len(taskJobs) /\ orders[o] \in OrderRecord
    BY <1>1, <2>1, Domains DEF CommandInv
  <2>3. CASE orders' = orders
    BY <1>1, <2>1, <2>3, ControllerReads
  <2>4. CASE orders[o].job = 0 /\ orders' = [orders EXCEPT ![o] = new]
    <3> HIDE DEF o, j
    <3>1. new \in OrderRecord /\ new.job = j
      BY <1>1, <2>2, Domains DEF OrderRecord
    <3> HIDE DEF new
    <3>2. /\ orders' \in Seq(OrderRecord) /\ Len(orders)' = Len(orders)
          /\ \A i \in 1..Len(orders) : orders'[i] = IF i = o THEN new ELSE orders[i]
      <4>1. /\ [orders EXCEPT ![o] = new] \in Seq(OrderRecord)
            /\ Len([orders EXCEPT ![o] = new]) = Len(orders)
            /\ \A i \in 1..Len(orders) : [orders EXCEPT ![o] = new][i]
                                            = IF i = o THEN new ELSE orders[i]
        BY <1>1, <2>2, <3>1, ExceptSeq DEF RecordsTyped
      <4>. QED BY <2>4, <4>1
    <3>3. RecordsTyped' /\ RecordsKept
      BY <1>1, <2>1, <3>2, Domains DEF RecordsTyped, RecordsKept
    <3>4. OrdersInv'
      BY <1>1, <2>1, <2>2, <3>1, <3>2, Domains DEF OrdersInv
    <3>5. CandidatesInv'
      <4>1. ASSUME NEW n \in 1..Len(candidates)
                   PROVE orders'[candidates[n].order] = orders[candidates[n].order]
        <5>1. /\ candidates[n].order \in 1..Len(orders) /\ candidates[n].job \in 1..Len(taskJobs)
              /\ orders[candidates[n].order].job = candidates[n].job
          BY <1>1 DEF CandidatesInv
        <5>2. candidates[n].order # o
          BY <5>1, <2>4, <1>1, Domains
        <5>. QED BY <5>1, <5>2, <3>2
      <4>. QED BY <1>1, <2>1, <3>2, <4>1 DEF CandidatesInv
    <3>6. DispositionsInv'
      BY <1>1, <2>1 DEF DispositionsInv
    <3>7. CommandInv(Idle, Len(orders)', Len(taskJobs)', reviews', dispositions')
      BY IdleCommand
    <3>. QED BY <2>1, <3>3, <3>4, <3>5, <3>6, <3>7, ControllerMoves
  <2>. QED BY <2>1, <2>3, <2>4
<1>. QED BY <1>2, <1>3, <1>4, <1>5, <1>6

LEMMA CandidateSteps ==
    ASSUME EvidenceInv, NEW c \in Controllers,
           \/ ReadCandidateSource(c) \/ ListCandidates(c) \/ CreateCandidate(c)
           \/ RequestCandidate(c) \/ SelectCandidate(c) \/ CreateReview(c)
    PROVE  EvidenceInv'
<1>1. /\ RecordsTyped /\ OrdersInv /\ CandidatesInv /\ DispositionsInv
      /\ ctl[c] \in Command
      /\ CommandInv(ctl[c], Len(orders), Len(taskJobs), reviews, dispositions)
      /\ CommandInv(Idle, Len(orders), Len(taskJobs), reviews, dispositions)
  BY IdleCommand DEF EvidenceInv, CommandsInv, CommandInv
<1>2. CASE ReadCandidateSource(c)
  <2>1. PICK o \in DOMAIN orders :
            /\ Bound(o)
            /\ ctl' = [ctl EXCEPT ![c] = [Idle EXCEPT !.step = "list", !.order = o,
                                                      !.job = orders[o].job]]
    BY <1>2 DEF ReadCandidateSource, Begin, Continue
  <2> DEFINE e == [Idle EXCEPT !.step = "list", !.order = o, !.job = orders[o].job]
  <2>2. UNCHANGED <<orders, taskJobs, candidates, reviews, dispositions, told>>
    BY <1>2 DEF ReadCandidateSource, EvidenceUnchanged
  <2>3. o \in 1..Len(orders) /\ o \in Nat
    BY <1>1, Domains
  <2>4. orders[o].job \in 1..Len(taskJobs) /\ orders[o].job \in Nat
    BY <1>1, <2>1, <2>3, Domains DEF OrdersInv, Bound
  <2>5. e \in Command /\ e.step = "list" /\ e.order = o /\ e.job = orders[o].job /\ e.advice = "none"
    BY <2>3, <2>4, IdleFields DEF Command, CommandSteps
  <2>6. ctl' = [ctl EXCEPT ![c] = e]
    BY <2>1
  <2> HIDE DEF e
  <2>7. CommandInv(e, Len(orders), Len(taskJobs), reviews, dispositions)
    BY <2>3, <2>4, <2>5 DEF CommandInv
  <2>. QED BY <2>2, <2>6, <2>7, ControllerReads
<1>3. CASE ListCandidates(c)
  <2> DEFINE e == [ctl[c] EXCEPT !.step = "create"]
  <2>1. /\ UNCHANGED <<orders, taskJobs, candidates, reviews, dispositions, told>>
        /\ ctl[c].step = "list"
        /\ ctl' = [ctl EXCEPT ![c] = e] \/ ctl' = [ctl EXCEPT ![c] = Idle]
    BY <1>3 DEF ListCandidates, EvidenceUnchanged, Continue, Done, At
  <2>2. CommandInv(e, Len(orders), Len(taskJobs), reviews, dispositions)
    <3>1. "create" \in CommandSteps
      BY DEF CommandSteps
    <3>2. /\ e \in Command /\ e.step = "create" /\ e.order = ctl[c].order /\ e.job = ctl[c].job
          /\ e.advice = ctl[c].advice
      BY <1>1, <3>1, CommandStepped
    <3> HIDE DEF e
    <3>. QED BY <1>1, <2>1, <3>2 DEF CommandInv
  <2> HIDE DEF e
  <2>. QED BY <1>1, <2>1, <2>2, ControllerReads
<1>4. CASE CreateCandidate(c)
  <2> DEFINE o == ctl[c].order
             j == ctl[c].job
             new == [order |-> o, job |-> j]
  <2>1. /\ taskJobs' = taskJobs /\ orders' = orders /\ reviews' = reviews
        /\ dispositions' = dispositions /\ told' = told /\ ctl' = [ctl EXCEPT ![c] = Idle]
        /\ ctl[c].step = "create"
        /\ \/ orders[o].job = j /\ taskJobs[j].patch /\ candidates' = Append(candidates, new)
           \/ candidates' = candidates
    BY <1>4 DEF CreateCandidate, RecordCandidate, CandidateSource, Done, At
  <2>2. o \in 1..Len(orders) /\ j \in 1..Len(taskJobs)
    BY <1>1, <2>1 DEF CommandInv
  <2>3. CASE candidates' = candidates
    BY <1>1, <2>1, <2>3, ControllerReads
  <2>4. CASE orders[o].job = j /\ taskJobs[j].patch /\ candidates' = Append(candidates, new)
    <3> HIDE DEF o, j
    <3>1. new \in CandidateRecord /\ new.order = o /\ new.job = j
      BY <1>1, <2>2, Domains DEF CandidateRecord
    <3> HIDE DEF new
    <3>2. /\ candidates' \in Seq(CandidateRecord) /\ Len(candidates)' = Len(candidates) + 1
          /\ \A n \in 1..Len(candidates) : candidates'[n] = candidates[n]
          /\ candidates'[Len(candidates) + 1] = new
      <4>1. /\ Append(candidates, new) \in Seq(CandidateRecord)
            /\ Len(Append(candidates, new)) = Len(candidates) + 1
            /\ \A n \in 1..Len(candidates) : Append(candidates, new)[n] = candidates[n]
            /\ Append(candidates, new)[Len(candidates) + 1] = new
        BY <1>1, <3>1, AppendProperties DEF RecordsTyped
      <4>. QED BY <2>4, <4>1
    <3>3. RecordsTyped' /\ RecordsKept
      BY <1>1, <2>1, <3>2, Domains DEF RecordsTyped, RecordsKept
    <3>4. OrdersInv' /\ DispositionsInv'
      BY <1>1, <2>1 DEF OrdersInv, DispositionsInv
    <3>5. CandidatesInv'
      <4>1. ASSUME NEW n \in 1..Len(candidates)', NEW k, k = candidates'[n]
            PROVE  /\ k.order \in 1..Len(orders) /\ k.job \in 1..Len(taskJobs)
                   /\ orders[k.order].job = k.job /\ taskJobs[k.job].patch
        <5>1. n \in 1..Len(candidates) \/ n = Len(candidates) + 1
          BY <1>1, <3>2, Domains
        <5>2. CASE n \in 1..Len(candidates)
          BY <4>1, <5>2, <1>1, <3>2 DEF CandidatesInv
        <5>3. CASE n = Len(candidates) + 1
          BY <4>1, <5>3, <2>2, <2>4, <3>1, <3>2
        <5>. QED BY <5>1, <5>2, <5>3
      <4>. QED BY <2>1, <4>1 DEF CandidatesInv
    <3>6. CommandInv(Idle, Len(orders)', Len(taskJobs)', reviews', dispositions')
      BY IdleCommand
    <3>. QED BY <2>1, <3>3, <3>4, <3>5, <3>6, ControllerMoves
  <2>. QED BY <2>1, <2>3, <2>4
<1>5. CASE RequestCandidate(c)
  <2>1. PICK o \in DOMAIN orders, j \in DOMAIN taskJobs :
            ctl' = [ctl EXCEPT ![c] = [Idle EXCEPT !.step = "create", !.order = o, !.job = j]]
    BY <1>5 DEF RequestCandidate, Begin, Continue
  <2> DEFINE e == [Idle EXCEPT !.step = "create", !.order = o, !.job = j]
  <2>2. UNCHANGED <<orders, taskJobs, candidates, reviews, dispositions, told>>
    BY <1>5 DEF RequestCandidate, EvidenceUnchanged
  <2>3. o \in 1..Len(orders) /\ o \in Nat /\ j \in 1..Len(taskJobs) /\ j \in Nat
    BY <1>1, Domains
  <2>5. e \in Command /\ e.step = "create" /\ e.order = o /\ e.job = j /\ e.advice = "none"
    BY <2>3, IdleFields DEF Command, CommandSteps
  <2>6. ctl' = [ctl EXCEPT ![c] = e]
    BY <2>1
  <2> HIDE DEF e
  <2>7. CommandInv(e, Len(orders), Len(taskJobs), reviews, dispositions)
    BY <2>3, <2>5 DEF CommandInv
  <2>. QED BY <2>2, <2>6, <2>7, ControllerReads
<1>6. CASE SelectCandidate(c)
  <2>0. PICK o \in DOMAIN orders : \E n \in Of(o) :
            ctl' = [ctl EXCEPT ![c] = [Idle EXCEPT !.step = "review", !.candidate = n]]
    BY <1>6 DEF SelectCandidate, Begin, Continue
  <2>1. PICK n \in Of(o) :
            ctl' = [ctl EXCEPT ![c] = [Idle EXCEPT !.step = "review", !.candidate = n]]
    BY <2>0
  <2> DEFINE e == [Idle EXCEPT !.step = "review", !.candidate = n]
  <2>2. UNCHANGED <<orders, taskJobs, candidates, reviews, dispositions, told>>
    BY <1>6 DEF SelectCandidate, EvidenceUnchanged
  <2>3. n \in Nat
    BY <1>1, Domains DEF Of
  <2>5. e \in Command /\ e.step = "review" /\ e.advice = "none"
    BY <2>3, IdleFields DEF Command, CommandSteps
  <2>6. ctl' = [ctl EXCEPT ![c] = e]
    BY <2>1
  <2> HIDE DEF e
  <2>7. CommandInv(e, Len(orders), Len(taskJobs), reviews, dispositions)
    BY <2>5 DEF CommandInv
  <2>. QED BY <2>2, <2>6, <2>7, ControllerReads
<1>7. CASE CreateReview(c)
  <2> DEFINE new == [candidate |-> ctl[c].candidate]
  <2>1. /\ taskJobs' = taskJobs /\ orders' = orders /\ candidates' = candidates
        /\ dispositions' = dispositions /\ told' = told /\ ctl' = [ctl EXCEPT ![c] = Idle]
        /\ reviews' = Append(reviews, new)
    BY <1>7 DEF CreateReview, Done
  <2>2. /\ reviews' \in Seq(ReviewRecord) /\ Len(reviews)' = Len(reviews) + 1
        /\ \A r \in 1..Len(reviews) : reviews'[r] = reviews[r]
    <3>1. new \in ReviewRecord
      BY <1>1 DEF ReviewRecord, Command
    <3>2. /\ Append(reviews, new) \in Seq(ReviewRecord)
          /\ Len(Append(reviews, new)) = Len(reviews) + 1
          /\ \A r \in 1..Len(reviews) : Append(reviews, new)[r] = reviews[r]
      BY <1>1, <3>1, AppendProperties DEF RecordsTyped
    <3>. QED BY <2>1, <3>2
  <2>3. RecordsTyped' /\ RecordsKept
    BY <1>1, <2>1, <2>2, Domains DEF RecordsTyped, RecordsKept
  <2>4. OrdersInv' /\ CandidatesInv'
    BY <1>1, <2>1 DEF OrdersInv, CandidatesInv
  <2>5. DispositionsInv'
    <3>1. 1..Len(reviews) \subseteq 1..Len(reviews)'
      BY <1>1, <2>2, Domains
    <3>. QED BY <1>1, <2>1, <2>2, <3>1 DEF DispositionsInv
  <2>6. CommandInv(Idle, Len(orders)', Len(taskJobs)', reviews', dispositions')
    BY IdleCommand
  <2>. QED BY <2>1, <2>3, <2>4, <2>5, <2>6, ControllerMoves
<1>. QED BY <1>2, <1>3, <1>4, <1>5, <1>6, <1>7

LEMMA DispositionSteps ==
    ASSUME EvidenceInv, NEW c \in Controllers,
           \/ RequestDisposition(c) \/ CheckDisposition(c)
           \/ RecordDisposition(c) \/ RereadDisposition(c)
    PROVE  EvidenceInv'
<1>1. /\ RecordsTyped /\ OrdersInv /\ CandidatesInv /\ DispositionsInv
      /\ ctl[c] \in Command
      /\ CommandInv(ctl[c], Len(orders), Len(taskJobs), reviews, dispositions)
      /\ CommandInv(Idle, Len(orders), Len(taskJobs), reviews, dispositions)
  BY IdleCommand DEF EvidenceInv, CommandsInv, CommandInv
<1>2. CASE RequestDisposition(c)
  <2>1. PICK n \in DOMAIN candidates, r \in DOMAIN reviews, d \in Decisions :
            ctl' = [ctl EXCEPT ![c] = [Idle EXCEPT !.step = "check", !.candidate = n,
                                                   !.review = r, !.decision = d]]
    BY <1>2 DEF RequestDisposition, Begin, Continue
  <2> DEFINE e == [Idle EXCEPT !.step = "check", !.candidate = n, !.review = r, !.decision = d]
  <2>2. UNCHANGED <<orders, taskJobs, candidates, reviews, dispositions, told>>
    BY <1>2 DEF RequestDisposition, EvidenceUnchanged
  <2>3. n \in Nat /\ r \in 1..Len(reviews) /\ r \in Nat
    BY <1>1, Domains
  <2>5. e \in Command /\ e.step = "check" /\ e.review = r /\ e.decision = d /\ e.advice = "none"
    BY <2>3, IdleFields DEF Command, CommandSteps
  <2>6. ctl' = [ctl EXCEPT ![c] = e]
    BY <2>1
  <2> HIDE DEF e
  <2>7. CommandInv(e, Len(orders), Len(taskJobs), reviews, dispositions)
    BY <2>3, <2>5 DEF CommandInv
  <2>. QED BY <2>2, <2>6, <2>7, ControllerReads
<1>3. CASE CheckDisposition(c)
  <2> DEFINE e == [ctl[c] EXCEPT !.step = "record"]
  <2>1. /\ UNCHANGED <<orders, taskJobs, candidates, reviews, dispositions, told>>
        /\ ctl[c].step = "check"
        /\ \/ /\ reviews[ctl[c].review].candidate = ctl[c].candidate
              /\ ctl' = [ctl EXCEPT ![c] = e]
           \/ ctl' = [ctl EXCEPT ![c] = Idle]
    BY <1>3 DEF CheckDisposition, EvidenceUnchanged, Continue, Done, At
  <2>2. CASE ctl' = [ctl EXCEPT ![c] = Idle]
    BY <1>1, <2>1, <2>2, ControllerReads
  <2>3. CASE reviews[ctl[c].review].candidate = ctl[c].candidate /\ ctl' = [ctl EXCEPT ![c] = e]
    <3>1. "record" \in CommandSteps
      BY DEF CommandSteps
    <3>2. /\ e \in Command /\ e.step = "record" /\ e.review = ctl[c].review
          /\ e.candidate = ctl[c].candidate /\ e.decision = ctl[c].decision
          /\ e.advice = ctl[c].advice
      BY <1>1, <3>1, CommandStepped
    <3>3. ctl' = [ctl EXCEPT ![c] = e]
      BY <2>3
    <3> HIDE DEF e
    <3>4. CommandInv(e, Len(orders), Len(taskJobs), reviews, dispositions)
      BY <1>1, <2>1, <2>3, <3>2 DEF CommandInv
    <3>. QED BY <2>1, <3>3, <3>4, ControllerReads
  <2>. QED BY <2>1, <2>2, <2>3
<1>4. CASE RecordDisposition(c)
  <2> DEFINE new == Requested(c)
             e == [ctl[c] EXCEPT !.step = "reread"]
  <2>1. /\ UNCHANGED <<orders, taskJobs, candidates, reviews>> /\ ctl[c].step = "record"
        /\ \/ /\ ~ Taken(new.id) /\ dispositions' = dispositions \cup {new}
              /\ told' = told \cup {new} /\ ctl' = [ctl EXCEPT ![c] = Idle]
           \/ /\ ctl' = [ctl EXCEPT ![c] = e] /\ dispositions' = dispositions /\ told' = told
    BY <1>4 DEF RecordDisposition, Continue, Done, At
  <2>2. CASE ctl' = [ctl EXCEPT ![c] = e] /\ dispositions' = dispositions /\ told' = told
    <3>1. "reread" \in CommandSteps
      BY DEF CommandSteps
    <3>2. /\ e \in Command /\ e.step = "reread" /\ e.review = ctl[c].review
          /\ e.candidate = ctl[c].candidate /\ e.decision = ctl[c].decision
          /\ e.advice = ctl[c].advice
      BY <1>1, <3>1, CommandStepped
    <3>3. ctl' = [ctl EXCEPT ![c] = e]
      BY <2>2
    <3> HIDE DEF e
    <3>4. CommandInv(e, Len(orders), Len(taskJobs), reviews, dispositions)
      BY <1>1, <2>1, <3>2 DEF CommandInv
    <3>. QED BY <2>1, <2>2, <3>3, <3>4, ControllerReads
  <2>3. CASE /\ ~ Taken(new.id) /\ dispositions' = dispositions \cup {new}
             /\ told' = told \cup {new} /\ ctl' = [ctl EXCEPT ![c] = Idle]
    <3>1. /\ ctl[c].review \in 1..Len(reviews) /\ ctl[c].decision \in Decisions
          /\ reviews[ctl[c].review].candidate = ctl[c].candidate
      BY <1>1, <2>1 DEF CommandInv
    <3>2. /\ new.id = ctl[c].candidate /\ new.candidate = ctl[c].candidate
          /\ new.review = ctl[c].review
      BY DEF Requested, DispositionIdentity
    <3>3. new \in DispositionRecord
      BY <1>1, <3>1 DEF Requested, DispositionIdentity, DispositionRecord, Command
    <3>4. \A d \in dispositions : d.id # new.id
      BY <2>3 DEF Taken
    <3> HIDE DEF new
    <3>5. RecordsTyped' /\ RecordsKept
      BY <1>1, <2>1, <2>3, <3>3, Domains DEF RecordsTyped, RecordsKept
    <3>6. OrdersInv' /\ CandidatesInv'
      BY <1>1, <2>1 DEF OrdersInv, CandidatesInv
    <3>7. DispositionsInv'
      <4>1. told' \subseteq dispositions'
        BY <1>1, <2>3 DEF DispositionsInv
      <4>2. ASSUME NEW d \in dispositions \cup {new}
            PROVE  d.id = d.candidate /\ d.review \in 1..Len(reviews)
                   /\ reviews[d.review].candidate = d.candidate
        <5>1. CASE d = new
          BY <5>1, <3>1, <3>2
        <5>2. CASE d \in dispositions
          BY <5>2, <1>1 DEF DispositionsInv
        <5>. QED BY <5>1, <5>2
      <4>3. ASSUME NEW d \in dispositions \cup {new}, NEW b \in dispositions \cup {new}, d.id = b.id
            PROVE  d = b
        BY <4>3, <1>1, <3>4 DEF DispositionsInv
      <4>. QED BY <2>1, <2>3, <4>1, <4>2, <4>3 DEF DispositionsInv
    <3>8. CommandInv(Idle, Len(orders)', Len(taskJobs)', reviews', dispositions')
      BY IdleCommand
    <3>. QED BY <2>3, <3>5, <3>6, <3>7, <3>8, ControllerMoves
  <2>. QED BY <2>1, <2>2, <2>3
<1>5. CASE RereadDisposition(c)
  <2>1. /\ UNCHANGED <<orders, taskJobs, candidates, reviews, dispositions>>
        /\ ctl' = [ctl EXCEPT ![c] = Idle] /\ told' \subseteq dispositions
    <3>1. told \subseteq dispositions
      BY <1>1 DEF DispositionsInv
    <3>2. told' \subseteq dispositions
      BY <1>5, <3>1 DEF RereadDisposition, SameSemanticInput
    <3>. QED BY <1>5, <3>2 DEF RereadDisposition, Done
  <2>2. RecordsTyped' /\ OrdersInv' /\ CandidatesInv' /\ RecordsKept
    BY <1>1, <2>1, Domains DEF RecordsTyped, OrdersInv, CandidatesInv, RecordsKept
  <2>3. DispositionsInv'
    BY <1>1, <2>1 DEF DispositionsInv
  <2>4. CommandInv(Idle, Len(orders)', Len(taskJobs)', reviews', dispositions')
    BY IdleCommand
  <2>. QED BY <2>1, <2>2, <2>3, <2>4, ControllerMoves
<1>. QED BY <1>2, <1>3, <1>4, <1>5

\* "accept" is said of a Candidate only if one Disposition that was shown accepts it.
LEMMA DecisionOnRecord ==
    ASSUME NEW c \in Controllers, NEW n, Decision(c, n) = "accept"
    PROVE  \E d \in dispositions :
                d.candidate = n /\ d.decision = "accept" /\ d.review \in ctl[c].seenReviews
<1> DEFINE ds == {d \in dispositions : d.candidate = n /\ Shown(c, d)}
<1>1. Cardinality(ds) = 1 /\ (CHOOSE d \in ds : TRUE).decision = "accept"
  BY DEF Decision
<1>2. ds # {}
  BY <1>1, FS_EmptySet
<1>3. (CHOOSE d \in ds : TRUE) \in ds
  BY <1>2
<1>. QED BY <1>1, <1>3 DEF Shown

\* Only "accept" from every Candidate that was shown leads to the advice to promote.
LEMMA AdviceRests ==
    ASSUME NEW c \in Controllers, NEW verdict \in Verdicts
    PROVE  /\ NextAction(c, verdict) \in Advices
           /\ NextAction(c, verdict) \in {"promote", "promoted or stale"} =>
                \A n \in ctl[c].seen : Decision(c, n) = "accept"
<1> DEFINE ds == {Decision(c, n) : n \in ctl[c].seen}
<1>1. ASSUME NEW s
      PROVE  AdviceOf(s) \in Advices /\ (AdviceOf(s) = "promote" => s = {"accept"})
             /\ AdviceOf(s) # "promoted or stale"
  BY DEF AdviceOf, Advices
<1>2. /\ NextAction(c, verdict) \in Advices
      /\ NextAction(c, verdict) \in {"promote", "promoted or stale"} => ds = {"accept"}
  <2> DEFINE others == AdviceOf(ds)
             set == ds
             single == Cardinality(ctl[c].seen) = 1
  <2>1. /\ others \in Advices /\ (others = "promote" => set = {"accept"})
        /\ others # "promoted or stale"
    BY <1>1
  <2>2. NextAction(c, verdict) =
          CASE ctl[c].status = "running" -> "wait"
            [] ctl[c].status \in {"failed", "cancelled"} -> "reissue"
            [] verdict = "damaged" -> "inspect integrity"
            [] verdict = "unavailable" -> "inspect evidence"
            [] verdict = "drifted" /\ single /\ set = {"accept"} -> "promoted or stale"
            [] verdict = "drifted" /\ ~ (single /\ set = {"discard"}) -> "review drift"
            [] ctl[c].seen = {} -> "review result"
            [] OTHER -> others
    BY DEF NextAction
  <2> HIDE DEF others, set, single
  <2>3. /\ NextAction(c, verdict) \in Advices
        /\ NextAction(c, verdict) \in {"promote", "promoted or stale"} => set = {"accept"}
    BY <2>1, <2>2 DEF Advices
  <2>. QED BY <2>3 DEF set
<1>3. ASSUME ds = {"accept"}, NEW n \in ctl[c].seen PROVE Decision(c, n) = "accept"
  <2>1. Decision(c, n) \in ds
    OBVIOUS
  <2>. QED BY <1>3, <2>1
<1>. QED BY <1>2, <1>3

LEMMA ShowSteps ==
    ASSUME EvidenceInv, NEW c \in Controllers,
           \/ ShowTask(c) \/ ShowCandidates(c) \/ ShowReviews(c) \/ ShowDispositions(c)
           \/ EndCommand(c)
    PROVE  EvidenceInv'
<1>1. /\ RecordsTyped /\ OrdersInv /\ CandidatesInv /\ DispositionsInv
      /\ ctl[c] \in Command
      /\ CommandInv(ctl[c], Len(orders), Len(taskJobs), reviews, dispositions)
      /\ CommandInv(Idle, Len(orders), Len(taskJobs), reviews, dispositions)
  BY IdleCommand DEF EvidenceInv, CommandsInv, CommandInv
<1>2. CASE ShowTask(c)
  <2>1. PICK o \in DOMAIN orders :
            /\ Bound(o)
            /\ ctl' = [ctl EXCEPT ![c] = [Idle EXCEPT !.step = "showCandidates", !.order = o,
                                                      !.job = orders[o].job,
                                                      !.status = taskJobs[orders[o].job].status]]
    BY <1>2 DEF ShowTask, Begin, Continue
  <2> DEFINE e == [Idle EXCEPT !.step = "showCandidates", !.order = o, !.job = orders[o].job,
                               !.status = taskJobs[orders[o].job].status]
  <2>2. UNCHANGED <<orders, taskJobs, candidates, reviews, dispositions, told>>
    BY <1>2 DEF ShowTask, EvidenceUnchanged
  <2>3. /\ o \in Nat /\ orders[o].job \in Nat
        /\ taskJobs[orders[o].job].status \in TaskStatuses
    BY <1>1, <2>1, Domains DEF Bound, OrdersInv, OrderRecord, TaskJobRecord
  <2>5. e \in Command /\ e.step = "showCandidates" /\ e.advice = "none"
    BY <2>3, IdleFields DEF Command, CommandSteps
  <2>6. ctl' = [ctl EXCEPT ![c] = e]
    BY <2>1
  <2> HIDE DEF e
  <2>7. CommandInv(e, Len(orders), Len(taskJobs), reviews, dispositions)
    BY <2>5 DEF CommandInv
  <2>. QED BY <2>2, <2>6, <2>7, ControllerReads
<1>3. CASE ShowCandidates(c)
  <2> DEFINE seen == Of(ctl[c].order)
             e == [ctl[c] EXCEPT !.step = "showReviews", !.seen = seen]
  <2>1. /\ UNCHANGED <<orders, taskJobs, candidates, reviews, dispositions, told>>
        /\ ctl[c].step = "showCandidates" /\ ctl' = [ctl EXCEPT ![c] = e]
    BY <1>3 DEF ShowCandidates, EvidenceUnchanged, Continue, At
  <2>2. seen \subseteq Nat
    BY <1>1, Domains DEF Of
  <2>3. ctl[c].advice = "none"
    BY <1>1, <2>1 DEF CommandInv
  <2> HIDE DEF seen
  <2>4. e \in Command /\ e.step = "showReviews" /\ e.advice = "none"
    BY <1>1, <2>2, <2>3 DEF Command, CommandSteps
  <2> HIDE DEF e
  <2>5. CommandInv(e, Len(orders), Len(taskJobs), reviews, dispositions)
    BY <2>4 DEF CommandInv
  <2>. QED BY <2>1, <2>5, ControllerReads
<1>4. CASE ShowReviews(c)
  <2> DEFINE seen == {r \in DOMAIN reviews : reviews[r].candidate \in ctl[c].seen}
             e == [ctl[c] EXCEPT !.step = "showDispositions", !.seenReviews = seen]
  <2>1. /\ UNCHANGED <<orders, taskJobs, candidates, reviews, dispositions, told>>
        /\ ctl[c].step = "showReviews" /\ ctl' = [ctl EXCEPT ![c] = e]
    BY <1>4 DEF ShowReviews, EvidenceUnchanged, Continue, At
  <2>2. seen \subseteq Nat
    BY <1>1, Domains
  <2>3. ctl[c].advice = "none"
    BY <1>1, <2>1 DEF CommandInv
  <2> HIDE DEF seen
  <2>4. e \in Command /\ e.step = "showDispositions" /\ e.advice = "none"
    BY <1>1, <2>2, <2>3 DEF Command, CommandSteps
  <2> HIDE DEF e
  <2>5. CommandInv(e, Len(orders), Len(taskJobs), reviews, dispositions)
    BY <2>4 DEF CommandInv
  <2>. QED BY <2>1, <2>5, ControllerReads
<1>5. CASE ShowDispositions(c)
  <2>1. PICK verdict \in Verdicts :
            ctl' = [ctl EXCEPT ![c] = [ctl[c] EXCEPT !.step = "shown",
                                                     !.advice = NextAction(c, verdict)]]
    BY <1>5 DEF ShowDispositions, Continue, Verdicts
  <2> DEFINE advice == NextAction(c, verdict)
             e == [ctl[c] EXCEPT !.step = "shown", !.advice = advice]
  <2>2. UNCHANGED <<orders, taskJobs, candidates, reviews, dispositions, told>>
    BY <1>5 DEF ShowDispositions, EvidenceUnchanged
  <2>3. /\ advice \in Advices
        /\ advice \in {"promote", "promoted or stale"} =>
             \A n \in ctl[c].seen : \E d \in dispositions :
                d.candidate = n /\ d.decision = "accept" /\ d.review \in ctl[c].seenReviews
    BY AdviceRests, DecisionOnRecord
  <2>4. ctl' = [ctl EXCEPT ![c] = e]
    BY <2>1
  <2> HIDE DEF advice
  <2>5. /\ e \in Command /\ e.step = "shown" /\ e.advice = advice /\ e.seen = ctl[c].seen
        /\ e.seenReviews = ctl[c].seenReviews
    BY <1>1, <2>3 DEF Command, CommandSteps
  <2> HIDE DEF e
  <2>6. CommandInv(e, Len(orders), Len(taskJobs), reviews, dispositions)
    BY <2>3, <2>5 DEF CommandInv
  <2>. QED BY <2>2, <2>4, <2>6, ControllerReads
<1>6. CASE EndCommand(c)
  <2>1. /\ UNCHANGED <<orders, taskJobs, candidates, reviews, dispositions, told>>
        /\ ctl' = [ctl EXCEPT ![c] = Idle]
    BY <1>6 DEF EndCommand, EvidenceUnchanged, Done
  <2>. QED BY <1>1, <2>1, ControllerReads
<1>. QED BY <1>2, <1>3, <1>4, <1>5, <1>6

\* A Job's patch stays recorded, and its record stays one.
LEMMA TaskJobSteps ==
    ASSUME EvidenceInv, CaptureTaskPatch \/ SettleTaskJob
    PROVE  EvidenceInv'
<1>1. /\ RecordsTyped /\ OrdersInv /\ CandidatesInv /\ DispositionsInv /\ CommandsInv
      /\ UNCHANGED <<orders, ctl, candidates, reviews, dispositions, told>>
  BY DEF EvidenceInv, CaptureTaskPatch, SettleTaskJob, EvidenceUnchanged
<1>2. /\ taskJobs' \in Seq(TaskJobRecord) /\ Len(taskJobs)' = Len(taskJobs)
      /\ \A j \in 1..Len(taskJobs) : taskJobs[j].patch => taskJobs'[j].patch
  <2>1. PICK j \in 1..Len(taskJobs), outcome \in Outcomes :
            \/ taskJobs' = [taskJobs EXCEPT ![j].patch = TRUE]
            \/ taskJobs' = [taskJobs EXCEPT ![j].status = outcome]
    BY <1>1, Domains DEF CaptureTaskPatch, SettleTaskJob, Outcomes
  <2>2. ASSUME NEW e \in TaskJobRecord, taskJobs[j].patch => e.patch,
               taskJobs' = [taskJobs EXCEPT ![j] = e]
        PROVE  /\ taskJobs' \in Seq(TaskJobRecord) /\ Len(taskJobs)' = Len(taskJobs)
               /\ \A i \in 1..Len(taskJobs) : taskJobs[i].patch => taskJobs'[i].patch
    <3>1. /\ taskJobs' \in Seq(TaskJobRecord) /\ Len(taskJobs)' = Len(taskJobs)
          /\ \A i \in 1..Len(taskJobs) : taskJobs'[i] = IF i = j THEN e ELSE taskJobs[i]
      BY <1>1, <2>1, <2>2, ExceptSeq DEF RecordsTyped
    <3>. QED BY <2>2, <3>1
  <2>3. taskJobs[j] \in TaskJobRecord
    BY <1>1, <2>1, Domains
  <2>4. CASE taskJobs' = [taskJobs EXCEPT ![j].patch = TRUE]
    <3> DEFINE e == [taskJobs[j] EXCEPT !.patch = TRUE]
    <3>1. e \in TaskJobRecord /\ e.patch
      BY <2>3 DEF TaskJobRecord
    <3>2. taskJobs' = [taskJobs EXCEPT ![j] = e]
      BY <2>4
    <3> HIDE DEF e
    <3>. QED BY <2>2, <3>1, <3>2
  <2>5. CASE taskJobs' = [taskJobs EXCEPT ![j].status = outcome]
    <3> DEFINE e == [taskJobs[j] EXCEPT !.status = outcome]
    <3>1. e \in TaskJobRecord /\ (taskJobs[j].patch => e.patch)
      BY <2>1, <2>3 DEF TaskJobRecord, TaskStatuses
    <3>2. taskJobs' = [taskJobs EXCEPT ![j] = e]
      BY <2>5
    <3> HIDE DEF e
    <3>. QED BY <2>2, <3>1, <3>2
  <2>. QED BY <2>1, <2>4, <2>5
<1>3. RecordsTyped' /\ RecordsKept
  BY <1>1, <1>2, Domains DEF RecordsTyped, RecordsKept
<1>4. OrdersInv' /\ CandidatesInv' /\ DispositionsInv'
  BY <1>1, <1>2 DEF OrdersInv, CandidatesInv, DispositionsInv
<1>5. CommandsInv'
  <2>1. ASSUME NEW c \in Controllers
        PROVE  CommandInv(ctl[c], Len(orders)', Len(taskJobs)', reviews', dispositions')
    BY <1>1, <1>3, CommandKept DEF CommandsInv
  <2>2. ctl' = ctl
    BY <1>1
  <2>. QED BY <1>1, <2>1, <2>2 DEF CommandsInv
<1>. QED BY <1>3, <1>4, <1>5 DEF EvidenceInv

LEMMA EvidenceStep == EvidenceInv /\ [TaskNext]_taskVars => EvidenceInv'
<1>1. SUFFICES ASSUME EvidenceInv, [TaskNext]_taskVars PROVE EvidenceInv'
  OBVIOUS
<1>2. CASE CaptureTaskPatch \/ SettleTaskJob
  BY <1>1, <1>2, TaskJobSteps
<1>3. ASSUME NEW c \in Controllers,
             \/ IssueOrder(c) \/ StartTaskJob(c)
             \/ RequestBinding(c) \/ CheckBinding(c) \/ CommitBinding(c)
      PROVE  EvidenceInv'
  BY <1>1, <1>3, BindingSteps
<1>4. ASSUME NEW c \in Controllers,
             \/ ReadCandidateSource(c) \/ ListCandidates(c) \/ CreateCandidate(c)
             \/ RequestCandidate(c) \/ SelectCandidate(c) \/ CreateReview(c)
      PROVE  EvidenceInv'
  BY <1>1, <1>4, CandidateSteps
<1>5. ASSUME NEW c \in Controllers,
             \/ RequestDisposition(c) \/ CheckDisposition(c)
             \/ RecordDisposition(c) \/ RereadDisposition(c)
      PROVE  EvidenceInv'
  BY <1>1, <1>5, DispositionSteps
<1>6. ASSUME NEW c \in Controllers,
             \/ ShowTask(c) \/ ShowCandidates(c) \/ ShowReviews(c) \/ ShowDispositions(c)
             \/ EndCommand(c)
      PROVE  EvidenceInv'
  BY <1>1, <1>6, ShowSteps
<1>7. CASE UNCHANGED taskVars
  BY <1>1, <1>7 DEF taskVars, EvidenceInv, RecordsTyped, OrdersInv, CandidatesInv,
                    DispositionsInv, CommandsInv
<1>. QED BY <1>1, <1>2, <1>3, <1>4, <1>5, <1>6, <1>7 DEF TaskNext

LEMMA EvidenceAlways == TaskSpec => []EvidenceInv
BY EvidenceBegins, EvidenceStep, PTL DEF TaskSpec

\* A Candidate is decided once, and whoever was told a decision was told the one on record
\* (src/disposition.ts, disposition-store.ts): for any number of controllers, whatever they
\* decide and wherever they stop.
THEOREM OneDecision == TaskSpec => []DecisionsAgree
<1>1. EvidenceInv => DecisionsAgree
  BY EvidenceSuffices
<1>. QED BY <1>1, EvidenceAlways, PTL

\* The sources of every record are on record and belong together, and advice to promote rests
\* on Dispositions that accept everything the controller was shown (src/cli.ts).
THEOREM AdviceStands == TaskSpec => []EvidenceStands
<1>1. EvidenceInv => EvidenceStands
  BY EvidenceSuffices
<1>. QED BY <1>1, EvidenceAlways, PTL

\* A WorkOrder is bound once (src/work-order-store.ts).
THEOREM OrdersBoundOnce == TaskSpec => OrdersStayBound
<1>1. EvidenceInv /\ [TaskNext]_taskVars
        => [\A o \in DOMAIN orders :
              \/ orders'[o] = orders[o]
              \/ ~ Bound(o) /\ orders'[o].revision = orders[o].revision + 1]_orders
  <2>1. SUFFICES ASSUME EvidenceInv, [TaskNext]_taskVars, orders' # orders
                 PROVE  \A o \in DOMAIN orders :
                          \/ orders'[o] = orders[o]
                          \/ ~ Bound(o) /\ orders'[o].revision = orders[o].revision + 1
    OBVIOUS
  <2>2. PICK c \in Controllers : IssueOrder(c) \/ CommitBinding(c)
    BY <2>1 DEF TaskNext, taskVars, EvidenceUnchanged, CaptureTaskPatch, SettleTaskJob,
                StartTaskJob, RequestBinding, CheckBinding, ReadCandidateSource, ListCandidates,
                CreateCandidate, RecordCandidate, RequestCandidate, SelectCandidate, CreateReview,
                RequestDisposition, CheckDisposition, RecordDisposition, RereadDisposition,
                ShowTask, ShowCandidates, ShowReviews, ShowDispositions, EndCommand
  <2>3. /\ RecordsTyped /\ ctl[c] \in Command
        /\ CommandInv(ctl[c], Len(orders), Len(taskJobs), reviews, dispositions)
    BY <2>1 DEF EvidenceInv, CommandsInv, CommandInv
  <2>4. CASE IssueOrder(c)
    <3> DEFINE new == [job |-> 0, revision |-> 1]
    <3>1. orders' = Append(orders, new) /\ new \in OrderRecord
      BY <2>4 DEF IssueOrder, OrderRecord
    <3>2. \A o \in 1..Len(orders) : orders'[o] = orders[o]
      BY <2>3, <3>1, AppendProperties DEF RecordsTyped
    <3>. QED BY <2>3, <3>2, Domains
  <2>5. CASE CommitBinding(c)
    <3> DEFINE o == ctl[c].order
               new == [job |-> ctl[c].job, revision |-> orders[o].revision + 1]
    <3>1. Bindable(c) /\ orders' = [orders EXCEPT ![o] = new]
      BY <2>1, <2>5 DEF CommitBinding
    <3>2. ~ Bound(o) /\ new.revision = orders[o].revision + 1
      BY <3>1 DEF Bindable
    <3> HIDE DEF o, new
    <3>3. ASSUME NEW n \in DOMAIN orders
          PROVE  orders'[n] = orders[n] \/ (~ Bound(n) /\ orders'[n].revision = orders[n].revision + 1)
      <4>1. CASE n = o
        BY <3>1, <3>2, <3>3, <4>1
      <4>2. CASE n # o
        BY <3>1, <3>3, <4>2
      <4>. QED BY <4>1, <4>2
    <3>. QED BY <3>3
  <2>. QED BY <2>2, <2>4, <2>5
<1>. QED BY <1>1, EvidenceAlways, PTL DEF TaskSpec, OrdersStayBound
-----------------------------------------------------------------------------
(* What is told of a Job.  A fold over the log is a function of sets of    *)
(* positions that takes the greatest one last; that there is exactly one   *)
(* such function for every log is an induction over its length.            *)

LEMMA GreatestExists ==
    ASSUME NEW n \in Nat, NEW T \in SUBSET (1..n), T # {}
    PROVE  Max(T) \in T /\ \A i \in T : i <= Max(T)
<1> DEFINE S == {n - i : i \in T}
<1>1. PICK t \in T : t \in 1..n
  OBVIOUS
<1>2. S \in SUBSET Nat /\ n - t \in S
  <2>1. \A i \in T : n - i \in Nat
    OBVIOUS
  <2>. QED BY <1>1, <2>1
<1>3. HasLeast(S)
  <2> HIDE DEF S
  <2>. QED BY <1>2, LeastExists
<1>4. PICK m \in T : \A i \in T : n - m <= n - i
  BY <1>3 DEF HasLeast
<1>5. \E x \in T : \A y \in T : x >= y
  <2>1. \A i \in T : m >= i
    BY <1>4
  <2>. QED BY <2>1
<1>. QED BY <1>5 DEF Max

Projects(g, log) ==
    g = [T \in SUBSET DOMAIN log |->
            IF T = {} THEN Nothing ELSE Observed(g[T \ {Max(T)}], log[Max(T)])]

OneProjection(log) == \E g : Projects(g, log) /\ \A h : Projects(h, log) => h = g

\* Without its last event a log is projected by the same function.
LEMMA ProjectionOfPrefix ==
    ASSUME NEW S, NEW log \in Seq(S), NEW e \in S, NEW f, Projects(f, Append(log, e))
    PROVE  Projects([T \in SUBSET DOMAIN log |-> f[T]], log)
<1> DEFINE longer == Append(log, e)
           g == [T \in SUBSET DOMAIN log |-> f[T]]
<1>1. /\ Len(log) \in Nat /\ DOMAIN log = 1..Len(log) /\ DOMAIN longer = 1..(Len(log) + 1)
      /\ \A i \in DOMAIN log : i \in DOMAIN longer /\ longer[i] = log[i]
  OBVIOUS
<1>2. \A T \in SUBSET DOMAIN longer :
         f[T] = IF T = {} THEN Nothing ELSE Observed(f[T \ {Max(T)}], longer[Max(T)])
  BY DEF Projects
<1> HIDE DEF longer
<1>3. ASSUME NEW T \in SUBSET DOMAIN log
      PROVE  f[T] = IF T = {} THEN Nothing ELSE Observed(g[T \ {Max(T)}], log[Max(T)])
  <2>1. T \in SUBSET DOMAIN longer /\ T \ {Max(T)} \in SUBSET DOMAIN log
    BY <1>1
  <2>2. T # {} => Max(T) \in DOMAIN log
    BY <1>1, GreatestExists
  <2>. QED BY <1>1, <1>2, <2>1, <2>2
<1>. QED BY <1>3 DEF Projects

LEMMA ProjectionOfLonger ==
    ASSUME NEW S, NEW log \in Seq(S), NEW e \in S, OneProjection(log)
    PROVE  OneProjection(Append(log, e))
<1> DEFINE longer == Append(log, e)
           n == Len(log) + 1
<1>1. /\ n \in Nat /\ Len(log) \in Nat /\ DOMAIN log = 1..Len(log) /\ DOMAIN longer = 1..n
      /\ \A i \in DOMAIN log : i \in DOMAIN longer /\ longer[i] = log[i] /\ i < n
      /\ \A i \in DOMAIN longer : i = n \/ i \in DOMAIN log
  OBVIOUS
<1>2. PICK g : Projects(g, log) /\ \A h : Projects(h, log) => h = g
  BY DEF OneProjection
<1> DEFINE f == [T \in SUBSET DOMAIN longer |->
                    IF n \in T THEN Observed(g[T \ {n}], longer[n]) ELSE g[T]]
<1> HIDE DEF longer, n
<1>3. \A T \in SUBSET DOMAIN log :
         g[T] = IF T = {} THEN Nothing ELSE Observed(g[T \ {Max(T)}], log[Max(T)])
  BY <1>2 DEF Projects
<1>4. ASSUME NEW T \in SUBSET DOMAIN longer
      PROVE  /\ n \in T => Max(T) = n /\ T \ {n} \in SUBSET DOMAIN log /\ n \notin T \ {n}
             /\ n \notin T => T \in SUBSET DOMAIN log
             /\ T # {} => Max(T) \in T
  <2>1. T # {} => Max(T) \in T /\ \A i \in T : i <= Max(T)
    BY <1>1, GreatestExists
  <2>2. n \in T => Max(T) = n
    BY <1>1, <2>1
  <2>. QED BY <1>1, <2>1, <2>2
<1>5. ASSUME NEW T \in SUBSET DOMAIN longer
      PROVE  f[T] = IF T = {} THEN Nothing ELSE Observed(f[T \ {Max(T)}], longer[Max(T)])
  <2>1. T \ {Max(T)} \in SUBSET DOMAIN longer
    OBVIOUS
  <2>2. CASE n \in T
    <3>1. f[T] = Observed(g[T \ {n}], longer[n])
      BY <2>2
    <3>2. f[T \ {n}] = g[T \ {n}]
      BY <1>4, <2>1, <2>2
    <3>. QED BY <1>4, <2>2, <3>1, <3>2
  <2>3. CASE n \notin T
    <3>1. T \in SUBSET DOMAIN log /\ f[T] = g[T]
      BY <1>4, <2>3
    <3>2. f[T \ {Max(T)}] = g[T \ {Max(T)}]
      BY <2>1, <2>3
    <3>3. T # {} => longer[Max(T)] = log[Max(T)]
      BY <1>1, <1>4, <3>1
    <3>. QED BY <1>3, <3>1, <3>2, <3>3
  <2>. QED BY <2>2, <2>3
<1>6. Projects(f, longer)
  BY <1>5 DEF Projects
<1>7. ASSUME NEW h, Projects(h, longer)
      PROVE  h = f
  <2>1. \A T \in SUBSET DOMAIN longer :
           h[T] = IF T = {} THEN Nothing ELSE Observed(h[T \ {Max(T)}], longer[Max(T)])
    BY <1>7 DEF Projects
  <2>2. [T \in SUBSET DOMAIN log |-> h[T]] = g
    <3>1. Projects([T \in SUBSET DOMAIN log |-> h[T]], log)
      BY <1>7, ProjectionOfPrefix DEF longer
    <3>. QED BY <1>2, <3>1
  <2>3. \A T \in SUBSET DOMAIN log : h[T] = g[T]
    BY <2>2
  <2>4. ASSUME NEW T \in SUBSET DOMAIN longer PROVE h[T] = f[T]
    <3>1. CASE n \in T
      <4>1. T # {} /\ Max(T) = n /\ h[T \ {n}] = g[T \ {n}]
        BY <1>4, <2>3, <3>1
      <4>. QED BY <2>1, <3>1, <4>1
    <3>2. CASE n \notin T
      BY <1>4, <2>3, <3>2
    <3>. QED BY <3>1, <3>2
  <2>5. h = [T \in SUBSET DOMAIN longer |-> h[T]]
    BY <1>7 DEF Projects
  <2>6. f = [T \in SUBSET DOMAIN longer |-> f[T]]
    OBVIOUS
  <2> HIDE DEF f
  <2>. QED BY <2>4, <2>5, <2>6
<1>8. OneProjection(longer)
  <2> HIDE DEF f
  <2>. QED BY <1>6, <1>7 DEF OneProjection
<1>. QED BY <1>8 DEF longer

\* Induction over the length: the shortest log without a projection is not empty, and the log
\* without its last event has one.
LEMMA ProjectionExists == ASSUME NEW S, NEW log \in Seq(S) PROVE OneProjection(log)
<1> DEFINE Bare == {n \in Nat : \E l \in Seq(S) : Len(l) = n /\ ~ OneProjection(l)}
<1>1. SUFFICES ASSUME ~ OneProjection(log) PROVE FALSE
  OBVIOUS
<1>2. Len(log) \in Bare /\ Bare \in SUBSET Nat
  BY <1>1
<1>3. PICK n \in Bare : \A i \in Bare : n <= i
  <2> HIDE DEF Bare
  <2>. QED BY <1>2, LeastExists DEF HasLeast
<1>4. PICK l \in Seq(S) : Len(l) = n /\ ~ OneProjection(l)
  OBVIOUS
<1>5. CASE l = <<>>
  <2> DEFINE g == [T \in SUBSET {} |-> Nothing]
  <2>1. Projects(g, l)
    BY <1>5 DEF Projects
  <2>2. \A h : Projects(h, l) => h = g
    BY <1>5 DEF Projects
  <2>. QED BY <1>4, <2>1, <2>2 DEF OneProjection
<1>6. CASE l # <<>>
  <2>1. PICK front \in Seq(S), e \in S : l = Append(front, e)
    <3>1. l = Append(SubSeq(l, 1, Len(l) - 1), l[Len(l)])
      BY <1>6
    <3>2. SubSeq(l, 1, Len(l) - 1) \in Seq(S) /\ l[Len(l)] \in S
      BY <1>6
    <3>. QED BY <3>1, <3>2
  <2>2. Len(front) \in Nat /\ Len(front) < n
    BY <1>4, <2>1
  <2>3. OneProjection(front)
    BY <1>3, <2>2
  <2>. QED BY <1>4, <2>1, <2>3, ProjectionOfLonger
<1>. QED BY <1>5, <1>6

\* For every log, however long: the projection of a log with one more event is one more step of
\* projectJobActivity's loop, and that of an empty log is what it begins with.
LEMMA LogProjected ==
    ASSUME NEW S, NEW log \in Seq(S)
    PROVE  /\ FoldLeft(Observed, Nothing, <<>>) = Nothing
           /\ \A e \in S : FoldLeft(Observed, Nothing, Append(log, e))
                               = Observed(FoldLeft(Observed, Nothing, log), e)
<1> DEFINE projection(l) == CHOOSE g : Projects(g, l)
<1>1. ASSUME NEW l \in Seq(S)
      PROVE  /\ Projects(projection(l), l)
             /\ FoldLeft(Observed, Nothing, l) = projection(l)[DOMAIN l]
             /\ \A h : Projects(h, l) => h = projection(l)
  <2>1. PICK g : Projects(g, l) /\ \A h : Projects(h, l) => h = g
    BY ProjectionExists DEF OneProjection
  <2>2. Projects(projection(l), l)
    BY <2>1, Zenon
  <2>3. FoldLeft(Observed, Nothing, l) = projection(l)[DOMAIN l]
    BY DEF FoldLeft, MapThenFoldSet, Projects
  <2>. QED BY <2>1, <2>2, <2>3
<1>2. FoldLeft(Observed, Nothing, <<>>) = Nothing
  <2>1. <<>> \in Seq(S) /\ DOMAIN <<>> = {}
    OBVIOUS
  <2>2. Projects(projection(<<>>), <<>>) /\ FoldLeft(Observed, Nothing, <<>>) = projection(<<>>)[{}]
    <3> HIDE DEF projection
    <3>. QED BY <1>1, <2>1
  <2> HIDE DEF projection
  <2>. QED BY <2>1, <2>2 DEF Projects
<1>3. ASSUME NEW e \in S
      PROVE  FoldLeft(Observed, Nothing, Append(log, e)) = Observed(FoldLeft(Observed, Nothing, log), e)
  <2> DEFINE longer == Append(log, e)
             n == Len(log) + 1
  <2>1. /\ longer \in Seq(S) /\ n \in Nat /\ DOMAIN longer = 1..n /\ longer[n] = e /\ n \in 1..n
        /\ DOMAIN longer \ {n} = DOMAIN log /\ DOMAIN log \in SUBSET DOMAIN longer
    <3>1. /\ longer \in Seq(S) /\ n \in Nat /\ DOMAIN longer = 1..n /\ longer[n] = e
          /\ Len(log) \in Nat /\ DOMAIN log = 1..Len(log)
      OBVIOUS
    <3>2. 1..n \ {n} = 1..Len(log) /\ 1..Len(log) \in SUBSET (1..n) /\ n \in 1..n
      BY <3>1
    <3>. QED BY <3>1, <3>2
  <2>2. PICK f : /\ f = projection(longer) /\ Projects(f, longer)
                 /\ FoldLeft(Observed, Nothing, longer) = f[DOMAIN longer]
    BY <1>1, <2>1
  <2>3. [T \in SUBSET DOMAIN log |-> f[T]] = projection(log)
    <3>1. Projects([T \in SUBSET DOMAIN log |-> f[T]], log)
      BY <2>2, ProjectionOfPrefix
    <3> HIDE DEF projection
    <3>. QED BY <1>1, <3>1
  <2>4. FoldLeft(Observed, Nothing, log) = f[DOMAIN log]
    <3>1. FoldLeft(Observed, Nothing, log) = projection(log)[DOMAIN log]
      BY <1>1
    <3> HIDE DEF projection, longer
    <3>. QED BY <2>3, <3>1
  <2> HIDE DEF longer, n, projection
  <2>5. Max(DOMAIN longer) = n
    <3>1. /\ Max(DOMAIN longer) \in DOMAIN longer
          /\ \A i \in DOMAIN longer : i <= Max(DOMAIN longer)
      BY <2>1, GreatestExists
    <3>. QED BY <2>1, <3>1
  <2>6. f[DOMAIN longer] = Observed(f[DOMAIN longer \ {n}], longer[n])
    BY <2>1, <2>2, <2>5 DEF Projects
  <2>7. FoldLeft(Observed, Nothing, longer) = Observed(FoldLeft(Observed, Nothing, log), e)
    BY <2>1, <2>2, <2>4, <2>6
  <2>. QED BY <2>7 DEF longer
<1>. QED BY <1>2, <1>3

-----------------------------------------------------------------------------
LogEvents == [type : {"job.capacity.waiting", "job.started", "job.worker.events.truncated",
                      "job.retrying", "job.attempt.lost", "job.recovery.started", "job.settled"}
                         \cup WorkerEvents,
              call : ToolCalls \cup {NoCall}]

Seen == FoldLeft(Observed, Nothing, events)
Truncated == Happened("job.worker.events.truncated")

SeenRecord == [started : BOOLEAN, retrying : BOOLEAN, waiting : BOOLEAN,
               coverage : {"complete", "partial", "truncated"}, tools : SUBSET ToolCalls]

\* What was seen, of a Job whose log is cut off or not, at a place, with a busy worker.
SeenInv(seen, cutOff, job, place, calls) ==
    /\ seen \in SeenRecord
    /\ cutOff => seen.coverage = "truncated"
    /\ seen.coverage = "truncated" => seen.tools = {} /\ ~ seen.retrying
    /\ job # "terminal" => seen.tools \subseteq calls /\ (seen.retrying => place = "worker")
    /\ seen.coverage = "complete" /\ place = "worker" =>
         seen.started /\ ~ seen.waiting /\ seen.tools = calls

StageInv(job, place, calls) ==
    /\ job \in {"queued", "running", "terminal"}
    /\ place \in {"admitted", "waiting", "attempt", "worker", "over"}
    /\ place = "over" <=> job = "terminal"
    /\ job = "queued" => place \in {"admitted", "waiting"}
    /\ calls \subseteq ToolCalls /\ (place # "worker" => calls = {})

ActivityInv ==
    /\ events \in Seq(LogEvents)
    /\ StageInv(jobStatus, stage, busy)
    /\ SeenInv(Seen, Truncated, jobStatus, stage, busy)

LEMMA LogGrows ==
    ASSUME ActivityInv, NEW e \in LogEvents, events' = Append(events, e)
    PROVE  /\ events' \in Seq(LogEvents)
           /\ Seen' = Observed(Seen, e)
           /\ Truncated' <=> Truncated \/ e.type = "job.worker.events.truncated"
<1>1. events \in Seq(LogEvents)
  BY DEF ActivityInv
<1>2. Seen' = Observed(Seen, e)
  BY <1>1, LogProjected DEF Seen
<1>3. Truncated' <=> Truncated \/ e.type = "job.worker.events.truncated"
  <2>1. /\ DOMAIN events' = DOMAIN events \cup {Len(events) + 1}
        /\ events'[Len(events) + 1] = e
        /\ \A i \in DOMAIN events : events'[i] = events[i]
    BY <1>1
  <2>. QED BY <2>1 DEF Truncated, Happened
<1>. QED BY <1>1, <1>2, <1>3

LEMMA LogStays ==
    ASSUME events' = events
    PROVE  Seen' = Seen /\ Truncated' = Truncated
BY DEF Seen, Truncated, Happened

LEMMA OneJobEvent ==
    ASSUME NEW type, JobEvents(<<type>>), ActivityInv
    PROVE  events' = Append(events, EventOf(type, NoCall))
<1>1. [i \in DOMAIN <<type>> |-> EventOf(<<type>>[i], NoCall)] = <<EventOf(type, NoCall)>>
  OBVIOUS
<1>2. events \in Seq(LogEvents)
  BY DEF ActivityInv
<1>. QED BY <1>1, <1>2 DEF JobEvents

LEMMA ToolEventObserved ==
    ASSUME NEW seen \in SeenRecord, NEW type \in ToolEvents, NEW call \in ToolCalls \cup {NoCall}
    PROVE  Observed(seen, EventOf(type, call))
             = IF seen.coverage = "truncated" THEN seen ELSE ToolObserved(seen, EventOf(type, call))
BY DEF Observed, EventOf, WorkerEvents, ToolEvents, RetryEvents

\* What each other kind of event does to what was seen.
LEMMA EventsObserved ==
    ASSUME NEW seen \in SeenRecord, NEW call \in ToolCalls \cup {NoCall}
    PROVE  /\ Observed(seen, EventOf("job.capacity.waiting", call)) = [seen EXCEPT !.waiting = TRUE]
           /\ Observed(seen, EventOf("job.started", call)) = [seen EXCEPT !.waiting = FALSE]
           /\ Observed(seen, EventOf("job.settled", call)) = seen
           /\ Observed(seen, EventOf("job.worker.events.truncated", call))
                 = [seen EXCEPT !.coverage = "truncated", !.tools = {}, !.retrying = FALSE]
           /\ \A type \in {"job.retrying", "job.attempt.lost", "job.recovery.started"} :
                Observed(seen, EventOf(type, call)) = [Nothing EXCEPT !.coverage = seen.coverage]
           /\ Observed(seen, EventOf("worker.started", call))
                 = [Nothing EXCEPT !.started = TRUE,
                                   !.coverage = IF seen.coverage = "partial" THEN "complete"
                                                ELSE seen.coverage]
           /\ \A type \in RetryEvents :
                Observed(seen, EventOf(type, call))
                  = IF seen.coverage = "truncated" THEN seen
                    ELSE [seen EXCEPT !.retrying = (type = "worker.retry.started")]
           /\ Observed(seen, EventOf("worker.text", call)) = seen
<1> USE DEF Observed, EventOf, WorkerEvents, ToolEvents, RetryEvents
<1>1. Observed(seen, EventOf("job.capacity.waiting", call)) = [seen EXCEPT !.waiting = TRUE]
  OBVIOUS
<1>2. Observed(seen, EventOf("job.started", call)) = [seen EXCEPT !.waiting = FALSE]
  OBVIOUS
<1>3. Observed(seen, EventOf("job.settled", call)) = seen
  OBVIOUS
<1>4. Observed(seen, EventOf("job.worker.events.truncated", call))
        = [seen EXCEPT !.coverage = "truncated", !.tools = {}, !.retrying = FALSE]
  OBVIOUS
<1>5. ASSUME NEW type \in {"job.retrying", "job.attempt.lost", "job.recovery.started"}
      PROVE  Observed(seen, EventOf(type, call)) = [Nothing EXCEPT !.coverage = seen.coverage]
  OBVIOUS
<1>6. Observed(seen, EventOf("worker.started", call))
        = [Nothing EXCEPT !.started = TRUE,
                          !.coverage = IF seen.coverage = "partial" THEN "complete" ELSE seen.coverage]
  OBVIOUS
<1>7. ASSUME NEW type \in RetryEvents
      PROVE  Observed(seen, EventOf(type, call))
               = IF seen.coverage = "truncated" THEN seen
                 ELSE [seen EXCEPT !.retrying = (type = "worker.retry.started")]
  OBVIOUS
<1>8. Observed(seen, EventOf("worker.text", call)) = seen
  OBVIOUS
<1>. QED BY <1>1, <1>2, <1>3, <1>4, <1>5, <1>6, <1>7, <1>8

\* The event of a worker is logged, or the log says from here on that it is cut off.
LEMMA WorkerEventLogged ==
    ASSUME ActivityInv, NEW type \in WorkerEvents, NEW call \in ToolCalls \cup {NoCall},
           WorkerEvent(type, call)
    PROVE  /\ events' \in Seq(LogEvents)
           /\ \/ Seen' = Observed(Seen, EventOf(type, call)) /\ Truncated' = Truncated
              \/ Truncated /\ Seen' = Seen /\ Truncated' = Truncated
              \/ Seen' = Observed(Seen, EventOf("job.worker.events.truncated", NoCall)) /\ Truncated'
<1>1. CASE Len(events) < MaxLog /\ events' = Append(events, EventOf(type, call))
  <2>1. EventOf(type, call) \in LogEvents /\ EventOf(type, call).type # "job.worker.events.truncated"
    BY DEF LogEvents, EventOf, WorkerEvents, ToolEvents, RetryEvents
  <2>2. /\ events' \in Seq(LogEvents) /\ Seen' = Observed(Seen, EventOf(type, call))
        /\ Truncated' <=> Truncated
    BY <1>1, <2>1, LogGrows
  <2>3. Truncated' \in BOOLEAN /\ Truncated \in BOOLEAN
    BY DEF Truncated, Happened
  <2>. QED BY <2>2, <2>3
<1>2. CASE Truncated /\ events' = events
  <2>1. events \in Seq(LogEvents)
    BY DEF ActivityInv
  <2>. QED BY <1>2, <2>1, LogStays
<1>3. CASE JobEvents(<<"job.worker.events.truncated">>)
  <2>1. events' = Append(events, EventOf("job.worker.events.truncated", NoCall))
    BY <1>3, OneJobEvent
  <2>2. /\ EventOf("job.worker.events.truncated", NoCall) \in LogEvents
        /\ EventOf("job.worker.events.truncated", NoCall).type = "job.worker.events.truncated"
    BY DEF LogEvents, EventOf
  <2>. QED BY <2>1, <2>2, LogGrows
<1>. QED BY <1>1, <1>2, <1>3 DEF WorkerEvent, Truncated

\* One event of the Job itself.
LEMMA JobEventLogged ==
    ASSUME ActivityInv,
           NEW type \in {"job.capacity.waiting", "job.started", "job.retrying", "job.settled"},
           JobEvents(<<type>>)
    PROVE  /\ events' \in Seq(LogEvents)
           /\ Seen' = Observed(Seen, EventOf(type, NoCall)) /\ Truncated' = Truncated
<1>1. events' = Append(events, EventOf(type, NoCall))
  BY OneJobEvent
<1>2. EventOf(type, NoCall) \in LogEvents /\ EventOf(type, NoCall).type # "job.worker.events.truncated"
  BY DEF LogEvents, EventOf
<1>3. Truncated' \in BOOLEAN /\ Truncated \in BOOLEAN
  BY DEF Truncated, Happened
<1>. QED BY <1>1, <1>2, <1>3, LogGrows

\* The two events of a recovery.
LEMMA RecoveryLogged ==
    ASSUME ActivityInv, JobEvents(<<"job.attempt.lost", "job.recovery.started">>)
    PROVE  /\ events' \in Seq(LogEvents) /\ Truncated' = Truncated
           /\ Seen' = [Nothing EXCEPT !.coverage = Seen.coverage]
<1> DEFINE lost == EventOf("job.attempt.lost", NoCall)
           found == EventOf("job.recovery.started", NoCall)
           between == Append(events, lost)
<1>1. events \in Seq(LogEvents) /\ Seen \in SeenRecord
  BY DEF ActivityInv, SeenInv
<1>2. lost \in LogEvents /\ found \in LogEvents
  BY DEF LogEvents, EventOf
<1>3. [i \in DOMAIN <<"job.attempt.lost", "job.recovery.started">> |->
          EventOf(<<"job.attempt.lost", "job.recovery.started">>[i], NoCall)] = <<lost, found>>
  OBVIOUS
<1> HIDE DEF lost, found
<1>4. between \in Seq(LogEvents) /\ events' = Append(between, found)
  BY <1>1, <1>2, <1>3 DEF JobEvents, lost, found
<1> HIDE DEF between
<1>5. Seen' = Observed(FoldLeft(Observed, Nothing, between), found)
  BY <1>2, <1>4, LogProjected DEF Seen
<1>6. FoldLeft(Observed, Nothing, between) = Observed(Seen, lost)
  BY <1>1, <1>2, LogProjected DEF Seen, between
<1>7. PICK first : first = [Nothing EXCEPT !.coverage = Seen.coverage]
  OBVIOUS
<1>8. Observed(Seen, lost) = first
  BY <1>1, <1>7, EventsObserved DEF lost
<1>9. first \in SeenRecord /\ first.coverage = Seen.coverage
  BY <1>1, <1>7 DEF Nothing, SeenRecord
<1>10. Observed(first, found) = [Nothing EXCEPT !.coverage = first.coverage]
  BY <1>9, EventsObserved DEF found
<1>11. Truncated' = Truncated
  <2>1. /\ DOMAIN events' = DOMAIN events \cup {Len(events) + 1, Len(events) + 2}
        /\ events'[Len(events) + 1] = lost /\ events'[Len(events) + 2] = found
        /\ \A i \in DOMAIN events : events'[i] = events[i]
    BY <1>1, <1>2, <1>4 DEF between
  <2>2. lost.type # "job.worker.events.truncated" /\ found.type # "job.worker.events.truncated"
    BY DEF lost, found, EventOf
  <2>3. Truncated' <=> Truncated
    BY <2>1, <2>2 DEF Truncated, Happened
  <2>4. Truncated' \in BOOLEAN /\ Truncated \in BOOLEAN
    BY DEF Truncated, Happened
  <2>. QED BY <2>3, <2>4
<1>12. events' \in Seq(LogEvents)
  BY <1>2, <1>4
<1>. QED BY <1>5, <1>6, <1>7, <1>8, <1>9, <1>10, <1>11, <1>12

LEMMA ActivityBegins == ActivityInit => ActivityInv
<1>1. SUFFICES ASSUME ActivityInit PROVE ActivityInv
  OBVIOUS
<1>2. events = <<>> /\ events \in Seq(LogEvents)
  BY <1>1 DEF ActivityInit
<1>3. Seen = Nothing
  BY <1>2, LogProjected DEF Seen
<1>4. ~ Truncated
  BY <1>2 DEF Truncated, Happened
<1>5. StageInv(jobStatus, stage, busy) /\ SeenInv(Nothing, Truncated, jobStatus, stage, busy)
  BY <1>1, <1>4 DEF ActivityInit, StageInv, SeenInv, SeenRecord, Nothing
<1>. QED BY <1>2, <1>3, <1>5 DEF ActivityInv

\* A dropped or cut off event leaves nothing to be seen, whatever the worker does then.
LEMMA CutOffSeesNothing ==
    ASSUME NEW seen \in SeenRecord, NEW after, NEW job, NEW place, NEW calls,
           seen.coverage = "truncated" => seen.tools = {} /\ ~ seen.retrying,
           \/ after = seen /\ seen.coverage = "truncated"
           \/ after = [seen EXCEPT !.coverage = "truncated", !.tools = {}, !.retrying = FALSE]
    PROVE  \A cutOff \in BOOLEAN : SeenInv(after, cutOff, job, place, calls)
BY DEF SeenInv, SeenRecord

LEMMA ActivityStep == ActivityInv /\ [ActivityNext]_activityVars => ActivityInv'
<1> SUFFICES ASSUME ActivityInv, [ActivityNext]_activityVars PROVE ActivityInv'
  OBVIOUS
<1>1. PICK seen : seen = Seen
  OBVIOUS
<1>2. /\ seen \in SeenRecord /\ SeenInv(seen, Truncated, jobStatus, stage, busy)
      /\ StageInv(jobStatus, stage, busy) /\ events \in Seq(LogEvents)
  BY <1>1 DEF ActivityInv, SeenInv
<1>3. Truncated \in BOOLEAN /\ Truncated' \in BOOLEAN
  BY DEF Truncated, Happened
<1>4. SUFFICES /\ events' \in Seq(LogEvents)
               /\ StageInv(jobStatus', stage', busy')
               /\ SeenInv(Seen', Truncated', jobStatus', stage', busy')
  BY DEF ActivityInv
<1> USE NoCall \in ToolCalls \cup {NoCall}
<1>5. CASE AwaitsCapacity
  <2>1. PICK after : after = Seen'
    OBVIOUS
  <2>2. /\ after = [seen EXCEPT !.waiting = TRUE] /\ Truncated' = Truncated
        /\ events' \in Seq(LogEvents)
    BY <1>1, <1>2, <1>5, <2>1, JobEventLogged, EventsObserved DEF AwaitsCapacity
  <2>3. /\ StageInv(jobStatus', stage', busy')
        /\ SeenInv(after, Truncated, jobStatus', stage', busy')
    BY <1>2, <1>5, <2>2 DEF AwaitsCapacity, StageInv, SeenInv, SeenRecord
  <2>. QED BY <2>1, <2>2, <2>3
<1>6. CASE Starts
  <2>1. PICK after : after = Seen'
    OBVIOUS
  <2>2. /\ after \in {seen, [seen EXCEPT !.waiting = FALSE]} /\ Truncated' = Truncated
        /\ events' \in Seq(LogEvents)
    BY <1>1, <1>2, <1>6, <2>1, JobEventLogged, EventsObserved, LogStays DEF Starts
  <2>3. /\ StageInv(jobStatus', stage', busy')
        /\ SeenInv(after, Truncated, jobStatus', stage', busy')
    BY <1>2, <1>6, <2>2 DEF Starts, StageInv, SeenInv, SeenRecord
  <2>. QED BY <2>1, <2>2, <2>3
<1>7. CASE AgentStarts
  <2>1. PICK after : after = Seen'
    OBVIOUS
  <2>2. /\ events' \in Seq(LogEvents)
        /\ \/ /\ Truncated' = Truncated
              /\ after = [Nothing EXCEPT !.started = TRUE,
                              !.coverage = IF seen.coverage = "partial" THEN "complete" ELSE seen.coverage]
           \/ Truncated /\ after = seen
           \/ after = [seen EXCEPT !.coverage = "truncated", !.tools = {}, !.retrying = FALSE]
    <3>1. WorkerEvent("worker.started", NoCall) /\ "worker.started" \in WorkerEvents
      BY <1>7 DEF AgentStarts, WorkerEvents
    <3>2. /\ events' \in Seq(LogEvents)
          /\ \/ after = Observed(seen, EventOf("worker.started", NoCall)) /\ Truncated' = Truncated
             \/ Truncated /\ after = seen /\ Truncated' = Truncated
             \/ after = Observed(seen, EventOf("job.worker.events.truncated", NoCall)) /\ Truncated'
      BY <1>1, <2>1, <3>1, WorkerEventLogged
    <3>. QED BY <1>2, <3>2, EventsObserved
  <2>3. StageInv(jobStatus', stage', busy')
    BY <1>2, <1>7 DEF AgentStarts, StageInv
  <2>4. SeenInv(after, Truncated', jobStatus', stage', busy')
    <3>1. CASE /\ Truncated' = Truncated
               /\ after = [Nothing EXCEPT !.started = TRUE,
                              !.coverage = IF seen.coverage = "partial" THEN "complete" ELSE seen.coverage]
      BY <1>2, <1>7, <3>1 DEF AgentStarts, SeenInv, SeenRecord, Nothing
    <3>2. CASE \/ Truncated /\ after = seen
               \/ after = [seen EXCEPT !.coverage = "truncated", !.tools = {}, !.retrying = FALSE]
      BY <1>2, <1>3, <3>2, CutOffSeesNothing DEF SeenInv
    <3>. QED BY <2>2, <3>1, <3>2
  <2>. QED BY <2>1, <2>2, <2>3, <2>4
<1>8. ASSUME NEW type \in ToolEvents, NEW call \in ToolCalls, NEW named \in BOOLEAN,
             ToolReports(type, call, named)
      PROVE  ActivityInv'
  <2>1. PICK after : after = Seen'
    OBVIOUS
  <2>2. PICK id \in ToolCalls \cup {NoCall} : id = IF named THEN call ELSE NoCall
    OBVIOUS
  <2>3. /\ events' \in Seq(LogEvents)
        /\ \/ /\ Truncated' = Truncated
              /\ after = IF seen.coverage = "truncated" THEN seen
                         ELSE ToolObserved(seen, EventOf(type, id))
           \/ Truncated /\ after = seen
           \/ after = [seen EXCEPT !.coverage = "truncated", !.tools = {}, !.retrying = FALSE]
    <3>1. WorkerEvent(type, id) /\ type \in WorkerEvents
      BY <1>8, <2>2 DEF ToolReports, WorkerEvents
    <3>2. /\ events' \in Seq(LogEvents)
          /\ \/ after = Observed(seen, EventOf(type, id)) /\ Truncated' = Truncated
             \/ Truncated /\ after = seen /\ Truncated' = Truncated
             \/ after = Observed(seen, EventOf("job.worker.events.truncated", NoCall)) /\ Truncated'
      BY <1>1, <2>1, <3>1, WorkerEventLogged
    <3>3. Observed(seen, EventOf(type, id))
            = IF seen.coverage = "truncated" THEN seen ELSE ToolObserved(seen, EventOf(type, id))
      BY <1>2, <1>8, <2>2, ToolEventObserved
    <3>4. Observed(seen, EventOf("job.worker.events.truncated", NoCall))
            = [seen EXCEPT !.coverage = "truncated", !.tools = {}, !.retrying = FALSE]
      BY <1>2, EventsObserved
    <3>. QED BY <3>2, <3>3, <3>4
  <2>4. StageInv(jobStatus', stage', busy')
    BY <1>2, <1>8 DEF ToolReports, StageInv, ToolEvents
  <2>5. SeenInv(after, Truncated', jobStatus', stage', busy')
    <3>1. CASE /\ Truncated' = Truncated /\ seen.coverage # "truncated"
               /\ after = ToolObserved(seen, EventOf(type, id))
      <4>1. CASE ~ named
        <5>1. after = [seen EXCEPT !.coverage = "partial", !.tools = {}]
          BY <2>2, <3>1, <4>1 DEF ToolObserved, EventOf
        <5>. QED BY <1>2, <1>8, <3>1, <5>1 DEF ToolReports, SeenInv, SeenRecord
      <4>2. CASE named
        <5>1. id = call /\ call # NoCall
          BY <2>2, <4>2, CallsAssumption
        <5>2. PICK tools : tools = CASE type = "worker.tool.started" -> seen.tools \union {call}
                                     [] type = "worker.tool.completed" -> seen.tools \ {call}
                                     [] type = "worker.tool.updated" -> seen.tools
          OBVIOUS
        <5>3. after = [seen EXCEPT !.tools = tools]
          BY <3>1, <5>1, <5>2 DEF ToolObserved, EventOf
        <5>4. /\ tools \in SUBSET ToolCalls
              /\ seen.tools \subseteq busy => tools \subseteq busy'
              /\ seen.tools = busy => tools = busy'
          BY <1>2, <1>8, <5>2 DEF ToolReports, SeenRecord, ToolEvents
        <5>. QED BY <1>2, <1>8, <3>1, <5>3, <5>4 DEF ToolReports, SeenInv, SeenRecord
      <4>. QED BY <4>1, <4>2
    <3>2. CASE \/ after = seen /\ seen.coverage = "truncated"
               \/ after = [seen EXCEPT !.coverage = "truncated", !.tools = {}, !.retrying = FALSE]
      BY <1>2, <1>3, <3>2, CutOffSeesNothing DEF SeenInv
    <3>3. Truncated => seen.coverage = "truncated"
      BY <1>2 DEF SeenInv
    <3>. QED BY <2>3, <3>1, <3>2, <3>3
  <2>. QED BY <2>1, <2>3, <2>4, <2>5 DEF ActivityInv
<1>9. ASSUME NEW type \in RetryEvents \union {"worker.text"}, WorkerReports(type)
      PROVE  ActivityInv'
  <2>1. PICK after : after = Seen'
    OBVIOUS
  <2>2. /\ events' \in Seq(LogEvents)
        /\ \/ /\ Truncated' = Truncated
              /\ \/ after = seen
                 \/ /\ seen.coverage # "truncated"
                    /\ after = [seen EXCEPT !.retrying = (type = "worker.retry.started")]
           \/ after = [seen EXCEPT !.coverage = "truncated", !.tools = {}, !.retrying = FALSE]
    <3>1. type \in WorkerEvents
      BY DEF WorkerEvents
    <3>2. /\ events' \in Seq(LogEvents)
          /\ \/ after = Observed(seen, EventOf(type, NoCall)) /\ Truncated' = Truncated
             \/ Truncated /\ after = seen /\ Truncated' = Truncated
             \/ after = Observed(seen, EventOf("job.worker.events.truncated", NoCall)) /\ Truncated'
      BY <1>1, <1>9, <2>1, <3>1, WorkerEventLogged DEF WorkerReports
    <3>3. \/ Observed(seen, EventOf(type, NoCall)) = seen
          \/ /\ seen.coverage # "truncated"
             /\ Observed(seen, EventOf(type, NoCall))
                   = [seen EXCEPT !.retrying = (type = "worker.retry.started")]
      <4>1. /\ Observed(seen, EventOf("worker.text", NoCall)) = seen
            /\ \A kind \in RetryEvents :
                 Observed(seen, EventOf(kind, NoCall))
                   = IF seen.coverage = "truncated" THEN seen
                     ELSE [seen EXCEPT !.retrying = (kind = "worker.retry.started")]
        BY <1>2, EventsObserved
      <4>. QED BY <1>9, <4>1
    <3>4. Observed(seen, EventOf("job.worker.events.truncated", NoCall))
            = [seen EXCEPT !.coverage = "truncated", !.tools = {}, !.retrying = FALSE]
      BY <1>2, EventsObserved
    <3>. QED BY <3>2, <3>3, <3>4
  <2>3. StageInv(jobStatus', stage', busy')
    BY <1>2, <1>9 DEF WorkerReports, StageInv
  <2>4. SeenInv(after, Truncated', jobStatus', stage', busy')
    <3>1. CASE after = [seen EXCEPT !.coverage = "truncated", !.tools = {}, !.retrying = FALSE]
      <4>1. /\ seen.coverage = "truncated" => seen.tools = {} /\ ~ seen.retrying
            /\ \/ after = seen /\ seen.coverage = "truncated"
               \/ after = [seen EXCEPT !.coverage = "truncated", !.tools = {}, !.retrying = FALSE]
        BY <1>2, <3>1 DEF SeenInv
      <4>. QED BY <1>2, <1>3, <4>1, CutOffSeesNothing DEF SeenInv
    <3>2. CASE Truncated' = Truncated /\ after = seen
      BY <1>2, <1>9, <3>2 DEF WorkerReports, SeenInv
    <3>3. CASE /\ Truncated' = Truncated /\ seen.coverage # "truncated"
               /\ after = [seen EXCEPT !.retrying = (type = "worker.retry.started")]
      BY <1>2, <1>9, <3>3 DEF WorkerReports, SeenInv, SeenRecord
    <3>. QED BY <2>2, <3>1, <3>2, <3>3
  <2>. QED BY <2>1, <2>2, <2>3, <2>4 DEF ActivityInv
<1>10. CASE RetriesJob
  <2>1. PICK after : after = Seen'
    OBVIOUS
  <2>2. /\ after = [Nothing EXCEPT !.coverage = seen.coverage] /\ Truncated' = Truncated
        /\ events' \in Seq(LogEvents)
    BY <1>1, <1>2, <1>10, <2>1, JobEventLogged, EventsObserved DEF RetriesJob
  <2>3. /\ StageInv(jobStatus', stage', busy')
        /\ SeenInv(after, Truncated, jobStatus', stage', busy')
    BY <1>2, <1>10, <2>2 DEF RetriesJob, StageInv, SeenInv, SeenRecord, Nothing
  <2>. QED BY <2>1, <2>2, <2>3
<1>11. CASE RecoversJob
  <2>1. PICK after : after = Seen'
    OBVIOUS
  <2>2. /\ after = [Nothing EXCEPT !.coverage = seen.coverage] /\ Truncated' = Truncated
        /\ events' \in Seq(LogEvents)
    BY <1>1, <1>11, <2>1, RecoveryLogged DEF RecoversJob
  <2>3. /\ StageInv(jobStatus', stage', busy')
        /\ SeenInv(after, Truncated, jobStatus', stage', busy')
    BY <1>2, <1>11, <2>2 DEF RecoversJob, StageInv, SeenInv, SeenRecord, Nothing
  <2>. QED BY <2>1, <2>2, <2>3
<1>12. CASE Settles
  <2>1. PICK after : after = Seen'
    OBVIOUS
  <2>2. after = seen /\ Truncated' = Truncated /\ events' \in Seq(LogEvents)
    BY <1>1, <1>2, <1>12, <2>1, JobEventLogged, EventsObserved DEF Settles
  <2>3. /\ StageInv(jobStatus', stage', busy')
        /\ SeenInv(after, Truncated, jobStatus', stage', busy')
    BY <1>2, <1>12, <2>2 DEF Settles, StageInv, SeenInv
  <2>. QED BY <2>1, <2>2, <2>3
<1>13. CASE UNCHANGED activityVars
  BY <1>1, <1>2, <1>13, LogStays DEF activityVars
<1>. QED
  BY <1>5, <1>6, <1>7, <1>8, <1>9, <1>10, <1>11, <1>12, <1>13 DEF ActivityNext, ActivityInv

LEMMA ActivitySuffices == ActivityInv => ActivityTruthful
<1> SUFFICES ASSUME ActivityInv PROVE ActivityTruthful
  OBVIOUS
<1>1. PICK seen : seen = Seen
  OBVIOUS
<1>2. /\ seen \in SeenRecord /\ SeenInv(seen, Truncated, jobStatus, stage, busy)
      /\ StageInv(jobStatus, stage, busy)
  BY <1>1 DEF ActivityInv, SeenInv
<1>3. PICK state : state = ActivityState(seen)
  OBVIOUS
<1>4. /\ Activity.state = state /\ Activity.coverage = seen.coverage
      /\ Activity.activeTools = IF state = "tools-running" THEN seen.tools ELSE {}
  BY <1>1, <1>3 DEF Activity, Seen
<1>5. seen.waiting \in BOOLEAN /\ seen.started \in BOOLEAN /\ seen.retrying \in BOOLEAN
  BY <1>2 DEF SeenRecord
<1>6. state = "tools-running" => jobStatus # "terminal" /\ seen.tools # {}
  BY <1>3, <1>5 DEF ActivityState
<1>7. state = "retrying" => jobStatus # "terminal" /\ seen.retrying
  BY <1>3, <1>5 DEF ActivityState
<1>8. ASSUME jobStatus = "running", ~ seen.waiting, seen.started, seen.coverage = "complete"
      PROVE  state = IF seen.retrying THEN "retrying"
                     ELSE IF seen.tools # {} THEN "tools-running" ELSE "running"
  BY <1>3, <1>5, <1>8 DEF ActivityState
<1>9. /\ jobStatus \in {"queued", "running", "terminal"}
      /\ stage = "worker" => jobStatus = "running"
      /\ jobStatus # "terminal" => seen.tools \subseteq busy /\ (seen.retrying => stage = "worker")
      /\ seen.tools # {} => jobStatus = "terminal" \/ stage = "worker"
      /\ seen.coverage = "complete" /\ stage = "worker" =>
           seen.started /\ ~ seen.waiting /\ seen.tools = busy
  BY <1>2 DEF SeenInv, StageInv
<1>10. Activity.activeTools \subseteq busy
  BY <1>4, <1>6, <1>9
<1>11. Activity.state \in {"retrying", "tools-running"} => stage = "worker"
  BY <1>4, <1>6, <1>7, <1>9
<1>12. Activity.coverage = "complete" /\ stage = "worker" =>
         /\ Activity.state \in {"running", "retrying", "tools-running"}
         /\ Activity.state # "retrying" => Activity.activeTools = busy
  <2>1. SUFFICES ASSUME seen.coverage = "complete", stage = "worker"
                 PROVE  /\ state \in {"running", "retrying", "tools-running"}
                        /\ state # "retrying" => Activity.activeTools = busy
    BY <1>4
  <2>2. state = IF seen.retrying THEN "retrying"
                ELSE IF seen.tools # {} THEN "tools-running" ELSE "running"
    BY <1>8, <1>9, <2>1
  <2>. QED BY <1>4, <1>5, <1>9, <2>1, <2>2
<1>. QED BY <1>10, <1>11, <1>12 DEF ActivityTruthful

\* For any tool calls, any limit of worker events and any length of the log: what the projection of
\* its events says of a Job is true of its worker, with any event cut off and any call left unnamed.
THEOREM ActivityTold == ActivitySpec => []ActivityTruthful
BY ActivityBegins, ActivityStep, ActivitySuffices, PTL DEF ActivitySpec
=============================================================================
