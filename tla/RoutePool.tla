------------------------------ MODULE RoutePool ------------------------------
(***************************************************************************)
(* The admission of Jobs to a pool of routes (Orchestrator #startInspected *)
(* and #reserveRoute, SqliteDurableRecordStore.admitRoutePool).  A call    *)
(* keeps the workspace's snapshot under the new Job's id, picks a route,   *)
(* admits the Job and activates it; a repeated key is answered with the    *)
(* Job that has it.  With the SQLite store the choice is part of the       *)
(* admission's transaction and loads are unexpired leases; with another    *)
(* store the process reserves a route first and counts its reservations.   *)
(* Call c creates Job c.                                                   *)
(***************************************************************************)
EXTENDS Naturals, FiniteSets

CONSTANTS MaxCalls,      \* calls of start, over all processes
          RouteCount,    \* members of the pool, in the configured order
          Requests       \* what a call may ask for: the pool (target 0) or a route by name

ASSUME PoolAssumption ==
    /\ MaxCalls \in Nat /\ RouteCount \in Nat \ {0}
    /\ Requests \subseteq [target: 0..RouteCount, dirty: BOOLEAN, keyed: BOOLEAN]

VARIABLES durable,       \* the store admits to pools itself
          poolCall,      \* what each call asks for and where it stands
          poolJob,       \* the admitted Jobs: route, whether its lease is unexpired, settled
          boundTo,       \* the Job the idempotency key is bound to, or 0
          poolCursor,    \* the member considered first
          routeActivity, \* reservations held in the process
          files,         \* Jobs whose snapshot file is on disk
          orphans,       \* files a crash or a failed removal left behind
          lastPick,      \* the last call that picked a member, and the member
          quiet          \* no load was taken away, or put on a route by name

poolVars == <<durable, poolCall, poolJob, boundTo, poolCursor, routeActivity, files, orphans,
              lastPick, quiet>>

-----------------------------------------------------------------------------
Calls == 1..MaxCalls
Routes == 1..RouteCount
NoJob == [route |-> 0, live |-> FALSE, settled |-> FALSE]

PoolInit ==
    /\ durable \in BOOLEAN
    /\ poolCall = [c \in Calls |-> [step |-> "new", target |-> 0, dirty |-> FALSE,
                                    keyed |-> FALSE, reserved |-> 0]]
    /\ poolJob = [c \in Calls |-> NoJob]
    /\ boundTo = 0
    /\ poolCursor = 0
    /\ routeActivity = [r \in Routes |-> 0]
    /\ files = {}
    /\ orphans = {}
    /\ lastPick = [call |-> 0, route |-> 0]
    /\ quiet = TRUE

CallAt(c, step) == poolCall[c].step = step
GoTo(c, step) == poolCall' = [poolCall EXCEPT ![c].step = step]

Load(r) ==
    IF durable
      THEN Cardinality({c \in Calls : poolJob[c].route = r /\ poolJob[c].live})
      ELSE routeActivity[r]

\* The least loaded member; of several, the first one from the cursor on.
Selected ==
    LET Member(k) == ((poolCursor + k) % RouteCount) + 1
        least == {k \in 0..(RouteCount - 1) : \A r \in Routes : Load(Member(k)) <= Load(r)}
    IN Member(CHOOSE k \in least : \A i \in least : k <= i)

\* Bug: the cursor counts the choices. (PoolRotates)
CountingCursor(r) == (poolCursor + 1) % RouteCount

\* The cursor moves behind the member that was chosen.
CursorAfter(r) == r % RouteCount

\* What a choice does: by name it leaves the pool's cursor alone.
Chooses(c, r) ==
    IF poolCall[c].target = 0
      THEN /\ r = Selected
           /\ poolCursor' = CursorAfter(r)
           /\ lastPick' = [call |-> c, route |-> r]
           /\ UNCHANGED quiet
      ELSE /\ r = poolCall[c].target
           /\ quiet' = FALSE
           /\ UNCHANGED <<poolCursor, lastPick>>

\* Reservations are counted by the process only when the store does not count leases.
Release(c) ==
    /\ routeActivity' = [r \in Routes |->
            routeActivity[r] - (IF poolCall[c].reserved = r THEN 1 ELSE 0)]
    /\ quiet' = FALSE

-----------------------------------------------------------------------------
\* The snapshot of a clean workspace is empty and has no file.
PersistSnapshot(c) ==
    /\ CallAt(c, "new")
    /\ \A b \in Calls : b < c => ~ CallAt(b, "new")
    /\ \E q \in Requests :
        /\ poolCall' = [poolCall EXCEPT ![c] =
                [step |-> "persisted", target |-> q.target, dirty |-> q.dirty,
                 keyed |-> q.keyed, reserved |-> 0]]
        /\ files' = IF q.dirty THEN files \cup {c} ELSE files
    /\ UNCHANGED <<durable, poolJob, boundTo, poolCursor, routeActivity, orphans, lastPick, quiet>>

\* #reserveRoute, when the store does not choose the member.
ReserveRoute(c) ==
    /\ CallAt(c, "persisted")
    /\ ~ durable
    /\ \E r \in Routes :
        /\ Chooses(c, r)
        /\ routeActivity' = [routeActivity EXCEPT ![r] = @ + 1]
        /\ poolCall' = [poolCall EXCEPT ![c].step = "reserved", ![c].reserved = r]
    /\ UNCHANGED <<durable, poolJob, boundTo, files, orphans>>

Duplicate(c) == poolCall[c].keyed /\ boundTo # 0

Enter(c, r) ==
    /\ poolJob' = [poolJob EXCEPT ![c] = [route |-> r, live |-> TRUE, settled |-> FALSE]]
    /\ boundTo' = IF poolCall[c].keyed THEN c ELSE boundTo
    /\ GoTo(c, "admitted")

\* One transaction: the key, the loads, the cursor, the record and its lease.
AdmitDurably(c) ==
    /\ CallAt(c, "persisted")
    /\ durable
    /\ \/ /\ ~ Duplicate(c)
          /\ \E r \in Routes : Chooses(c, r) /\ Enter(c, r)
       \/ /\ Duplicate(c)
          /\ GoTo(c, "duplicate")
          /\ UNCHANGED <<poolJob, boundTo, poolCursor, lastPick, quiet>>
    /\ UNCHANGED <<durable, routeActivity, files, orphans>>

AdmitReserved(c) ==
    /\ CallAt(c, "reserved")
    /\ \/ ~ Duplicate(c) /\ Enter(c, poolCall[c].reserved)
       \/ Duplicate(c) /\ GoTo(c, "duplicate") /\ UNCHANGED <<poolJob, boundTo>>
    /\ UNCHANGED <<durable, poolCursor, routeActivity, files, orphans, lastPick, quiet>>

\* The snapshot is removed; a removal that fails is not reported, the admission's error is.
AdmissionFails(c) ==
    /\ poolCall[c].step \in {"persisted", "reserved"}
    /\ \/ files' = files \ {c} /\ UNCHANGED orphans
       \/ orphans' = orphans \cup (files \cap {c}) /\ UNCHANGED files
    /\ Release(c)
    /\ poolCall' = [poolCall EXCEPT ![c].step = "done", ![c].reserved = 0]
    /\ UNCHANGED <<durable, poolJob, boundTo, poolCursor, lastPick>>

\* Bug: the caller of a duplicate keeps its reservation. (AdmissionLeavesNothing)
KeepsReservation(c) ==
    /\ GoTo(c, "done")
    /\ UNCHANGED <<routeActivity, quiet>>

GivesUpReservation(c) ==
    /\ Release(c)
    /\ poolCall' = [poolCall EXCEPT ![c].step = "done", ![c].reserved = 0]

\* The duplicate's own snapshot goes, then its reservation; when the removal throws the
\* reservation is never given up.
AnswerDuplicate(c) ==
    /\ CallAt(c, "duplicate")
    /\ \/ /\ files' = files \ {c}
          /\ GivesUpReservation(c)
          /\ UNCHANGED orphans
       \/ /\ c \in files
          /\ orphans' = orphans \cup {c}
          /\ GoTo(c, "threw")
          /\ UNCHANGED <<files, routeActivity, quiet>>
    /\ UNCHANGED <<durable, poolJob, boundTo, poolCursor, lastPick>>

\* The observer is told of the first event; when it throws, the Job stays admitted, without
\* a lease, for a recovery to find.
Activate(c) ==
    /\ CallAt(c, "admitted")
    /\ \/ /\ GoTo(c, "running")
          /\ UNCHANGED <<poolJob, routeActivity, quiet>>
       \/ /\ poolJob' = [poolJob EXCEPT ![c].live = FALSE]
          /\ GivesUpReservation(c)
    /\ UNCHANGED <<durable, boundTo, poolCursor, files, orphans, lastPick>>

\* The completion releases the lease and the reservation.
SettlePooled(c) ==
    /\ CallAt(c, "running")
    /\ poolJob' = [poolJob EXCEPT ![c].live = FALSE, ![c].settled = TRUE]
    /\ GivesUpReservation(c)
    /\ UNCHANGED <<durable, boundTo, poolCursor, files, orphans, lastPick>>

\* A lease that is not renewed expires; the Job's route is then no longer charged for it.
LeaseLapses(c) ==
    /\ durable
    /\ poolJob[c].live
    /\ poolJob' = [poolJob EXCEPT ![c].live = FALSE]
    /\ quiet' = FALSE
    /\ UNCHANGED <<durable, poolCall, boundTo, poolCursor, routeActivity, files, orphans, lastPick>>

\* A recovery claims the lease of an unsettled Job and runs it on the route it was given.
RecoverPooled(c) ==
    /\ durable
    /\ poolCall[c].step \in {"done", "stopped"}
    /\ poolJob[c].route # 0 /\ ~ poolJob[c].live /\ ~ poolJob[c].settled
    /\ poolJob' = [poolJob EXCEPT ![c].live = TRUE]
    /\ GoTo(c, "running")
    /\ quiet' = FALSE
    /\ UNCHANGED <<durable, boundTo, poolCursor, routeActivity, files, orphans, lastPick>>

\* The process stops: its calls end, its reservations are forgotten.
ProcessStops ==
    LET open == {c \in Calls : poolCall[c].step \notin {"new", "done", "stopped"}}
    IN /\ open # {}
       /\ poolCall' = [c \in Calls |->
            IF c \in open THEN [poolCall[c] EXCEPT !.step = "stopped", !.reserved = 0]
                          ELSE poolCall[c]]
       /\ orphans' = orphans \cup {c \in files \cap open : poolJob[c] = NoJob}
       /\ routeActivity' = [r \in Routes |-> 0]
       /\ quiet' = FALSE
       /\ UNCHANGED <<durable, poolJob, boundTo, poolCursor, files, lastPick>>

PoolNext ==
    \/ ProcessStops
    \/ \E c \in Calls :
        \/ PersistSnapshot(c) \/ ReserveRoute(c)
        \/ AdmitDurably(c) \/ AdmitReserved(c) \/ AdmissionFails(c) \/ AnswerDuplicate(c)
        \/ Activate(c) \/ SettlePooled(c) \/ LeaseLapses(c) \/ RecoverPooled(c)

PoolSpec == PoolInit /\ [][PoolNext]_poolVars

-----------------------------------------------------------------------------
\* Choices are even: when every member carries the same load, the next one is the one
\* behind the last one chosen, whatever was admitted by name, settled, refused as a
\* duplicate or recovered in between; and while load is only added, no member is ever
\* two Jobs ahead of another.
PoolRotates ==
    [][lastPick' # lastPick =>
        /\ (lastPick.call # 0 /\ \A q, r \in Routes : Load(q) = Load(r))
            => lastPick'.route = (lastPick.route % RouteCount) + 1
        /\ quiet' => \A q, r \in Routes : Load(q)' <= Load(r)' + 1]_poolVars

\* Whatever call fails, is a duplicate or races another: an admitted Job's snapshot stays on
\* disk, any other file is of a call under way or was left by a crash or a failed removal,
\* and a route carries one reservation for each call that still holds one.
AdmissionLeavesNothing ==
    /\ \A c \in Calls : poolJob[c].route # 0 /\ poolCall[c].dirty => c \in files
    /\ \A c \in files :
        \/ poolJob[c].route # 0
        \/ c \in orphans
        \/ poolCall[c].step \in {"persisted", "reserved", "duplicate"}
    /\ \A r \in Routes : routeActivity[r] =
        Cardinality({c \in Calls : poolCall[c].reserved = r /\
            poolCall[c].step \in {"reserved", "duplicate", "threw", "admitted", "running"}})
=============================================================================
