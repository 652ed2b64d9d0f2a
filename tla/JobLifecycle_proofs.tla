------------------------- MODULE JobLifecycle_proofs -------------------------
(***************************************************************************)
(* That the processes of JobLifecycle keep the Job contract, log every     *)
(* outcome once and run adapters only under a slot, for any number of      *)
(* Jobs, processes, attempts and crashes, and with every fault the         *)
(* constants allow.                                                        *)
(*                                                                         *)
(* What a process holds of a Job may be stale: another one may have        *)
(* recovered the Job since.  The invariant says that what a process holds  *)
(* is exact when its revision is the record's, which is what a save        *)
(* compares, and that no two processes hold the same attempt.              *)
(***************************************************************************)
EXTENDS JobLifecycle, DurableRecordStore_proofs

\* The phases in which a process works on what it read of the record.
Loaded == Executing \cup {"deciding", "losing", "restarting", "concluding"}

\* A reserved attempt that may still be handed to the adapter.
Holds(e) ==
    e.phase \in {"capacity", "reporting", "polling", "admitted", "attempt"} /\ e.attempt > 0

Invoked(j, n) == n \in 1..MaxAttempts /\ invoked[j][n] = 1

\* What a process may hold of a record: no more than was saved, and just that if its
\* revision is the record's.
Faithful(j, e) ==
    /\ j \in Stored
    /\ e.revision \in 1..records[j].revision
    /\ e.attempt <= records[j].data
    /\ e.revision = records[j].revision
         => e.status = records[j].status /\ e.attempt = records[j].data

\* What the phases say of the status and of the attempt.
PhaseAgrees(e) ==
    /\ e.phase = "callback" <=> e.status \in Terminal
    /\ e.status = "queued" => e.attempt <= 1
    /\ e.status = "running" => e.attempt > 0
    /\ e.phase \in {"attempt", "working", "returned", "losing"} => e.status = "running"
    /\ e.phase = "restarting" =>
         e.attempt < MaxAttempts /\ (e.status = "queued" => e.attempt = 0)

InvocationAgrees(j, e) ==
    /\ Holds(e) => invoked[j][e.attempt] = 0
    /\ e.phase = "working" => Invoked(j, e.attempt)
    /\ e.phase \in {"returned", "settling", "cancelling"} /\ e.outcome = "success"
         => e.status = "running" /\ Invoked(j, e.attempt)

RowInv(j, e) ==
    /\ e.phase # "idle" => j \in Stored
    /\ e.phase \in Loaded => e.status # "none" /\ Faithful(j, e) /\ PhaseAgrees(e) /\ InvocationAgrees(j, e)

HeldByOne ==
    \A j \in Jobs, o \in Owners, p \in Owners :
        o # p /\ Holds(exec[o][j]) /\ Holds(exec[p][j])
            => exec[o][j].attempt # exec[p][j].attempt

RecordInv ==
    \A j \in Jobs :
        /\ j \in Stored /\ records[j].status = "queued" => records[j].data <= 1
        /\ j \in Stored /\ records[j].status = "running" => records[j].data > 0
        /\ \A n \in 1..MaxAttempts :
             j \notin Stored \/ n > records[j].data => invoked[j][n] = 0

JobInv ==
    /\ IInv
    /\ ExecTypeOK
    /\ \A o \in Owners, j \in Jobs : RowInv(j, exec[o][j])
    /\ HeldByOne
    /\ RecordInv
    /\ TerminalEventAgrees

\* What the contract makes of a step.
ContractStep == [Contract!Next]_(Contract!vars)

-----------------------------------------------------------------------------
(* Facts every step reads.                                                 *)

LEMMA ExecFacts ==
    ASSUME ExecTypeOK, NEW o \in Owners, NEW j \in Jobs
    PROVE  /\ exec[o][j] \in Exec
           /\ exec[o][j].phase \in Phases /\ exec[o][j].status \in Statuses \cup {"none"}
           /\ exec[o][j].attempt \in Payloads /\ exec[o][j].attempt \in Nat
           /\ exec[o][j].revision \in Nat /\ exec[o][j].fence \in Nat
           /\ exec[o][j].aborted \in BOOLEAN /\ exec[o][j].outcome \in Outcomes
<1>1. exec[o][j] \in Exec
  BY DEF ExecTypeOK
<1> QED BY <1>1, AttemptsAssumption DEF Exec

LEMMA RecordFacts ==
    ASSUME IInv, NEW j \in Stored
    PROVE  /\ j \in Jobs /\ records[j] \in Record
           /\ records[j].status \in Statuses /\ records[j].status # "none"
           /\ records[j].data \in Payloads /\ records[j].data \in Nat
           /\ records[j].revision \in Nat /\ records[j].revision > 0
           /\ records[j].events \in Seq(EventTypes)
<1>1. j \in Jobs /\ records[j] \in Record
  BY RowTypes DEF IInv, Stored
<1> QED BY <1>1, AttemptsAssumption DEF Record, Statuses, Terminal

LEMMA IdleFacts == Idle \in Exec /\ Idle.phase = "idle" /\ Idle.status = "none" /\ Idle.attempt = 0
  BY AttemptsAssumption DEF Idle, Exec, Phases, Outcomes

\* A step writes what one process holds of one Job.
Writes(o, j, row) == exec' = [exec EXCEPT ![o][j] = row]

LEMMA RowWritten ==
    ASSUME ExecTypeOK, NEW o \in Owners, NEW j \in Jobs, NEW row \in Exec,
           Writes(o, j, row)
    PROVE  /\ exec' \in [Owners -> [Jobs -> Exec]]
           /\ exec'[o][j] = row
           /\ \A p \in Owners, i \in Jobs : p # o \/ i # j => exec'[p][i] = exec[p][i]
  BY DEF ExecTypeOK, Writes

\* What another process, or this one of another Job, holds stays as faithful as it was while
\* a record takes one step.
LEMMA RowKept ==
    ASSUME IInv, IInv', NEW i \in Jobs, NEW e \in Exec, RowInv(i, e),
           UNCHANGED invoked, i \in Stored => i \in Stored',
           \/ records'[i] = records[i]
           \/ /\ i \in Stored
              /\ records'[i].revision = records[i].revision + 1
              /\ records'[i].data >= records[i].data
    PROVE  RowInv(i, e)'
<1>1. e.attempt \in Nat /\ e.revision \in Nat
  BY AttemptsAssumption DEF Exec
<1>2. ASSUME e.phase \in Loaded PROVE Faithful(i, e)'
  <2>1. Faithful(i, e) /\ i \in Stored /\ i \in Stored'
    BY <1>2 DEF RowInv, Faithful
  <2>2. records[i].data \in Nat /\ records[i].revision \in Nat
    BY <2>1, RecordFacts
  <2>3. CASE records'[i] = records[i]
    BY <2>1, <2>3 DEF Faithful
  <2>4. CASE records'[i].revision = records[i].revision + 1 /\ records'[i].data >= records[i].data
    <3>1. records'[i].data \in Nat
      <4>1. records'[i] \in Record \cup {NoRecord} /\ records'[i] # NoRecord
        BY <2>1 DEF IInv, TypeOK, Stored
      <4> QED BY <4>1, AttemptsAssumption DEF Record
    <3> QED BY <1>1, <2>1, <2>2, <2>4, <3>1 DEF Faithful
  <2> QED BY <2>3, <2>4
<1>3. InvocationAgrees(i, e) => InvocationAgrees(i, e)'
  BY DEF InvocationAgrees, Invoked
<1> QED BY <1>2, <1>3 DEF RowInv

\* The contract's view of a state is a function of the records and the invocations.
LEMMA ContractStays ==
    ASSUME UNCHANGED <<records, invoked>>
    PROVE  UNCHANGED Contract!vars
<1>1. Stored' = Stored
  BY DEF Stored
<1> QED BY <1>1 DEF Contract!vars

-----------------------------------------------------------------------------
(* The two shapes of a step: one that saves nothing, and a save.           *)

LEMMA HeldKept ==
    ASSUME HeldByOne, ExecTypeOK, NEW o \in Owners, NEW j \in Jobs, NEW row \in Exec,
           Writes(o, j, row),
           Holds(row) => Holds(exec[o][j]) /\ row.attempt = exec[o][j].attempt
    PROVE  HeldByOne'
<1>1. /\ exec'[o][j] = row
      /\ \A p \in Owners, i \in Jobs : p # o \/ i # j => exec'[p][i] = exec[p][i]
  BY RowWritten
<1>2. SUFFICES ASSUME NEW i \in Jobs, NEW p \in Owners, NEW q \in Owners, p # q,
                      Holds(exec'[p][i]), Holds(exec'[q][i])
               PROVE  exec'[p][i].attempt # exec'[q][i].attempt
  BY DEF HeldByOne
<1>3. \A r \in Owners : Holds(exec'[r][i]) =>
        Holds(exec[r][i]) /\ exec'[r][i].attempt = exec[r][i].attempt
  BY <1>1
<1> QED BY <1>2, <1>3 DEF HeldByOne

\* The row of one process changes, in no way that claims more than it holds already.
LEMMA StayKeeps ==
    ASSUME JobInv, IInv', NEW o \in Owners, NEW j \in Jobs, NEW row \in Exec,
           Writes(o, j, row),
           UNCHANGED <<records, up, invoked>>,
           RowInv(j, row),
           Holds(row) => Holds(exec[o][j]) /\ row.attempt = exec[o][j].attempt
    PROVE  JobInv' /\ ContractStep
<1>1. /\ exec' \in [Owners -> [Jobs -> Exec]]
      /\ exec'[o][j] = row
      /\ \A p \in Owners, i \in Jobs : p # o \/ i # j => exec'[p][i] = exec[p][i]
  BY RowWritten DEF JobInv
<1>2. ExecTypeOK'
  BY <1>1 DEF JobInv, ExecTypeOK, IInv
<1>3. Stored' = Stored
  BY DEF Stored
<1>4. \A p \in Owners, i \in Jobs : RowInv(i, exec[p][i])'
  <2> SUFFICES ASSUME NEW p \in Owners, NEW i \in Jobs PROVE RowInv(i, exec[p][i])'
    OBVIOUS
  <2>1. RowInv(i, exec'[p][i])
    BY <1>1 DEF JobInv
  <2>2. \A e : RowInv(i, e) => RowInv(i, e)'
    BY <1>3 DEF RowInv, Faithful, InvocationAgrees, Invoked
  <2> QED BY <2>1, <2>2
<1>5. HeldByOne'
  BY HeldKept DEF JobInv
<1>6. RecordInv' /\ TerminalEventAgrees'
  BY <1>3 DEF JobInv, RecordInv, TerminalEventAgrees
<1> QED BY <1>2, <1>4, <1>5, <1>6, ContractStays DEF JobInv, ContractStep

\* A change of status and attempt that the contract knows, or none.
Legal(j, e, st, att) ==
    \/ st = e.status /\ att = e.attempt
    \/ /\ e.status \in {"queued", "running"}
       /\ \/ st \in {e.status, "running"} /\ att = e.attempt + 1
          \/ st = "running" /\ att = 1 /\ e.attempt = 1
          \/ st \in Terminal /\ att = e.attempt
       /\ st = "queued" => att <= 1
       /\ st = "succeeded" => e.status = "running" /\ Invoked(j, e.attempt)

TerminalEvents == {"job.succeeded", "job.failed", "job.cancelled"}

\* The saved log: as it was, or with the event that the status calls for.
LegalLog(j, e, st, log) ==
    \/ log = records[j].events /\ st = e.status
    \/ \E type \in EventTypes :
         /\ log = Append(records[j].events, type)
         /\ e.status \in {"queued", "running"}
         /\ IF st \in Terminal THEN type = TerminalEvent[st] ELSE type \notin TerminalEvents

\* What the process holds after its save: what it saved, or nothing.
HoldsSaved(j, e, st, att, row) ==
    \/ row.phase \notin Loaded
    \/ /\ row.phase \in Loaded
       /\ row.status = st /\ row.attempt = att /\ row.revision = e.revision + 1
       /\ PhaseAgrees(row)
       /\ IF Holds(row) THEN att = e.attempt + 1 \/ Holds(e) ELSE InvocationAgrees(j, row)

LEMMA LogAgrees ==
    ASSUME IInv, NEW j \in Stored, NEW e, NEW st, NEW log,
           LET old == records[j].events
               final == {n \in 1..Len(old) : old[n] \in TerminalEvents}
           IN IF records[j].status \in Terminal
              THEN final = {Len(old)} /\ old[Len(old)] = TerminalEvent[records[j].status]
              ELSE final = {},
           e.status = records[j].status, LegalLog(j, e, st, log)
    PROVE  LET final == {n \in 1..Len(log) : log[n] \in TerminalEvents}
           IN IF st \in Terminal
              THEN final = {Len(log)} /\ log[Len(log)] = TerminalEvent[st]
              ELSE final = {}
<1>1. records[j].events \in Seq(EventTypes)
  BY RecordFacts
<1>2. CASE log = records[j].events /\ st = e.status
  BY <1>2
<1>3. ASSUME NEW type \in EventTypes, log = Append(records[j].events, type),
             e.status \in {"queued", "running"},
             IF st \in Terminal THEN type = TerminalEvent[st] ELSE type \notin TerminalEvents
      PROVE  LET final == {n \in 1..Len(log) : log[n] \in TerminalEvents}
             IN IF st \in Terminal
                THEN final = {Len(log)} /\ log[Len(log)] = TerminalEvent[st]
                ELSE final = {}
  <2> DEFINE old == records[j].events
  <2>1. /\ Len(log) = Len(old) + 1 /\ Len(old) \in Nat
        /\ log[Len(old) + 1] = type
        /\ \A n \in 1..Len(old) : log[n] = old[n]
    BY <1>1, <1>3, AppendProperties
  <2>2. \A n \in 1..Len(old) : old[n] \notin TerminalEvents
    BY <1>3 DEF Terminal
  <2>3. \A n \in 1..Len(log) : log[n] \in TerminalEvents <=> n = Len(log) /\ st \in Terminal
    <3>1. \A n \in 1..Len(log) : n \in 1..Len(old) \/ n = Len(log)
      BY <2>1
    <3>2. st \in Terminal => TerminalEvent[st] \in TerminalEvents
      BY DEF Terminal, TerminalEvent, TerminalEvents
    <3> QED BY <1>3, <2>1, <2>2, <3>1, <3>2
  <2>4. Len(log) \in 1..Len(log)
    BY <2>1
  <2> QED BY <1>3, <2>1, <2>3, <2>4
<1> QED BY <1>2, <1>3 DEF LegalLog

\* A process saves what it holds, moved on as the contract allows.
LEMMA SaveKeeps ==
    ASSUME JobInv, NEW o \in Owners, NEW j \in Jobs, NEW row \in Exec, NEW st \in Statuses,
           NEW att \in Payloads, NEW log \in Seq(EventTypes), NEW seen \in Views,
           exec[o][j].phase \in Loaded,
           Save(j, exec[o][j].fence, exec[o][j].revision, st, att, log, seen),
           Writes(o, j, row), UNCHANGED <<up, invoked>>,
           Legal(j, exec[o][j], st, att), LegalLog(j, exec[o][j], st, log),
           HoldsSaved(j, exec[o][j], st, att, row)
    PROVE  JobInv' /\ ContractStep
<1> DEFINE e == exec[o][j]
           new == [status |-> st, data |-> att, revision |-> e.revision + 1, events |-> log]
<1>1. /\ j \in Stored /\ e.revision = records[j].revision
      /\ records' = [records EXCEPT ![j] = new]
  BY DEF Save
<1>2. IInv' /\ IInv /\ ExecTypeOK
  BY SavePreserves DEF JobInv
<1>3. /\ e.status = records[j].status /\ e.attempt = records[j].data
      /\ e.attempt \in Nat /\ e.revision \in Nat /\ att \in Nat
      /\ RowInv(j, e) /\ PhaseAgrees(e) /\ InvocationAgrees(j, e)
  BY <1>1, <1>2, ExecFacts, AttemptsAssumption DEF JobInv, RowInv, Faithful
<1>4. /\ records'[j] = new /\ \A i \in Jobs : i # j => records'[i] = records[i]
      /\ new.status = st /\ new.data = att /\ new.revision = e.revision + 1 /\ new.events = log
      /\ new # NoRecord
  BY <1>1, <1>2, <1>3 DEF IInv, TypeOK, NoRecord
<1> HIDE DEF e, new
<1>5. Stored' = Stored
  BY <1>1, <1>4 DEF Stored
<1>6. /\ exec' \in [Owners -> [Jobs -> Exec]]
      /\ exec'[o][j] = row
      /\ \A p \in Owners, i \in Jobs : p # o \/ i # j => exec'[p][i] = exec[p][i]
  BY <1>2, RowWritten
<1>7. att = e.attempt \/ att = e.attempt + 1
  BY DEF Legal, e
<1>8. \A p \in Owners, i \in Jobs : RowInv(i, exec[p][i])'
  <2>1. ASSUME NEW p \in Owners, NEW i \in Jobs, p # o \/ i # j PROVE RowInv(i, exec[p][i])'
    <3>1. \A x \in Exec : RowInv(i, x) => RowInv(i, x)'
      BY <1>1, <1>2, <1>3, <1>4, <1>5, <1>7, RowKept
    <3>2. RowInv(i, exec[p][i]) /\ exec[p][i] \in Exec
      BY ExecFacts DEF JobInv
    <3> QED BY <1>6, <2>1, <3>1, <3>2
  <2>2. RowInv(j, row)'
    <3>1. CASE row.phase \notin Loaded
      BY <1>1, <1>5, <3>1 DEF RowInv
    <3>2. CASE row.phase \in Loaded
      <4>1. /\ row.status = st /\ row.attempt = att /\ row.revision = e.revision + 1
            /\ PhaseAgrees(row)
            /\ IF Holds(row) THEN att = e.attempt + 1 \/ Holds(e) ELSE InvocationAgrees(j, row)
        BY <3>2 DEF HoldsSaved, e
      <4>2. Faithful(j, row)'
        BY <1>1, <1>3, <1>4, <1>5, <4>1 DEF Faithful
      <4>3. InvocationAgrees(j, row)'
        <5>1. CASE ~ Holds(row)
          BY <4>1, <5>1 DEF InvocationAgrees, Invoked
        <5>2. CASE Holds(row)
          <6>1. invoked[j][att] = 0
            <7>1. CASE att = e.attempt + 1
              <8>1. att \in 1..MaxAttempts /\ att > records[j].data
                BY <1>3, <7>1, AttemptsAssumption
              <8> QED BY <8>1 DEF JobInv, RecordInv
            <7>2. CASE att = e.attempt /\ Holds(e)
              BY <1>3, <7>2 DEF InvocationAgrees
            <7> QED BY <1>7, <4>1, <5>2, <7>1, <7>2
          <6> QED BY <4>1, <5>2, <6>1 DEF InvocationAgrees, Holds
        <5> QED BY <5>1, <5>2
      <4>4. st # "none"
        BY DEF Statuses, Terminal
      <4> QED BY <1>1, <1>5, <4>1, <4>2, <4>3, <4>4 DEF RowInv, PhaseAgrees
    <3> QED BY <3>1, <3>2
  <2> QED BY <1>6, <2>1, <2>2
<1>9. HeldByOne'
  <2>1. CASE Holds(row) => Holds(e) /\ row.attempt = e.attempt
    BY <1>2, <2>1, HeldKept DEF JobInv, e
  <2>2. CASE Holds(row) /\ row.attempt = records[j].data + 1
    <3>1. \A p \in Owners : p # o /\ Holds(exec[p][j]) => exec[p][j].attempt < row.attempt
      <4> SUFFICES ASSUME NEW p \in Owners, Holds(exec[p][j])
                   PROVE  exec[p][j].attempt < row.attempt
        OBVIOUS
      <4>1. exec[p][j].attempt \in Nat /\ exec[p][j].attempt <= records[j].data
        BY <1>2, ExecFacts DEF JobInv, RowInv, Faithful, Holds, Loaded, Executing
      <4>2. records[j].data \in Nat
        BY <1>1, <1>2, RecordFacts
      <4> QED BY <2>2, <4>1, <4>2
    <3>2. row.attempt \in Nat /\ \A p \in Owners : exec[p][j].attempt \in Nat
      BY <1>2, <2>2, ExecFacts, AttemptsAssumption DEF Exec
    <3>3. \A p \in Owners, q \in Owners :
            p # q /\ Holds(exec'[p][j]) /\ Holds(exec'[q][j]) => exec'[p][j].attempt # exec'[q][j].attempt
      BY <1>6, <3>1, <3>2 DEF JobInv, HeldByOne
    <3>4. \A i \in Jobs, p \in Owners, q \in Owners : i # j =>
            (p # q /\ Holds(exec'[p][i]) /\ Holds(exec'[q][i]) => exec'[p][i].attempt # exec'[q][i].attempt)
      BY <1>6 DEF JobInv, HeldByOne
    <3> QED BY <3>3, <3>4 DEF HeldByOne
  <2>3. Holds(row) => row.phase \in Loaded
    BY DEF Holds, Loaded, Executing
  <2> QED BY <1>3, <1>7, <2>1, <2>2, <2>3 DEF HoldsSaved, e
<1>10. RecordInv'
  <2> SUFFICES ASSUME NEW i \in Jobs
               PROVE  /\ i \in Stored' /\ records'[i].status = "queued" => records'[i].data <= 1
                      /\ i \in Stored' /\ records'[i].status = "running" => records'[i].data > 0
                      /\ \A n \in 1..MaxAttempts :
                           i \notin Stored' \/ n > records'[i].data => invoked[i][n] = 0
    BY DEF RecordInv
  <2>1. CASE i # j
    BY <1>4, <1>5, <2>1 DEF JobInv, RecordInv
  <2>2. CASE i = j
    <3>1. (st = "queued" => att <= 1) /\ (st = "running" => att > 0)
      BY <1>3 DEF Legal, PhaseAgrees, e, Terminal
    <3>2. \A n \in 1..MaxAttempts : n > att => invoked[j][n] = 0
      BY <1>1, <1>3, <1>7 DEF JobInv, RecordInv
    <3> QED BY <1>1, <1>4, <1>5, <2>2, <3>1, <3>2
  <2> QED BY <2>1, <2>2
<1>11. TerminalEventAgrees'
  <2> SUFFICES ASSUME NEW i \in Stored'
               PROVE  LET log2 == records'[i].events
                          final == {n \in 1..Len(log2) : log2[n] \in TerminalEvents}
                      IN IF records'[i].status \in Terminal
                         THEN final = {Len(log2)} /\ log2[Len(log2)] = TerminalEvent[records'[i].status]
                         ELSE final = {}
    BY DEF TerminalEventAgrees, TerminalEvents
  <2>1. i \in Stored /\ i \in Jobs
    BY <1>5 DEF Stored
  <2>2. LET old == records[i].events
            final == {n \in 1..Len(old) : old[n] \in TerminalEvents}
        IN IF records[i].status \in Terminal
           THEN final = {Len(old)} /\ old[Len(old)] = TerminalEvent[records[i].status]
           ELSE final = {}
    BY <2>1 DEF JobInv, TerminalEventAgrees, TerminalEvents
  <2>3. CASE i # j
    BY <1>4, <2>1, <2>2, <2>3
  <2>4. CASE i = j
    <3>1. LET final == {n \in 1..Len(log) : log[n] \in TerminalEvents}
          IN IF st \in Terminal
             THEN final = {Len(log)} /\ log[Len(log)] = TerminalEvent[st]
             ELSE final = {}
      BY <1>1, <1>2, <1>3, <2>2, <2>4, LogAgrees DEF e
    <3> QED BY <1>4, <2>4, <3>1
  <2> QED BY <2>3, <2>4
<1>12. ExecTypeOK'
  BY <1>2, <1>6 DEF ExecTypeOK, IInv
<1>13. ContractStep
  <2> DEFINE status == [i \in Jobs |-> records[i].status]
             attempt == [i \in Jobs |-> IF i \in Stored THEN records[i].data ELSE 0]
  <2>1. status' = [status EXCEPT ![j] = st] /\ status[j] = e.status
    <3>1. \A i \in Jobs : records'[i].status = IF i = j THEN st ELSE records[i].status
      BY <1>4
    <3> QED BY <1>3, <3>1
  <2>2. /\ attempt' = [attempt EXCEPT ![j] = att] /\ attempt[j] = e.attempt
        /\ att = e.attempt => attempt' = attempt
    <3>1. \A i \in Jobs : (IF i \in Stored' THEN records'[i].data ELSE 0)
                         = IF i = j THEN att ELSE IF i \in Stored THEN records[i].data ELSE 0
      BY <1>1, <1>4, <1>5
    <3> QED BY <1>1, <1>3, <3>1
  <2>3. invoked' = invoked /\ (Invoked(j, e.attempt) => invoked[j][attempt[j]] = 1)
    BY <1>1, <1>2, <2>2 DEF Invoked, ExecTypeOK
  <2>4. CASE st = e.status /\ att = e.attempt
    BY <2>1, <2>2, <2>3, <2>4 DEF Contract!vars, ContractStep
  <2>5. CASE /\ e.status \in {"queued", "running"}
             /\ st \in {e.status, "running"} /\ att = e.attempt + 1
    <3>1. Contract!Reserve(j, st)
      BY <1>1, <1>3, <2>1, <2>2, <2>3, <2>5, AttemptsAssumption DEF Contract!Reserve
    <3> QED BY <1>1, <2>5, <3>1 DEF Contract!Next, ContractStep
  <2>6. CASE e.status = "queued" /\ st = "running" /\ att = 1 /\ e.attempt = 1
    <3>1. Contract!Run(j)
      BY <1>1, <2>1, <2>2, <2>3, <2>6 DEF Contract!Run
    <3> QED BY <1>1, <3>1 DEF Contract!Next, ContractStep
  <2>7. CASE /\ e.status \in {"queued", "running"} /\ st \in Terminal /\ att = e.attempt
             /\ st = "succeeded" => e.status = "running" /\ Invoked(j, e.attempt)
    <3>1. Contract!Finish(j, st)
      BY <1>1, <2>1, <2>2, <2>3, <2>7 DEF Contract!Finish, Contract!Terminal, Terminal
    <3> QED BY <1>1, <2>7, <3>1 DEF Contract!Next, Contract!Terminal, ContractStep, Terminal
  <2> QED BY <2>4, <2>5, <2>6, <2>7 DEF Legal, e
<1> QED BY <1>2, <1>8, <1>9, <1>10, <1>11, <1>12, <1>13 DEF JobInv

\* The calls of a process that change no record keep the invariant of the store.
LEMMA StoreKept ==
    ASSUME IInv, NEW o \in Owners, NEW j \in Jobs, NEW f,
           \/ UNCHANGED storeVars
           \/ \E seen \in Views : RenewLease(j, f, seen)
           \/ \E seen \in Views : TryAcquireCapacity(j, f, seen)
           \/ \E seen \in Views : ClaimLease(j, o, seen)
           \/ ReleaseCapacity(j, f) \/ ReleaseLease(j, f)
           \/ \E s \in Sources : RequestCancellation(j, s)
           \/ Expire(j)
    PROVE  IInv' /\ UNCHANGED records
<1>1. CASE UNCHANGED storeVars
  BY <1>1, StepPreserves DEF storeVars
<1>2. CASE \E seen \in Views : RenewLease(j, f, seen)
  <2>1. f \in Handles(j)
    BY <1>2 DEF RenewLease, Current, Handles
  <2> QED BY <1>2, <2>1, LeaseMethodsPreserve DEF RenewLease
<1>3. CASE \E seen \in Views : TryAcquireCapacity(j, f, seen)
  <2>1. f \in Handles(j)
    BY <1>3 DEF TryAcquireCapacity, Current, Handles
  <2> QED BY <1>3, <2>1, TryAcquirePreserves DEF TryAcquireCapacity
<1>4. CASE \E seen \in Views : ClaimLease(j, o, seen)
  BY <1>4, LeaseMethodsPreserve, ClaimFreePreserves DEF ClaimLease, ClaimOwn, ClaimFree
<1>5. CASE ReleaseCapacity(j, f)
  BY <1>5, ReleaseCapacityPreserves DEF ReleaseCapacity
<1>6. CASE ReleaseLease(j, f)
  <2>1. f \in Handles(j)
    BY <1>6 DEF ReleaseLease, Current, Handles
  <2> QED BY <1>6, <2>1, LeaseMethodsPreserve DEF ReleaseLease
<1>7. CASE \E s \in Sources : RequestCancellation(j, s)
  BY <1>7, CancellationPreserves DEF RequestCancellation
<1>8. CASE Expire(j)
  BY <1>8, LeaseMethodsPreserve DEF Expire
<1> QED BY <1>1, <1>2, <1>3, <1>4, <1>5, <1>6, <1>7, <1>8

\* A process that works on a record goes on with what it holds.
LEMMA MoveKeeps ==
    ASSUME JobInv, IInv', NEW o \in Owners, NEW j \in Jobs, NEW row \in Exec,
           Writes(o, j, row), UNCHANGED <<records, up, invoked>>,
           exec[o][j].phase \in Loaded,
           row.status = exec[o][j].status, row.attempt = exec[o][j].attempt,
           row.revision = exec[o][j].revision,
           PhaseAgrees(exec[o][j]) /\ InvocationAgrees(j, exec[o][j])
             => PhaseAgrees(row) /\ InvocationAgrees(j, row) /\ (Holds(row) => Holds(exec[o][j]))
    PROVE  JobInv' /\ ContractStep
<1>1. RowInv(j, exec[o][j])
  BY DEF JobInv
<1>2. RowInv(j, row) /\ (Holds(row) => Holds(exec[o][j]))
  BY <1>1 DEF RowInv, Faithful
<1> QED BY <1>2, StayKeeps

\* A process gives a record up.
LEMMA LeaveKeeps ==
    ASSUME JobInv, IInv', NEW o \in Owners, NEW j \in Jobs, NEW row \in Exec,
           Writes(o, j, row), UNCHANGED <<records, up, invoked>>,
           row.phase \notin Loaded, row.phase # "idle" => j \in Stored
    PROVE  JobInv' /\ ContractStep
<1>1. RowInv(j, row) /\ ~ Holds(row)
  BY DEF RowInv, Holds, Loaded, Executing
<1> QED BY <1>1, StayKeeps

Left(o, j) == [Idle EXCEPT !.phase = "releasing", !.fence = exec[o][j].fence]

LEMMA LeftFacts ==
    ASSUME ExecTypeOK, NEW o \in Owners, NEW j \in Jobs
    PROVE  /\ Left(o, j) \in Exec /\ Left(o, j).phase = "releasing"
           /\ Left(o, j).phase \notin Loaded
           /\ Leave(o, j) <=> Writes(o, j, Left(o, j))
<1>1. exec[o][j].fence \in Nat
  BY ExecFacts
<1> QED BY <1>1, IdleFacts DEF Left, Leave, Writes, Idle, Exec, Phases, Loaded, Executing, Recovering

LEMMA LeavingKeeps ==
    ASSUME JobInv, NEW o \in Owners, NEW j \in Jobs, j \in Stored, Leave(o, j),
           UNCHANGED storeVars, UNCHANGED <<up, invoked>>
    PROVE  JobInv' /\ ContractStep
<1>1. IInv' /\ UNCHANGED records
  BY StoreKept DEF JobInv
<1> QED BY <1>1, LeftFacts, LeaveKeeps DEF JobInv

-----------------------------------------------------------------------------
(* The saves: an event, and what it makes of the row.                      *)

LEMMA AppendKeeps ==
    ASSUME JobInv, NEW o \in Owners, NEW j \in Jobs, NEW row \in Exec, NEW st \in Statuses,
           NEW att \in Payloads, NEW type \in EventTypes,
           exec[o][j].phase \in Loaded, exec[o][j].status \in {"queued", "running"},
           IF st \in Terminal THEN type = TerminalEvent[st] ELSE type \notin TerminalEvents,
           Append1(o, j, st, att, type), Writes(o, j, row), UNCHANGED <<up, invoked>>,
           Legal(j, exec[o][j], st, att),
           HoldsSaved(j, exec[o][j], st, att, row)
    PROVE  JobInv' /\ ContractStep
<1>1. PICK seen \in Views :
        Save(j, exec[o][j].fence, exec[o][j].revision, st, att, Append(records[j].events, type), seen)
  BY DEF Append1
<1>2. j \in Stored
  BY <1>1 DEF Save
<1>3. Append(records[j].events, type) \in Seq(EventTypes)
  BY <1>2, RecordFacts, AppendProperties DEF JobInv
<1>4. LegalLog(j, exec[o][j], st, Append(records[j].events, type))
  BY DEF LegalLog
<1> QED BY <1>1, <1>3, <1>4, SaveKeeps

\* What a loaded row says, all at once.
LEMMA LoadedFacts ==
    ASSUME JobInv, NEW o \in Owners, NEW j \in Jobs, exec[o][j].phase \in Loaded
    PROVE  /\ exec[o][j] \in Exec /\ exec[o][j].status \in Statuses
           /\ exec[o][j].phase # "callback" => exec[o][j].status \in {"queued", "running"}
           /\ exec[o][j].attempt \in Payloads /\ exec[o][j].attempt \in Nat
           /\ j \in Stored
           /\ PhaseAgrees(exec[o][j]) /\ InvocationAgrees(j, exec[o][j])
<1>1. RowInv(j, exec[o][j])
  BY DEF JobInv
<1>2. exec[o][j].status \in Statuses \cup {"none"}
  BY ExecFacts DEF JobInv
<1>3. /\ PhaseAgrees(exec[o][j]) /\ InvocationAgrees(j, exec[o][j])
      /\ j \in Stored /\ exec[o][j].status \in Statuses
  BY <1>1, <1>2 DEF RowInv, Faithful
<1>4. exec[o][j].phase # "callback" => exec[o][j].status \in {"queued", "running"}
  BY <1>3 DEF PhaseAgrees, Statuses
<1> QED BY <1>3, <1>4, ExecFacts DEF JobInv

LEMMA GiveUpKeeps ==
    ASSUME JobInv, NEW o \in Owners, NEW j \in Jobs, exec[o][j].phase \in Loaded, GiveUp(o, j)
    PROVE  JobInv' /\ ContractStep
<1>1. Leave(o, j) /\ UNCHANGED storeVars /\ UNCHANGED <<up, invoked>>
  BY DEF GiveUp
<1> QED BY <1>1, LoadedFacts, LeavingKeeps

SavedRow(e, st, att, phase) ==
    [e EXCEPT !.phase = phase, !.status = st, !.attempt = att, !.revision = e.revision + 1]

LEMMA SavedFacts ==
    ASSUME ExecTypeOK, NEW o \in Owners, NEW j \in Jobs, NEW st \in Statuses, NEW att \in Payloads,
           NEW phase \in Phases
    PROVE  LET row == SavedRow(exec[o][j], st, att, phase)
           IN /\ row \in Exec /\ row.phase = phase /\ row.status = st /\ row.attempt = att
              /\ row.revision = exec[o][j].revision + 1 /\ row.outcome = exec[o][j].outcome
              /\ Saved(o, j, st, att, phase) <=> Writes(o, j, row)
<1>1. exec[o][j] \in Exec
  BY ExecFacts
<1>2. Saved(o, j, st, att, phase) <=> Writes(o, j, SavedRow(exec[o][j], st, att, phase))
  BY DEF SavedRow, Saved, Writes
<1>3. exec[o][j].revision + 1 \in Nat
  BY <1>1 DEF Exec
<1> QED BY <1>1, <1>2, <1>3 DEF SavedRow, Exec

LEMMA FinishKeeps ==
    ASSUME JobInv, NEW o \in Owners, NEW j \in Jobs, NEW st \in Terminal,
           exec[o][j].phase \in Loaded \ {"callback"},
           st = "succeeded" => exec[o][j].status = "running" /\ Invoked(j, exec[o][j].attempt),
           Finish(o, j, st)
    PROVE  JobInv' /\ ContractStep
<1> DEFINE e == exec[o][j]
<1>1. /\ e.status \in {"queued", "running"} /\ e.attempt \in Payloads
      /\ st \in Statuses /\ Legal(j, e, st, e.attempt)
  BY LoadedFacts DEF Legal, Terminal, Statuses
<1>2. TerminalEvent[st] \in EventTypes
  BY EventTypesAssumption DEF TerminalEvent, Terminal
<1>3. CASE GiveUp(o, j)
  BY <1>3, GiveUpKeeps
<1>4. CASE /\ Append1(o, j, st, e.attempt, TerminalEvent[st])
           /\ Leave(o, j) /\ UNCHANGED <<up, invoked>>
  <2>1. /\ Left(o, j) \in Exec /\ Writes(o, j, Left(o, j))
        /\ HoldsSaved(j, e, st, e.attempt, Left(o, j))
    BY <1>4, LeftFacts DEF JobInv, HoldsSaved
  <2> QED BY <1>1, <1>2, <1>4, <2>1, AppendKeeps
<1>5. CASE /\ Append1(o, j, st, e.attempt, TerminalEvent[st])
           /\ Saved(o, j, st, e.attempt, "callback") /\ UNCHANGED <<up, invoked>>
  <2> DEFINE row == SavedRow(e, st, e.attempt, "callback")
  <2>1. /\ row \in Exec /\ row.phase = "callback" /\ row.status = st /\ row.attempt = e.attempt
        /\ row.revision = e.revision + 1 /\ Writes(o, j, row)
    BY <1>1, <1>5, SavedFacts DEF JobInv, Phases, Executing
  <2> HIDE DEF row
  <2>2. PhaseAgrees(row) /\ ~ Holds(row) /\ InvocationAgrees(j, row) /\ row.phase \in Loaded
    BY <2>1 DEF PhaseAgrees, Holds, InvocationAgrees, Terminal, Loaded, Executing
  <2>3. HoldsSaved(j, e, st, e.attempt, row)
    BY <2>1, <2>2 DEF HoldsSaved
  <2> QED BY <1>1, <1>2, <1>5, <2>1, <2>3, AppendKeeps
<1> QED BY <1>3, <1>4, <1>5 DEF Finish

-----------------------------------------------------------------------------
(* One lemma per action: first the steps that save nothing.                *)


LEMMA ObserveCancellationKeeps ==
    ASSUME JobInv, NEW o \in Owners, NEW j \in Jobs, ObserveCancellation(o, j)
    PROVE  JobInv' /\ ContractStep
<1> DEFINE e == exec[o][j]
           row == [e EXCEPT !.aborted = TRUE]
<1>1. e.phase \in Executing
  BY DEF ObserveCancellation, Monitored, Phase
<1>2. e \in Exec /\ e.phase \in Loaded
  BY <1>1, ExecFacts DEF JobInv, Loaded, Executing
<1>3. /\ row \in Exec /\ row.phase = e.phase /\ row.outcome = e.outcome
      /\ row.status = e.status /\ row.attempt = e.attempt /\ row.revision = e.revision
  BY <1>2 DEF Exec, Phases, Executing, Recovering, Outcomes
<1>4. Writes(o, j, row) /\ UNCHANGED <<up, invoked>>
  BY DEF ObserveCancellation, Monitored, Phase, Writes
<1>5. IInv' /\ UNCHANGED records
  BY StoreKept DEF JobInv, ObserveCancellation, Monitored, Phase
<1> HIDE DEF row
<1>6. PhaseAgrees(e) /\ InvocationAgrees(j, e)
        => PhaseAgrees(row) /\ InvocationAgrees(j, row) /\ (Holds(row) => Holds(e))
  BY <1>1, <1>3 DEF PhaseAgrees, InvocationAgrees, Holds, Terminal
<1> QED BY <1>2, <1>3, <1>4, <1>5, <1>6, MoveKeeps

LEMMA HeartbeatFailsKeeps ==
    ASSUME JobInv, NEW o \in Owners, NEW j \in Jobs, HeartbeatFails(o, j)
    PROVE  JobInv' /\ ContractStep
<1> DEFINE e == exec[o][j]
           row == [e EXCEPT !.aborted = TRUE]
<1>1. e.phase \in Executing
  BY DEF HeartbeatFails, Monitored, Phase
<1>2. e \in Exec /\ e.phase \in Loaded
  BY <1>1, ExecFacts DEF JobInv, Loaded, Executing
<1>3. /\ row \in Exec /\ row.phase = e.phase /\ row.outcome = e.outcome
      /\ row.status = e.status /\ row.attempt = e.attempt /\ row.revision = e.revision
  BY <1>2 DEF Exec, Phases, Executing, Recovering, Outcomes
<1>4. Writes(o, j, row) /\ UNCHANGED <<up, invoked>>
  BY DEF HeartbeatFails, Monitored, Phase, Writes
<1>5. IInv' /\ UNCHANGED records
  BY StoreKept DEF JobInv, HeartbeatFails, Monitored, Phase
<1> HIDE DEF row
<1>6. PhaseAgrees(e) /\ InvocationAgrees(j, e)
        => PhaseAgrees(row) /\ InvocationAgrees(j, row) /\ (Holds(row) => Holds(e))
  BY <1>1, <1>3 DEF PhaseAgrees, InvocationAgrees, Holds, Terminal
<1> QED BY <1>2, <1>3, <1>4, <1>5, <1>6, MoveKeeps

LEMMA PollKeeps ==
    ASSUME JobInv, NEW o \in Owners, NEW j \in Jobs, Poll(o, j)
    PROVE  JobInv' /\ ContractStep
<1> DEFINE e == exec[o][j]
           row == [e EXCEPT !.phase = IF capacity'[j].acquired THEN "admitted"
                                    ELSE IF Phase(o, j) = "capacity" THEN "reporting" ELSE "polling"]
<1>1. e.phase \in {"capacity", "polling"}
  BY DEF Poll, Phase
<1>2. e \in Exec /\ e.phase \in Loaded
  BY <1>1, ExecFacts DEF JobInv, Loaded, Executing
<1>3. /\ row \in Exec /\ row.phase \in {"admitted", "reporting", "polling"} /\ row.outcome = e.outcome
      /\ row.status = e.status /\ row.attempt = e.attempt /\ row.revision = e.revision
  BY <1>2 DEF Exec, Phases, Executing, Recovering, Outcomes
<1>4. Writes(o, j, row) /\ UNCHANGED <<up, invoked>>
  BY DEF Poll, Phase, Writes, Goto
<1>5. IInv' /\ UNCHANGED records
  BY StoreKept DEF JobInv, Poll, Phase
<1> HIDE DEF row
<1>6. PhaseAgrees(e) /\ InvocationAgrees(j, e)
        => PhaseAgrees(row) /\ InvocationAgrees(j, row) /\ (Holds(row) => Holds(e))
  BY <1>1, <1>3 DEF PhaseAgrees, InvocationAgrees, Holds, Terminal
<1> QED BY <1>2, <1>3, <1>4, <1>5, <1>6, MoveKeeps

LEMMA PollFailsKeeps ==
    ASSUME JobInv, NEW o \in Owners, NEW j \in Jobs, PollFails(o, j)
    PROVE  JobInv' /\ ContractStep
<1> DEFINE e == exec[o][j]
           row == [e EXCEPT !.phase = "settling", !.outcome = "fatal"]
<1>1. e.phase \in {"capacity", "polling"}
  BY DEF PollFails, Phase
<1>2. e \in Exec /\ e.phase \in Loaded
  BY <1>1, ExecFacts DEF JobInv, Loaded, Executing
<1>3. /\ row \in Exec /\ row.phase = "settling" /\ row.outcome = "fatal"
      /\ row.status = e.status /\ row.attempt = e.attempt /\ row.revision = e.revision
  BY <1>2 DEF Exec, Phases, Executing, Recovering, Outcomes, WorkerOutcomes
<1>4. Writes(o, j, row) /\ UNCHANGED <<up, invoked>>
  BY DEF PollFails, Phase, Writes, Fail
<1>5. IInv' /\ UNCHANGED records
  BY StoreKept DEF JobInv, PollFails, Phase
<1> HIDE DEF row
<1>6. PhaseAgrees(e) /\ InvocationAgrees(j, e)
        => PhaseAgrees(row) /\ InvocationAgrees(j, row) /\ (Holds(row) => Holds(e))
  BY <1>1, <1>3 DEF PhaseAgrees, InvocationAgrees, Holds, Terminal
<1> QED BY <1>2, <1>3, <1>4, <1>5, <1>6, MoveKeeps

LEMMA WorkerReturnsKeeps ==
    ASSUME JobInv, NEW o \in Owners, NEW j \in Jobs, NEW outcome \in WorkerOutcomes,
           WorkerReturns(o, j, outcome)
    PROVE  JobInv' /\ ContractStep
<1> DEFINE e == exec[o][j]
           row == [e EXCEPT !.phase = "returned", !.outcome = outcome]
<1>1. e.phase = "working"
  BY DEF WorkerReturns, At, Phase
<1>2. e \in Exec /\ e.phase \in Loaded
  BY <1>1, ExecFacts DEF JobInv, Loaded, Executing
<1>3. /\ row \in Exec /\ row.phase = "returned" /\ row.outcome = outcome
      /\ row.status = e.status /\ row.attempt = e.attempt /\ row.revision = e.revision
  BY <1>2 DEF Exec, Phases, Executing, Recovering, Outcomes
<1>4. Writes(o, j, row) /\ UNCHANGED <<up, invoked>>
  BY DEF WorkerReturns, At, Phase, Writes
<1>5. IInv' /\ UNCHANGED records
  BY StoreKept DEF JobInv, WorkerReturns, At, Phase
<1> HIDE DEF row
<1>6. PhaseAgrees(e) /\ InvocationAgrees(j, e)
        => PhaseAgrees(row) /\ InvocationAgrees(j, row) /\ (Holds(row) => Holds(e))
  BY <1>1, <1>3 DEF PhaseAgrees, InvocationAgrees, Holds, Terminal
<1> QED BY <1>2, <1>3, <1>4, <1>5, <1>6, MoveKeeps

LEMMA DecideCancelledKeeps ==
    ASSUME JobInv, NEW o \in Owners, NEW j \in Jobs, DecideCancelled(o, j)
    PROVE  JobInv' /\ ContractStep
<1> DEFINE e == exec[o][j]
           row == [e EXCEPT !.phase = "concluding", !.outcome = "cancel"]
<1>1. e.phase = "deciding"
  BY DEF DecideCancelled, At, Phase
<1>2. e \in Exec /\ e.phase \in Loaded
  BY <1>1, ExecFacts DEF JobInv, Loaded, Executing
<1>3. /\ row \in Exec /\ row.phase = "concluding" /\ row.outcome = "cancel"
      /\ row.status = e.status /\ row.attempt = e.attempt /\ row.revision = e.revision
  BY <1>2 DEF Exec, Phases, Executing, Recovering, Outcomes, RecoveryOutcomes
<1>4. Writes(o, j, row) /\ UNCHANGED <<up, invoked>>
  BY DEF DecideCancelled, At, Phase, Writes, Conclude
<1>5. IInv' /\ UNCHANGED records
  BY StoreKept DEF JobInv, DecideCancelled, At, Phase
<1> HIDE DEF row
<1>6. PhaseAgrees(e) /\ InvocationAgrees(j, e)
        => PhaseAgrees(row) /\ InvocationAgrees(j, row) /\ (Holds(row) => Holds(e))
  BY <1>1, <1>3 DEF PhaseAgrees, InvocationAgrees, Holds, Terminal
<1> QED BY <1>2, <1>3, <1>4, <1>5, <1>6, MoveKeeps

LEMMA AttemptFailsKeeps ==
    ASSUME JobInv, NEW o \in Owners, NEW j \in Jobs, AttemptFails(o, j)
    PROVE  JobInv' /\ ContractStep
<1> DEFINE e == exec[o][j]
           row(phase) == [e EXCEPT !.phase = phase, !.outcome = "error"]
<1>1. e \in Exec /\ e.phase = "attempt" /\ e.phase \in Loaded
  BY ExecFacts DEF JobInv, AttemptFails, At, Phase, Loaded, Executing
<1>2. PICK phase : /\ phase = "settling" \/ phase = "returned"
                   /\ Writes(o, j, row(phase)) /\ UNCHANGED <<up, invoked>>
  BY DEF AttemptFails, Writes
<1>3. /\ row(phase) \in Exec /\ row(phase).phase = phase /\ row(phase).outcome = "error"
      /\ row(phase).status = e.status /\ row(phase).attempt = e.attempt
      /\ row(phase).revision = e.revision
  BY <1>1, <1>2 DEF Exec, Phases, Executing, Outcomes, WorkerOutcomes
<1>4. IInv' /\ UNCHANGED records
  BY StoreKept DEF JobInv, AttemptFails
<1> HIDE DEF row
<1>5. PhaseAgrees(e) /\ InvocationAgrees(j, e)
        => PhaseAgrees(row(phase)) /\ InvocationAgrees(j, row(phase)) /\ (Holds(row(phase)) => Holds(e))
  BY <1>1, <1>2, <1>3 DEF PhaseAgrees, InvocationAgrees, Holds, Terminal
<1> QED BY <1>1, <1>2, <1>3, <1>4, <1>5, MoveKeeps

LEMMA CaptureFailsKeeps ==
    ASSUME JobInv, NEW o \in Owners, NEW j \in Jobs, CaptureFails(o, j)
    PROVE  JobInv' /\ ContractStep
<1> DEFINE e == exec[o][j]
           row(outcome) == [e EXCEPT !.phase = "settling", !.outcome = outcome]
<1>1. e \in Exec /\ e.phase = "returned" /\ e.phase \in Loaded
  BY ExecFacts DEF JobInv, CaptureFails, At, Phase, Loaded, Executing
<1>2. IInv' /\ UNCHANGED records /\ UNCHANGED storeVars /\ UNCHANGED <<up, invoked>>
  BY StoreKept DEF JobInv, CaptureFails
<1>3. CASE Leave(o, j)
  BY <1>1, <1>2, <1>3, LoadedFacts, LeavingKeeps
<1>4. ASSUME NEW outcome \in Outcomes \ {"success"}, Writes(o, j, row(outcome))
      PROVE  JobInv' /\ ContractStep
  <2>1. /\ row(outcome) \in Exec /\ row(outcome).phase = "settling" /\ row(outcome).outcome = outcome
        /\ row(outcome).status = e.status /\ row(outcome).attempt = e.attempt
        /\ row(outcome).revision = e.revision
    BY <1>1, <1>4 DEF Exec, Phases, Executing
  <2> HIDE DEF row
  <2>2. PhaseAgrees(e) /\ InvocationAgrees(j, e)
          => /\ PhaseAgrees(row(outcome)) /\ InvocationAgrees(j, row(outcome))
             /\ Holds(row(outcome)) => Holds(e)
    BY <1>1, <1>4, <2>1 DEF PhaseAgrees, InvocationAgrees, Holds, Terminal
  <2> QED BY <1>1, <1>2, <1>4, <2>1, <2>2, MoveKeeps
<1>5. \A outcome \in AfterCapture(o, j) \ {"success", "blocked"} :
        outcome \in Outcomes \ {"success"}
  BY <1>1 DEF AfterCapture, Exec, Outcomes, WorkerOutcomes
<1> QED BY <1>3, <1>4, <1>5 DEF CaptureFails, Writes

LEMMA SucceedKeeps ==
    ASSUME JobInv, NEW o \in Owners, NEW j \in Jobs, Succeed(o, j)
    PROVE  JobInv' /\ ContractStep
<1> DEFINE e == exec[o][j]
           row == [e EXCEPT !.phase = "cancelling"]
<1>1. e \in Exec /\ e.phase = "settling" /\ e.phase \in Loaded /\ e.outcome = "success"
  BY ExecFacts DEF JobInv, Succeed, At, Phase, Loaded, Executing
<1>2. e.status = "running" /\ Invoked(j, e.attempt)
  BY <1>1, LoadedFacts DEF InvocationAgrees
<1>3. CASE Finish(o, j, "succeeded")
  BY <1>1, <1>2, <1>3, FinishKeeps DEF Terminal
<1>4. CASE Goto(o, j, "cancelling") /\ UNCHANGED <<storeVars, up, invoked>>
  <2>1. /\ row \in Exec /\ row.phase = "cancelling" /\ row.outcome = e.outcome
        /\ row.status = e.status /\ row.attempt = e.attempt /\ row.revision = e.revision
    BY <1>1 DEF Exec, Phases, Executing
  <2>2. Writes(o, j, row)
    BY <1>4 DEF Goto, Writes
  <2>3. IInv' /\ UNCHANGED records
    BY <1>4, StoreKept DEF JobInv
  <2> HIDE DEF row
  <2>4. PhaseAgrees(e) /\ InvocationAgrees(j, e)
          => PhaseAgrees(row) /\ InvocationAgrees(j, row) /\ (Holds(row) => Holds(e))
    BY <1>1, <2>1 DEF PhaseAgrees, InvocationAgrees, Holds, Terminal
  <2> QED BY <1>1, <1>4, <2>1, <2>2, <2>3, <2>4, MoveKeeps
<1> QED BY <1>3, <1>4 DEF Succeed

LEMMA DecideInterruptedKeeps ==
    ASSUME JobInv, NEW o \in Owners, NEW j \in Jobs, DecideInterrupted(o, j)
    PROVE  JobInv' /\ ContractStep
<1> DEFINE e == exec[o][j]
           row(phase, outcome) == [e EXCEPT !.phase = phase, !.outcome = outcome]
<1>1. e \in Exec /\ e.phase = "deciding" /\ e.phase \in Loaded
  BY ExecFacts DEF JobInv, DecideInterrupted, At, Phase, Loaded
<1>2. IInv' /\ UNCHANGED records /\ UNCHANGED <<up, invoked>>
  BY StoreKept DEF JobInv, DecideInterrupted
<1>3. ASSUME NEW phase, NEW outcome \in Outcomes, Writes(o, j, row(phase, outcome)),
             \/ phase = "losing" /\ e.status = "running"
             \/ phase = "restarting" /\ e.status = "queued" /\ e.attempt = 0
             \/ phase = "concluding"
      PROVE  JobInv' /\ ContractStep
  <2> DEFINE r == row(phase, outcome)
  <2>1. /\ r \in Exec /\ r.phase = phase /\ r.outcome = outcome /\ r.phase \in Loaded
        /\ r.status = e.status /\ r.attempt = e.attempt /\ r.revision = e.revision
    BY <1>1, <1>3 DEF Exec, Phases, Recovering, Loaded
  <2> HIDE DEF row
  <2>2. PhaseAgrees(e) /\ InvocationAgrees(j, e)
          => PhaseAgrees(r) /\ InvocationAgrees(j, r) /\ (Holds(r) => Holds(e))
    BY <1>1, <1>3, <2>1, AttemptsAssumption DEF PhaseAgrees, InvocationAgrees, Holds, Terminal
  <2> QED BY <1>1, <1>2, <1>3, <2>1, <2>2, MoveKeeps
<1>4. \A phase : Goto(o, j, phase) => Writes(o, j, row(phase, e.outcome))
  <2>1. \A phase : [e EXCEPT !.phase = phase] = row(phase, e.outcome)
    BY <1>1 DEF Exec
  <2> HIDE DEF row
  <2> QED BY <2>1 DEF Goto, Writes
<1>5. Conclude(o, j, "refused") => Writes(o, j, row("concluding", "refused"))
  BY DEF Conclude, Writes
<1>6. e.outcome \in Outcomes /\ "refused" \in Outcomes
  BY <1>1 DEF Exec, Outcomes, RecoveryOutcomes
<1> HIDE DEF row
<1> QED BY <1>3, <1>4, <1>5, <1>6 DEF DecideInterrupted

-----------------------------------------------------------------------------
(* The steps that save.                                                    *)

\* A save before the attempt, or one that reserves it.
LEMMA AppendThenKeeps ==
    ASSUME JobInv, NEW o \in Owners, NEW j \in Jobs, NEW st \in Statuses \ Terminal,
           NEW att \in Payloads, NEW type \in EventTypes \ TerminalEvents,
           NEW phase, phase = "capacity" \/ phase = "polling" \/ phase = "attempt",
           exec[o][j].phase \in Loaded \ {"callback"},
           AppendThen(o, j, st, att, type, phase),
           Legal(j, exec[o][j], st, att),
           st = "queued" => att <= 1,
           st = "running" => att > 0,
           phase = "attempt" => st = "running",
           att > 0 => att = exec[o][j].attempt + 1 \/ Holds(exec[o][j])
    PROVE  JobInv' /\ ContractStep
<1> DEFINE e == exec[o][j]
           row == SavedRow(e, st, att, phase)
<1>1. CASE GiveUp(o, j)
  BY <1>1, GiveUpKeeps
<1>2. CASE Append1(o, j, st, att, type) /\ Saved(o, j, st, att, phase) /\ UNCHANGED <<up, invoked>>
  <2>1. /\ row \in Exec /\ row.phase = phase /\ row.status = st /\ row.attempt = att
        /\ row.revision = e.revision + 1 /\ Writes(o, j, row)
    BY <1>2, SavedFacts DEF JobInv, Phases, Executing
  <2> HIDE DEF row
  <2>2. PhaseAgrees(row)
    BY <2>1 DEF PhaseAgrees, Terminal, Statuses
  <2>3. IF Holds(row) THEN att = e.attempt + 1 \/ Holds(e) ELSE InvocationAgrees(j, row)
    BY <2>1 DEF Holds, InvocationAgrees
  <2>4. HoldsSaved(j, e, st, att, row)
    BY <2>1, <2>2, <2>3 DEF HoldsSaved, Loaded, Executing
  <2>5. e.status \in {"queued", "running"} /\ e.phase \in Loaded
    BY LoadedFacts
  <2>6. st \in Statuses /\ st \notin Terminal /\ type \in EventTypes /\ type \notin TerminalEvents
    OBVIOUS
  <2> QED BY <1>2, <2>1, <2>4, <2>5, <2>6, AppendKeeps
<1> QED BY <1>1, <1>2 DEF AppendThen

LEMMA ReportWaitingKeeps ==
    ASSUME JobInv, NEW o \in Owners, NEW j \in Jobs, ReportWaiting(o, j)
    PROVE  JobInv' /\ ContractStep
<1> DEFINE e == exec[o][j]
<1>1. e.phase = "reporting"
  BY DEF ReportWaiting, At, Phase
<1>2. /\ e.status \in {"queued", "running"} /\ e.attempt \in Payloads /\ e.attempt \in Nat
      /\ PhaseAgrees(e)
  BY <1>1, LoadedFacts DEF Loaded, Executing
<1>3. "job.capacity.waiting" \in EventTypes \ TerminalEvents
  BY EventTypesAssumption DEF TerminalEvents
<1>4. e.status \in Statuses \ Terminal /\ e.phase \in Loaded \ {"callback"}
  BY <1>1, <1>2 DEF Statuses, Terminal, Loaded, Executing
<1>5. Legal(j, e, e.status, e.attempt)
  BY DEF Legal
<1>6. /\ e.status = "queued" => e.attempt <= 1
      /\ e.status = "running" => e.attempt > 0
      /\ e.attempt > 0 => Holds(e)
  BY <1>1, <1>2 DEF PhaseAgrees, Holds
<1>7. AppendThen(o, j, e.status, e.attempt, "job.capacity.waiting", "polling")
  BY DEF ReportWaiting
<1> HIDE DEF e
<1> QED BY <1>2, <1>3, <1>4, <1>5, <1>6, <1>7, AppendThenKeeps DEF e

LEMMA MarkStartedKeeps ==
    ASSUME JobInv, NEW o \in Owners, NEW j \in Jobs, MarkStarted(o, j)
    PROVE  JobInv' /\ ContractStep
<1> DEFINE e == exec[o][j]
           row == [e EXCEPT !.phase = "attempt"]
<1>1. e.phase = "admitted" /\ e.phase \in Loaded \ {"callback"}
  BY DEF MarkStarted, At, Phase, Loaded, Executing
<1>2. e \in Exec /\ e.attempt \in Nat /\ PhaseAgrees(e)
  BY <1>1, LoadedFacts
<1>3. CASE e.status = "queued" /\ AppendThen(o, j, "running", 1, "job.started", "attempt")
  <2>1. "job.started" \in EventTypes \ TerminalEvents /\ "running" \in Statuses \ Terminal
    BY EventTypesAssumption DEF TerminalEvents, Statuses, Terminal
  <2>2. 1 \in Payloads
    BY AttemptsAssumption
  <2>3. e.attempt = 0 \/ e.attempt = 1
    BY <1>2, <1>3 DEF PhaseAgrees
  <2>4. Legal(j, e, "running", 1)
    BY <1>3, <2>3 DEF Legal
  <2>5. 1 = e.attempt + 1 \/ Holds(e)
    BY <1>1, <2>3 DEF Holds
  <2> QED BY <1>1, <1>3, <2>1, <2>2, <2>4, <2>5, AppendThenKeeps
<1>4. CASE e.status = "running" /\ Goto(o, j, "attempt") /\ UNCHANGED <<storeVars, up, invoked>>
  <2>1. /\ row \in Exec /\ row.phase = "attempt" /\ row.outcome = e.outcome
        /\ row.status = e.status /\ row.attempt = e.attempt /\ row.revision = e.revision
    BY <1>2 DEF Exec, Phases, Executing
  <2>2. Writes(o, j, row)
    BY <1>4 DEF Goto, Writes
  <2>3. IInv' /\ UNCHANGED records
    BY <1>4, StoreKept DEF JobInv
  <2> HIDE DEF row
  <2>4. PhaseAgrees(e) /\ InvocationAgrees(j, e)
          => PhaseAgrees(row) /\ InvocationAgrees(j, row) /\ (Holds(row) => Holds(e))
    BY <1>1, <1>4, <2>1 DEF PhaseAgrees, InvocationAgrees, Holds, Terminal
  <2> QED BY <1>1, <1>4, <2>1, <2>2, <2>3, <2>4, MoveKeeps
<1> QED BY <1>3, <1>4 DEF MarkStarted

LEMMA RetryKeeps ==
    ASSUME JobInv, NEW o \in Owners, NEW j \in Jobs, Retry(o, j)
    PROVE  JobInv' /\ ContractStep
<1> DEFINE e == exec[o][j]
<1>1. /\ e.phase = "settling" /\ e.phase \in Loaded \ {"callback"} /\ e.attempt < MaxAttempts
      /\ AppendThen(o, j, "running", e.attempt + 1, "job.retrying", "attempt")
  BY DEF Retry, Retryable, At, Phase, Loaded, Executing
<1>2. e.status \in {"queued", "running"} /\ e.attempt \in Nat
  BY <1>1, LoadedFacts
<1>3. "job.retrying" \in EventTypes \ TerminalEvents /\ "running" \in Statuses \ Terminal
  BY EventTypesAssumption DEF TerminalEvents, Statuses, Terminal
<1>4. e.attempt + 1 \in Payloads /\ e.attempt + 1 > 0
  BY <1>1, <1>2, AttemptsAssumption
<1>5. Legal(j, e, "running", e.attempt + 1)
  BY <1>2 DEF Legal
<1> HIDE DEF e
<1> QED BY <1>1, <1>3, <1>4, <1>5, AppendThenKeeps DEF e

LEMMA RestartKeeps ==
    ASSUME JobInv, NEW o \in Owners, NEW j \in Jobs, Restart(o, j)
    PROVE  JobInv' /\ ContractStep
<1> DEFINE e == exec[o][j]
<1>1. /\ e.phase = "restarting" /\ e.phase \in Loaded \ {"callback"}
      /\ AppendThen(o, j, e.status, e.attempt + 1, "job.recovery.started", "capacity")
  BY DEF Restart, At, Phase, Loaded
<1>2. e.status \in {"queued", "running"} /\ e.attempt \in Nat /\ PhaseAgrees(e)
  BY <1>1, LoadedFacts
<1>3. "job.recovery.started" \in EventTypes \ TerminalEvents /\ e.status \in Statuses \ Terminal
  BY <1>2, EventTypesAssumption DEF TerminalEvents, Statuses, Terminal
<1>4. /\ e.attempt + 1 \in Payloads /\ e.attempt + 1 > 0
      /\ e.status = "queued" => e.attempt + 1 <= 1
  BY <1>1, <1>2, AttemptsAssumption DEF PhaseAgrees
<1>5. Legal(j, e, e.status, e.attempt + 1)
  BY <1>2, <1>4 DEF Legal
<1> HIDE DEF e
<1> QED BY <1>1, <1>3, <1>4, <1>5, AppendThenKeeps DEF e

LEMMA CaptureArtifactKeeps ==
    ASSUME JobInv, NEW o \in Owners, NEW j \in Jobs, CaptureArtifact(o, j)
    PROVE  JobInv' /\ ContractStep
<1> DEFINE e == exec[o][j]
           row(outcome) == [e EXCEPT !.phase = "settling", !.outcome = outcome,
                                     !.revision = e.revision + 1]
<1>1. e.phase = "returned" /\ e.phase \in Loaded
  BY DEF CaptureArtifact, At, Phase, Loaded, Executing
<1>2. /\ e \in Exec /\ e.status = "running" /\ e.attempt \in Payloads
      /\ PhaseAgrees(e) /\ InvocationAgrees(j, e)
  BY <1>1, LoadedFacts DEF PhaseAgrees
<1>3. PICK outcome \in AfterCapture(o, j) :
        /\ Append1(o, j, e.status, e.attempt, "job.artifact")
        /\ Writes(o, j, row(outcome)) /\ UNCHANGED <<up, invoked>>
  BY DEF CaptureArtifact, Writes
<1>4. /\ outcome \in Outcomes /\ (outcome = "success" => e.outcome = "success")
      /\ e.revision + 1 \in Nat
  BY <1>2 DEF AfterCapture, Exec, Outcomes, WorkerOutcomes
<1>5. /\ row(outcome) \in Exec /\ row(outcome).phase = "settling" /\ row(outcome).outcome = outcome
      /\ row(outcome).status = e.status /\ row(outcome).attempt = e.attempt
      /\ row(outcome).revision = e.revision + 1
  BY <1>2, <1>4 DEF Exec, Phases, Executing
<1> HIDE DEF row
<1>6. PhaseAgrees(row(outcome)) /\ InvocationAgrees(j, row(outcome)) /\ ~ Holds(row(outcome))
  BY <1>1, <1>2, <1>4, <1>5 DEF PhaseAgrees, InvocationAgrees, Holds, Terminal
<1>7. HoldsSaved(j, e, e.status, e.attempt, row(outcome)) /\ Legal(j, e, e.status, e.attempt)
  BY <1>5, <1>6 DEF HoldsSaved, Legal, Loaded, Executing
<1>8. "job.artifact" \in EventTypes /\ "job.artifact" \notin TerminalEvents
  BY EventTypesAssumption DEF TerminalEvents
<1>9. e.status \in Statuses /\ e.status \notin Terminal
  BY <1>2 DEF Statuses, Terminal
<1> QED BY <1>1, <1>2, <1>3, <1>5, <1>7, <1>8, <1>9, AppendKeeps

LEMMA LoseAttemptKeeps ==
    ASSUME JobInv, NEW o \in Owners, NEW j \in Jobs, LoseAttempt(o, j)
    PROVE  JobInv' /\ ContractStep
<1> DEFINE e == exec[o][j]
           restarted == [e EXCEPT !.phase = "restarting", !.revision = e.revision + 1]
           concluded == [e EXCEPT !.phase = "concluding", !.revision = e.revision + 1,
                                  !.outcome = "refused"]
<1>1. e.phase = "losing" /\ e.phase \in Loaded
  BY DEF LoseAttempt, At, Phase, Loaded
<1>2. /\ e \in Exec /\ e.status = "running" /\ e.attempt \in Payloads
      /\ PhaseAgrees(e) /\ InvocationAgrees(j, e)
  BY <1>1, LoadedFacts DEF PhaseAgrees
<1>3. CASE GiveUp(o, j)
  BY <1>1, <1>3, GiveUpKeeps
<1>4. ASSUME NEW row, (row = restarted /\ e.attempt < MaxAttempts) \/ row = concluded,
             Append1(o, j, e.status, e.attempt, "job.attempt.lost"),
             Writes(o, j, row), UNCHANGED <<up, invoked>>
      PROVE  JobInv' /\ ContractStep
  <2>1. /\ row \in Exec /\ row.status = e.status /\ row.attempt = e.attempt
        /\ row.revision = e.revision + 1
        /\ \/ row.phase = "restarting" /\ e.attempt < MaxAttempts
           \/ row.phase = "concluding"
    <3>1. e.revision + 1 \in Nat
      BY <1>2 DEF Exec
    <3>2. CASE row = restarted /\ e.attempt < MaxAttempts
      BY <1>2, <3>1, <3>2 DEF Exec, Phases, Recovering
    <3>3. CASE row = concluded
      BY <1>2, <3>1, <3>3 DEF Exec, Phases, Recovering, Outcomes, RecoveryOutcomes
    <3> QED BY <1>4, <3>2, <3>3
  <2>2. PhaseAgrees(row) /\ InvocationAgrees(j, row) /\ ~ Holds(row)
    BY <1>2, <2>1 DEF PhaseAgrees, InvocationAgrees, Holds, Terminal
  <2>3. HoldsSaved(j, e, e.status, e.attempt, row) /\ Legal(j, e, e.status, e.attempt)
    BY <2>1, <2>2 DEF HoldsSaved, Legal, Loaded
  <2>4. "job.attempt.lost" \in EventTypes /\ "job.attempt.lost" \notin TerminalEvents
    BY EventTypesAssumption DEF TerminalEvents
  <2>5. e.status \in Statuses /\ e.status \notin Terminal
    BY <1>2 DEF Statuses, Terminal
  <2> HIDE DEF restarted, concluded
  <2> QED BY <1>1, <1>2, <1>4, <2>1, <2>3, <2>4, <2>5, AppendKeeps
<1> QED BY <1>3, <1>4 DEF LoseAttempt, Writes

LEMMA SettlementsKeep ==
    ASSUME JobInv, NEW o \in Owners, NEW j \in Jobs,
           CancelInstead(o, j) \/ SettleFailure(o, j) \/ SettleRecovered(o, j)
    PROVE  JobInv' /\ ContractStep
<1>1. exec[o][j].phase \in Loaded \ {"callback"}
  BY DEF CancelInstead, SettleFailure, SettleRecovered, At, Phase, Loaded, Executing
<1>2. \E st \in Terminal \ {"succeeded"} : Finish(o, j, st)
  BY DEF CancelInstead, SettleFailure, SettleRecovered, Terminal
<1> QED BY <1>1, <1>2, FinishKeeps

LEMMA DeliverCallbackKeeps ==
    ASSUME JobInv, NEW o \in Owners, NEW j \in Jobs, DeliverCallback(o, j)
    PROVE  JobInv' /\ ContractStep
<1> DEFINE e == exec[o][j]
<1>1. e.phase \in Loaded
  BY DEF DeliverCallback, At, Phase, Loaded, Executing
<1>2. CASE GiveUp(o, j)
  BY <1>1, <1>2, GiveUpKeeps
<1>3. ASSUME NEW seen \in Views, Leave(o, j), UNCHANGED <<up, invoked>>,
             Save(j, e.fence, e.revision, e.status, e.attempt, records[j].events, seen)
      PROVE  JobInv' /\ ContractStep
  <2>1. j \in Stored /\ e.status \in Statuses /\ e.attempt \in Payloads
    BY <1>1, LoadedFacts
  <2>2. records[j].events \in Seq(EventTypes)
    BY <2>1, RecordFacts DEF JobInv
  <2>3. /\ Legal(j, e, e.status, e.attempt) /\ LegalLog(j, e, e.status, records[j].events)
        /\ Left(o, j) \in Exec /\ Writes(o, j, Left(o, j))
        /\ HoldsSaved(j, e, e.status, e.attempt, Left(o, j))
    BY <1>3, LeftFacts DEF JobInv, Legal, LegalLog, HoldsSaved
  <2> QED BY <1>1, <1>3, <2>1, <2>2, <2>3, SaveKeeps
<1> QED BY <1>2, <1>3 DEF DeliverCallback

-----------------------------------------------------------------------------
(* The call of the adapter, and the admission.                             *)

LEMMA InvokeAdapterKeeps ==
    ASSUME JobInv, NEW o \in Owners, NEW j \in Jobs, InvokeAdapter(o, j)
    PROVE  JobInv' /\ ContractStep
<1> DEFINE e == exec[o][j]
<1>1. e.phase = "attempt" /\ e.phase \in Loaded
  BY DEF InvokeAdapter, At, Phase, Loaded, Executing
<1>2. PICK n \in 1..MaxAttempts, row \in Exec :
        /\ e \in Exec /\ e.status = "running" /\ e.attempt = n /\ j \in Stored
        /\ RowInv(j, e) /\ Faithful(j, e) /\ PhaseAgrees(e) /\ Holds(e) /\ invoked[j][n] = 0
        /\ row = [e EXCEPT !.phase = "working"]
  <2>1. e \in Exec /\ RowInv(j, e)
    BY ExecFacts DEF JobInv
  <2>2. Faithful(j, e) /\ PhaseAgrees(e) /\ InvocationAgrees(j, e) /\ j \in Stored
    BY <1>1, <2>1 DEF RowInv, Faithful
  <2>3. e.status = "running" /\ e.attempt > 0
    BY <1>1, <2>2 DEF PhaseAgrees
  <2>4. e.attempt \in 1..MaxAttempts /\ Holds(e) /\ invoked[j][e.attempt] = 0
    BY <1>1, <2>1, <2>2, <2>3, AttemptsAssumption DEF Exec, Holds, InvocationAgrees
  <2>5. [e EXCEPT !.phase = "working"] \in Exec
    BY <2>1 DEF Exec, Phases, Executing
  <2> QED BY <2>1, <2>2, <2>3, <2>4, <2>5
<1>3. /\ row.phase = "working" /\ row.outcome = e.outcome
      /\ row.status = e.status /\ row.attempt = n /\ row.revision = e.revision
      /\ Writes(o, j, row)
  BY <1>2 DEF InvokeAdapter, Goto, Writes, Exec
<1>4. IInv' /\ UNCHANGED <<records, up>> /\ Stored' = Stored
  BY StoreKept DEF JobInv, InvokeAdapter, Stored
<1>5. invoked \in [Jobs -> [1..MaxAttempts -> Nat]] /\ ExecTypeOK
  BY DEF JobInv, ExecTypeOK
<1>6. /\ exec' \in [Owners -> [Jobs -> Exec]]
      /\ exec'[o][j] = row
      /\ \A p \in Owners, i \in Jobs : p # o \/ i # j => exec'[p][i] = exec[p][i]
  BY <1>3, <1>5, RowWritten
<1>7. invoked' = [invoked EXCEPT ![j][n] = invoked[j][n] + 1]
  BY <1>2 DEF InvokeAdapter
<1> HIDE DEF e
<1>8. invoked' = [invoked EXCEPT ![j][n] = 1]
  BY <1>2, <1>7
<1>9. /\ invoked' \in [Jobs -> [1..MaxAttempts -> Nat]] /\ invoked'[j][n] = 1
      /\ \A i \in Jobs, m \in 1..MaxAttempts : i # j \/ m # n => invoked'[i][m] = invoked[i][m]
  BY <1>2, <1>5, <1>8
<1>10. \A p \in Owners, i \in Jobs : RowInv(i, exec[p][i])'
  <2>1. ASSUME NEW i \in Jobs, NEW x \in Exec, RowInv(i, x),
               i = j /\ Holds(x) => x.attempt # n
        PROVE  RowInv(i, x)'
    <3>1. x.attempt \in Payloads /\ (Holds(x) => x.attempt \in 1..MaxAttempts)
      BY AttemptsAssumption DEF Holds, Exec
    <3>2. \A m \in 1..MaxAttempts : Invoked(i, m) => Invoked(i, m)'
      BY <1>2, <1>9 DEF Invoked
    <3>3. InvocationAgrees(i, x) => InvocationAgrees(i, x)'
      BY <1>9, <2>1, <3>1, <3>2 DEF InvocationAgrees, Invoked
    <3> QED BY <1>4, <2>1, <3>3 DEF RowInv, Faithful
  <2>2. ASSUME NEW p \in Owners, NEW i \in Jobs, p # o \/ i # j PROVE RowInv(i, exec[p][i])'
    <3>1. RowInv(i, exec[p][i]) /\ exec[p][i] \in Exec
      BY ExecFacts DEF JobInv
    <3>2. i = j /\ Holds(exec[p][i]) => exec[p][i].attempt # n
      BY <1>2, <2>2 DEF JobInv, HeldByOne, e
    <3> QED BY <1>6, <2>1, <2>2, <3>1, <3>2
  <2>3. RowInv(j, row)'
    <3>1. ~ Holds(row) /\ row.phase \notin {"returned", "settling", "cancelling"}
      BY <1>3 DEF Holds
    <3>2. InvocationAgrees(j, row)'
      BY <1>2, <1>3, <1>9, <3>1 DEF InvocationAgrees, Invoked
    <3>3. PhaseAgrees(row)
      BY <1>1, <1>2, <1>3 DEF PhaseAgrees, Terminal
    <3>4. Faithful(j, row)'
      BY <1>2, <1>3, <1>4 DEF Faithful
    <3>5. row.status # "none"
      BY <1>2, <1>3
    <3> QED BY <1>2, <1>4, <3>2, <3>3, <3>4, <3>5 DEF RowInv, PhaseAgrees
  <2> QED BY <1>6, <2>2, <2>3
<1>11. HeldByOne'
  <2>1. ~ Holds(row)
    BY <1>3 DEF Holds
  <2> QED BY <1>3, <1>5, <2>1, HeldKept DEF JobInv
<1>12. n \in 1..records[j].data /\ records[j].data \in Nat
  BY <1>2, RecordFacts DEF JobInv, Faithful
<1>13. RecordInv'
  <2>1. \A i \in Jobs, m \in 1..MaxAttempts :
          i \notin Stored \/ m > records[i].data => invoked'[i][m] = 0
    BY <1>2, <1>9, <1>12 DEF JobInv, RecordInv
  <2>2. \A i \in Jobs : RecordInv =>
          /\ i \in Stored /\ records[i].status = "queued" => records[i].data <= 1
          /\ i \in Stored /\ records[i].status = "running" => records[i].data > 0
    BY DEF RecordInv
  <2> QED BY <1>4, <2>1, <2>2 DEF JobInv, RecordInv
<1>14. TerminalEventAgrees'
  BY <1>4 DEF JobInv, TerminalEventAgrees
<1>15. ExecTypeOK'
  BY <1>4, <1>5, <1>6, <1>9 DEF ExecTypeOK, IInv
<1>16. ContractStep
  <2> DEFINE status == [i \in Jobs |-> records[i].status]
             attempt == [i \in Jobs |-> IF i \in Stored THEN records[i].data ELSE 0]
  <2>1. status' = status /\ attempt' = attempt
    BY <1>4
  <2>2. n \in 1..attempt[j] /\ attempt[j] = records[j].data
    BY <1>2, <1>12
  <2>3. invoked[j][n] = 0 /\ invoked' = [invoked EXCEPT ![j][n] = 1]
    BY <1>2, <1>8, <1>9
  <2>4. Contract!Invoke(j, n)
    BY <2>1, <2>2, <2>3 DEF Contract!Invoke
  <2> QED BY <1>2, <2>4 DEF Contract!Next, ContractStep
<1> QED BY <1>4, <1>10, <1>11, <1>13, <1>14, <1>15, <1>16 DEF JobInv

-----------------------------------------------------------------------------
(* Recovery takes the lease and reads the record; the release gives it up. *)

LEMMA ListKeeps ==
    ASSUME JobInv, NEW o \in Owners, NEW j \in Jobs, List(o, j) \/ ClaimRefused(o, j)
    PROVE  JobInv' /\ ContractStep
<1>1. PICK phase \in {"listed", "idle"} :
        Goto(o, j, phase) /\ (phase = "listed" => records[j].status \in {"queued", "running"})
  BY DEF List, ClaimRefused
<1>2. PICK row \in Exec : row = [exec[o][j] EXCEPT !.phase = phase]
  <2>1. [exec[o][j] EXCEPT !.phase = phase] \in Exec
    BY ExecFacts DEF JobInv, Exec, Phases, Recovering
  <2> QED BY <2>1
<1>3. row.phase = phase /\ Writes(o, j, row)
  BY <1>1, <1>2, ExecFacts DEF JobInv, Exec, Goto, Writes
<1>4. UNCHANGED storeVars /\ UNCHANGED <<up, invoked>>
  BY DEF List, ClaimRefused
<1>5. IInv' /\ UNCHANGED records
  BY <1>4, StoreKept DEF JobInv
<1>6. phase = "listed" => j \in Stored
  BY <1>1 DEF Stored, NoRecord
<1>7. row.phase \notin Loaded
  BY <1>3 DEF Loaded, Executing
<1> QED BY <1>3, <1>4, <1>5, <1>6, <1>7, LeaveKeeps

LEMMA ClaimKeeps ==
    ASSUME JobInv, NEW o \in Owners, NEW j \in Jobs, Claim(o, j)
    PROVE  JobInv' /\ ContractStep
<1>1. (\E seen \in Views : ClaimLease(j, o, seen)) /\ UNCHANGED <<up, invoked>>
  BY DEF Claim
<1>2. IInv' /\ UNCHANGED records
  BY <1>1, StoreKept DEF JobInv
<1>3. leases'[j].fence \in Nat /\ j \in Stored
  BY <1>1, <1>2 DEF IInv, TypeOK, Lease, ClaimLease, ClaimOwn, ClaimFree
<1>4. PICK row \in Exec : row = [Idle EXCEPT !.phase = "claimed", !.fence = leases'[j].fence]
  <2>1. [Idle EXCEPT !.phase = "claimed", !.fence = leases'[j].fence] \in Exec
    BY <1>3, IdleFacts DEF Exec, Phases, Recovering
  <2> QED BY <2>1
<1>5. row.phase = "claimed" /\ Writes(o, j, row)
  BY <1>4 DEF Claim, Idle, Writes
<1> QED BY <1>1, <1>2, <1>3, <1>5, LeaveKeeps DEF Loaded, Executing

LEMMA RereadKeeps ==
    ASSUME JobInv, NEW o \in Owners, NEW j \in Jobs, Reread(o, j)
    PROVE  JobInv' /\ ContractStep
<1> DEFINE e == exec[o][j]
<1>1. e.phase = "claimed" /\ UNCHANGED storeVars /\ UNCHANGED <<up, invoked>>
  BY DEF Reread, At, Phase
<1>2. IInv' /\ IInv /\ ExecTypeOK /\ UNCHANGED records
  BY <1>1, StoreKept DEF JobInv
<1>3. j \in Stored
  BY <1>1 DEF JobInv, RowInv
<1>4. CASE Leave(o, j)
  BY <1>1, <1>3, <1>4, LeavingKeeps
<1>5. CASE records[j].status \notin Terminal
  <2>1. records[j].status \in {"queued", "running"}
    BY <1>2, <1>3, <1>5, RecordFacts DEF Statuses
  <2>2. PICK row \in Exec :
          row = [e EXCEPT !.phase = "deciding", !.status = records[j].status,
                          !.attempt = records[j].data, !.revision = records[j].revision]
    <3>1. [e EXCEPT !.phase = "deciding", !.status = records[j].status,
                    !.attempt = records[j].data, !.revision = records[j].revision] \in Exec
      <4>1. e \in Exec
        BY <1>2, ExecFacts
      <4>2. /\ records[j].data \in Payloads /\ records[j].revision \in Nat
            /\ records[j].status \in Statuses \cup {"none"}
        BY <1>2, <1>3, RecordFacts
      <4>3. "deciding" \in Phases
        BY DEF Phases, Recovering
      <4> QED BY <4>1, <4>2, <4>3 DEF Exec
    <3> QED BY <3>1
  <2>3. /\ row.phase = "deciding" /\ row.status = records[j].status
        /\ row.attempt = records[j].data /\ row.revision = records[j].revision
        /\ Writes(o, j, row)
    BY <1>2, <1>5, <2>2, ExecFacts DEF Reread, Writes, Exec
  <2>4. Faithful(j, row) /\ row.status # "none"
    BY <1>2, <1>3, <2>1, <2>3, RecordFacts DEF Faithful
  <2>5. PhaseAgrees(row) /\ InvocationAgrees(j, row) /\ ~ Holds(row)
    BY <1>3, <2>1, <2>3 DEF PhaseAgrees, InvocationAgrees, Holds, JobInv, RecordInv, Terminal
  <2>6. RowInv(j, row)
    BY <1>3, <2>4, <2>5 DEF RowInv
  <2> QED BY <1>1, <1>2, <2>3, <2>5, <2>6, StayKeeps
<1> QED BY <1>4, <1>5 DEF Reread

LEMMA ReleasesKeep ==
    ASSUME JobInv, NEW o \in Owners, NEW j \in Jobs,
           RecoveryFails(o, j) \/ ReleaseSlot(o, j) \/ ReleaseOwnLease(o, j)
    PROVE  JobInv' /\ ContractStep
<1>1. j \in Stored
  BY DEF JobInv, RowInv, RecoveryFails, ReleaseSlot, ReleaseOwnLease, At, Phase
<1>2. CASE RecoveryFails(o, j)
  BY <1>1, <1>2, LeavingKeeps DEF RecoveryFails
<1>3. CASE ReleaseSlot(o, j)
  <2>1. (ReleaseCapacity(j, exec[o][j].fence) \/ UNCHANGED storeVars) /\ UNCHANGED <<up, invoked>>
    BY <1>3 DEF ReleaseSlot
  <2>2. IInv' /\ UNCHANGED records
    BY <2>1, StoreKept DEF JobInv
  <2>3. PICK row \in Exec : row = [exec[o][j] EXCEPT !.phase = "unleasing"]
    <3>1. [exec[o][j] EXCEPT !.phase = "unleasing"] \in Exec
      BY ExecFacts DEF JobInv, Exec, Phases
    <3> QED BY <3>1
  <2>4. row.phase = "unleasing" /\ Writes(o, j, row)
    BY <1>3, <2>3, ExecFacts DEF JobInv, ReleaseSlot, Goto, Writes, Exec
  <2> QED BY <1>1, <2>1, <2>2, <2>4, LeaveKeeps DEF Loaded, Executing
<1>4. CASE ReleaseOwnLease(o, j)
  <2>1. (ReleaseLease(j, exec[o][j].fence) \/ UNCHANGED storeVars) /\ UNCHANGED <<up, invoked>>
    BY <1>4 DEF ReleaseOwnLease
  <2>2. IInv' /\ UNCHANGED records
    BY <2>1, StoreKept DEF JobInv
  <2>3. Writes(o, j, Idle)
    BY <1>4 DEF ReleaseOwnLease, Writes
  <2> QED BY <1>1, <2>1, <2>2, <2>3, IdleFacts, LeaveKeeps DEF Loaded, Executing
<1> QED BY <1>2, <1>3, <1>4

-----------------------------------------------------------------------------
(* Steps that touch no execution, and a crash.                             *)

LEMMA QuietKeeps ==
    ASSUME JobInv, IInv', UNCHANGED <<records, exec, invoked>>,
           up' \in [Owners -> {"down", "up", "dead"}]
    PROVE  JobInv' /\ ContractStep
<1>1. Stored' = Stored
  BY DEF Stored
<1>2. ExecTypeOK'
  BY DEF JobInv, ExecTypeOK, IInv
<1>3. \A o \in Owners, j \in Jobs : RowInv(j, exec[o][j])'
  BY <1>1 DEF JobInv, RowInv, Faithful, PhaseAgrees, InvocationAgrees, Invoked, Holds
<1>4. HeldByOne' /\ RecordInv' /\ TerminalEventAgrees'
  BY <1>1 DEF JobInv, HeldByOne, RecordInv, TerminalEventAgrees, Holds
<1> QED BY <1>2, <1>3, <1>4, ContractStays DEF JobInv, ContractStep

LEMMA BootKeeps ==
    ASSUME JobInv, NEW o \in Owners, Boot(o)
    PROVE  JobInv' /\ ContractStep
<1>1. UNCHANGED storeVars
  BY DEF Boot
<1>2. IInv' /\ UNCHANGED records
  BY <1>1, StepPreserves DEF JobInv, storeVars
<1> QED BY <1>2, QuietKeeps DEF Boot, JobInv, ExecTypeOK

LEMMA ServicesKeep ==
    ASSUME JobInv, NEW o \in Owners, NEW j \in Jobs,
           (\E s \in Sources : Cancel(o, j, s)) \/ Heartbeat(o, j)
    PROVE  JobInv' /\ ContractStep
<1>1. IInv' /\ UNCHANGED records
  BY StoreKept DEF JobInv, Cancel, Heartbeat
<1>2. UNCHANGED <<up, exec, invoked>>
  BY DEF Cancel, Heartbeat, procVars
<1> QED BY <1>1, <1>2, QuietKeeps DEF JobInv, ExecTypeOK

LEMMA LapseKeeps ==
    ASSUME JobInv, NEW j \in Jobs, Lapse(j)
    PROVE  JobInv' /\ ContractStep
<1>1. IInv' /\ UNCHANGED records
  BY LeaseMethodsPreserve DEF JobInv, Lapse, Expire
<1>2. UNCHANGED <<up, exec, invoked>>
  BY DEF Lapse, procVars
<1> QED BY <1>1, <1>2, QuietKeeps DEF JobInv, ExecTypeOK

LEMMA CrashKeeps ==
    ASSUME JobInv, NEW o \in Owners, Crash(o)
    PROVE  JobInv' /\ ContractStep
<1>1. UNCHANGED storeVars /\ UNCHANGED invoked
  BY DEF Crash
<1>2. IInv' /\ UNCHANGED records
  BY <1>1, StepPreserves DEF JobInv, storeVars
<1>3. Stored' = Stored
  BY <1>2 DEF Stored
<1>4. /\ exec' \in [Owners -> [Jobs -> Exec]] /\ up' \in [Owners -> {"down", "up", "dead"}]
      /\ \A p \in Owners, j \in Jobs : exec'[p][j] = IF p = o THEN Idle ELSE exec[p][j]
  BY IdleFacts DEF JobInv, ExecTypeOK, Crash
<1>5. ExecTypeOK'
  BY <1>1, <1>2, <1>4 DEF JobInv, ExecTypeOK, IInv
<1>6. \A p \in Owners, j \in Jobs : RowInv(j, exec[p][j])'
  <2> SUFFICES ASSUME NEW p \in Owners, NEW j \in Jobs PROVE RowInv(j, exec[p][j])'
    OBVIOUS
  <2>1. \A x : RowInv(j, x) => RowInv(j, x)'
    BY <1>1, <1>2, <1>3 DEF RowInv, Faithful, InvocationAgrees, Invoked
  <2>2. RowInv(j, Idle)
    BY IdleFacts DEF RowInv, Loaded, Executing
  <2> QED BY <1>4, <2>1, <2>2 DEF JobInv
<1>7. HeldByOne'
  <2>1. ~ Holds(Idle)
    BY IdleFacts DEF Holds
  <2> QED BY <1>4, <2>1 DEF JobInv, HeldByOne
<1>8. RecordInv' /\ TerminalEventAgrees'
  BY <1>1, <1>2, <1>3 DEF JobInv, RecordInv, TerminalEventAgrees
<1> QED BY <1>1, <1>2, <1>5, <1>6, <1>7, <1>8, ContractStays DEF JobInv, ContractStep

LEMMA StartKeeps ==
    ASSUME JobInv, NEW o \in Owners, NEW j \in Jobs, Start(o, j)
    PROVE  JobInv' /\ ContractStep
<1> DEFINE log == <<"job.queued">>
           new == [status |-> "queued", data |-> 0, revision |-> 1, events |-> log]
<1>1. PICK seen \in Views, h \in Hashes : Admit(j, o, NoKey, h, 0, log, seen)
  BY DEF Start
<1>2. log \in Seq(EventTypes) /\ 0 \in Payloads
  BY EventTypesAssumption, AttemptsAssumption
<1>3. IInv' /\ IInv /\ ExecTypeOK
  BY <1>1, <1>2, AdmitPreserves DEF JobInv
<1>4. j \notin Stored /\ records' = [records EXCEPT ![j] = new]
  BY <1>1 DEF Admit
<1>5. /\ records'[j] = new /\ \A i \in Jobs : i # j => records'[i] = records[i]
      /\ Stored' = Stored \cup {j}
  <2>1. new # NoRecord
    BY DEF NoRecord
  <2> QED BY <1>3, <1>4, <2>1 DEF IInv, TypeOK, Stored
<1>6. PICK row \in Exec :
        /\ row = [Idle EXCEPT !.phase = "capacity", !.status = "queued", !.revision = 1, !.fence = 1]
        /\ row.phase = "capacity" /\ row.status = "queued" /\ row.attempt = 0 /\ row.revision = 1
  <2> DEFINE first == [Idle EXCEPT !.phase = "capacity", !.status = "queued",
                                   !.revision = 1, !.fence = 1]
  <2>1. first \in Exec
    BY IdleFacts DEF Idle, Exec, Phases, Executing, Statuses
  <2>2. /\ first.phase = "capacity" /\ first.status = "queued"
        /\ first.attempt = 0 /\ first.revision = 1
    BY IdleFacts DEF Idle
  <2> QED BY <2>1, <2>2
<1>7. Writes(o, j, row) /\ UNCHANGED <<up, invoked>>
  BY <1>6 DEF Start, Writes
<1>8. /\ exec' \in [Owners -> [Jobs -> Exec]]
      /\ exec'[o][j] = row
      /\ \A p \in Owners, i \in Jobs : p # o \/ i # j => exec'[p][i] = exec[p][i]
  BY <1>3, <1>7, RowWritten
<1>9. ExecTypeOK'
  BY <1>3, <1>7, <1>8 DEF JobInv, ExecTypeOK, IInv
<1>10. ~ Holds(row)
  BY <1>6 DEF Holds
<1> HIDE DEF log
<1>11. \A p \in Owners, i \in Jobs : RowInv(i, exec[p][i])'
  <2>1. ASSUME NEW p \in Owners, NEW i \in Jobs, p # o \/ i # j PROVE RowInv(i, exec[p][i])'
    <3>1. RowInv(i, exec[p][i])
      BY DEF JobInv
    <3>2. CASE i # j
      <4>1. \A x : RowInv(i, x) => RowInv(i, x)'
        BY <1>5, <1>7, <3>2 DEF RowInv, Faithful, InvocationAgrees, Invoked
      <4> QED BY <1>8, <2>1, <3>1, <4>1
    <3>3. CASE i = j
      <4>1. exec[p][i].phase = "idle"
        BY <1>4, <3>1, <3>3 DEF RowInv
      <4> QED BY <1>8, <2>1, <4>1 DEF RowInv, Loaded, Executing
    <3> QED BY <3>2, <3>3
  <2>2. RowInv(j, row)'
    <3>1. PhaseAgrees(row) /\ InvocationAgrees(j, row)'
      BY <1>6, <1>10 DEF PhaseAgrees, InvocationAgrees, Terminal
    <3>2. Faithful(j, row)'
      BY <1>5, <1>6 DEF Faithful
    <3> QED BY <1>5, <1>6, <3>1, <3>2 DEF RowInv, PhaseAgrees
  <2> QED BY <1>8, <2>1, <2>2
<1>12. HeldByOne'
  BY <1>3, <1>7, <1>10, HeldKept DEF JobInv
<1>13. RecordInv'
  <2>1. \A n \in 1..MaxAttempts : invoked[j][n] = 0
    BY <1>4 DEF JobInv, RecordInv
  <2> QED BY <1>5, <1>7, <2>1 DEF JobInv, RecordInv
<1>14. TerminalEventAgrees'
  <2>1. Len(log) = 1 /\ log[1] \notin TerminalEvents
    BY DEF log, TerminalEvents
  <2>2. {n \in 1..Len(log) : log[n] \in TerminalEvents} = {}
    BY <2>1
  <2>3. records'[j].events = log /\ records'[j].status \notin Terminal
    BY <1>5 DEF Terminal
  <2>4. ASSUME NEW i \in Stored, i # j
        PROVE  LET old == records'[i].events
                   final == {n \in 1..Len(old) : old[n] \in TerminalEvents}
               IN IF records'[i].status \in Terminal
                  THEN final = {Len(old)} /\ old[Len(old)] = TerminalEvent[records'[i].status]
                  ELSE final = {}
    <3>1. records'[i] = records[i]
      BY <1>5, <2>4 DEF Stored
    <3> QED BY <2>4, <3>1 DEF JobInv, TerminalEventAgrees, TerminalEvents
  <2> QED BY <1>5, <2>2, <2>3, <2>4 DEF TerminalEventAgrees, TerminalEvents
<1>15. Contract!Admit(j)
  <2>1. [i \in Jobs |-> records[i].status]' = [[i \in Jobs |-> records[i].status] EXCEPT ![j] = "queued"]
    <3>1. \A i \in Jobs : records'[i].status = IF i = j THEN "queued" ELSE records[i].status
      BY <1>5
    <3> QED BY <3>1
  <2>2. records[j].status = "none"
    BY <1>3, <1>4 DEF IInv, TypeOK, Stored, NoRecord
  <2>3. UNCHANGED [i \in Jobs |-> IF i \in Stored THEN records[i].data ELSE 0]
    <3>1. \A i \in Jobs : (IF i \in Stored' THEN records'[i].data ELSE 0)
                         = IF i \in Stored THEN records[i].data ELSE 0
      BY <1>4, <1>5
    <3> QED BY <3>1
  <2> QED BY <1>7, <2>1, <2>2, <2>3 DEF Contract!Admit
<1> QED BY <1>3, <1>9, <1>11, <1>12, <1>13, <1>14, <1>15 DEF JobInv, Contract!Next, ContractStep

-----------------------------------------------------------------------------
(* The invariant, and the theorems.                                        *)

LEMMA JobInitEstablishes == Init => JobInv /\ Contract!Init
<1> SUFFICES ASSUME Init PROVE JobInv /\ Contract!Init
  OBVIOUS
<1>1. IInv /\ Stored = {}
  BY InitEstablishes DEF Init, StoreInit, Stored
<1>2. \A o \in Owners, j \in Jobs : exec[o][j] = Idle
  BY DEF Init
<1>3. ExecTypeOK
  BY <1>1, IdleFacts DEF Init, ExecTypeOK, IInv
<1>4. \A o \in Owners, j \in Jobs : RowInv(j, exec[o][j]) /\ ~ Holds(exec[o][j])
  BY <1>2, IdleFacts DEF RowInv, Holds, Loaded, Executing
<1>5. RecordInv /\ TerminalEventAgrees
  BY <1>1 DEF Init, RecordInv, TerminalEventAgrees
<1>6. Contract!Init
  <2>1. \A j \in Jobs : records[j].status = "none"
    BY DEF Init, StoreInit, NoRecord
  <2> QED BY <1>1, <2>1 DEF Contract!Init, Init
<1> QED BY <1>1, <1>3, <1>4, <1>5, <1>6 DEF JobInv, HeldByOne

LEMMA ProgressKeeps ==
    ASSUME JobInv, NEW o \in Owners, NEW j \in Jobs, Progress(o, j)
    PROVE  JobInv' /\ ContractStep
<1>1. CASE \/ Poll(o, j) \/ PollFails(o, j) \/ ReportWaiting(o, j)
           \/ MarkStarted(o, j) \/ InvokeAdapter(o, j) \/ AttemptFails(o, j)
           \/ \E outcome \in WorkerOutcomes : WorkerReturns(o, j, outcome)
  BY <1>1, PollKeeps, PollFailsKeeps, ReportWaitingKeeps, MarkStartedKeeps, InvokeAdapterKeeps,
     AttemptFailsKeeps, WorkerReturnsKeeps
<1>2. CASE \/ CaptureArtifact(o, j) \/ CaptureFails(o, j) \/ Succeed(o, j) \/ CancelInstead(o, j)
           \/ Retry(o, j) \/ SettleFailure(o, j) \/ DeliverCallback(o, j)
  BY <1>2, CaptureArtifactKeeps, CaptureFailsKeeps, SucceedKeeps, SettlementsKeep, RetryKeeps,
     DeliverCallbackKeeps
<1>3. CASE \/ ReleaseSlot(o, j) \/ ReleaseOwnLease(o, j) \/ RecoveryFails(o, j)
           \/ Reread(o, j) \/ DecideCancelled(o, j) \/ DecideInterrupted(o, j)
           \/ LoseAttempt(o, j) \/ SettleRecovered(o, j) \/ Restart(o, j)
  BY <1>3, ReleasesKeep, RereadKeeps, DecideCancelledKeeps, DecideInterruptedKeeps,
     LoseAttemptKeeps, SettlementsKeep, RestartKeeps
<1> QED BY <1>1, <1>2, <1>3 DEF Progress

LEMMA JobStepKeeps == JobInv /\ [Next]_vars => JobInv' /\ ContractStep
<1> SUFFICES ASSUME JobInv, [Next]_vars PROVE JobInv' /\ ContractStep
  OBVIOUS
<1>1. CASE UNCHANGED vars
  <2>1. UNCHANGED storeVars /\ UNCHANGED <<up, exec, invoked>>
    BY <1>1 DEF vars, procVars
  <2>2. IInv' /\ UNCHANGED records
    BY <2>1, StepPreserves DEF JobInv, storeVars
  <2> QED BY <2>1, <2>2, QuietKeeps DEF JobInv, ExecTypeOK
<1>2. ASSUME NEW o \in Owners, Boot(o) \/ Crash(o) PROVE JobInv' /\ ContractStep
  BY <1>2, BootKeeps, CrashKeeps
<1>3. ASSUME NEW o \in Owners, NEW j \in Jobs,
             \/ Start(o, j) \/ (\E s \in Sources : Cancel(o, j, s))
             \/ ObserveCancellation(o, j) \/ Heartbeat(o, j) \/ HeartbeatFails(o, j)
             \/ List(o, j) \/ Claim(o, j) \/ ClaimRefused(o, j)
      PROVE  JobInv' /\ ContractStep
  BY <1>3, StartKeeps, ServicesKeep, ObserveCancellationKeeps, HeartbeatFailsKeeps, ListKeeps,
     ClaimKeeps
<1>4. ASSUME NEW o \in Owners, NEW j \in Jobs, Progress(o, j) PROVE JobInv' /\ ContractStep
  BY <1>4, ProgressKeeps
<1>5. ASSUME NEW j \in Jobs, Lapse(j) PROVE JobInv' /\ ContractStep
  BY <1>5, LapseKeeps
<1> QED BY <1>1, <1>2, <1>3, <1>4, <1>5 DEF Next

THEOREM JobInvariant == Spec => []JobInv
  BY JobInitEstablishes, JobStepKeeps, PTL DEF Spec

(* What the processes hold is always a process state, and the store keeps   *)
(* its types, whoever calls it in whatever order.                           *)
THEOREM ExecTypeCorrect == Spec => []ExecTypeOK
<1>1. JobInv => ExecTypeOK
  BY DEF JobInv
<1> QED BY <1>1, JobInvariant, PTL

(* The invariant of the store, with its capacity bound and its rule that a  *)
(* cancelled Job never succeeds, holds under the coordinator and recovery.  *)
THEOREM StoreInvariantUnderJobs == Spec => [](IInv /\ CapacityBound /\ CancellationExcludesSuccess)
<1>1. JobInv => IInv /\ CapacityBound /\ CancellationExcludesSuccess
  BY DEF JobInv, IInv
<1> QED BY <1>1, JobInvariant, PTL

(* A settled Job logs one outcome, last, and its status says the same; this *)
(* is what #appendEvent of several processes may not break.                 *)
THEOREM TerminalEventsAgree == Spec => []TerminalEventAgrees
<1>1. JobInv => TerminalEventAgrees
  BY DEF JobInv
<1> QED BY <1>1, JobInvariant, PTL

(* The records and the adapter calls are a run of the Job contract: one     *)
(* settlement, attempts within the budget, one adapter call per attempt.    *)
THEOREM ContractImplemented == Spec => ImplementsContract
<1>1. Spec => Contract!Init
  BY JobInitEstablishes DEF Spec
<1>2. JobInv /\ [Next]_vars => [Contract!Next]_(Contract!vars)
  BY JobStepKeeps DEF ContractStep
<1>3. Spec => [][Contract!Next]_(Contract!vars)
  BY <1>2, JobInvariant, PTL DEF Spec
<1> QED BY <1>1, <1>3, PTL DEF ImplementsContract, Contract!Spec

-----------------------------------------------------------------------------
(* The slot under which a process runs its attempts.                       *)

\* The phases that need a slot: an error may lead from settling back to an attempt.
Slotted(e) ==
    \/ e.phase \in {"admitted", "attempt", "working", "returned"}
    \/ e.phase = "settling" /\ e.outcome = "error"

\* While a lease is held, its record has a slot under the same handle.
Covered(j, f) ==
    Current(j, f) /\ leases[j].live
        => capacity[j].acquired /\ capacity[j].fence = f /\ capacity[j].owner = issued[j][f]

\* The handle of a process was issued to it.
OwnHandle(o, j, f) == f \in 1..leases[j].fence /\ issued[j][f] = o

SlotRow(o, j, e) ==
    /\ e.phase \notin {"idle", "listed"} => OwnHandle(o, j, e.fence)
    /\ Slotted(e) => Covered(j, e.fence)

SlotInv == \A o \in Owners, j \in Jobs : SlotRow(o, j, exec[o][j])

\* The calls of the processes, by what they do to leases and slots.
Leasing(o, j, f) ==
    \/ UNCHANGED <<leases, issued, capacity>>
    \/ \E seen \in Views : RenewLease(j, f, seen)
    \/ \E seen \in Views : TryAcquireCapacity(j, f, seen)
    \/ \E seen \in Views : ClaimLease(j, o, seen)
    \/ \E seen \in Views, h \in Hashes : Admit(j, o, NoKey, h, 0, <<"job.queued">>, seen)
    \/ ReleaseLease(j, f) \/ Expire(j)

LEMMA HandlesStay ==
    ASSUME IInv, NEW o \in Owners, NEW j \in Jobs, NEW f, NEW i \in Jobs,
           Leasing(o, j, f) \/ ReleaseCapacity(j, f)
    PROVE  /\ leases'[i].fence \in Nat /\ leases'[i].fence >= leases[i].fence
           /\ \A g \in 1..leases[i].fence : issued'[i][g] = issued[i][g]
<1>1. /\ leases \in [Jobs -> Lease] /\ leases[i].fence \in Nat /\ leases[j].fence \in Nat
      /\ issued \in [Jobs -> Seq(Owners)]
      /\ Len(issued[i]) = leases[i].fence
      /\ j \notin Stored => leases[j] = NoLease
  BY DEF IInv, TypeOK, Lease, LeaseHistory, NothingBeforeAdmission
<1>2. CASE \E seen \in Views : ClaimFree(j, o, seen)
  <2>1. /\ leases' = [leases EXCEPT ![j] = [owner |-> o, fence |-> leases[j].fence + 1, live |-> TRUE]]
        /\ issued' = [issued EXCEPT ![j] = Append(issued[j], o)]
    BY <1>2 DEF ClaimFree
  <2>2. CASE i = j
    <3>1. \A g \in 1..Len(issued[j]) : Append(issued[j], o)[g] = issued[j][g]
      BY <1>1, AppendProperties
    <3> QED BY <1>1, <2>1, <2>2, <3>1
  <2> QED BY <1>1, <2>1, <2>2
<1>3. CASE \E seen \in Views, h \in Hashes : Admit(j, o, NoKey, h, 0, <<"job.queued">>, seen)
  <2>1. /\ leases' = [leases EXCEPT ![j] = [owner |-> o, fence |-> 1, live |-> TRUE]]
        /\ issued' = [issued EXCEPT ![j] = <<o>>] /\ leases[j].fence = 0
    BY <1>1, <1>3 DEF Admit, NoLease
  <2> QED BY <1>1, <2>1
<1>4. CASE /\ \A k \in Jobs : leases'[k].fence = leases[k].fence
           /\ issued' = issued
  BY <1>1, <1>4
<1>5. ASSUME \/ UNCHANGED <<leases, issued, capacity>>
             \/ \E seen \in Views : RenewLease(j, f, seen)
             \/ \E seen \in Views : TryAcquireCapacity(j, f, seen)
             \/ \E seen \in Views : ClaimOwn(j, o, seen)
             \/ ReleaseCapacity(j, f) \/ ReleaseLease(j, f) \/ Expire(j)
      PROVE  (\A k \in Jobs : leases'[k].fence = leases[k].fence) /\ issued' = issued
  <2>1. CASE \/ UNCHANGED <<leases, issued, capacity>>
             \/ \E seen \in Views : TryAcquireCapacity(j, f, seen)
             \/ ReleaseCapacity(j, f)
    BY <2>1 DEF TryAcquireCapacity, ReleaseCapacity
  <2>2. CASE (\E seen \in Views : RenewLease(j, f, seen)) \/ \E seen \in Views : ClaimOwn(j, o, seen)
    BY <1>1, <2>2, ZenonT(40) DEF RenewLease, ClaimOwn, Lease
  <2>3. CASE Expire(j)
    BY <1>1, <2>3 DEF Expire, Lease
  <2>4. CASE ReleaseLease(j, f)
    <3>1. /\ leases' = [leases EXCEPT ![j] = [owner |-> NoOwner, fence |-> leases[j].fence, live |-> FALSE]]
          /\ issued' = issued
      BY <2>4 DEF ReleaseLease
    <3> QED BY <1>1, <3>1
  <2> QED BY <1>5, <2>1, <2>2, <2>3, <2>4
<1> QED BY <1>2, <1>3, <1>4, <1>5 DEF Leasing, ClaimLease

\* An acquisition keeps the slots whose lease is unexpired, and names it.
LEMMA TryAcquireKeepsSlots ==
    ASSUME NEW c \in Table, Acquired(c) \subseteq InTable(c),
           Cardinality(Acquired(c)) <= MaxLimit,
           NEW l \in [Jobs -> Lease], NEW j \in Jobs, l[j].owner \in Owners, l[j].fence > 0,
           NEW seen \in SUBSET Jobs, j \in seen, NEW k \in seen, c[k].acquired,
           c[k].owner = l[k].owner, c[k].fence = l[k].fence
    PROVE  /\ TryAcquireResult(c, l, j, seen)[k].acquired
           /\ TryAcquireResult(c, l, j, seen)[k].owner = l[k].owner
           /\ TryAcquireResult(c, l, j, seen)[k].fence = l[k].fence
<1> DEFINE u == Upserted(c, j, l[j].owner, l[j].fence)
           keep == Backed(u, l, seen)
           p == Kept(u, keep)
<1>1. l[j].fence \in Nat /\ k \in Jobs /\ k \in Acquired(c) /\ k \in InTable(c)
  BY DEF Lease, Acquired
<1>2. /\ u \in Table /\ Acquired(u) = Acquired(c) /\ InTable(u) = InTable(c) \cup {j}
      /\ u[j].owner = l[j].owner /\ u[j].fence = l[j].fence
      /\ \A i \in Jobs \ {j} : u[i] = c[i]
  BY <1>1, UpsertedFacts
<1>3. u[k].owner = l[k].owner /\ u[k].fence = l[k].fence
  BY <1>1, <1>2
<1>4. keep \in SUBSET InTable(u) /\ k \in keep
  BY <1>1, <1>2, <1>3 DEF Backed
<1> HIDE DEF u, keep
<1>5. p \in Table /\ k \in Acquired(p)
  BY <1>1, <1>2, <1>4, KeptFacts
<1>6. TryAcquireResult(c, l, j, seen) = WithGrant(p, j, LimitOf[l[j].owner])
  BY DEF TryAcquireResult, Purged, u, keep
<1> HIDE DEF p
<1>7. WithGrant(p, j, LimitOf[l[j].owner])[k].acquired
  BY <1>1, <1>5 DEF WithGrant, Acquired, Table, CapacityRow
<1> DEFINE r == TryAcquireResult(c, l, j, seen)
<1>8. /\ Acquired(r) \subseteq InTable(r)
      /\ \A i \in InTable(r) : r[i].owner = l[i].owner /\ r[i].fence = l[i].fence
  BY TryAcquireFacts
<1> HIDE DEF r
<1>9. k \in Acquired(r)
  BY <1>1, <1>6, <1>7 DEF Acquired, r
<1>10. r[k].owner = l[k].owner /\ r[k].fence = l[k].fence
  BY <1>8, <1>9
<1> QED BY <1>6, <1>7, <1>10 DEF r

\* Without stale clocks, no call but the release by its own holder takes a slot away
\* while the lease lasts.
LEMMA SlotsStay ==
    ASSUME ~ StaleClock, IInv, IInv', NEW o \in Owners, NEW j \in Jobs, NEW f,
           NEW i \in Jobs, NEW g \in 1..leases[i].fence, Covered(i, g),
           Leasing(o, j, f) \/ (ReleaseCapacity(j, f) /\ (i # j \/ g # f))
    PROVE  Covered(i, g)'
<1>1. /\ leases \in [Jobs -> Lease] /\ leases[i].fence \in Nat /\ leases[j].fence \in Nat
      /\ issued \in [Jobs -> Seq(Owners)] /\ capacity \in Table
      /\ \A k \in Jobs : leases[k].owner \in Owners \cup {NoOwner}
      /\ j \notin Stored => leases[j] = NoLease
      /\ leases' \in [Jobs -> Lease]
  BY DEF IInv, TypeOK, Lease, NothingBeforeAdmission, Table
<1>2. Views = {Live} /\ Live = {k \in Jobs : leases[k].live}
  BY DEF Views, Live
<1>3. /\ Acquired(capacity) \subseteq InTable(capacity) /\ Cardinality(Acquired(capacity)) <= MaxLimit
  BY DEF IInv, SlotsAreRows, CapacityBound
<1>4. g \in Nat /\ issued'[i][g] = issued[i][g]
  <2>1. Leasing(o, j, f) \/ ReleaseCapacity(j, f)
    OBVIOUS
  <2>2. \A k \in 1..leases[i].fence : issued'[i][k] = issued[i][k]
    BY <2>1, HandlesStay
  <2> QED BY <1>1, <2>2
<1> SUFFICES ASSUME Current(i, g)', leases'[i].live
             PROVE  capacity'[i].acquired /\ capacity'[i].fence = g /\ capacity'[i].owner = issued[i][g]
  BY <1>4 DEF Covered
<1>5. leases'[i].fence = g /\ leases'[i].owner = issued[i][g]
  BY <1>4 DEF Current
<1>6. \A seen \in Views : i \in seen <=> leases[i].live
  BY <1>2
<1>7. CASE \E seen \in Views : ClaimFree(j, o, seen)
  <2>1. i # j
    BY <1>1, <1>5, <1>7 DEF ClaimFree
  <2>2. leases'[i] = leases[i] /\ capacity'[i] = capacity[i]
    BY <1>1, <1>7, <2>1 DEF ClaimFree, Transferred, Table
  <2> QED BY <1>4, <1>5, <2>2 DEF Covered, Current
<1>8. CASE \E seen \in Views, h \in Hashes : Admit(j, o, NoKey, h, 0, <<"job.queued">>, seen)
  <2>1. PICK seen \in Views, h \in Hashes : Admit(j, o, NoKey, h, 0, <<"job.queued">>, seen)
    BY <1>8
  <2>2. /\ leases' = [leases EXCEPT ![j] = [owner |-> o, fence |-> 1, live |-> TRUE]]
        /\ capacity' = TryAcquireResult(capacity, leases', j, seen \cup {j}) /\ leases[j].fence = 0
    BY <1>1, <2>1 DEF Admit, NoLease
  <2>3. i # j
    BY <2>2
  <2>4. leases'[i] = leases[i] /\ leases'[j].owner = o /\ leases'[j].fence = 1
    BY <1>1, <2>2, <2>3
  <2>5. capacity[i].acquired /\ capacity[i].fence = g /\ capacity[i].owner = issued[i][g]
    BY <1>4, <1>5, <2>4 DEF Covered, Current
  <2> DEFINE l == leases'
             view == seen \cup {j}
  <2>6. /\ i \in view /\ j \in view /\ view \in SUBSET Jobs
        /\ l \in [Jobs -> Lease] /\ l[j].owner \in Owners /\ l[j].fence > 0
        /\ capacity[i].owner = l[i].owner /\ capacity[i].fence = l[i].fence
        /\ capacity' = TryAcquireResult(capacity, l, j, view)
    BY <1>1, <1>2, <1>5, <2>2, <2>4, <2>5
  <2> HIDE DEF l, view, Table
  <2>7. capacity'[i].acquired /\ capacity'[i].owner = l[i].owner /\ capacity'[i].fence = l[i].fence
    BY <1>1, <1>3, <2>5, <2>6, TryAcquireKeepsSlots, ZenonT(40)
  <2> QED BY <1>5, <2>7 DEF l
<1>9. CASE \E seen \in Views : TryAcquireCapacity(j, f, seen)
  <2>1. PICK seen \in Views : TryAcquireCapacity(j, f, seen)
    BY <1>9
  <2>2. /\ capacity' = TryAcquireResult(capacity, leases, j, seen) /\ j \in seen
        /\ leases' = leases /\ issued' = issued
    BY <2>1 DEF TryAcquireCapacity
  <2>3. capacity[i].acquired /\ capacity[i].fence = g /\ capacity[i].owner = issued[i][g]
    BY <1>4, <1>5, <2>2 DEF Covered, Current
  <2>4. i \in seen /\ seen \in SUBSET Jobs /\ leases[j].owner \in Owners /\ leases[j].fence > 0
    BY <1>2, <2>2, ViewFacts DEF IInv
  <2> DEFINE r == TryAcquireResult(capacity, leases, j, seen)
  <2> HIDE DEF Table
  <2>5. capacity[i].owner = leases[i].owner /\ capacity[i].fence = leases[i].fence
    BY <1>5, <2>2, <2>3
  <2>6. r[i].acquired /\ r[i].owner = leases[i].owner /\ r[i].fence = leases[i].fence
    BY <1>1, <1>3, <2>2, <2>3, <2>4, <2>5, TryAcquireKeepsSlots, ZenonT(40)
  <2> QED BY <1>5, <2>2, <2>6
<1>10. CASE ReleaseCapacity(j, f) /\ (i # j \/ g # f)
  <2>1. leases' = leases /\ capacity[j].fence = f /\ capacity' = Kept(capacity, InTable(capacity) \ {j})
    BY <1>10 DEF ReleaseCapacity
  <2>2. capacity[i].acquired /\ capacity[i].fence = g /\ capacity[i].owner = issued[i][g]
    BY <1>4, <1>5, <2>1 DEF Covered, Current
  <2>3. i # j
    BY <1>10, <2>1, <2>2
  <2>4. i \in InTable(capacity) \ {j} /\ i \in Acquired(capacity)
    BY <1>3, <2>2, <2>3 DEF Acquired
  <2> HIDE DEF Table
  <2>5. /\ i \in Acquired(capacity')
        /\ capacity'[i].owner = capacity[i].owner /\ capacity'[i].fence = capacity[i].fence
    BY <1>1, <2>1, <2>4, KeptFacts
  <2> QED BY <2>2, <2>5 DEF Acquired
<1>11. CASE /\ capacity' = capacity /\ leases'[i].fence = leases[i].fence
            /\ leases'[i].live => leases[i].live
            /\ leases'[i].owner \in {leases[i].owner, NoOwner}
  <2>1. issued[i][g] \in Owners
    BY <1>1 DEF IInv, LeaseHistory
  <2>2. leases[i].owner = issued[i][g]
    BY <1>5, <1>11, <2>1, OwnersAssumption
  <2> QED BY <1>4, <1>5, <1>11, <2>2 DEF Covered, Current
<1>12. ASSUME \/ UNCHANGED <<leases, issued, capacity>>
              \/ \E seen \in Views : RenewLease(j, f, seen)
              \/ \E seen \in Views : ClaimOwn(j, o, seen)
              \/ ReleaseLease(j, f) \/ Expire(j)
       PROVE  /\ capacity' = capacity /\ leases'[i].fence = leases[i].fence
              /\ leases'[i].live => leases[i].live
              /\ leases'[i].owner \in {leases[i].owner, NoOwner}
  BY <1>1, <1>2, <1>12 DEF RenewLease, ClaimOwn, ReleaseLease, Expire, Lease
<1> QED BY <1>7, <1>8, <1>9, <1>10, <1>11, <1>12 DEF Leasing, ClaimLease

\* A process goes on with the handle it has, and needs no slot it did not need.
Goes(o, j) ==
    /\ exec[o][j].phase \notin {"idle", "listed"}
    /\ exec'[o][j].fence = exec[o][j].fence
    /\ Slotted(exec'[o][j]) => Slotted(exec[o][j])
    /\ \A p \in Owners, i \in Jobs : p # o \/ i # j => exec'[p][i] = exec[p][i]

LEMMA SlotStepKeeps ==
    ASSUME ~ StaleClock, IInv, IInv', ExecTypeOK, ExecTypeOK', SlotInv,
           NEW o \in Owners, NEW j \in Jobs, NEW f,
           \/ Leasing(o, j, f)
           \/ ReleaseCapacity(j, f) /\ f = exec[o][j].fence /\ exec[o][j].phase = "releasing",
           \A p \in Owners, i \in Jobs : p # o \/ i # j => exec'[p][i] = exec[p][i],
           \A x \in Exec : exec'[o][j] = x => SlotRow(o, j, x)'
    PROVE  SlotInv'
<1>1. ASSUME NEW p \in Owners, NEW i \in Jobs, p # o \/ i # j,
             NEW x \in Exec, x = exec[p][i]
      PROVE  SlotRow(p, i, x)'
  <2>1. SlotRow(p, i, x) /\ x.fence \in Nat
    BY <1>1, ExecFacts DEF SlotInv
  <2>2. CASE x.phase \in {"idle", "listed"}
    BY <2>2 DEF SlotRow, Slotted
  <2>3. CASE x.phase \notin {"idle", "listed"}
    <3>1. OwnHandle(p, i, x.fence) /\ (Slotted(x) => Covered(i, x.fence))
      BY <2>1, <2>3 DEF SlotRow
    <3>2. /\ leases[i].fence \in Nat /\ x.fence \in 1..leases[i].fence
          /\ issued[i][x.fence] = p
      BY <3>1 DEF OwnHandle, IInv, TypeOK, Lease
    <3>3. OwnHandle(p, i, x.fence)'
      BY <3>2, HandlesStay, SMTT(30) DEF OwnHandle
    <3>4. Leasing(o, j, f) \/ (ReleaseCapacity(j, f) /\ (i # j \/ x.fence # f))
      <4> SUFFICES ASSUME ReleaseCapacity(j, f), f = exec[o][j].fence,
                          exec[o][j].phase = "releasing", i = j, x.fence = f
                   PROVE  FALSE
        OBVIOUS
      <4>1. OwnHandle(o, j, f)
        BY DEF SlotInv, SlotRow
      <4> QED BY <1>1, <3>2, <4>1 DEF OwnHandle
    <3>5. Covered(i, x.fence) => Covered(i, x.fence)'
      BY <3>2, <3>4, SlotsStay
    <3> QED BY <3>1, <3>3, <3>5 DEF SlotRow, Slotted
  <2> QED BY <2>2, <2>3
<1>2. ASSUME NEW p \in Owners, NEW i \in Jobs PROVE SlotRow(p, i, exec[p][i])'
  <2>1. exec'[p][i] \in Exec /\ exec[p][i] \in Exec
    BY DEF ExecTypeOK
  <2>2. CASE p = o /\ i = j
    BY <2>1, <2>2
  <2>3. CASE p # o \/ i # j
    BY <1>1, <2>1, <2>3
  <2> QED BY <2>2, <2>3
<1> QED BY <1>2 DEF SlotInv

\* A process that goes on keeps its handle and its slot.
LEMMA GoingKeeps ==
    ASSUME ~ StaleClock, IInv, IInv', ExecTypeOK, ExecTypeOK', SlotInv,
           NEW o \in Owners, NEW j \in Jobs, NEW f, Goes(o, j),
           \/ Leasing(o, j, f)
           \/ /\ ReleaseCapacity(j, f) /\ f = exec[o][j].fence
              /\ exec[o][j].phase = "releasing" /\ ~ Slotted(exec'[o][j])
    PROVE  SlotInv'
<1>1. ASSUME NEW x \in Exec, exec'[o][j] = x PROVE SlotRow(o, j, x)'
  <2> DEFINE e == exec[o][j]
  <2>1. SlotRow(o, j, e) /\ x.fence = e.fence /\ x.fence \in Nat
    BY <1>1 DEF SlotInv, Goes, Exec
  <2>2. OwnHandle(o, j, x.fence) /\ (Slotted(x) => Covered(j, x.fence))
    BY <1>1, <2>1 DEF SlotRow, Goes
  <2>3. /\ leases[j].fence \in Nat /\ x.fence \in 1..leases[j].fence
        /\ issued[j][x.fence] = o
    BY <2>2 DEF OwnHandle, IInv, TypeOK, Lease
  <2>4. OwnHandle(o, j, x.fence)'
    BY <2>3, HandlesStay DEF OwnHandle
  <2>5. Slotted(x) => Leasing(o, j, f)
    BY <1>1
  <2>6. Slotted(x) => Covered(j, x.fence)'
    BY <2>2, <2>3, <2>5, SlotsStay
  <2> QED BY <2>4, <2>6 DEF SlotRow, Slotted
<1> QED BY <1>1, SlotStepKeeps DEF Goes

\* The writes to the row of a process, one shape each.
LEMMA Going ==
    ASSUME ExecTypeOK, NEW o \in Owners, NEW j \in Jobs, NEW row, Writes(o, j, row),
           exec[o][j].phase \notin {"idle", "listed"},
           row.fence = exec[o][j].fence, Slotted(row) => Slotted(exec[o][j])
    PROVE  Goes(o, j)
  BY DEF ExecTypeOK, Writes, Goes

LEMMA Leaving ==
    ASSUME ExecTypeOK, NEW o \in Owners, NEW j \in Jobs, Leave(o, j),
           exec[o][j].phase \notin {"idle", "listed"}
    PROVE  Goes(o, j)
<1> DEFINE row == [Idle EXCEPT !.phase = "releasing", !.fence = exec[o][j].fence]
<1>1. row.phase = "releasing" /\ row.fence = exec[o][j].fence /\ Writes(o, j, row)
  BY DEF Leave, Idle, Writes
<1> HIDE DEF row
<1> QED BY <1>1, Going DEF Slotted

LEMMA Saving ==
    ASSUME ExecTypeOK, NEW o \in Owners, NEW j \in Jobs, NEW st, NEW att, NEW phase,
           Saved(o, j, st, att, phase), exec[o][j].phase \notin {"idle", "listed"},
           phase \in {"admitted", "attempt", "working", "returned", "settling"} => Slotted(exec[o][j])
    PROVE  Goes(o, j)
<1>1. exec[o][j] \in Exec
  BY ExecFacts
<1> DEFINE row == SavedRow(exec[o][j], st, att, phase)
<1>2. row.fence = exec[o][j].fence /\ row.phase = phase /\ Writes(o, j, row)
  BY <1>1 DEF Saved, SavedRow, Writes, Exec
<1> HIDE DEF row
<1> QED BY <1>2, Going DEF Slotted

LEMMA GivingUp ==
    ASSUME ExecTypeOK, NEW o \in Owners, NEW j \in Jobs, GiveUp(o, j),
           exec[o][j].phase \notin {"idle", "listed"}
    PROVE  Goes(o, j) /\ UNCHANGED <<leases, issued, capacity>>
<1>1. Goes(o, j)
  BY Leaving DEF GiveUp
<1> QED BY <1>1 DEF GiveUp, storeVars

LEMMA Appending ==
    ASSUME ExecTypeOK, NEW o \in Owners, NEW j \in Jobs, NEW st, NEW att, NEW type, NEW phase,
           AppendThen(o, j, st, att, type, phase), exec[o][j].phase \notin {"idle", "listed"},
           phase \in {"admitted", "attempt", "working", "returned", "settling"} => Slotted(exec[o][j])
    PROVE  Goes(o, j) /\ UNCHANGED <<leases, issued, capacity>>
<1>1. CASE GiveUp(o, j)
  BY <1>1, GivingUp
<1>2. CASE Append1(o, j, st, att, type) /\ Saved(o, j, st, att, phase)
  <2>1. Goes(o, j)
    BY <1>2, Saving
  <2> QED BY <1>2, <2>1 DEF Append1, Save
<1> QED BY <1>1, <1>2 DEF AppendThen

LEMMA Finishing ==
    ASSUME ExecTypeOK, NEW o \in Owners, NEW j \in Jobs, NEW st, Finish(o, j, st),
           exec[o][j].phase \notin {"idle", "listed"}
    PROVE  Goes(o, j) /\ UNCHANGED <<leases, issued, capacity>>
<1> DEFINE att == exec[o][j].attempt
<1>1. CASE GiveUp(o, j)
  BY <1>1, GivingUp
<1>2. CASE /\ Append1(o, j, st, att, TerminalEvent[st])
           /\ Saved(o, j, st, att, "callback") \/ Leave(o, j)
  <2>1. Goes(o, j)
    BY <1>2, Saving, Leaving
  <2> QED BY <1>2, <2>1 DEF Append1, Save
<1> QED BY <1>1, <1>2 DEF Finish

\* An attempt of #execute and its settlement.
LEMMA ExecutionGoes ==
    ASSUME ExecTypeOK, NEW o \in Owners, NEW j \in Jobs,
           \/ PollFails(o, j) \/ ReportWaiting(o, j) \/ MarkStarted(o, j) \/ InvokeAdapter(o, j)
           \/ AttemptFails(o, j) \/ (\E outcome \in WorkerOutcomes : WorkerReturns(o, j, outcome))
           \/ CaptureArtifact(o, j) \/ CaptureFails(o, j) \/ Succeed(o, j) \/ CancelInstead(o, j)
           \/ Retry(o, j) \/ SettleFailure(o, j) \/ DeliverCallback(o, j)
    PROVE  Goes(o, j) /\ UNCHANGED <<leases, issued, capacity>>
<1> DEFINE e == exec[o][j]
<1>1. /\ e \in Exec /\ exec \in [Owners -> [Jobs -> Exec]]
      /\ e.phase \in {"capacity", "reporting", "polling", "admitted", "attempt", "working",
                      "returned", "settling", "cancelling", "callback"}
  BY DEF ExecTypeOK, PollFails, ReportWaiting, MarkStarted, InvokeAdapter, AttemptFails, WorkerReturns,
         CaptureArtifact, CaptureFails, Succeed, CancelInstead, Retry, SettleFailure, DeliverCallback,
         At, Phase
<1>2. e.phase \notin {"idle", "listed"}
  BY <1>1
<1>3. CASE PollFails(o, j)
  <2> DEFINE row == [e EXCEPT !.phase = "settling", !.outcome = "fatal"]
  <2>1. row.fence = e.fence /\ ~ Slotted(row) /\ Writes(o, j, row)
    BY <1>1, <1>3 DEF PollFails, Fail, Writes, Exec, Slotted
  <2>2. Goes(o, j)
    BY <1>2, <2>1, Going
  <2> QED BY <1>3, <2>2 DEF PollFails, storeVars
<1>4. CASE ReportWaiting(o, j)
  BY <1>2, <1>4, Appending DEF ReportWaiting
<1>5. CASE MarkStarted(o, j)
  <2>1. Slotted(e)
    BY <1>5 DEF MarkStarted, At, Phase, Slotted
  <2>2. CASE AppendThen(o, j, "running", 1, "job.started", "attempt")
    BY <1>2, <2>1, <2>2, Appending
  <2>3. CASE Goto(o, j, "attempt") /\ UNCHANGED storeVars
    <3> DEFINE row == [e EXCEPT !.phase = "attempt"]
    <3>1. row.fence = e.fence /\ Writes(o, j, row)
      BY <1>1, <2>3 DEF Goto, Writes, Exec
    <3>2. Goes(o, j)
      BY <1>2, <2>1, <3>1, Going
    <3> QED BY <2>3, <3>2 DEF storeVars
  <2> QED BY <1>5, <2>2, <2>3 DEF MarkStarted
<1>6. CASE InvokeAdapter(o, j)
  <2> DEFINE row == [e EXCEPT !.phase = "working"]
  <2>1. row.fence = e.fence /\ Slotted(e) /\ Writes(o, j, row)
    BY <1>1, <1>6 DEF InvokeAdapter, At, Phase, Goto, Writes, Exec, Slotted
  <2>2. Goes(o, j)
    BY <1>2, <2>1, Going
  <2> QED BY <1>6, <2>2 DEF InvokeAdapter, storeVars
<1>7. CASE AttemptFails(o, j)
  <2>1. PICK phase \in {"settling", "returned"} :
          exec' = [exec EXCEPT ![o][j] = [e EXCEPT !.phase = phase, !.outcome = "error"]]
    BY <1>7 DEF AttemptFails
  <2> DEFINE row == [e EXCEPT !.phase = phase, !.outcome = "error"]
  <2>2. row.fence = e.fence /\ Slotted(e) /\ Writes(o, j, row)
    BY <1>1, <1>7, <2>1 DEF AttemptFails, At, Phase, Writes, Exec, Slotted
  <2>3. Goes(o, j)
    BY <1>2, <2>2, Going
  <2> QED BY <1>7, <2>3 DEF AttemptFails, storeVars
<1>8. ASSUME NEW outcome \in WorkerOutcomes, WorkerReturns(o, j, outcome)
      PROVE  Goes(o, j) /\ UNCHANGED <<leases, issued, capacity>>
  <2> DEFINE row == [e EXCEPT !.phase = "returned", !.outcome = outcome]
  <2>1. row.fence = e.fence /\ Slotted(e) /\ Writes(o, j, row)
    BY <1>1, <1>8 DEF WorkerReturns, At, Phase, Writes, Exec, Slotted
  <2>2. Goes(o, j)
    BY <1>2, <2>1, Going
  <2> QED BY <1>8, <2>2 DEF WorkerReturns, storeVars
<1>9. CASE CaptureArtifact(o, j)
  <2>1. PICK outcome :
          /\ Append1(o, j, e.status, e.attempt, "job.artifact")
          /\ exec' = [exec EXCEPT ![o][j] = [e EXCEPT !.phase = "settling", !.outcome = outcome,
                                                      !.revision = e.revision + 1]]
    BY <1>9 DEF CaptureArtifact
  <2> DEFINE row == [e EXCEPT !.phase = "settling", !.outcome = outcome, !.revision = e.revision + 1]
  <2>2. row.fence = e.fence /\ Slotted(e) /\ Writes(o, j, row)
    BY <1>1, <1>9, <2>1 DEF CaptureArtifact, At, Phase, Writes, Exec, Slotted
  <2>3. Goes(o, j)
    BY <1>2, <2>2, Going
  <2> QED BY <2>1, <2>3 DEF Append1, Save
<1>10. CASE CaptureFails(o, j)
  <2>1. CASE Leave(o, j)
    <3>1. Goes(o, j)
      BY <1>2, <2>1, Leaving
    <3> QED BY <1>10, <3>1 DEF CaptureFails, storeVars
  <2>2. ASSUME NEW outcome,
               exec' = [exec EXCEPT ![o][j] = [e EXCEPT !.phase = "settling", !.outcome = outcome]]
        PROVE  Goes(o, j) /\ UNCHANGED <<leases, issued, capacity>>
    <3> DEFINE row == [e EXCEPT !.phase = "settling", !.outcome = outcome]
    <3>1. row.fence = e.fence /\ Slotted(e) /\ Writes(o, j, row)
      BY <1>1, <1>10, <2>2 DEF CaptureFails, At, Phase, Writes, Exec, Slotted
    <3>2. Goes(o, j)
      BY <1>2, <3>1, Going
    <3> QED BY <1>10, <3>2 DEF CaptureFails, storeVars
  <2> QED BY <1>10, <2>1, <2>2 DEF CaptureFails
<1>11. CASE Succeed(o, j)
  <2>1. CASE Goto(o, j, "cancelling") /\ UNCHANGED storeVars
    <3> DEFINE row == [e EXCEPT !.phase = "cancelling"]
    <3>1. row.fence = e.fence /\ ~ Slotted(row) /\ Writes(o, j, row)
      BY <1>1, <2>1 DEF Goto, Writes, Exec, Slotted
    <3>2. Goes(o, j)
      BY <1>2, <3>1, Going
    <3> QED BY <2>1, <3>2 DEF storeVars
  <2> QED BY <1>2, <1>11, <2>1, Finishing DEF Succeed
<1>12. CASE CancelInstead(o, j)
  BY <1>2, <1>12, Finishing DEF CancelInstead
<1>13. CASE Retry(o, j)
  <2>1. Slotted(e)
    BY <1>13 DEF Retry, Retryable, At, Phase, Slotted
  <2> QED BY <1>2, <1>13, <2>1, Appending DEF Retry
<1>14. CASE SettleFailure(o, j)
  BY <1>2, <1>14, Finishing DEF SettleFailure
<1>15. CASE DeliverCallback(o, j)
  <2>1. CASE GiveUp(o, j)
    BY <1>2, <2>1, GivingUp
  <2>2. ASSUME NEW seen \in Views, Leave(o, j),
               Save(j, e.fence, e.revision, e.status, e.attempt, records[j].events, seen)
        PROVE  Goes(o, j) /\ UNCHANGED <<leases, issued, capacity>>
    <3>1. Goes(o, j)
      BY <1>2, <2>2, Leaving
    <3> QED BY <2>2, <3>1 DEF Save
  <2> QED BY <1>15, <2>1, <2>2 DEF DeliverCallback
<1> QED BY <1>3, <1>4, <1>5, <1>6, <1>7, <1>8, <1>9, <1>10, <1>11, <1>12, <1>13, <1>14, <1>15

\* Recovery, and what the monitor notices.
LEMMA RecoveryGoes ==
    ASSUME ExecTypeOK, NEW o \in Owners, NEW j \in Jobs,
           \/ Reread(o, j) \/ DecideCancelled(o, j) \/ DecideInterrupted(o, j) \/ RecoveryFails(o, j)
           \/ LoseAttempt(o, j) \/ SettleRecovered(o, j) \/ Restart(o, j)
           \/ ObserveCancellation(o, j) \/ HeartbeatFails(o, j)
    PROVE  Goes(o, j) /\ UNCHANGED <<leases, issued, capacity>>
<1> DEFINE e == exec[o][j]
<1>1. e \in Exec /\ exec \in [Owners -> [Jobs -> Exec]] /\ e.phase \notin {"idle", "listed"}
  BY DEF ExecTypeOK, Reread, DecideCancelled, DecideInterrupted, RecoveryFails, LoseAttempt,
         SettleRecovered, Restart, ObserveCancellation, HeartbeatFails, Monitored, At, Phase, Executing
<1>2. CASE Reread(o, j)
  <2>1. CASE Leave(o, j)
    <3>1. Goes(o, j)
      BY <1>1, <2>1, Leaving
    <3> QED BY <1>2, <3>1 DEF Reread, storeVars
  <2>2. CASE records[j].status \notin Terminal
    <3> DEFINE row == [e EXCEPT !.phase = "deciding", !.status = records[j].status,
                                !.attempt = records[j].data, !.revision = records[j].revision]
    <3>1. row.fence = e.fence /\ ~ Slotted(row) /\ Writes(o, j, row)
      BY <1>1, <1>2, <2>2 DEF Reread, Writes, Exec, Slotted
    <3>2. Goes(o, j)
      BY <1>1, <3>1, Going
    <3> QED BY <1>2, <3>2 DEF Reread, storeVars
  <2> QED BY <1>2, <2>1, <2>2 DEF Reread
<1>3. ASSUME NEW outcome, Conclude(o, j, outcome), UNCHANGED storeVars
      PROVE  Goes(o, j) /\ UNCHANGED <<leases, issued, capacity>>
  <2> DEFINE row == [e EXCEPT !.phase = "concluding", !.outcome = outcome]
  <2>1. row.fence = e.fence /\ ~ Slotted(row) /\ Writes(o, j, row)
    BY <1>1, <1>3 DEF Conclude, Writes, Exec, Slotted
  <2>2. Goes(o, j)
    BY <1>1, <2>1, Going
  <2> QED BY <1>3, <2>2 DEF storeVars
<1>4. ASSUME NEW phase, phase = "losing" \/ phase = "restarting",
             Goto(o, j, phase), UNCHANGED storeVars
      PROVE  Goes(o, j) /\ UNCHANGED <<leases, issued, capacity>>
  <2> DEFINE row == [e EXCEPT !.phase = phase]
  <2>1. row.fence = e.fence /\ ~ Slotted(row) /\ Writes(o, j, row)
    BY <1>1, <1>4 DEF Goto, Writes, Exec, Slotted
  <2>2. Goes(o, j)
    BY <1>1, <2>1, Going
  <2> QED BY <1>4, <2>2 DEF storeVars
<1>5. CASE DecideCancelled(o, j)
  BY <1>3, <1>5 DEF DecideCancelled
<1>6. CASE DecideInterrupted(o, j)
  BY <1>3, <1>4, <1>6 DEF DecideInterrupted
<1>7. CASE RecoveryFails(o, j)
  <2>1. Goes(o, j)
    BY <1>1, <1>7, Leaving DEF RecoveryFails
  <2> QED BY <1>7, <2>1 DEF RecoveryFails, storeVars
<1>8. CASE LoseAttempt(o, j)
  <2>1. CASE GiveUp(o, j)
    BY <1>1, <2>1, GivingUp
  <2>2. ASSUME Append1(o, j, e.status, e.attempt, "job.attempt.lost"), NEW row,
               \/ row = [e EXCEPT !.phase = "restarting", !.revision = e.revision + 1]
               \/ row = [e EXCEPT !.phase = "concluding", !.revision = e.revision + 1,
                                  !.outcome = "refused"],
               Writes(o, j, row)
        PROVE  Goes(o, j) /\ UNCHANGED <<leases, issued, capacity>>
    <3>1. row.fence = e.fence /\ ~ Slotted(row)
      BY <1>1, <2>2 DEF Exec, Slotted
    <3>2. Goes(o, j)
      BY <1>1, <2>2, <3>1, Going
    <3> QED BY <2>2, <3>2 DEF Append1, Save
  <2> QED BY <1>8, <2>1, <2>2 DEF LoseAttempt, Writes
<1>9. CASE SettleRecovered(o, j)
  BY <1>1, <1>9, Finishing DEF SettleRecovered
<1>10. CASE Restart(o, j)
  BY <1>1, <1>10, Appending DEF Restart
<1>11. CASE ObserveCancellation(o, j) \/ HeartbeatFails(o, j)
  <2> DEFINE row == [e EXCEPT !.aborted = TRUE]
  <2>1. row.fence = e.fence /\ row.phase = e.phase /\ row.outcome = e.outcome /\ Writes(o, j, row)
    BY <1>1, <1>11 DEF ObserveCancellation, HeartbeatFails, Writes, Exec
  <2> HIDE DEF row
  <2>2. Goes(o, j)
    BY <1>1, <2>1, Going DEF Slotted
  <2> QED BY <1>11, <2>2 DEF ObserveCancellation, HeartbeatFails, storeVars
<1> QED BY <1>2, <1>5, <1>6, <1>7, <1>8, <1>9, <1>10, <1>11

LEMMA PollKeepsSlots ==
    ASSUME ~ StaleClock, IInv, IInv', ExecTypeOK, ExecTypeOK', SlotInv,
           NEW o \in Owners, NEW j \in Jobs, Poll(o, j)
    PROVE  SlotInv'
<1> DEFINE e == exec[o][j]
<1>1. PICK seen \in Views : TryAcquireCapacity(j, e.fence, seen)
  BY DEF Poll
<1>2. /\ Leasing(o, j, e.fence)
      /\ leases' = leases /\ issued' = issued /\ Current(j, e.fence)
  BY <1>1 DEF Leasing, TryAcquireCapacity
<1>4. PICK phase \in {"admitted", "reporting", "polling"} :
        /\ exec' = [exec EXCEPT ![o][j].phase = phase]
        /\ phase = "admitted" => capacity'[j].acquired
  BY DEF Poll, Goto
<1>5. e.phase \in {"capacity", "polling"} /\ e \in Exec
  BY ExecFacts DEF Poll, Phase
<1>6. /\ exec'[o][j].fence = e.fence /\ exec'[o][j].phase = phase
      /\ \A p \in Owners, i \in Jobs : p # o \/ i # j => exec'[p][i] = exec[p][i]
  BY <1>4, <1>5 DEF ExecTypeOK, Exec
<1>7. OwnHandle(o, j, e.fence)
  BY <1>5 DEF SlotInv, SlotRow
<1>8. ASSUME NEW x \in Exec, exec'[o][j] = x PROVE SlotRow(o, j, x)'
  <2>1. x.fence = e.fence /\ x.phase = phase
    BY <1>6, <1>8
  <2>2. OwnHandle(o, j, x.fence)'
    BY <1>2, <1>7, <2>1 DEF OwnHandle
  <2>3. ASSUME Slotted(x) PROVE Covered(j, x.fence)'
    <3>1. capacity'[j].acquired
      BY <1>4, <2>1, <2>3 DEF Slotted
    <3>2. j \in InTable(capacity')
      BY <3>1 DEF IInv, SlotsAreRows, Acquired
    <3>3. /\ capacity \in Table /\ Acquired(capacity) \subseteq InTable(capacity)
          /\ Cardinality(Acquired(capacity)) <= MaxLimit /\ leases \in [Jobs -> Lease]
          /\ leases[j].owner \in Owners /\ leases[j].fence > 0
          /\ seen \in SUBSET Jobs /\ j \in seen
          /\ capacity' = TryAcquireResult(capacity, leases, j, seen)
      BY <1>1, ViewFacts DEF IInv, TypeOK, Table, SlotsAreRows, CapacityBound, TryAcquireCapacity
    <3> HIDE DEF Table
    <3> DEFINE r == TryAcquireResult(capacity, leases, j, seen)
    <3>4. \A k \in InTable(r) : r[k].owner = leases[k].owner /\ r[k].fence = leases[k].fence
      BY <3>3, TryAcquireFacts
    <3> HIDE DEF r
    <3>5. capacity'[j].owner = leases[j].owner /\ capacity'[j].fence = leases[j].fence
      BY <3>2, <3>3, <3>4 DEF r
    <3> QED BY <1>2, <2>1, <3>1, <3>5 DEF Covered, Current
  <2> QED BY <2>2, <2>3 DEF SlotRow
<1> QED BY <1>2, <1>6, <1>8, SlotStepKeeps

\* The rows that start or end: an admission, a claim, a listing, the release of the lease.
LEMMA StartsAndEnds ==
    ASSUME ~ StaleClock, IInv, IInv', ExecTypeOK, ExecTypeOK', SlotInv,
           NEW o \in Owners, NEW j \in Jobs,
           \/ Start(o, j) \/ Claim(o, j) \/ List(o, j) \/ ClaimRefused(o, j) \/ ReleaseOwnLease(o, j)
    PROVE  SlotInv'
<1>1. \A p \in Owners, i \in Jobs : p # o \/ i # j => exec'[p][i] = exec[p][i]
  BY DEF ExecTypeOK, Start, Claim, List, ClaimRefused, ReleaseOwnLease, Goto
<1>2. exec \in [Owners -> [Jobs -> Exec]] /\ exec[o][j] \in Exec
  BY DEF ExecTypeOK
<1>3. CASE Start(o, j)
  <2>1. PICK seen \in Views, h \in Hashes : Admit(j, o, NoKey, h, 0, <<"job.queued">>, seen)
    BY <1>3 DEF Start
  <2>2. leases'[j].fence = 1 /\ issued'[j] = <<o>>
    BY <2>1 DEF Admit, IInv, TypeOK
  <2>3. exec'[o][j].phase = "capacity" /\ exec'[o][j].fence = 1
    BY <1>2, <1>3 DEF Start, Idle
  <2>4. ASSUME NEW x \in Exec, exec'[o][j] = x PROVE SlotRow(o, j, x)'
    BY <2>2, <2>3, <2>4 DEF SlotRow, Slotted, OwnHandle
  <2>5. Leasing(o, j, 0)
    BY <2>1 DEF Leasing
  <2> QED BY <1>1, <2>4, <2>5, SlotStepKeeps
<1>4. CASE Claim(o, j)
  <2>1. PICK seen \in Views : ClaimLease(j, o, seen)
    BY <1>4 DEF Claim
  <2>2. leases'[j].owner = o
    BY <2>1 DEF ClaimLease, ClaimOwn, ClaimFree, IInv, TypeOK, Lease
  <2>3. leases'[j].fence \in Nat /\ leases'[j].fence > 0 /\ issued'[j][leases'[j].fence] = o
    BY <2>2, OwnersAssumption DEF IInv, LeaseHistory, TypeOK, Lease
  <2>4. exec'[o][j].phase = "claimed" /\ exec'[o][j].fence = leases'[j].fence
    BY <1>2, <1>4 DEF Claim, Idle
  <2>5. ASSUME NEW x \in Exec, exec'[o][j] = x PROVE SlotRow(o, j, x)'
    BY <2>3, <2>4, <2>5 DEF SlotRow, Slotted, OwnHandle
  <2>6. Leasing(o, j, 0)
    BY <2>1 DEF Leasing
  <2> QED BY <1>1, <2>5, <2>6, SlotStepKeeps
<1>5. CASE List(o, j) \/ ClaimRefused(o, j)
  <2>1. exec'[o][j].phase = "listed" \/ exec'[o][j].phase = "idle"
    BY <1>2, <1>5 DEF List, ClaimRefused, Goto, Exec
  <2>2. ASSUME NEW x \in Exec, exec'[o][j] = x PROVE SlotRow(o, j, x)'
    BY <2>1, <2>2 DEF SlotRow, Slotted
  <2>3. Leasing(o, j, 0)
    BY <1>5 DEF Leasing, List, ClaimRefused, storeVars
  <2> QED BY <1>1, <2>2, <2>3, SlotStepKeeps
<1>6. CASE ReleaseOwnLease(o, j)
  <2>1. exec'[o][j] = Idle /\ Leasing(o, j, exec[o][j].fence)
    BY <1>2, <1>6 DEF ReleaseOwnLease, Leasing, storeVars
  <2>2. ASSUME NEW x \in Exec, exec'[o][j] = x PROVE SlotRow(o, j, x)'
    BY <2>1, <2>2, IdleFacts DEF SlotRow, Slotted
  <2> QED BY <1>1, <2>1, <2>2, SlotStepKeeps
<1> QED BY <1>3, <1>4, <1>5, <1>6

LEMMA ReleaseKeepsSlots ==
    ASSUME ~ StaleClock, IInv, IInv', ExecTypeOK, ExecTypeOK', SlotInv,
           NEW o \in Owners, NEW j \in Jobs, ReleaseSlot(o, j)
    PROVE  SlotInv'
<1> DEFINE e == exec[o][j]
           row == [e EXCEPT !.phase = "unleasing"]
<1>1. e \in Exec /\ e.phase = "releasing"
  BY ExecFacts DEF ReleaseSlot, At, Phase
<1>2. row.fence = e.fence /\ row.phase = "unleasing" /\ Writes(o, j, row)
  BY <1>1 DEF ReleaseSlot, Goto, Writes, Exec
<1>3. exec'[o][j] = row
  BY <1>2 DEF ExecTypeOK, Writes
<1> HIDE DEF row
<1>4. ~ Slotted(row)
  BY <1>2 DEF Slotted
<1>5. Goes(o, j)
  BY <1>1, <1>2, <1>4, Going
<1>6. ReleaseCapacity(j, e.fence) \/ Leasing(o, j, e.fence)
  BY DEF ReleaseSlot, Leasing, storeVars
<1> QED BY <1>1, <1>3, <1>4, <1>5, <1>6, GoingKeeps

\* No process moves, or one falls idle.
LEMMA RestKeepsSlots ==
    ASSUME ~ StaleClock, IInv, IInv', ExecTypeOK, ExecTypeOK', SlotInv,
           NEW o \in Owners, NEW j \in Jobs, NEW f, Leasing(o, j, f),
           \A p \in Owners, i \in Jobs : exec'[p][i] \in {exec[p][i], Idle}
    PROVE  SlotInv'
<1>1. ASSUME NEW p \in Owners, NEW i \in Jobs, NEW x \in Exec, x = exec'[p][i]
      PROVE  SlotRow(p, i, x)'
  <2>1. CASE x = Idle
    BY <2>1, IdleFacts DEF SlotRow, Slotted
  <2>2. CASE x = exec[p][i] /\ x.phase \in {"idle", "listed"}
    BY <2>2 DEF SlotRow, Slotted
  <2>3. CASE x = exec[p][i] /\ x.phase \notin {"idle", "listed"}
    <3>1. OwnHandle(p, i, x.fence) /\ (Slotted(x) => Covered(i, x.fence))
      BY <2>3 DEF SlotInv, SlotRow
    <3>2. /\ leases[i].fence \in Nat /\ x.fence \in 1..leases[i].fence
          /\ issued[i][x.fence] = p
      BY <3>1 DEF OwnHandle, IInv, TypeOK, Lease
    <3>3. OwnHandle(p, i, x.fence)'
      BY <3>2, HandlesStay, SMTT(30) DEF OwnHandle, Exec
    <3>4. Covered(i, x.fence) => Covered(i, x.fence)'
      BY <3>2, SlotsStay
    <3> QED BY <3>1, <3>3, <3>4 DEF SlotRow, Slotted
  <2> QED BY <1>1, <2>1, <2>2, <2>3
<1>2. ASSUME NEW p \in Owners, NEW i \in Jobs PROVE SlotRow(p, i, exec[p][i])'
  <2>1. exec'[p][i] \in Exec
    BY DEF ExecTypeOK
  <2> QED BY <1>1, <2>1
<1> QED BY <1>2 DEF SlotInv

LEMMA SlotStep == ~ StaleClock /\ JobInv /\ JobInv' /\ SlotInv /\ [Next]_vars => SlotInv'
<1> SUFFICES ASSUME ~ StaleClock, JobInv, JobInv', SlotInv, [Next]_vars PROVE SlotInv'
  OBVIOUS
<1>1. IInv /\ IInv' /\ ExecTypeOK /\ ExecTypeOK'
  BY DEF JobInv
<1>2. ASSUME NEW o \in Owners, NEW j \in Jobs, Goes(o, j), UNCHANGED <<leases, issued, capacity>>
      PROVE  SlotInv'
  BY <1>1, <1>2, GoingKeeps DEF Leasing
<1>3. ASSUME NEW o \in Owners, NEW j \in Jobs, Progress(o, j) PROVE SlotInv'
  <2>1. CASE Poll(o, j)
    BY <1>1, <2>1, PollKeepsSlots
  <2>2. CASE ReleaseSlot(o, j)
    BY <1>1, <2>2, ReleaseKeepsSlots
  <2>3. CASE ReleaseOwnLease(o, j)
    BY <1>1, <2>3, StartsAndEnds
  <2>4. CASE \/ PollFails(o, j) \/ ReportWaiting(o, j) \/ MarkStarted(o, j) \/ InvokeAdapter(o, j)
             \/ AttemptFails(o, j) \/ (\E outcome \in WorkerOutcomes : WorkerReturns(o, j, outcome))
             \/ CaptureArtifact(o, j) \/ CaptureFails(o, j) \/ Succeed(o, j) \/ CancelInstead(o, j)
             \/ Retry(o, j) \/ SettleFailure(o, j) \/ DeliverCallback(o, j)
    BY <1>1, <1>2, <2>4, ExecutionGoes
  <2>5. CASE \/ Reread(o, j) \/ DecideCancelled(o, j) \/ DecideInterrupted(o, j) \/ RecoveryFails(o, j)
             \/ LoseAttempt(o, j) \/ SettleRecovered(o, j) \/ Restart(o, j)
    BY <1>1, <1>2, <2>5, RecoveryGoes
  <2> QED BY <1>3, <2>1, <2>2, <2>3, <2>4, <2>5 DEF Progress
<1>4. ASSUME NEW o \in Owners, NEW j \in Jobs, ObserveCancellation(o, j) \/ HeartbeatFails(o, j)
      PROVE  SlotInv'
  BY <1>1, <1>2, <1>4, RecoveryGoes
<1>5. ASSUME NEW o \in Owners, NEW j \in Jobs,
             Start(o, j) \/ Claim(o, j) \/ List(o, j) \/ ClaimRefused(o, j)
      PROVE  SlotInv'
  BY <1>1, <1>5, StartsAndEnds
<1>6. ASSUME NEW o \in Owners, NEW j \in Jobs,
             \/ \E s \in Sources : Cancel(o, j, s)
             \/ Heartbeat(o, j) \/ Lapse(j)
      PROVE  SlotInv'
  <2>1. UNCHANGED exec
    BY <1>6 DEF Cancel, Heartbeat, Lapse, procVars
  <2>2. Leasing(o, j, exec[o][j].fence)
    BY <1>6 DEF Cancel, Heartbeat, Lapse, RequestCancellation, Leasing
  <2> QED BY <1>1, <2>1, <2>2, RestKeepsSlots
<1>7. ASSUME NEW o \in Owners, NEW j \in Jobs, Boot(o) \/ Crash(o) \/ UNCHANGED vars
      PROVE  SlotInv'
  <2>1. \A p \in Owners, i \in Jobs : exec'[p][i] \in {exec[p][i], Idle}
    BY <1>1, <1>7 DEF Boot, Crash, vars, procVars, ExecTypeOK
  <2>2. Leasing(o, j, 0)
    BY <1>7 DEF Boot, Crash, vars, Leasing, storeVars
  <2> QED BY <1>1, <2>1, <2>2, RestKeepsSlots
<1>8. Owners = {} \/ Jobs = {} => SlotInv'
  BY DEF SlotInv
<1> QED BY <1>3, <1>4, <1>5, <1>6, <1>7, <1>8 DEF Next

(* While a process runs an attempt under a lease that lasts, the Job holds  *)
(* a slot under that very handle: with the capacity bound of the store, no  *)
(* more adapters run under current leases than the limits allow, through    *)
(* crashes, recoveries and releases.  Stale clocks are excluded: a renewal  *)
(* that sees its expired lease as live may revive it after another Job's    *)
(* grant has purged its row, and the worker goes on without a slot.         *)
THEOREM ExecutionSlots == ASSUME ~ StaleClock PROVE Spec => []ExecutionHoldsSlot
<1>1. Init => SlotInv
  BY IdleFacts DEF Init, SlotInv, SlotRow, Slotted
<1>2. JobInv /\ JobInv' /\ SlotInv /\ [Next]_vars => SlotInv'
  BY SlotStep
<1>3. SlotInv => ExecutionHoldsSlot
  BY DEF SlotInv, SlotRow, Slotted, Covered, ExecutionHoldsSlot, Phase
<1> QED BY <1>1, <1>2, <1>3, JobInvariant, PTL DEF Spec
=============================================================================
